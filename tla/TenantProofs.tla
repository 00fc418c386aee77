------------------------------ MODULE TenantProofs ------------------------------
(* What holds, for every number of workers, officials, requests and logins, of the
   making of a tenant, of the accounts of its people, and of their logins through
   an identity provider of their own; and of all that precedes a signing, side by
   side.                                                                          *)
EXTENDS MCBeforeSigning, BeforeSigningProofs, DomainProofs

-------------------------------------------------------------------------------
(* From the application to the tenant.  The records of the parts. *)
RunnerType == [at : {"idle", "starting", "doing", "finishing", "waiting", "failing"},
               i : 1..Len(Steps) + 1, step : StepKey \cup {PNone},
               code : {PNone, "DATA_PLANE_NOT_READY", "DEFAULT_TENANT_DOMAIN_EXTERNAL_VERIFICATION_REQUIRED"}]
RequestType == [status : {"none", "queued", "running", "completed"} \cup Halted, dedicated : BOOLEAN, fresh : BOOLEAN,
                attempts : 0..MaxAttempts, current : StepKey \cup {PNone},
                blocking : {PNone, "failure", "DATA_PLANE_NOT_READY",
                            "DEFAULT_TENANT_DOMAIN_EXTERNAL_VERIFICATION_REQUIRED"}]

(* Who works has a request; who looks at a step looks at one of the list. *)
RunnersKnow ==
  /\ runner \in [Runner -> RunnerType]
  /\ \A r \in Runner : /\ runner[r].at # "idle" => request.status # "none"
                       /\ runner[r].at = "doing" => runner[r].i <= Len(Steps)
                       /\ runner[r].at = "waiting" => runner[r].step \in StepKey
  /\ recovering => request.status # "none"

(* What was gone past has been made, and what is completed. *)
StepsAreMade ==
  /\ \A k \in StepKey : stepStatus[k] = "completed" => k \in made
  /\ \A r \in Runner :
       /\ runner[r].at \in {"starting", "doing"} => \A j \in 1..runner[r].i - 1 : Steps[j] \in made
       /\ runner[r].at = "finishing" => made = StepKey

(* There is one tenant when there is any, from the step that reserves its name. *)
TenantIsMade ==
  /\ tenants = IF tenant = "none" THEN 0 ELSE 1
  /\ "reserve_tenant_slug" \in made => tenant # "none"
  /\ request.status = "completed" => tenant # "none"
  /\ readiness # "none" \/ pending # {} => tenant # "none"

(* A request is made of an application that can no longer be changed, and an
   application is reviewed only once there is one.                              *)
RequestIsFinal ==
  /\ request.status # "none" => application \in {"provisioning", "provisioning_failed", "onboarding", "rejected"}
  /\ application = "none" => ~HighRisk

OnboardingInv ==
  /\ OnboardingTypeOK /\ RunnersKnow /\ StepsAreMade /\ TenantIsMade /\ RequestIsFinal
  /\ ProvisionedWhole /\ DecisionHonoured

-------------------------------------------------------------------------------
LEMMA StepNames ==
  /\ Len(Steps) \in Nat /\ Len(Steps) # 0 /\ Head(Steps) \in StepKey
  /\ StepKey = {Steps[j] : j \in 1..Len(Steps)}
  /\ \A j \in 1..Len(Steps) : Steps[j] \in StepKey
  /\ {"reserve_tenant_slug", "assign_data_plane", "create_environment", "create_default_domain"} \subseteq StepKey
  <1>1. Len(Steps) \in Nat /\ DOMAIN Steps = 1..Len(Steps)
    BY ProvisioningAssumption
  <1>2. StepKey = {Steps[j] : j \in 1..Len(Steps)}
    BY <1>1 DEF StepKey, Range
  <1>3. {"reserve_tenant_slug", "assign_data_plane", "create_environment", "create_default_domain"} \subseteq StepKey
    BY ProvisioningAssumption DEF StepKey
  <1>4. Len(Steps) # 0
    BY <1>1, <1>2, <1>3
  <1> QED
    BY <1>1, <1>2, <1>3, <1>4, ProvisioningAssumption

LEMMA StepCount == Len(Steps) \in Nat /\ Len(Steps) # 0
  BY StepNames

LEMMA ReviewNames ==
  /\ ReviewStatus \subseteq {"commercial_review", "legal_review", "security_review", "technical_review"}
  /\ \A t \in ReviewType : ReviewOf[t] \in ReviewStatus
  BY OnboardingAssumption DEF ReviewStatus, ReviewOf

LEMMA ItsStates ==
  /\ DOMAIN Allowed = {"none", "email_verification_pending", "email_verified"} \cup DecisionPending \cup ApprovedOrLater \cup Closed
  /\ {"none", "email_verification_pending", "email_verified", "submitted", "under_initial_review", "resubmitted",
      "additional_information_requested", "approved", "provisioning", "provisioning_failed", "onboarding",
      "rejected", "withdrawn", "expired"} \subseteq DOMAIN Allowed
  BY DEF Allowed, DecisionPending, Reviewing, ApprovedOrLater, Closed

(* Where an application may go: nowhere outside of its states, never back to
   before the request once there is one, and "approved" only by a decision.    *)
LEMMA WhereItMayGo ==
  ASSUME NEW s \in DOMAIN Allowed, NEW to \in Allowed[s]
  PROVE  /\ to \in DOMAIN Allowed /\ s # "none" /\ to # "none"
         /\ s \in {"provisioning", "provisioning_failed", "onboarding", "rejected"}
              => to \in {"provisioning", "provisioning_failed", "onboarding", "rejected"}
         /\ to \in ApprovedOrLater /\ to # "approved" => s \in ApprovedOrLater
  <1> USE ReviewNames DEF Allowed, DecisionPending, Reviewing, ApprovedOrLater, Closed
  <1>1. CASE s \in ReviewStatus
    BY <1>1
  <1>2. CASE s \notin ReviewStatus
    BY <1>2
  <1> QED
    BY <1>1, <1>2

LEMMA OnboardingInvInit == OnboardingInit => OnboardingInv
  <1> SUFFICES ASSUME OnboardingInit PROVE OnboardingInv
    OBVIOUS
  <1> USE DEF OnboardingInit, ProvisioningInit
  <1>1. OnboardingTypeOK
    <2>1. MaxAttempts \in Nat /\ MaxQuestions \in Nat /\ Len(Steps) \in Nat
      BY StepNames, ProvisioningAssumption, OnboardingAssumption
    <2>2. request \in RequestType /\ stepStatus \in [StepKey -> {"pending", "running", "waiting", "failed", "completed"}]
      BY <2>1 DEF RequestType
    <2>3. \A r \in Runner : runner[r].at = "idle" /\ runner[r].i \in 1..Len(Steps) + 1
      BY <2>1 DEF Rest
    <2>4. made \subseteq StepKey /\ tenants \in Nat /\ recovering \in BOOLEAN
      OBVIOUS
    <2>5. application \in DOMAIN Allowed
      BY ItsStates
    <2>6. decision \in [by : Official \cup {PNone}, second : Official \cup {PNone}]
      BY DEF NoDecision
    <2>7. ProvisioningTypeOK
      BY <2>2, <2>3, <2>4 DEF ProvisioningTypeOK, RequestType
    <2>8. dedicated \in BOOLEAN /\ mailToken \in BOOLEAN
      BY Zenon
    <2>10. /\ question \in 0..MaxQuestions
           /\ readiness \in {"none", "ready", "blocked"} /\ pending \subseteq Official
      BY <2>1
    <2>9. review \in [ReviewType -> {"none", "low", "high"}]
      OBVIOUS
    <2> HIDE DEF OnboardingInit
    <2> QED
      BY <2>5, <2>6, <2>7, <2>8, <2>9, <2>10 DEF OnboardingTypeOK
  <1>2. RunnersKnow /\ StepsAreMade
    BY StepNames DEF RunnersKnow, StepsAreMade, RunnerType, Rest
  <1>3. TenantIsMade /\ RequestIsFinal /\ ProvisionedWhole /\ DecisionHonoured
    BY DEF TenantIsMade, RequestIsFinal, HighRisk, ProvisionedWhole, DecisionHonoured, ApprovedOrLater
  <1> QED
    BY <1>1, <1>2, <1>3 DEF OnboardingInv

-------------------------------------------------------------------------------
(* The steps of the applicant and of the officials, which leave what is
   provisioned alone.                                                          *)
LEMMA ApplicationMoves ==
  ASSUME OnboardingInv, UNCHANGED Unprovisioned, application' \in DOMAIN Allowed,
         dedicated' \in BOOLEAN, mailToken' \in BOOLEAN, question' \in 0..MaxQuestions,
         review' \in [ReviewType -> {"none", "low", "high"}],
         decision' \in [by : Official \cup {PNone}, second : Official \cup {PNone}],
         readiness' \in {"none", "ready", "blocked"}, pending' \subseteq Official,
         request.status # "none" => application' \in {"provisioning", "provisioning_failed", "onboarding", "rejected"},
         request.status # "none" => dedicated' = dedicated,
         application' = "none" => ~HighRisk',
         readiness' # "none" \/ pending' # {} => tenant # "none",
         application' \in ApprovedOrLater /\ HighRisk' => decision'.second \notin {PNone, decision'.by}
  PROVE  OnboardingInv'
  <1> USE DEF OnboardingInv, Unprovisioned, rowVars, worldVars
  <1>1. ProvisioningTypeOK'
    BY DEF OnboardingTypeOK, ProvisioningTypeOK
  <1>2. OnboardingTypeOK'
    BY <1>1 DEF OnboardingTypeOK
  <1>3. RunnersKnow' /\ StepsAreMade' /\ ProvisionedWhole'
    BY DEF RunnersKnow, StepsAreMade, ProvisionedWhole
  <1>4. TenantIsMade'
    BY DEF TenantIsMade
  <1>5. RequestIsFinal'
    BY DEF RequestIsFinal
  <1>6. DecisionHonoured'
    BY DEF DecisionHonoured
  <1> QED
    BY <1>2, <1>3, <1>4, <1>5, <1>6

(* What is done of the work of one runner keeps what holds of all of them. *)
RowsMay ==
  /\ request' \in RequestType /\ request'.status # "none" /\ request'.dedicated = request.dedicated
  /\ stepStatus' \in [StepKey -> {"pending", "running", "waiting", "failed", "completed"}]
  /\ made \subseteq made' /\ made' \subseteq StepKey
  /\ \A k \in StepKey : stepStatus'[k] = "completed" => k \in made'
TenantMay ==
  /\ tenants' = IF tenant' = "none" THEN 0 ELSE 1
  /\ tenant' \in {"none", "provisioning", "onboarding", "active"} /\ (tenant # "none" => tenant' # "none")
  /\ "reserve_tenant_slug" \in made' => tenant' # "none"
  /\ request'.status = "completed" => tenant' \notin {"none", "provisioning"}
  /\ tenant' = "onboarding" => made' = StepKey
RunnerMay(x) ==
  /\ x \in RunnerType
  /\ x.at = "doing" => x.i <= Len(Steps)
  /\ x.at = "waiting" => x.step \in StepKey
  /\ x.at \in {"starting", "doing"} => \A j \in 1..x.i - 1 : Steps[j] \in made'
  /\ x.at = "finishing" => made' = StepKey
ApplicationMay ==
  /\ application' \in {application, "provisioning", "provisioning_failed", "onboarding"}
  /\ application' \in ApprovedOrLater => application \in ApprovedOrLater
WorldMay ==
  /\ UNCHANGED <<reviewVars, activationVars>>
  /\ dataPlane' \in BOOLEAN /\ wildcard' \in BOOLEAN /\ recovering' \in BOOLEAN

LEMMA RowsRest ==
  ASSUME OnboardingInv, UNCHANGED rowVars, request.status # "none"
  PROVE  RowsMay /\ TenantMay
  BY DEF OnboardingInv, OnboardingTypeOK, ProvisioningTypeOK, StepsAreMade, TenantIsMade, ProvisionedWhole,
         rowVars, RowsMay, TenantMay, RequestType

LEMMA RunnersStep ==
  ASSUME OnboardingInv, request.status # "none", RowsMay, TenantMay, ApplicationMay, WorldMay,
         runner' \in [Runner -> RunnerType],
         \A q \in Runner : runner'[q] = runner[q] \/ RunnerMay(runner'[q])
  PROVE  OnboardingInv'
  <1> USE DEF OnboardingInv
  <1>1. OnboardingTypeOK'
    <2>1. ProvisioningTypeOK'
      <3>1. tenants' \in Nat
        BY DEF TenantMay
      <3>2. \A q \in Runner : runner'[q] \in RunnerType
        OBVIOUS
      <3> QED
        BY <3>1, <3>2 DEF RowsMay, TenantMay, WorldMay, ProvisioningTypeOK, RunnerType, RequestType
    <2>2. application' \in DOMAIN Allowed
      BY ItsStates DEF ApplicationMay, OnboardingTypeOK
    <2> QED
      BY <2>1, <2>2 DEF OnboardingTypeOK, WorldMay, reviewVars, activationVars
  <1>2. RunnersKnow'
    BY DEF RunnersKnow, RowsMay, RunnerMay
  <1>3. StepsAreMade'
    BY DEF StepsAreMade, RowsMay, RunnerMay
  <1>4. TenantIsMade' /\ ProvisionedWhole'
    BY DEF TenantIsMade, TenantMay, ProvisionedWhole, WorldMay, activationVars
  <1>5. RequestIsFinal'
    BY DEF RequestIsFinal, ApplicationMay
  <1>6. DecisionHonoured'
    BY DEF DecisionHonoured, ApplicationMay, WorldMay, RowsMay, reviewVars, HighRisk
  <1> QED
    BY <1>1, <1>2, <1>3, <1>4, <1>5, <1>6

-------------------------------------------------------------------------------
(* What one write of the request and one of a runner does, field by field. *)
LEMMA Touched ==
  ASSUME NEW changed \in RequestType, Touch(changed)
  PROVE  /\ request' \in RequestType /\ request'.status = changed.status /\ request'.dedicated = changed.dedicated
         /\ request'.current = changed.current
  BY DEF Touch, RequestType

LEMMA RunnerSet ==
  ASSUME OnboardingInv, NEW r \in Runner, NEW x, runner' = [runner EXCEPT ![r] = x], RunnerMay(x)
  PROVE  /\ runner' \in [Runner -> RunnerType]
         /\ \A q \in Runner : runner'[q] = runner[q] \/ RunnerMay(runner'[q])
  BY DEF OnboardingInv, RunnersKnow, RunnerMay

LEMMA RestMay == RunnerMay(Rest) /\ Rest.at = "idle" /\ Rest.step = PNone
  <1>1. Rest \in RunnerType
    BY StepNames DEF RunnerType, Rest
  <1> QED
    BY <1>1 DEF RunnerMay, Rest

LEMMA AtWork ==
  ASSUME OnboardingInv, NEW r \in Runner
  PROVE  /\ runner[r] \in RunnerType /\ request \in RequestType
         /\ runner[r].at # "idle" => request.status # "none"
         /\ runner[r].at = "doing" => runner[r].i \in 1..Len(Steps) /\ Current(r) \in StepKey
         /\ runner[r].at = "starting" /\ runner[r].i <= Len(Steps) => Current(r) \in StepKey
  <1>1. /\ runner[r] \in RunnerType
        /\ runner[r].at # "idle" => request.status # "none"
        /\ runner[r].at = "doing" => runner[r].i <= Len(Steps)
    BY DEF OnboardingInv, RunnersKnow
  <1>2. request \in RequestType
    BY DEF OnboardingInv, OnboardingTypeOK, ProvisioningTypeOK, RequestType
  <1>3. runner[r].i \in 1..Len(Steps) + 1
    BY <1>1 DEF RunnerType
  <1>4. runner[r].i <= Len(Steps) => runner[r].i \in 1..Len(Steps) /\ Current(r) \in StepKey
    BY <1>3, StepNames DEF Current
  <1> QED
    BY <1>1, <1>2, <1>4

LEMMA ClaimStep == OnboardingInv /\ (\E r \in Runner : Claim(r)) /\ WorldMay => OnboardingInv'
  <1> SUFFICES ASSUME OnboardingInv, NEW r \in Runner, Claim(r), WorldMay PROVE OnboardingInv'
    OBVIOUS
  <1>1. request \in RequestType /\ MaxAttempts \in Nat
    BY AtWork, ProvisioningAssumption
  <1>2. [request EXCEPT !.status = "running", !.blocking = PNone, !.attempts = @ + 1] \in RequestType
    <2>1. request.attempts + 1 \in 0..MaxAttempts
      BY <1>1 DEF Claim, RequestType
    <2> QED
      BY <1>1, <2>1 DEF RequestType
  <1>3. request' \in RequestType /\ request'.status = "running" /\ request'.dedicated = request.dedicated
    BY <1>1, <1>2, Touched DEF Claim, RequestType
  <1>4. request.status # "none" /\ UNCHANGED <<application, stepStatus, made, tenants, tenant>>
    BY DEF Claim
  <1>5. RowsMay /\ TenantMay /\ ApplicationMay
    BY <1>3, <1>4 DEF RowsMay, TenantMay, ApplicationMay, OnboardingInv, StepsAreMade, TenantIsMade, ProvisionedWhole,
                      OnboardingTypeOK, ProvisioningTypeOK
  <1>6. runner' = [runner EXCEPT ![r] = [Rest EXCEPT !.at = "starting"]] /\ RunnerMay([Rest EXCEPT !.at = "starting"])
    BY StepNames DEF Claim, RunnerMay, RunnerType, Rest
  <1>7. runner' \in [Runner -> RunnerType] /\ \A q \in Runner : runner'[q] = runner[q] \/ RunnerMay(runner'[q])
    BY <1>6, RunnerSet
  <1> QED
    BY <1>4, <1>5, <1>7, RunnersStep

LEMMA StartStepStep == OnboardingInv /\ (\E r \in Runner : StartStep(r)) /\ WorldMay => OnboardingInv'
  <1> SUFFICES ASSUME OnboardingInv, NEW r \in Runner, StartStep(r), WorldMay PROVE OnboardingInv'
    OBVIOUS
  <1>1. /\ runner[r].at = "starting" /\ runner[r].i <= Len(Steps) /\ Current(r) \in StepKey
        /\ request \in RequestType /\ request.status # "none" /\ runner[r] \in RunnerType
        /\ UNCHANGED <<application, made, tenants, tenant>>
    BY AtWork DEF StartStep
  <1>2. runner[r].i \in 1..Len(Steps) /\ \A j \in 1..runner[r].i - 1 : Steps[j] \in made
    <2>1. runner[r].i \in 1..Len(Steps) + 1
      BY <1>1 DEF RunnerType
    <2> QED
      BY <1>1, <2>1, StepCount DEF OnboardingInv, StepsAreMade
  <1>3. CASE stepStatus[Current(r)] = "completed"
    <2>1. runner' = [runner EXCEPT ![r].i = runner[r].i + 1] /\ UNCHANGED <<request, stepStatus>>
      BY <1>3 DEF StartStep
    <2> DEFINE x == [runner[r] EXCEPT !.i = runner[r].i + 1]
    <2>2. runner' = [runner EXCEPT ![r] = x]
      BY <2>1
    <2>3. Current(r) \in made
      BY <1>1, <1>3 DEF OnboardingInv, StepsAreMade
    <2>4. x \in RunnerType /\ x.at = "starting" /\ x.i = runner[r].i + 1
      <3>1. runner[r].i + 1 \in 1..Len(Steps) + 1
        BY <1>2, StepCount
      <3> QED
        BY <1>1, <3>1 DEF RunnerType
    <2>5. \A j \in 1..runner[r].i : Steps[j] \in made
      BY <1>2, <2>3, StepCount DEF Current
    <2>6. RunnerMay(x)
      <3>1. x.i - 1 = runner[r].i
        BY <1>2, <2>4, StepCount
      <3> HIDE DEF x
      <3> QED
        BY <1>1, <2>4, <2>5, <3>1 DEF RunnerMay
    <2>7. RowsMay /\ TenantMay
      BY <1>1, <2>1, RowsRest DEF rowVars
    <2>8. runner' \in [Runner -> RunnerType] /\ \A q \in Runner : runner'[q] = runner[q] \/ RunnerMay(runner'[q])
      BY <2>2, <2>6, RunnerSet
    <2> QED
      BY <1>1, <2>7, <2>8, RunnersStep DEF ApplicationMay
  <1>4. CASE stepStatus[Current(r)] # "completed"
    <2>1. /\ stepStatus' = [stepStatus EXCEPT ![Current(r)] = "running"]
          /\ Touch([request EXCEPT !.current = Current(r)])
          /\ runner' = [runner EXCEPT ![r].at = "doing"]
      BY <1>4 DEF StartStep, RunnerGoto
    <2> DEFINE x == [runner[r] EXCEPT !.at = "doing"]
    <2>2. [request EXCEPT !.current = Current(r)] \in RequestType
      BY <1>1 DEF RequestType
    <2>3. request' \in RequestType /\ request'.status = request.status /\ request'.dedicated = request.dedicated
      BY <1>1, <2>1, <2>2, Touched DEF RequestType
    <2>4. RowsMay /\ TenantMay
      BY <1>1, <2>1, <2>3 DEF RowsMay, TenantMay, OnboardingInv, StepsAreMade, TenantIsMade, ProvisionedWhole,
                      OnboardingTypeOK, ProvisioningTypeOK
    <2>5. runner' = [runner EXCEPT ![r] = x] /\ x \in RunnerType /\ x.at = "doing" /\ x.i = runner[r].i
      BY <1>1, <2>1 DEF RunnerType
    <2>6. RunnerMay(x)
      BY <1>1, <1>2, <2>5 DEF RunnerMay
    <2>7. runner' \in [Runner -> RunnerType] /\ \A q \in Runner : runner'[q] = runner[q] \/ RunnerMay(runner'[q])
      BY <2>5, <2>6, RunnerSet
    <2> QED
      BY <1>1, <2>4, <2>7, RunnersStep DEF ApplicationMay
  <1> QED
    BY <1>3, <1>4

LEMMA DoStepStep == OnboardingInv /\ (\E r \in Runner : DoStep(r)) /\ WorldMay => OnboardingInv'
  <1> SUFFICES ASSUME OnboardingInv, NEW r \in Runner, DoStep(r), WorldMay PROVE OnboardingInv'
    OBVIOUS
  <1>1. /\ runner[r].at = "doing" /\ runner[r].i \in 1..Len(Steps) /\ Current(r) \in StepKey
        /\ request \in RequestType /\ request.status # "none" /\ runner[r] \in RunnerType
        /\ UNCHANGED <<application, request>>
    BY AtWork DEF DoStep
  <1>2. \A j \in 1..runner[r].i - 1 : Steps[j] \in made
    BY <1>1 DEF OnboardingInv, StepsAreMade
  <1>3. /\ made' = made \cup {Current(r)}
        /\ stepStatus' \in [StepKey -> {"pending", "running", "waiting", "failed", "completed"}]
        /\ \A k \in StepKey : stepStatus'[k] = "completed" => k \in made'
        /\ \/ UNCHANGED <<tenants, tenant>> /\ (Current(r) = "reserve_tenant_slug" => Current(r) \in made)
           \/ ReserveTenant
    <2>1. CASE stepStatus[Current(r)] = "completed"
      BY <1>1, <2>1 DEF DoStep, OnboardingInv, StepsAreMade, OnboardingTypeOK, ProvisioningTypeOK
    <2>2. CASE stepStatus[Current(r)] # "completed"
      BY <1>1, <2>2 DEF DoStep, Make, OnboardingInv, StepsAreMade, OnboardingTypeOK, ProvisioningTypeOK
    <2> QED
      BY <2>1, <2>2
  <1>4. RowsMay
    BY <1>1, <1>3 DEF RowsMay, OnboardingInv, OnboardingTypeOK, ProvisioningTypeOK
  <1>5. TenantMay
    <2>1. CASE UNCHANGED <<tenants, tenant>> /\ (Current(r) = "reserve_tenant_slug" => Current(r) \in made)
      BY <1>1, <1>3, <2>1 DEF TenantMay, OnboardingInv, TenantIsMade, ProvisionedWhole, OnboardingTypeOK, ProvisioningTypeOK
    <2>2. CASE ReserveTenant
      BY <1>1, <1>3, <2>2 DEF ReserveTenant, TenantMay, OnboardingInv, TenantIsMade, ProvisionedWhole, OnboardingTypeOK,
                              ProvisioningTypeOK
    <2> QED
      BY <1>3, <2>1, <2>2
  <1> DEFINE x == [runner[r] EXCEPT !.at = "starting", !.i = runner[r].i + 1]
  <1>6. runner' = [runner EXCEPT ![r] = x]
    BY DEF DoStep, OnboardingInv, RunnersKnow
  <1>7. x \in RunnerType /\ x.at = "starting" /\ x.i = runner[r].i + 1
    <2>1. runner[r].i + 1 \in 1..Len(Steps) + 1
      BY <1>1, StepCount
    <2> QED
      BY <1>1, <2>1 DEF RunnerType
  <1>8. \A j \in 1..runner[r].i : Steps[j] \in made'
    BY <1>1, <1>2, <1>3, StepCount DEF Current
  <1>9. RunnerMay(x)
    <2>1. x.i - 1 = runner[r].i
      BY <1>1, <1>7, StepCount
    <2> HIDE DEF x
    <2> QED
      BY <1>7, <1>8, <2>1 DEF RunnerMay
  <1>10. runner' \in [Runner -> RunnerType] /\ \A q \in Runner : runner'[q] = runner[q] \/ RunnerMay(runner'[q])
    BY <1>6, <1>9, RunnerSet
  <1> QED
    BY <1>1, <1>4, <1>5, <1>10, RunnersStep DEF ApplicationMay

(* A runner that stops where it is, to mark the request, to finish or to rest. *)
LEMMA RunnerOnly ==
  ASSUME OnboardingInv, WorldMay, NEW r \in Runner, runner[r].at # "idle", NEW x, RunnerMay(x),
         runner' = [runner EXCEPT ![r] = x], UNCHANGED <<application, rowVars>>
  PROVE  OnboardingInv'
  <1>1. request.status # "none"
    BY AtWork
  <1>2. RowsMay /\ TenantMay
    BY <1>1, RowsRest
  <1>3. runner' \in [Runner -> RunnerType] /\ \A q \in Runner : runner'[q] = runner[q] \/ RunnerMay(runner'[q])
    BY RunnerSet
  <1> QED
    BY <1>1, <1>2, <1>3, RunnersStep DEF ApplicationMay

LEMMA LacksDataPlaneStep == OnboardingInv /\ (\E r \in Runner : LacksDataPlane(r)) /\ WorldMay => OnboardingInv'
  <1> SUFFICES ASSUME OnboardingInv, NEW r \in Runner, LacksDataPlane(r), WorldMay PROVE OnboardingInv'
    OBVIOUS
  <1> DEFINE x == [at |-> "waiting", i |-> 1, step |-> "assign_data_plane", code |-> "DATA_PLANE_NOT_READY"]
  <1>1. RunnerMay(x)
    <2>1. x \in RunnerType
      BY StepNames DEF RunnerType
    <2>2. x.at = "waiting" /\ x.step \in StepKey
      BY StepNames
    <2> QED
      BY <2>1, <2>2 DEF RunnerMay
  <1>2. runner[r].at # "idle" /\ runner' = [runner EXCEPT ![r] = x] /\ UNCHANGED <<application, rowVars>>
    BY DEF LacksDataPlane
  <1> QED
    BY <1>1, <1>2, RunnerOnly

LEMMA RunFailsStep == OnboardingInv /\ (\E r \in Runner : RunFails(r)) /\ WorldMay => OnboardingInv'
  <1> SUFFICES ASSUME OnboardingInv, NEW r \in Runner, RunFails(r), WorldMay PROVE OnboardingInv'
    OBVIOUS
  <1>1. RunnerMay([Rest EXCEPT !.at = "failing"])
    BY StepCount DEF RunnerMay, RunnerType, Rest
  <1>2. runner[r].at # "idle" /\ runner' = [runner EXCEPT ![r] = [Rest EXCEPT !.at = "failing"]] /\ UNCHANGED <<application, rowVars>>
    BY DEF RunFails
  <1> QED
    BY <1>1, <1>2, RunnerOnly

LEMMA LoseRunnerStep == OnboardingInv /\ (\E r \in Runner : LoseRunner(r)) /\ WorldMay => OnboardingInv'
  <1> SUFFICES ASSUME OnboardingInv, NEW r \in Runner, LoseRunner(r), WorldMay PROVE OnboardingInv'
    OBVIOUS
  <1>1. runner[r].at # "idle" /\ runner' = [runner EXCEPT ![r] = Rest] /\ UNCHANGED <<application, rowVars>>
    BY DEF LoseRunner
  <1> QED
    BY <1>1, RestMay, RunnerOnly

LEMMA AllStepsStep == OnboardingInv /\ (\E r \in Runner : AllSteps(r)) /\ WorldMay => OnboardingInv'
  <1> SUFFICES ASSUME OnboardingInv, NEW r \in Runner, AllSteps(r), WorldMay PROVE OnboardingInv'
    OBVIOUS
  <1>1. /\ runner[r].at = "starting" /\ runner[r].i > Len(Steps) /\ runner[r] \in RunnerType
        /\ UNCHANGED <<application, rowVars>>
    BY AtWork DEF AllSteps
  <1>2. made = StepKey
    <2>1. runner[r].i = Len(Steps) + 1
      BY <1>1, StepCount DEF RunnerType
    <2>2. \A j \in 1..Len(Steps) : Steps[j] \in made
      BY <1>1, <2>1, StepCount DEF OnboardingInv, StepsAreMade
    <2>3. \A k \in StepKey : k \in made
      <3>1. ASSUME NEW k \in StepKey PROVE \E j \in 1..Len(Steps) : k = Steps[j]
        BY StepNames
      <3> QED
        BY <2>2, <3>1
    <2>4. made \subseteq StepKey
      BY DEF OnboardingInv, OnboardingTypeOK, ProvisioningTypeOK
    <2> QED
      BY <2>3, <2>4
  <1>3. CASE request.dedicated /\ ~wildcard
    <2> DEFINE x == [at |-> "waiting", i |-> 1, step |-> "create_default_domain",
                     code |-> "DEFAULT_TENANT_DOMAIN_EXTERNAL_VERIFICATION_REQUIRED"]
    <2>1. RunnerMay(x)
      <3>1. x \in RunnerType
        BY StepNames DEF RunnerType
      <3>2. x.at = "waiting" /\ x.step \in StepKey
        BY StepNames
      <3> QED
        BY <3>1, <3>2 DEF RunnerMay
    <2>2. runner' = [runner EXCEPT ![r] = x]
      BY <1>3 DEF AllSteps
    <2> QED
      BY <1>1, <2>1, <2>2, RunnerOnly
  <1>4. CASE ~(request.dedicated /\ ~wildcard)
    <2> DEFINE x == [runner[r] EXCEPT !.at = "finishing"]
    <2>1. runner' = [runner EXCEPT ![r] = x]
      BY <1>4 DEF AllSteps, RunnerGoto
    <2>2. x \in RunnerType /\ x.at = "finishing" /\ made' = StepKey
      BY <1>1, <1>2 DEF RunnerType, rowVars
    <2>3. RunnerMay(x)
      BY <2>2 DEF RunnerMay
    <2> QED
      BY <1>1, <2>1, <2>3, RunnerOnly
  <1> QED
    BY <1>3, <1>4

LEMMA FinishStep == OnboardingInv /\ (\E r \in Runner : Finish(r)) /\ WorldMay => OnboardingInv'
  <1> SUFFICES ASSUME OnboardingInv, NEW r \in Runner, Finish(r), WorldMay PROVE OnboardingInv'
    OBVIOUS
  <1>1. /\ made = StepKey /\ request \in RequestType /\ request.status # "none"
        /\ UNCHANGED <<stepStatus, made, tenants>> /\ runner' = [runner EXCEPT ![r] = Rest]
        /\ Touch([request EXCEPT !.status = "completed", !.current = PNone, !.blocking = PNone])
    BY AtWork DEF Finish, OnboardingInv, StepsAreMade
  <1>2. [request EXCEPT !.status = "completed", !.current = PNone, !.blocking = PNone] \in RequestType
    BY <1>1 DEF RequestType
  <1>3. request' \in RequestType /\ request'.status = "completed" /\ request'.dedicated = request.dedicated
    BY <1>1, <1>2, Touched DEF RequestType
  <1>4. RowsMay
    BY <1>1, <1>3 DEF RowsMay, OnboardingInv, StepsAreMade, OnboardingTypeOK, ProvisioningTypeOK
  <1>5. tenant \in {"provisioning", "onboarding", "active"}
    BY <1>1, StepNames DEF OnboardingInv, TenantIsMade, OnboardingTypeOK, ProvisioningTypeOK
  <1>6. tenant' = (IF tenant = "provisioning" THEN "onboarding" ELSE tenant)
    BY DEF Finish
  <1>7. TenantMay
    BY <1>1, <1>5, <1>6 DEF TenantMay, OnboardingInv, TenantIsMade
  <1>8. ApplicationMay
    BY DEF Finish, ApplicationMay, ApprovedOrLater
  <1>9. runner' \in [Runner -> RunnerType] /\ \A q \in Runner : runner'[q] = runner[q] \/ RunnerMay(runner'[q])
    BY <1>1, RestMay, RunnerSet
  <1> QED
    BY <1>1, <1>4, <1>7, <1>8, <1>9, RunnersStep

LEMMA MarkWaitingStep == OnboardingInv /\ (\E r \in Runner : MarkWaiting(r)) /\ WorldMay => OnboardingInv'
  <1> SUFFICES ASSUME OnboardingInv, NEW r \in Runner, MarkWaiting(r), WorldMay PROVE OnboardingInv'
    OBVIOUS
  <1>1. /\ request \in RequestType /\ request.status # "none" /\ runner[r].step \in StepKey
        /\ runner[r] \in RunnerType
        /\ UNCHANGED <<application, made, tenants, tenant>> /\ runner' = [runner EXCEPT ![r] = Rest]
        /\ stepStatus' = [stepStatus EXCEPT ![runner[r].step] = "waiting"]
        /\ Touch([request EXCEPT !.status = "waiting_for_external_dependency",
                                 !.current = runner[r].step, !.blocking = runner[r].code])
    BY AtWork DEF MarkWaiting, OnboardingInv, RunnersKnow
  <1>2. [request EXCEPT !.status = "waiting_for_external_dependency",
                        !.current = runner[r].step, !.blocking = runner[r].code] \in RequestType
    BY <1>1 DEF RequestType, RunnerType, Halted
  <1>3. request' \in RequestType /\ request'.status = "waiting_for_external_dependency" /\ request'.dedicated = request.dedicated
    BY <1>1, <1>2, Touched DEF RequestType
  <1>4. RowsMay
    BY <1>1, <1>3 DEF RowsMay, OnboardingInv, StepsAreMade, OnboardingTypeOK, ProvisioningTypeOK
  <1>5. TenantMay
    BY <1>1, <1>3 DEF TenantMay, OnboardingInv, TenantIsMade, ProvisionedWhole, OnboardingTypeOK, ProvisioningTypeOK
  <1>6. runner' \in [Runner -> RunnerType] /\ \A q \in Runner : runner'[q] = runner[q] \/ RunnerMay(runner'[q])
    BY <1>1, RestMay, RunnerSet
  <1> QED
    BY <1>1, <1>4, <1>5, <1>6, RunnersStep DEF ApplicationMay

LEMMA MarkFailedStep == OnboardingInv /\ (\E r \in Runner : MarkFailed(r)) /\ WorldMay => OnboardingInv'
  <1> SUFFICES ASSUME OnboardingInv, NEW r \in Runner, MarkFailed(r), WorldMay PROVE OnboardingInv'
    OBVIOUS
  <1>1. /\ request \in RequestType /\ request.status # "none"
        /\ UNCHANGED <<made, tenants, tenant>> /\ runner' = [runner EXCEPT ![r] = Rest]
        /\ Touch([request EXCEPT !.status = "failed", !.blocking = "failure"])
    BY AtWork DEF MarkFailed
  <1>2. [request EXCEPT !.status = "failed", !.blocking = "failure"] \in RequestType
    BY <1>1 DEF RequestType, Halted
  <1>3. request' \in RequestType /\ request'.status = "failed" /\ request'.dedicated = request.dedicated
    BY <1>1, <1>2, Touched DEF RequestType
  <1>4. \E k \in StepKey \cup {PNone} : stepStatus' = IF k = PNone THEN stepStatus ELSE [stepStatus EXCEPT ![k] = "failed"]
    BY <1>1, AtWork DEF MarkFailed, RequestType, RunnerType
  <1>5. RowsMay
    BY <1>1, <1>3, <1>4 DEF RowsMay, OnboardingInv, StepsAreMade, OnboardingTypeOK, ProvisioningTypeOK
  <1>6. TenantMay
    BY <1>1, <1>3 DEF TenantMay, OnboardingInv, TenantIsMade, ProvisionedWhole, OnboardingTypeOK, ProvisioningTypeOK
  <1>7. ApplicationMay
    BY DEF MarkFailed, ApplicationMay, ApprovedOrLater
  <1>8. runner' \in [Runner -> RunnerType] /\ \A q \in Runner : runner'[q] = runner[q] \/ RunnerMay(runner'[q])
    BY <1>1, RestMay, RunnerSet
  <1> QED
    BY <1>1, <1>5, <1>6, <1>7, <1>8, RunnersStep

LEMMA StepFailsStep == OnboardingInv /\ (\E r \in Runner, before \in BOOLEAN : StepFails(r, before)) /\ WorldMay => OnboardingInv'
  <1> SUFFICES ASSUME OnboardingInv, NEW r \in Runner, NEW before \in BOOLEAN, StepFails(r, before), WorldMay PROVE OnboardingInv'
    OBVIOUS
  <1> DEFINE x == [Rest EXCEPT !.at = "failing", !.step = Current(r)]
  <1>1. /\ request \in RequestType /\ request.status # "none" /\ Current(r) \in StepKey
        /\ UNCHANGED <<application, request, stepStatus, tenants, tenant>> /\ runner' = [runner EXCEPT ![r] = x]
    BY AtWork DEF StepFails
  <1>2. made' = made \/ (Current(r) # "reserve_tenant_slug" /\ made' = made \cup {Current(r)})
    BY DEF StepFails, Outside
  <1>3. RowsMay
    BY <1>1, <1>2 DEF RowsMay, OnboardingInv, StepsAreMade, OnboardingTypeOK, ProvisioningTypeOK
  <1>4. TenantMay
    <2>1. tenant = "onboarding" => made' = StepKey
      <3>1. made = StepKey => made' = StepKey
        BY <1>1, <1>2
      <3> QED
        BY <3>1 DEF OnboardingInv, ProvisionedWhole
    <2>2. "reserve_tenant_slug" \in made' => "reserve_tenant_slug" \in made
      BY <1>2
    <2> QED
      BY <1>1, <2>1, <2>2 DEF TenantMay, OnboardingInv, TenantIsMade, ProvisionedWhole, OnboardingTypeOK, ProvisioningTypeOK
  <1>5. RunnerMay(x)
    <2>1. x \in RunnerType /\ x.at = "failing"
      <3>1. Rest \in RunnerType
        BY RestMay DEF RunnerMay
      <3> QED
        BY <1>1, <3>1 DEF RunnerType
    <2> QED
      BY <2>1 DEF RunnerMay
  <1>6. runner' \in [Runner -> RunnerType] /\ \A q \in Runner : runner'[q] = runner[q] \/ RunnerMay(runner'[q])
    BY <1>1, <1>5, RunnerSet
  <1> QED
    BY <1>1, <1>3, <1>4, <1>6, RunnersStep DEF ApplicationMay

(* Nobody's runner: time, the workers that start, and the operator. *)
LEMMA NobodysStep == OnboardingInv /\ (RequestAges \/ RecoverReads \/ RecoverWrites \/ WorldImproves)
                     /\ UNCHANGED <<reviewVars, activationVars>> => OnboardingInv'
  <1> SUFFICES ASSUME OnboardingInv, RequestAges \/ RecoverReads \/ RecoverWrites \/ WorldImproves,
                      UNCHANGED <<reviewVars, activationVars>>
               PROVE  OnboardingInv'
    OBVIOUS
  <1>1. /\ request \in RequestType /\ runner \in [Runner -> RunnerType]
        /\ dataPlane \in BOOLEAN /\ wildcard \in BOOLEAN /\ recovering \in BOOLEAN
    BY DEF OnboardingInv, OnboardingTypeOK, ProvisioningTypeOK, RunnersKnow, RequestType
  <1>2. CASE WorldImproves
    <2>1. UNCHANGED <<application, rowVars, recovering, runner>> /\ dataPlane' \in BOOLEAN /\ wildcard' \in BOOLEAN
      BY <1>1, <1>2 DEF WorldImproves
    <2> QED
      BY <2>1 DEF rowVars, reviewVars, activationVars, OnboardingInv, OnboardingTypeOK, ProvisioningTypeOK, RunnersKnow,
                  StepsAreMade, TenantIsMade, RequestIsFinal, ProvisionedWhole, DecisionHonoured, HighRisk
  <1>3. CASE RequestAges \/ RecoverReads \/ RecoverWrites
    <2>1. /\ request.status # "none" /\ request' \in RequestType /\ request'.status \in {"queued", request.status}
          /\ request'.dedicated = request.dedicated /\ UNCHANGED <<application, stepStatus, made, tenants, tenant, runner>>
      <3>1. CASE RequestAges
        BY <1>1, <3>1 DEF RequestAges, RequestType
      <3>2. CASE RecoverReads
        BY <1>1, <3>2 DEF RecoverReads, Recoverable, rowVars
      <3>3. CASE RecoverWrites
        <4>1. [request EXCEPT !.status = "queued", !.blocking = PNone] \in RequestType
          BY <1>1 DEF RequestType
        <4>2. request.status # "none" /\ UNCHANGED <<application, stepStatus, made, tenants, tenant, runner>>
          BY <3>3 DEF RecoverWrites, OnboardingInv, RunnersKnow
        <4> QED
          BY <1>1, <3>3, <4>1, <4>2, Touched DEF RecoverWrites, RequestType
      <3> QED
        BY <1>3, <3>1, <3>2, <3>3
    <2>2. WorldMay
      BY <1>1, <1>3 DEF RequestAges, RecoverReads, RecoverWrites, worldVars, WorldMay
    <2>3. RowsMay
      BY <2>1 DEF RowsMay, OnboardingInv, StepsAreMade, OnboardingTypeOK, ProvisioningTypeOK
    <2>4. TenantMay
      BY <2>1 DEF TenantMay, OnboardingInv, TenantIsMade, ProvisionedWhole, OnboardingTypeOK, ProvisioningTypeOK
    <2> QED
      BY <1>1, <2>1, <2>2, <2>3, <2>4, RunnersStep DEF ApplicationMay
  <1> QED
    BY <1>2, <1>3

-------------------------------------------------------------------------------
LEMMA AppTypes ==
  ASSUME OnboardingInv
  PROVE  /\ application \in DOMAIN Allowed /\ dedicated \in BOOLEAN /\ mailToken \in BOOLEAN /\ question \in 0..MaxQuestions
         /\ review \in [ReviewType -> {"none", "low", "high"}]
         /\ decision \in [by : Official \cup {PNone}, second : Official \cup {PNone}]
         /\ readiness \in {"none", "ready", "blocked"} /\ pending \subseteq Official
         /\ request.status # "none" => application \in {"provisioning", "provisioning_failed", "onboarding", "rejected"}
         /\ application = "none" => ~HighRisk
         /\ readiness # "none" \/ pending # {} => tenant # "none"
         /\ application \in ApprovedOrLater /\ HighRisk => decision.second \notin {PNone, decision.by}
  BY DEF OnboardingInv, OnboardingTypeOK, TenantIsMade, RequestIsFinal, DecisionHonoured

(* A status that is reached on the way to a decision, or after one that was a no. *)
LEMMA StatusOnly ==
  ASSUME OnboardingInv, UNCHANGED <<Unprovisioned, dedicated, decision, activationVars>>,
         mailToken' \in BOOLEAN, question' \in 0..MaxQuestions,
         review' = review \/ (review' \in [ReviewType -> {"none", "low", "high"}] /\ application' \notin ApprovedOrLater),
         application' \in DOMAIN Allowed, application' = "none" => application = "none" /\ review' = review,
         request.status # "none" => application' \in {"provisioning", "provisioning_failed", "onboarding", "rejected"},
         application' \in ApprovedOrLater => application \in ApprovedOrLater
  PROVE  OnboardingInv'
  <1>1. UNCHANGED Unprovisioned
    OBVIOUS
  <1>2. dedicated' = dedicated /\ decision' = decision /\ readiness' = readiness /\ pending' = pending
    BY DEF activationVars
  <1>3. review' = review => (HighRisk' <=> HighRisk)
    BY DEF HighRisk
  <1>4. application' = "none" => ~HighRisk'
    BY <1>3, AppTypes
  <1>5. application' \in ApprovedOrLater /\ HighRisk' => decision'.second \notin {PNone, decision'.by}
    BY <1>2, <1>3, AppTypes
  <1>6. review' \in [ReviewType -> {"none", "low", "high"}]
    BY AppTypes
  <1> QED
    BY <1>1, <1>2, <1>4, <1>5, <1>6, AppTypes, ApplicationMoves

LEMMA ApplyStep == OnboardingInv /\ Apply => OnboardingInv'
  <1> SUFFICES ASSUME OnboardingInv, Apply PROVE OnboardingInv'
    OBVIOUS
  <1> USE AppTypes, ItsStates, OnboardingAssumption DEF ApprovedOrLater
  <1>1. CASE CreateApplication
    BY <1>1, StatusOnly DEF CreateApplication, activationVars
  <1>2. CASE UpdateApplication
    <2>1. request.status = "none" /\ dedicated' \in BOOLEAN /\ UNCHANGED Unprovisioned
      BY <1>2 DEF UpdateApplication
    <2>2. UNCHANGED <<application, mailToken, question, review, decision, readiness, pending>>
      BY <1>2 DEF UpdateApplication, activationVars
    <2>3. HighRisk' <=> HighRisk
      BY <2>2 DEF HighRisk
    <2> HIDE ItsStates, OnboardingAssumption DEF ApprovedOrLater
    <2> QED
      BY <2>1, <2>2, <2>3, ApplicationMoves
  <1>3. CASE VerifyEmail
    <2>1. application # "none" /\ application' = "email_verified" /\ request.status = "none"
      BY <1>3, WhereItMayGo DEF VerifyEmail, Move
    <2> QED
      BY <1>3, <2>1, StatusOnly DEF VerifyEmail, activationVars
  <1>4. CASE TokenExpires
    BY <1>4, StatusOnly DEF TokenExpires, activationVars
  <1>5. CASE ResendVerification
    BY <1>5, StatusOnly DEF ResendVerification, activationVars
  <1>6. CASE ApplicantMoves
    <2>1. application' \in {"submitted", "withdrawn"} /\ request.status = "none"
      BY <1>6, WhereItMayGo DEF ApplicantMoves, Move
    <2> QED
      BY <1>6, <2>1, StatusOnly DEF ApplicantMoves, reviewVars, activationVars
  <1>7. CASE DeadlinePasses
    <2>1. application' = "expired" /\ request.status = "none"
      BY <1>7, WhereItMayGo DEF DeadlinePasses, Move
    <2> QED
      BY <1>7, <2>1, StatusOnly DEF DeadlinePasses, reviewVars, activationVars
  <1>8. CASE RespondToInformation
    <2>1. application' \in {application, "resubmitted"} /\ (application' # application => request.status = "none")
      BY <1>8 DEF RespondToInformation
    <2>2. question' \in 0..MaxQuestions
      BY <1>8 DEF RespondToInformation
    <2> QED
      BY <1>8, <2>1, <2>2, StatusOnly DEF RespondToInformation, activationVars
  <1> QED
    BY <1>1, <1>2, <1>3, <1>4, <1>5, <1>6, <1>7, <1>8 DEF Apply

(* The request of an application that had none: nobody is at work on it yet. *)
LEMMA NewRequestStep ==
  ASSUME OnboardingInv, request.status = "none", NEW mode \in BOOLEAN, NewRequest(mode), dedicated' = mode,
         application' = "provisioning", application \in ApprovedOrLater \cup {"none"},
         UNCHANGED <<mailToken, question, review, decision, activationVars>>
  PROVE  OnboardingInv'
  <1> DEFINE new == [request EXCEPT !.status = "queued", !.dedicated = mode, !.current = Head(Steps)]
  <1>1. new \in RequestType /\ new.status = "queued" /\ new.dedicated = mode
    <2>1. request \in RequestType
      BY DEF OnboardingInv, OnboardingTypeOK, ProvisioningTypeOK, RequestType
    <2>2. Head(Steps) \in StepKey
      BY StepNames
    <2> QED
      BY <2>1, <2>2 DEF RequestType
  <1>2. Touch(new) /\ UNCHANGED <<stepStatus, made, tenants, tenant, worldVars, runner>>
    BY DEF NewRequest
  <1>3. request' \in RequestType /\ request'.status = "queued" /\ request'.dedicated = mode
    BY <1>1, <1>2, Touched
  <1>4. HighRisk' <=> HighRisk
    BY DEF HighRisk
  <1> HIDE DEF new
  <1>5. OnboardingTypeOK'
    <2>1. ProvisioningTypeOK'
      BY <1>2, <1>3 DEF OnboardingInv, OnboardingTypeOK, ProvisioningTypeOK, worldVars, RequestType
    <2>2. application' \in DOMAIN Allowed
      BY ItsStates
    <2> QED
      BY <2>1, <2>2 DEF OnboardingInv, OnboardingTypeOK, activationVars
  <1>6. RunnersKnow' /\ StepsAreMade'
    BY <1>2, <1>3 DEF OnboardingInv, RunnersKnow, StepsAreMade, worldVars
  <1>7. TenantIsMade' /\ ProvisionedWhole' /\ RequestIsFinal'
    BY <1>2, <1>3 DEF OnboardingInv, TenantIsMade, ProvisionedWhole, RequestIsFinal, activationVars
  <1>8. DecisionHonoured'
    BY <1>3, <1>4 DEF OnboardingInv, DecisionHonoured, RequestIsFinal
  <1> QED
    BY <1>5, <1>6, <1>7, <1>8 DEF OnboardingInv

LEMMA RequeueStep ==
  ASSUME OnboardingInv, request.status # "none", Requeue, ApplicationMay, UNCHANGED <<reviewVars, activationVars>>
  PROVE  OnboardingInv'
  <1>1. request \in RequestType /\ dataPlane \in BOOLEAN /\ wildcard \in BOOLEAN /\ recovering \in BOOLEAN
    BY DEF OnboardingInv, OnboardingTypeOK, ProvisioningTypeOK, RequestType
  <1>2. [request EXCEPT !.status = "queued", !.blocking = PNone] \in RequestType
    BY <1>1 DEF RequestType
  <1>3. request' \in RequestType /\ request'.status = "queued" /\ request'.dedicated = request.dedicated
    BY <1>1, <1>2, Touched DEF RequestType, Requeue
  <1>4. UNCHANGED <<stepStatus, made, tenants, tenant, dataPlane, wildcard, recovering, runner>>
    BY DEF Requeue, worldVars
  <1>5. RowsMay
    BY <1>3, <1>4 DEF RowsMay, OnboardingInv, StepsAreMade, OnboardingTypeOK, ProvisioningTypeOK
  <1>6. TenantMay
    BY <1>3, <1>4 DEF TenantMay, OnboardingInv, TenantIsMade, ProvisionedWhole, OnboardingTypeOK, ProvisioningTypeOK
  <1>7. WorldMay /\ runner' \in [Runner -> RunnerType]
    BY <1>1, <1>4 DEF WorldMay, OnboardingInv, RunnersKnow
  <1> QED
    BY <1>4, <1>5, <1>6, <1>7, RunnersStep

LEMMA ProvisionStep == OnboardingInv /\ (Provision \/ RetryProvisioning) => OnboardingInv'
  <1> SUFFICES ASSUME OnboardingInv, Provision \/ RetryProvisioning PROVE OnboardingInv'
    OBVIOUS
  <1>1. UNCHANGED <<reviewVars, activationVars>>
    BY DEF Provision, RetryProvisioning
  <1>2. CASE Provision /\ request.status = "none"
    <2>1. application \in ApprovedOrLater /\ application' = "provisioning" /\ NewRequest(dedicated)
      BY <1>2 DEF Provision, Move, ApprovedOrLater, Halted
    <2>2. dedicated \in BOOLEAN
      BY AppTypes
    <2> QED
      BY <1>1, <1>2, <2>1, <2>2, NewRequestStep DEF reviewVars
  <1>3. CASE Provision /\ request.status = "completed"
    <2>1. ApplicationMay /\ UNCHANGED Unprovisioned
      BY <1>3 DEF Provision, ApplicationMay, ApprovedOrLater, Halted
    <2>2. application' = "onboarding" /\ request.status # "none" /\ application \in ApprovedOrLater
      BY <1>3 DEF Provision, Halted, ApprovedOrLater
    <2>3. application' \in DOMAIN Allowed
      BY <2>2, ItsStates
    <2> QED
      BY <1>1, <2>1, <2>2, <2>3, StatusOnly, AppTypes DEF reviewVars
  <1>4. CASE (Provision /\ request.status \in Halted) \/ RetryProvisioning
    <2>1. request.status # "none" /\ Requeue /\ ApplicationMay
      BY <1>4 DEF Provision, RetryProvisioning, ApplicationMay, ApprovedOrLater, Halted
    <2> QED
      BY <1>1, <2>1, RequeueStep
  <1> QED
    BY <1>2, <1>3, <1>4 DEF Provision

LEMMA ReviewStep ==
  ASSUME OnboardingInv, NEW t \in ReviewType, NEW risk \in {"low", "high"}, NEW waited \in BOOLEAN,
         NEW result \in {"passed", "failed", "requires_information"}, AddReview(t, risk, result, waited)
  PROVE  OnboardingInv'
  <1>1. application \in DecisionPending /\ UNCHANGED <<Unprovisioned, dedicated, decision, mailToken, question, activationVars>>
    BY DEF AddReview, RecordReview
  <1>2. review' \in [ReviewType -> {"none", "low", "high"}]
    BY AppTypes DEF AddReview, RecordReview
  <1>3. application' \in {"additional_information_requested", "under_initial_review", application} \cup ReviewStatus
    BY ReviewNames DEF AddReview, AfterReview
  <1>4. application' \in DOMAIN Allowed /\ application' # "none" /\ application' \notin ApprovedOrLater
    BY <1>1, <1>3, ItsStates, ReviewNames DEF DecisionPending, Reviewing, ApprovedOrLater
  <1>5. request.status = "none"
    BY <1>1, AppTypes, ReviewNames DEF DecisionPending, Reviewing
  <1> QED
    BY <1>1, <1>2, <1>4, <1>5, StatusOnly, AppTypes

LEMMA ApproveStep ==
  ASSUME OnboardingInv, NEW by \in Official, NEW second \in Official \cup {PNone}, Approve(by, second)
  PROVE  OnboardingInv'
  <1>1. /\ application \in DecisionPending /\ application' = "approved" /\ decision' = [by |-> by, second |-> second]
        /\ HighRisk => second \notin {PNone, by}
        /\ UNCHANGED <<Unprovisioned, dedicated, mailToken, question, review, readiness, pending>>
    BY DEF Approve, Move, activationVars
  <1>2. request.status = "none"
    BY <1>1, AppTypes, ReviewNames DEF DecisionPending, Reviewing
  <1>3. decision' \in [by : Official \cup {PNone}, second : Official \cup {PNone}]
    BY <1>1
  <1>4. HighRisk' => decision'.second \notin {PNone, decision'.by}
    BY <1>1 DEF HighRisk
  <1>5. application' \in DOMAIN Allowed /\ application' # "none"
    BY <1>1, ItsStates
  <1> QED
    BY <1>1, <1>2, <1>3, <1>4, <1>5, AppTypes, ApplicationMoves

LEMMA DecideActivationStep ==
  ASSUME OnboardingInv, NEW by \in Official, NEW asker \in Official, NEW approve \in BOOLEAN,
         DecideActivation(by, asker, approve)
  PROVE  OnboardingInv'
  <1>1. /\ tenant # "none" /\ pending' \subseteq Official /\ tenant' \in {tenant, "active"}
        /\ UNCHANGED <<application, request, stepStatus, made, tenants, dataPlane, wildcard, recovering, runner,
                       dedicated, mailToken, question, review, decision, readiness>>
    BY AppTypes DEF DecideActivation, worldVars, reviewVars
  <1>2. tenant' \in {"provisioning", "onboarding", "active"} /\ tenants = 1 /\ (tenant' # tenant => tenant' = "active")
    BY <1>1 DEF OnboardingInv, TenantIsMade, OnboardingTypeOK, ProvisioningTypeOK
  <1>3. OnboardingTypeOK'
    <2>1. ProvisioningTypeOK'
      BY <1>1, <1>2 DEF OnboardingInv, OnboardingTypeOK, ProvisioningTypeOK
    <2> QED
      BY <1>1, <2>1 DEF OnboardingInv, OnboardingTypeOK
  <1>4. RunnersKnow' /\ StepsAreMade'
    BY <1>1 DEF OnboardingInv, RunnersKnow, StepsAreMade
  <1>5. TenantIsMade' /\ ProvisionedWhole'
    BY <1>1, <1>2 DEF OnboardingInv, TenantIsMade, ProvisionedWhole
  <1>6. RequestIsFinal' /\ DecisionHonoured'
    BY <1>1 DEF OnboardingInv, RequestIsFinal, DecisionHonoured, HighRisk
  <1> QED
    BY <1>3, <1>4, <1>5, <1>6 DEF OnboardingInv

LEMMA AdministerStep == OnboardingInv /\ Administer => OnboardingInv'
  <1> SUFFICES ASSUME OnboardingInv, Administer PROVE OnboardingInv'
    OBVIOUS
  <1>1. CASE Provision \/ RetryProvisioning
    BY <1>1, ProvisionStep
  <1>2. ASSUME NEW mode \in BOOLEAN, CreateOrganization(mode) PROVE OnboardingInv'
    <2>1. request.status = "none"
      BY <1>2, AppTypes DEF CreateOrganization
    <2> QED
      BY <1>2, <2>1, NewRequestStep DEF CreateOrganization
  <1>3. ASSUME NEW t \in ReviewType, NEW risk \in {"low", "high"}, NEW waited \in BOOLEAN,
               NEW result \in {"passed", "failed", "requires_information"}, AddReview(t, risk, result, waited)
        PROVE  OnboardingInv'
    BY <1>3, ReviewStep
  <1>4. CASE RequestInformation
    <2>1. application' = "additional_information_requested" /\ question' \in 0..MaxQuestions /\ application' \in DOMAIN Allowed
      BY <1>4, ItsStates, AppTypes, OnboardingAssumption DEF RequestInformation, Move
    <2>2. request.status = "none"
      BY <1>4, WhereItMayGo, AppTypes DEF RequestInformation, Move
    <2> QED
      BY <1>4, <2>1, <2>2, StatusOnly, AppTypes DEF RequestInformation, activationVars, ApprovedOrLater
  <1>5. CASE Reject
    <2>1. application' = "rejected" /\ application' \in DOMAIN Allowed /\ UNCHANGED <<Unprovisioned, reviewVars, activationVars>>
      BY <1>5, ItsStates DEF Reject, Move
    <2> QED
      BY <2>1, StatusOnly, AppTypes DEF reviewVars, activationVars, ApprovedOrLater
  <1>6. ASSUME NEW by \in Official, NEW second \in Official \cup {PNone}, Approve(by, second) PROVE OnboardingInv'
    BY <1>6, ApproveStep
  <1>7. ASSUME NEW by \in Official, CreateActivationRequest(by) PROVE OnboardingInv'
    <2>1. /\ UNCHANGED <<application, Unprovisioned, dedicated, mailToken, question, review, decision, readiness>>
          /\ pending' \subseteq Official /\ tenant # "none"
      BY <1>7, AppTypes DEF CreateActivationRequest, reviewVars
    <2>2. HighRisk' <=> HighRisk
      BY <2>1 DEF HighRisk
    <2> QED
      BY <2>1, <2>2, AppTypes, ApplicationMoves
  <1>8. ASSUME NEW by \in Official, NEW asker \in Official, NEW approve \in BOOLEAN, DecideActivation(by, asker, approve)
        PROVE  OnboardingInv'
    BY <1>8, DecideActivationStep
  <1>9. ASSUME NEW ready \in BOOLEAN, RunReadiness(ready) PROVE OnboardingInv'
    <2>1. /\ UNCHANGED <<application, Unprovisioned, dedicated, mailToken, question, review, decision, pending>>
          /\ readiness' \in {"ready", "blocked"} /\ tenant # "none"
      BY <1>9 DEF RunReadiness, reviewVars
    <2>2. HighRisk' <=> HighRisk
      BY <2>1 DEF HighRisk
    <2> QED
      BY <2>1, <2>2, AppTypes, ApplicationMoves
  <1> QED
    BY <1>1, <1>2, <1>3, <1>4, <1>5, <1>6, <1>7, <1>8, <1>9 DEF Administer

LEMMA OnboardingInvNext == OnboardingInv /\ [OnboardingNext]_onboardingVars => OnboardingInv'
  <1> SUFFICES ASSUME OnboardingInv, [OnboardingNext]_onboardingVars PROVE OnboardingInv'
    OBVIOUS
  <1>1. CASE Apply
    BY <1>1, ApplyStep
  <1>2. CASE Administer
    BY <1>2, AdministerStep
  <1>3. CASE ProvisioningNext /\ UNCHANGED <<reviewVars, activationVars>>
    <2>1. CASE RequestAges \/ RecoverReads \/ RecoverWrites \/ WorldImproves
      BY <1>3, <2>1, NobodysStep
    <2>2. ASSUME NEW r \in Runner, \/ Claim(r) \/ StartStep(r) \/ DoStep(r) \/ LacksDataPlane(r) \/ RunFails(r)
                                   \/ \E before \in BOOLEAN : StepFails(r, before)
                                   \/ AllSteps(r) \/ Finish(r) \/ MarkWaiting(r) \/ MarkFailed(r) \/ LoseRunner(r)
          PROVE  OnboardingInv'
      <3>1. UNCHANGED worldVars
        BY <2>2 DEF Claim, StartStep, DoStep, LacksDataPlane, RunFails, StepFails, AllSteps, Finish, MarkWaiting,
                    MarkFailed, LoseRunner
      <3>2. WorldMay
        BY <1>3, <3>1 DEF WorldMay, worldVars, OnboardingInv, OnboardingTypeOK, ProvisioningTypeOK
      <3> QED
        BY <2>2, <3>2, ClaimStep, StartStepStep, DoStepStep, LacksDataPlaneStep, RunFailsStep, StepFailsStep, AllStepsStep,
           FinishStep, MarkWaitingStep, MarkFailedStep, LoseRunnerStep
    <2> QED
      BY <1>3, <2>1, <2>2 DEF ProvisioningNext
  <1>4. CASE UNCHANGED onboardingVars
    <2>1. UNCHANGED <<application, request, stepStatus, made, tenants, tenant, dataPlane, wildcard, recovering, runner,
                      dedicated, mailToken, question, review, decision, readiness, pending>>
      BY <1>4 DEF onboardingVars, provisioningVars, rowVars, worldVars, reviewVars, activationVars
    <2>2. HighRisk' <=> HighRisk
      BY <2>1 DEF HighRisk
    <2> QED
      BY <2>1, <2>2, AppTypes, ApplicationMoves DEF Unprovisioned, rowVars, worldVars
  <1> QED
    BY <1>1, <1>2, <1>3, <1>4 DEF OnboardingNext

(* However often the request is taken over, fails, is retried or is recovered,
   by any number of workers and with any list of steps, it makes one tenant,
   which becomes "onboarding" only when every step's work has been done, and a
   completed request has not left it in "provisioning" (provisioning.ts,
   processTenantProvision).                                                    *)
THEOREM ProvisionedWholeHolds == OnboardingSpec => []ProvisionedWhole
  <1>1. OnboardingInv => ProvisionedWhole
    BY DEF OnboardingInv
  <1> QED
    BY <1>1, OnboardingInvInit, OnboardingInvNext, PTL DEF OnboardingSpec

(* However reviews, answers, changes of the profile, decisions and activations
   follow on each other, an application with a high risk goes towards a tenant
   only with two names on its approval, and the request asks for the deployment
   that the profile asks for (onboarding-repository.ts, approve and provision). *)
THEOREM DecisionHonouredHolds == OnboardingSpec => []DecisionHonoured
  <1>1. OnboardingInv => DecisionHonoured
    BY DEF OnboardingInv
  <1> QED
    BY <1>1, OnboardingInvInit, OnboardingInvNext, PTL DEF OnboardingSpec

(* The rows of applications, reviews, requests and steps keep their types, whatever the steps
   of a provisioning are called (onboarding-repository.ts, provisioning-repository.ts).         *)
THEOREM OnboardingTypeCorrect == OnboardingSpec => []OnboardingTypeOK
  <1>1. OnboardingInv => OnboardingTypeOK
    BY DEF OnboardingInv
  <1> QED
    BY <1>1, OnboardingInvInit, OnboardingInvNext, PTL DEF OnboardingSpec

-------------------------------------------------------------------------------
(* The accounts of a tenant's people. *)
Deed == {"nothing", "repair", "find", "invite", "record", "provision", "mail", "fail", "shut", "open", "mark active",
         "mark disabled"}
CallType == [does : Deed, key : Key \cup {ANone}, state : {ANone, "invited", "pending", "active"}]
RegisterType == [status : {"none", "invited", "active", "failed", "disabled"}, accepted : BOOLEAN, key : Key \cup {ANone}]
LoginStep == {"idle", "counted", "identified", "directed", "admitted", "cleared", "entered", "linked", "expected",
              "renewed", "accepted"}
AddressConfirmed == identity \in {"confirmed", "password"}

(* What a call is about to write is true of what the other stores say already. *)
CallIsTrue(a) ==
  /\ admin[a].does = "record" /\ admin[a].state = "active" => AddressConfirmed
  /\ admin[a].does \in Deed \ {"nothing", "find", "invite", "record"} => register.status # "none"
  /\ admin[a].does \in {"open", "mark active"} => register.accepted

CallsAreTrue ==
  /\ admin \in [Admin -> CallType] /\ browser \in [Browser -> LoginStep]
  /\ session \in [Browser -> {"none", "live", "revoked", "ended"}]
  /\ \A a \in Admin : CallIsTrue(a)
  /\ \A b \in Browser : browser[b] = "renewed" => identity = "password"
  /\ register.accepted => AddressConfirmed
  /\ register.status = "none" => register.key = ANone

AccountsInv == AccountsTypeOK /\ CallsAreTrue /\ RegisterIsTrue

LEMMA AccountsInvInit == AccountsInit => AccountsInv
  <1> SUFFICES ASSUME AccountsInit PROVE AccountsInv
    OBVIOUS
  <1>1. NoCall \in CallType /\ NoCall.does = "nothing"
    BY DEF NoCall, CallType, Deed
  <1>2. AccountsTypeOK
    <2>1. provisioned \in BOOLEAN /\ link \in BOOLEAN
      BY Zenon DEF AccountsInit
    <2>2. register \in RegisterType /\ member = "none" /\ identity = "none" /\ \A b \in Browser : session[b] = "none"
      BY DEF AccountsInit, RegisterType
    <2>3. bucket \in [attempts : 0..Threshold + 1, old : BOOLEAN, blocked : BOOLEAN]
      BY AccountsAssumption DEF AccountsInit, FreshBucket
    <2> QED
      BY <2>1, <2>2, <2>3 DEF AccountsTypeOK, RegisterType
  <1>3. CallsAreTrue
    BY <1>1 DEF AccountsInit, CallsAreTrue, CallIsTrue, LoginStep
  <1>4. RegisterIsTrue
    BY DEF AccountsInit, RegisterIsTrue
  <1> QED
    BY <1>2, <1>3, <1>4 DEF AccountsInv

(* What nobody takes back: a confirmed address, a row in the register, and that
   it was accepted.                                                            *)
Forward ==
  /\ identity' \in {"none", "unconfirmed", "confirmed", "password"} /\ (AddressConfirmed => AddressConfirmed')
  /\ identity = "password" => identity' = "password"
  /\ register' \in RegisterType /\ (register.status # "none" => register'.status # "none")
  /\ register.accepted => register'.accepted
  /\ register'.status = "none" => register'.key = ANone
  /\ register'.accepted \/ register'.status = "active" => AddressConfirmed'

LEMMA ForwardRest ==
  ASSUME AccountsInv, UNCHANGED register,
         \/ identity' \in {identity, "password"}
         \/ identity \in {"none", "unconfirmed"} /\ identity' \in {"unconfirmed", "confirmed"},
         AddressConfirmed => AddressConfirmed'
  PROVE  Forward
  BY DEF AccountsInv, AccountsTypeOK, CallsAreTrue, RegisterIsTrue, Forward, AddressConfirmed, RegisterType

LEMMA AccountsMove ==
  ASSUME AccountsInv, Forward, provisioned' \in BOOLEAN, link' \in BOOLEAN,
         member' = member \/ (member' \in {"active", "disabled"} /\ register'.status # "none"),
         bucket' \in [attempts : 0..Threshold + 1, old : BOOLEAN, blocked : BOOLEAN],
         admin' \in [Admin -> CallType], \A a \in Admin : admin'[a] = admin[a] \/ CallIsTrue(a)',
         browser' \in [Browser -> LoginStep],
         \A b \in Browser : browser'[b] \in {browser[b], "idle"} \/ (browser'[b] = "renewed" => identity' = "password"),
         session' \in [Browser -> {"none", "live", "revoked", "ended"}]
  PROVE  AccountsInv'
  <1>1. AccountsTypeOK'
    BY DEF AccountsInv, AccountsTypeOK, Forward, RegisterType
  <1>2. \A a \in Admin : CallIsTrue(a)'
    BY DEF AccountsInv, CallsAreTrue, CallIsTrue, Forward
  <1>3. \A b \in Browser : browser'[b] = "renewed" => identity' = "password"
    BY DEF AccountsInv, CallsAreTrue, Forward
  <1>4. CallsAreTrue'
    BY <1>2, <1>3 DEF CallsAreTrue, Forward
  <1>5. RegisterIsTrue'
    BY DEF AccountsInv, RegisterIsTrue, Forward, AddressConfirmed
  <1> QED
    BY <1>1, <1>4, <1>5 DEF AccountsInv

(* The steps of the calls of administrators. *)
CallsMay == admin' \in [Admin -> CallType] /\ \A a \in Admin : admin'[a] = admin[a] \/ CallIsTrue(a)'
PersonMay ==
  /\ browser' \in [Browser -> LoginStep]
  /\ \A b \in Browser : browser'[b] \in {browser[b], "idle"} \/ (browser'[b] = "renewed" => identity' = "password")
  /\ session' \in [Browser -> {"none", "live", "revoked", "ended"}]
  /\ bucket' \in [attempts : 0..Threshold + 1, old : BOOLEAN, blocked : BOOLEAN]

LEMMA CallSet ==
  ASSUME AccountsInv, NEW a \in Admin, NEW x \in CallType, admin' = [admin EXCEPT ![a] = x],
         x.does = "record" /\ x.state = "active" => AddressConfirmed',
         x.does \in Deed \ {"nothing", "find", "invite", "record"} => register'.status # "none",
         x.does \in {"open", "mark active"} => register'.accepted
  PROVE  CallsMay
  <1>1. admin \in [Admin -> CallType]
    BY DEF AccountsInv, CallsAreTrue
  <1>2. admin'[a] = x /\ admin' \in [Admin -> CallType] /\ \A c \in Admin : c # a => admin'[c] = admin[c]
    BY <1>1
  <1>3. CallIsTrue(a)'
    BY <1>2 DEF CallIsTrue
  <1> QED
    BY <1>2, <1>3 DEF CallsMay

LEMMA CallEnds ==
  ASSUME AccountsInv, NEW a \in Admin, AdminEnds(a)
  PROVE  CallsMay
  <1>1. NoCall \in CallType /\ NoCall.does = "nothing"
    BY DEF NoCall, CallType, Deed
  <1>2. admin' = [admin EXCEPT ![a] = NoCall]
    BY DEF AdminEnds
  <1> QED
    BY <1>1, <1>2, CallSet

LEMMA CallGoes ==
  ASSUME AccountsInv, NEW a \in Admin, NEW what \in Deed, NEW state \in {ANone, "invited", "pending", "active"},
         AdminDoes(a, what, state),
         what = "record" /\ state = "active" => AddressConfirmed',
         what \in Deed \ {"nothing", "find", "invite", "record"} => register'.status # "none",
         what \in {"open", "mark active"} => register'.accepted
  PROVE  CallsMay
  <1> DEFINE x == [admin[a] EXCEPT !.does = what, !.state = state]
  <1>1. admin \in [Admin -> CallType]
    BY DEF AccountsInv, CallsAreTrue
  <1>2. x \in CallType /\ x.does = what /\ x.state = state
    BY <1>1 DEF CallType
  <1>3. admin' = [admin EXCEPT ![a] = x]
    BY <1>1 DEF AdminDoes, CallType
  <1> HIDE DEF x
  <1> QED
    BY <1>2, <1>3, CallSet

LEMMA CallBegins ==
  ASSUME AccountsInv, NEW a \in Admin, NEW does \in {"repair", "find", "shut", "open"}, NEW key \in Key \cup {ANone},
         BeginCall(a, does, key), UNCHANGED provisioned,
         does # "find" => register.status # "none", does = "open" => register.accepted
  PROVE  AccountsInv'
  <1> DEFINE x == [does |-> does, key |-> key, state |-> ANone]
  <1>1. admin' = [admin EXCEPT ![a] = x] /\ UNCHANGED <<identity, link, register, member, browser, session, bucket>>
    BY DEF BeginCall, personVars
  <1>2. x \in CallType /\ x.does = does /\ x.does # "record"
    BY DEF CallType, Deed
  <1> HIDE DEF x
  <1>3. CallsMay
    BY <1>1, <1>2, CallSet
  <1>4. Forward
    BY <1>1, ForwardRest DEF AddressConfirmed
  <1>5. /\ provisioned' \in BOOLEAN /\ link' \in BOOLEAN /\ bucket' \in [attempts : 0..Threshold + 1, old : BOOLEAN, blocked : BOOLEAN]
        /\ browser' \in [Browser -> LoginStep] /\ session' \in [Browser -> {"none", "live", "revoked", "ended"}]
    BY <1>1 DEF AccountsInv, AccountsTypeOK, CallsAreTrue
  <1> QED
    BY <1>1, <1>3, <1>4, <1>5, AccountsMove DEF CallsMay

(* A call that goes on leaves the person's browsers alone. *)
LEMMA CallMoves ==
  ASSUME AccountsInv, CallsMay, Forward, UNCHANGED <<provisioned, browser, bucket>>, link' \in BOOLEAN,
         member' = member \/ (member' \in {"active", "disabled"} /\ register'.status # "none"),
         session' \in [Browser -> {"none", "live", "revoked", "ended"}]
  PROVE  AccountsInv'
  <1>1. /\ provisioned' \in BOOLEAN /\ bucket' \in [attempts : 0..Threshold + 1, old : BOOLEAN, blocked : BOOLEAN]
        /\ browser' \in [Browser -> LoginStep] /\ \A b \in Browser : browser'[b] \in {browser[b], "idle"}
    BY DEF AccountsInv, AccountsTypeOK, CallsAreTrue
  <1> QED
    BY <1>1, AccountsMove DEF CallsMay

LEMMA AccountTypes ==
  ASSUME AccountsInv
  PROVE  /\ register \in RegisterType /\ link \in BOOLEAN /\ provisioned \in BOOLEAN
         /\ identity \in {"none", "unconfirmed", "confirmed", "password"}
         /\ bucket \in [attempts : 0..Threshold + 1, old : BOOLEAN, blocked : BOOLEAN]
         /\ admin \in [Admin -> CallType] /\ browser \in [Browser -> LoginStep]
         /\ session \in [Browser -> {"none", "live", "revoked", "ended"}]
  BY DEF AccountsInv, AccountsTypeOK, CallsAreTrue, RegisterType

LEMMA CallHolds ==
  ASSUME AccountsInv, NEW a \in Admin
  PROVE  /\ admin[a] \in CallType /\ CallIsTrue(a) /\ admin[a].does \in Deed
         /\ admin[a].state \in {ANone, "invited", "pending", "active"}
  BY DEF AccountsInv, CallsAreTrue, CallType

LEMMA AdminKeeps ==
  ASSUME AccountsInv, UNCHANGED provisioned, NEW a \in Admin, AdminStep(a)
  PROVE  AccountsInv'
  <1> USE AccountTypes, CallHolds
  <1>1. ASSUME NEW k \in Key, InviteOrganizationUser(a, k) PROVE AccountsInv'
    <2>1. register.key = k => register.status # "none"
      BY AccountsAssumption DEF AccountsInv, CallsAreTrue
    <2> QED
      BY <1>1, <2>1, CallBegins DEF InviteOrganizationUser
  <1>2. CASE DisableUser(a)
    BY <1>2, CallBegins DEF DisableUser
  <1>3. CASE EnableUser(a)
    BY <1>3, CallBegins DEF EnableUser
  <1>4. CASE Repair(a)
    <2>1. /\ register.status # "none" /\ member' = "active" /\ AdminEnds(a)
          /\ UNCHANGED <<identity, link, register, browser, session, bucket>>
      BY <1>4 DEF Repair, ProvisionTenantUser, CallIsTrue, personVars
    <2>2. Forward
      BY <2>1, ForwardRest DEF AddressConfirmed
    <2>3. CallsMay
      BY <2>1, CallEnds
    <2> QED
      BY <2>1, <2>2, <2>3, CallMoves
  <1>5. CASE FindUserByEmail(a)
    <2>1. UNCHANGED <<identity, link, register, member, browser, session, bucket>>
      BY <1>5 DEF FindUserByEmail, personVars
    <2>2. Forward /\ (AddressConfirmed' <=> AddressConfirmed)
      BY <2>1, ForwardRest DEF AddressConfirmed
    <2>3. CallsMay
      <3>1. CASE identity = "none"
        <4>1. AdminDoes(a, "invite", ANone)
          BY <1>5, <3>1 DEF FindUserByEmail
        <4> QED
          BY <4>1, CallGoes DEF Deed
      <3>2. CASE identity # "none"
        <4>1. PICK st \in {"pending", "active"} : AdminDoes(a, "record", st) /\ (st = "active" => identity # "unconfirmed")
          BY <1>5, <3>2 DEF FindUserByEmail
        <4>2. st = "active" => AddressConfirmed'
          BY <2>1, <3>2, <4>1 DEF AddressConfirmed
        <4> QED
          BY <4>1, <4>2, CallGoes DEF Deed
      <3> QED
        BY <3>1, <3>2
    <2> QED
      BY <2>1, <2>2, <2>3, CallMoves
  <1>6. CASE InviteUser(a)
    <2>1. UNCHANGED <<register, member, browser, session, bucket>>
      BY <1>6 DEF InviteUser, personVars
    <2>2. CASE identity \in {"none", "unconfirmed"}
      <3>1. identity' = "unconfirmed" /\ link' = TRUE /\ AdminDoes(a, "record", "invited")
        BY <1>6, <2>2 DEF InviteUser
      <3>2. Forward
        BY <2>1, <2>2, <3>1, ForwardRest DEF AddressConfirmed
      <3>3. CallsMay
        BY <3>1, CallGoes DEF Deed
      <3> QED
        BY <2>1, <3>1, <3>2, <3>3, CallMoves
    <2>3. CASE identity \notin {"none", "unconfirmed"}
      <3>1. AdminEnds(a) /\ UNCHANGED <<identity, link>>
        BY <1>6, <2>3 DEF InviteUser
      <3>2. Forward
        BY <2>1, <3>1, ForwardRest DEF AddressConfirmed
      <3>3. CallsMay
        BY <3>1, CallEnds
      <3> QED
        BY <2>1, <3>1, <3>2, <3>3, CallMoves
    <2> QED
      BY <2>2, <2>3
  <1>7. CASE RecordInvitation(a)
    <2> DEFINE active == admin[a].state = "active"
    <2>1. /\ admin[a].does = "record"
          /\ register' = [status |-> IF active THEN "active" ELSE "invited",
                          accepted |-> register.accepted \/ active, key |-> admin[a].key]
          /\ AdminDoes(a, "provision", admin[a].state)
          /\ UNCHANGED <<identity, link, member, browser, session, bucket>>
      BY <1>7 DEF RecordInvitation, personVars
    <2>2. active => AddressConfirmed
      BY <2>1 DEF CallIsTrue
    <2>3. /\ register' \in RegisterType /\ register'.status \in {"active", "invited"}
          /\ (register'.status = "active" => active) /\ (register'.accepted <=> register.accepted \/ active)
      <3>1. admin[a].key \in Key \cup {ANone} /\ register.accepted \in BOOLEAN
        BY DEF CallType, RegisterType
      <3> QED
        BY <2>1, <3>1 DEF RegisterType
    <2>4. Forward
      BY <2>1, <2>2, <2>3 DEF Forward, AddressConfirmed, AccountsInv, CallsAreTrue
    <2>5. CallsMay
      BY <2>1, <2>3, CallGoes DEF Deed
    <2> QED
      BY <2>1, <2>4, <2>5, CallMoves
  <1>8. CASE GiveAccess(a)
    <2>1. /\ register.status # "none" /\ member' \in {member, "active"}
          /\ UNCHANGED <<identity, link, register, browser, session, bucket>>
          /\ AdminEnds(a) \/ AdminDoes(a, "mail", ANone) \/ AdminDoes(a, "fail", ANone)
      BY <1>8 DEF GiveAccess, ProvisionTenantUser, CallIsTrue, Deed, personVars
    <2>2. Forward
      BY <2>1, ForwardRest DEF AddressConfirmed
    <2>3. CallsMay
      BY <2>1, CallEnds, CallGoes DEF Deed
    <2> QED
      BY <2>1, <2>2, <2>3, CallMoves
  <1>9. CASE MailRecovery(a)
    <2>1. /\ register.status # "none" /\ link' \in BOOLEAN
          /\ UNCHANGED <<identity, member, register, browser, session, bucket>>
          /\ AdminEnds(a) \/ AdminDoes(a, "fail", ANone)
      BY <1>9 DEF MailRecovery, CallIsTrue, Deed, personVars
    <2>2. Forward
      BY <2>1, ForwardRest DEF AddressConfirmed
    <2>3. CallsMay
      BY <2>1, CallEnds, CallGoes DEF Deed
    <2> QED
      BY <2>1, <2>2, <2>3, CallMoves
  <1>10. CASE RecordFailure(a)
    <2>1. /\ register.status # "none" /\ register' = [register EXCEPT !.status = "failed"] /\ AdminEnds(a)
          /\ UNCHANGED <<identity, link, member, browser, session, bucket>>
      BY <1>10 DEF RecordFailure, CallIsTrue, Deed, personVars
    <2>2. register' \in RegisterType /\ register'.status = "failed" /\ register'.accepted = register.accepted
      BY <2>1 DEF RegisterType
    <2>3. Forward
      BY <2>1, <2>2 DEF Forward, AddressConfirmed, AccountsInv, CallsAreTrue
    <2>4. CallsMay
      BY <2>1, CallEnds
    <2> QED
      BY <2>1, <2>3, <2>4, CallMoves
  <1>11. CASE SetTenantUserEnabled(a)
    <2>1. /\ register.status # "none" /\ (admin[a].does = "open" => register.accepted)
          /\ member' = member \/ member' \in {"active", "disabled"}
          /\ UNCHANGED <<identity, link, register, browser, session, bucket>>
          /\ \/ AdminEnds(a) \/ AdminDoes(a, "mark disabled", ANone)
             \/ admin[a].does = "open" /\ AdminDoes(a, "mark active", ANone)
      BY <1>11 DEF SetTenantUserEnabled, CallIsTrue, Deed, personVars
    <2>2. Forward
      BY <2>1, ForwardRest DEF AddressConfirmed
    <2>3. CallsMay
      BY <2>1, CallEnds, CallGoes DEF Deed
    <2> QED
      BY <2>1, <2>2, <2>3, CallMoves
  <1>12. CASE SetRegister(a)
    <2>1. /\ register.status # "none" /\ AdminEnds(a) /\ UNCHANGED <<identity, link, member, browser, bucket>>
      BY <1>12 DEF SetRegister, CallIsTrue, Deed
    <2>2. session' \in [Browser -> {"none", "live", "revoked", "ended"}]
      BY <1>12 DEF SetRegister
    <2>3. \/ register' = [register EXCEPT !.status = "active"] /\ register.accepted
          \/ register' = [register EXCEPT !.status = "disabled"]
      BY <1>12 DEF SetRegister, CallIsTrue
    <2>4. /\ register' \in RegisterType /\ register'.accepted = register.accepted
          /\ register'.status = "disabled" \/ (register'.status = "active" /\ register.accepted)
      BY <2>3 DEF RegisterType
    <2>5. Forward
      BY <2>1, <2>4 DEF Forward, AddressConfirmed, AccountsInv, CallsAreTrue
    <2>6. CallsMay
      BY <2>1, CallEnds
    <2> QED
      BY <2>1, <2>2, <2>5, <2>6, CallMoves
  <1>13. CASE LoseCall(a)
    <2>1. AdminEnds(a) /\ UNCHANGED <<identity, link, register, member, browser, session, bucket>>
      BY <1>13 DEF LoseCall, personVars
    <2>2. Forward
      BY <2>1, ForwardRest DEF AddressConfirmed
    <2>3. CallsMay
      BY <2>1, CallEnds
    <2> QED
      BY <2>1, <2>2, <2>3, CallMoves
  <1> QED
    BY <1>1, <1>2, <1>3, <1>4, <1>5, <1>6, <1>7, <1>8, <1>9, <1>10, <1>11, <1>12, <1>13 DEF AdminStep

(* The steps of the person. *)
LEMMA BrowserSet ==
  ASSUME AccountsInv, NEW b \in Browser, NEW to \in LoginStep, BrowserGoes(b, to), to = "renewed" => identity' = "password"
  PROVE  /\ browser' \in [Browser -> LoginStep]
         /\ \A c \in Browser : browser'[c] \in {browser[c], "idle"} \/ (browser'[c] = "renewed" => identity' = "password")
  BY DEF AccountsInv, CallsAreTrue, BrowserGoes

LEMMA PersonMoves ==
  ASSUME AccountsInv, PersonMay, Forward, UNCHANGED <<provisioned, member, admin>>, link' \in BOOLEAN
  PROVE  AccountsInv'
  <1>1. admin' \in [Admin -> CallType] /\ provisioned' \in BOOLEAN
    BY AccountTypes
  <1>2. \A a \in Admin : admin'[a] = admin[a]
    OBVIOUS
  <1>3. member' = member
    OBVIOUS
  <1>4. /\ browser' \in [Browser -> LoginStep]
        /\ session' \in [Browser -> {"none", "live", "revoked", "ended"}]
        /\ bucket' \in [attempts : 0..Threshold + 1, old : BOOLEAN, blocked : BOOLEAN]
    BY DEF PersonMay
  <1>5. \A b \in Browser : browser'[b] \in {browser[b], "idle"} \/ (browser'[b] = "renewed" => identity' = "password")
    BY DEF PersonMay
  <1> QED
    BY <1>1, <1>2, <1>3, <1>4, <1>5, AccountsMove

LEMMA CountedIsTyped ==
  ASSUME AccountsInv
  PROVE  Counted \in [attempts : 0..Threshold + 1, old : BOOLEAN, blocked : BOOLEAN]
  <1> DEFINE attempts == IF bucket.old THEN 1 ELSE bucket.attempts + 1
             blocked == bucket.blocked \/ (~bucket.old /\ attempts > Threshold)
             shown == IF attempts > Threshold THEN Threshold + 1 ELSE attempts
  <1>1. bucket.attempts \in 0..Threshold + 1 /\ Threshold \in Nat
    BY AccountTypes, AccountsAssumption
  <1>2. shown \in 0..Threshold + 1
    BY <1>1
  <1>3. blocked \in BOOLEAN
    OBVIOUS
  <1>4. Counted = [attempts |-> shown, old |-> FALSE, blocked |-> blocked]
    BY DEF Counted
  <1> HIDE DEF shown, blocked
  <1> QED
    BY <1>2, <1>3, <1>4

LEMMA PersonKeeps ==
  ASSUME AccountsInv, UNCHANGED provisioned, NEW b \in Browser, PersonStep(b)
  PROVE  AccountsInv'
  <1> USE AccountTypes
  <1>1. CASE EnforceAuthRateLimit(b)
    <2>1. PICK to \in LoginStep : BrowserGoes(b, to) /\ to # "renewed"
      BY <1>1 DEF EnforceAuthRateLimit, LoginStep
    <2>2. bucket' = Counted /\ UNCHANGED <<identity, link, register, member, admin, session>>
      BY <1>1 DEF EnforceAuthRateLimit, AtProvider, Unadministered, adminVars
    <2>3. PersonMay
      BY <2>1, <2>2, BrowserSet, CountedIsTyped DEF PersonMay
    <2>4. Forward
      BY <2>2, ForwardRest DEF AddressConfirmed
    <2> QED
      BY <2>2, <2>3, <2>4, PersonMoves
  <1>2. CASE SignInWithPassword(b) \/ ResolveSubjectDestination(b) \/ AssertSubjectAccess(b) \/ LoseLogin(b)
             \/ ResolvePasswordCompletion(b)
    <2>1. PICK to \in LoginStep : BrowserGoes(b, to) /\ to # "renewed"
      BY <1>2 DEF SignInWithPassword, ResolveSubjectDestination, AssertSubjectAccess, LoseLogin, ResolvePasswordCompletion, LoginStep
    <2>2. UNCHANGED <<identity, link, register, member, admin, session, bucket>>
      BY <1>2 DEF SignInWithPassword, ResolveSubjectDestination, AssertSubjectAccess, LoseLogin, ResolvePasswordCompletion,
                  AtProvider, Unadministered, adminVars
    <2>3. PersonMay
      BY <2>1, <2>2, BrowserSet DEF PersonMay
    <2>4. Forward
      BY <2>2, ForwardRest DEF AddressConfirmed
    <2> QED
      BY <2>2, <2>3, <2>4, PersonMoves
  <1>3. CASE ClearAuthRateLimit(b) \/ CreateSession(b)
    <2>1. PICK to \in LoginStep : BrowserGoes(b, to) /\ to # "renewed"
      BY <1>3 DEF ClearAuthRateLimit, CreateSession, LoginStep
    <2>2. UNCHANGED <<identity, link, register, member, admin>>
      BY <1>3 DEF ClearAuthRateLimit, CreateSession, AtProvider, Unadministered, adminVars
    <2>3. FreshBucket \in [attempts : 0..Threshold + 1, old : BOOLEAN, blocked : BOOLEAN]
      BY AccountsAssumption DEF FreshBucket
    <2>4. bucket' \in {bucket, FreshBucket} /\ session' \in [Browser -> {"none", "live", "revoked", "ended"}]
      BY <1>3 DEF ClearAuthRateLimit, CreateSession
    <2>5. PersonMay
      BY <2>1, <2>2, <2>3, <2>4, BrowserSet DEF PersonMay
    <2>6. Forward
      BY <2>2, ForwardRest DEF AddressConfirmed
    <2> QED
      BY <2>2, <2>5, <2>6, PersonMoves
  <1>4. CASE VerifyEmailOtp(b)
    <2>1. /\ BrowserGoes(b, "linked") /\ link' = FALSE /\ UNCHANGED <<register, member, admin, session, bucket>>
          /\ identity' = IF identity = "unconfirmed" THEN "confirmed" ELSE identity
      BY <1>4 DEF VerifyEmailOtp, Unadministered, adminVars
    <2>2. PersonMay
      BY <2>1, BrowserSet DEF PersonMay, LoginStep
    <2>3. Forward
      BY <2>1, ForwardRest DEF AddressConfirmed
    <2> QED
      BY <2>1, <2>2, <2>3, PersonMoves
  <1>5. CASE UpdatePassword(b)
    <2>1. BrowserGoes(b, "renewed") /\ identity' = "password" /\ UNCHANGED <<link, register, member, admin, session, bucket>>
      BY <1>5 DEF UpdatePassword, Unadministered, adminVars
    <2>2. PersonMay
      BY <2>1, BrowserSet DEF PersonMay, LoginStep
    <2>3. Forward
      BY <2>1, ForwardRest DEF AddressConfirmed
    <2> QED
      BY <2>1, <2>2, <2>3, PersonMoves
  <1>6. CASE MarkInvitationAccepted(b)
    <2>1. BrowserGoes(b, "accepted") /\ identity = "password" /\ UNCHANGED <<identity, link, member, admin, session, bucket>>
      BY <1>6 DEF MarkInvitationAccepted, AtProvider, adminVars, AccountsInv, CallsAreTrue
    <2>2. \/ UNCHANGED register
          \/ register.status = "invited" /\ register' = [register EXCEPT !.status = "active", !.accepted = TRUE]
      BY <1>6 DEF MarkInvitationAccepted
    <2>3. Forward
      <3>1. CASE UNCHANGED register
        BY <2>1, <3>1, ForwardRest DEF AddressConfirmed
      <3>2. CASE register.status = "invited" /\ register' = [register EXCEPT !.status = "active", !.accepted = TRUE]
        <4>1. register' \in RegisterType /\ register'.status = "active" /\ register'.accepted
          BY <3>2 DEF RegisterType
        <4> QED
          BY <2>1, <4>1 DEF Forward, AddressConfirmed
      <3> QED
        BY <2>2, <3>1, <3>2
    <2>4. PersonMay
      BY <2>1, BrowserSet DEF PersonMay, LoginStep
    <2> QED
      BY <2>1, <2>3, <2>4, PersonMoves
  <1>7. CASE SessionEnds(b)
    <2>1. UNCHANGED <<identity, link, register, member, admin, browser, bucket>>
      BY <1>7 DEF SessionEnds, AtProvider, Unadministered, adminVars
    <2>2. session' \in [Browser -> {"none", "live", "revoked", "ended"}]
      BY <1>7 DEF SessionEnds
    <2>3. PersonMay
      BY <2>1, <2>2 DEF PersonMay
    <2>4. Forward
      BY <2>1, ForwardRest DEF AddressConfirmed
    <2> QED
      BY <2>1, <2>3, <2>4, PersonMoves
  <1> QED
    BY <1>1, <1>2, <1>3, <1>4, <1>5, <1>6, <1>7 DEF PersonStep

LEMMA AccountsInvNext == AccountsInv /\ [AccountsNext]_accountVars => AccountsInv'
  <1> SUFFICES ASSUME AccountsInv, [AccountsNext]_accountVars PROVE AccountsInv'
    OBVIOUS
  <1>1. CASE \E a \in Admin : UNCHANGED provisioned /\ AdminStep(a)
    BY <1>1, AdminKeeps
  <1>2. CASE \E b \in Browser : UNCHANGED provisioned /\ PersonStep(b)
    BY <1>2, PersonKeeps
  <1>3. CASE UNCHANGED provisioned /\ WindowPasses
    <2>1. UNCHANGED <<identity, link, register, member, admin, browser, session>>
      BY <1>3 DEF WindowPasses, AtProvider, Unadministered, adminVars
    <2>2. bucket' \in [attempts : 0..Threshold + 1, old : BOOLEAN, blocked : BOOLEAN]
      BY <1>3, AccountTypes DEF WindowPasses
    <2>3. PersonMay
      BY <2>1, <2>2, AccountTypes DEF PersonMay
    <2>4. Forward
      BY <2>1, ForwardRest DEF AddressConfirmed
    <2> QED
      BY <1>3, <2>1, <2>3, <2>4, PersonMoves, AccountTypes
  <1>4. CASE UNCHANGED provisioned /\ (ForgotPassword \/ LinkExpires)
    <2>1. UNCHANGED <<identity, register, member, admin, browser, session, bucket>> /\ link' \in BOOLEAN
      BY <1>4 DEF ForgotPassword, LinkExpires, Unadministered, adminVars, personVars
    <2>2. PersonMay
      BY <2>1, AccountTypes DEF PersonMay
    <2>3. Forward
      BY <2>1, ForwardRest DEF AddressConfirmed
    <2> QED
      BY <1>4, <2>1, <2>2, <2>3, PersonMoves
  <1>5. CASE TenantIsProvisioned \/ UNCHANGED accountVars
    <2>1. UNCHANGED <<identity, link, register, member, admin, browser, session, bucket>> /\ provisioned' \in BOOLEAN
      BY <1>5, AccountTypes DEF TenantIsProvisioned, accountVars, adminVars, personVars
    <2>2. Forward
      BY <2>1, ForwardRest DEF AddressConfirmed
    <2> QED
      BY <2>1, <2>2, AccountsMove, AccountTypes
  <1> QED
    BY <1>1, <1>2, <1>3, <1>4, <1>5 DEF AccountsNext

(* In whatever order administrators invite, disable and enable, the person
   follows links and sets passwords, and calls are lost between their writes, an
   account that the register calls active has a confirmed address at the
   provider, and nobody is a member who is not in the register
   (authentication-repository.ts, inviteOrganizationUser).                     *)
THEOREM RegisterIsTrueHolds == AccountsSpec => []RegisterIsTrue
  <1>1. AccountsInv => RegisterIsTrue
    BY DEF AccountsInv
  <1> QED
    BY <1>1, AccountsInvInit, AccountsInvNext, PTL DEF AccountsSpec

(* The provider's identity, the register, the membership, the rate limit's row and the
   sessions keep their types (authentication-repository.ts).                      *)
THEOREM AccountsTypeCorrect == AccountsSpec => []AccountsTypeOK
  <1>1. AccountsInv => AccountsTypeOK
    BY DEF AccountsInv
  <1> QED
    BY <1>1, AccountsInvInit, AccountsInvNext, PTL DEF AccountsSpec

(* Every step that takes the row out of "disabled" ends or advances a call of an
   administrator; a password set in the meantime does not
   (authentication-repository.ts, markInvitationAccepted).                     *)
LEMMA RevivedByAdminStep ==
  AccountsInv /\ [AccountsNext]_accountVars =>
    (register.status = "disabled" /\ register'.status # "disabled" => admin' # admin)
  <1> SUFFICES ASSUME AccountsInv, [AccountsNext]_accountVars, register.status = "disabled",
                      register'.status # "disabled"
               PROVE  admin' # admin
    OBVIOUS
  <1> USE AccountTypes, CallHolds
  <1>1. ASSUME NEW a \in Admin, AdminStep(a) PROVE admin' # admin
    <2>1. register' # register
      OBVIOUS
    <2>2. \/ RecordInvitation(a) \/ RecordFailure(a) \/ SetRegister(a)
      BY <1>1, <2>1 DEF AdminStep, InviteOrganizationUser, DisableUser, EnableUser, BeginCall, Repair, FindUserByEmail, InviteUser,
             GiveAccess, MailRecovery, SetTenantUserEnabled, LoseCall
    <2>3. admin'[a].does # admin[a].does
      <3>1. CASE RecordInvitation(a)
        <4>1. admin[a].does = "record" /\ admin' = [admin EXCEPT ![a].does = "provision", ![a].state = admin[a].state]
          BY <3>1 DEF RecordInvitation, AdminDoes
        <4> DEFINE x == [admin[a] EXCEPT !.does = "provision", !.state = admin[a].state]
        <4>2. x.does = "provision"
          BY DEF CallType
        <4>3. admin'[a] = x
          BY <4>1 DEF CallType
        <4> QED
          BY <4>1, <4>2, <4>3
      <3>2. CASE RecordFailure(a) \/ SetRegister(a)
        <4>1. admin[a].does # "nothing" /\ admin' = [admin EXCEPT ![a] = NoCall]
          BY <3>2 DEF RecordFailure, SetRegister, AdminEnds
        <4>2. admin'[a].does = "nothing"
          BY <4>1 DEF NoCall
        <4> QED
          BY <4>1, <4>2
      <3> QED
        BY <2>2, <3>1, <3>2
    <2> QED
      BY <2>3
  <1>2. ASSUME NEW b \in Browser, PersonStep(b) PROVE FALSE
    <2>1. register' = register
      BY <1>2 DEF PersonStep, EnforceAuthRateLimit, SignInWithPassword, ResolveSubjectDestination, AssertSubjectAccess, ClearAuthRateLimit,
             CreateSession, VerifyEmailOtp, ResolvePasswordCompletion, UpdatePassword, MarkInvitationAccepted, LoseLogin, SessionEnds,
             Unadministered
    <2> QED
      BY <2>1
  <1>3. CASE WindowPasses \/ ForgotPassword \/ LinkExpires \/ TenantIsProvisioned \/ UNCHANGED accountVars
    BY <1>3 DEF WindowPasses, ForgotPassword, LinkExpires, TenantIsProvisioned, accountVars, Unadministered
  <1> QED
    BY <1>1, <1>2, <1>3 DEF AccountsNext

(* A disabled account comes back by the act of an administrator only, whatever the
   person does with the links and logins that are still under way
   (markInvitationAccepted, setOrganizationUserStatus).                            *)
THEOREM RevivedByAdminHolds == AccountsSpec => RevivedByAdminOnly
  <1>1. AccountsInv /\ [AccountsNext]_accountVars =>
          [register.status = "disabled" /\ register'.status # "disabled" => admin' # admin]_accountVars
    BY RevivedByAdminStep
  <1> QED
    BY <1>1, AccountsInvInit, AccountsInvNext, PTL DEF AccountsSpec, RevivedByAdminOnly

-------------------------------------------------------------------------------
(* Logins through the tenant's own identity providers. *)
LoginType == [state : {"none", "open", "consumed", "expired"}, provider : Provider \cup {FNone}]
AssertionType == [of : Login \cup {FNone}, by : Provider \cup {FNone}, valid : BOOLEAN, form : Form \cup {FNone}]
ReportType == [result : {"PASS", "FAIL"}, verified : BOOLEAN, answers : Login \cup {Absent}, says : SUBSET Statement]
ProcessType == [at : {"idle", "config", "trust", "decide", "map"}, login : Login \cup {FNone},
                assertion : Assertion \cup {FNone}, enabled : BOOLEAN, report : ReportType]

FederationTypes ==
  /\ login \in [Login -> LoginType] /\ assertion \in [Assertion -> AssertionType]
  /\ process \in [Process -> ProcessType] /\ ledger \subseteq Assertion /\ enabled \subseteq Provider
  /\ admitted \in Seq(Login \X Assertion)
  /\ \A s \in Assertion : assertion[s].of # FNone => assertion[s].form \in Form

(* An undamaged assertion that answers the login of its own provider. *)
Answers(s, l) == assertion[s].of = l /\ assertion[s].by = login[l].provider /\ "changed" \notin assertion[s].form.faults
GivesRole(s) == \E g \in assertion[s].form.groups : g \in DOMAIN GroupToRole /\ GroupToRole[g] \in AssignableRoles

(* What a request has found out is so, and its login is its own. *)
ProcessKnows(h) ==
  process[h].at # "idle" =>
    /\ process[h].login \in Login /\ login[process[h].login].state = "consumed"
    /\ process[h].assertion \in Assertion /\ assertion[process[h].assertion].of # FNone
    /\ \A k \in Process : k # h /\ process[k].at # "idle" => process[k].login # process[h].login
    /\ \A i \in DOMAIN admitted : admitted[i][1] # process[h].login
    /\ process[h].at = "decide" /\ process[h].report.answers = process[h].login =>
         /\ assertion[process[h].assertion].of = process[h].login
         /\ "changed" \notin assertion[process[h].assertion].form.faults
    /\ process[h].at = "map" => Answers(process[h].assertion, process[h].login)

AdmittedRightly ==
  /\ \A i \in DOMAIN admitted : /\ login[admitted[i][1]].state = "consumed"
                               /\ Answers(admitted[i][2], admitted[i][1]) /\ GivesRole(admitted[i][2])
  /\ \A i, k \in DOMAIN admitted : i # k => admitted[i][1] # admitted[k][1]

FederationInv == FederationTypes /\ (\A h \in Process : ProcessKnows(h)) /\ AdmittedRightly

LEMMA AdmittedPairs ==
  ASSUME FederationTypes, NEW i \in DOMAIN admitted
  PROVE  admitted[i][1] \in Login /\ admitted[i][2] \in Assertion
  BY DEF FederationTypes

(* An assertion answers one login, so two logins were not entered with one. *)
LEMMA FederationInvImplies == FederationInv => AdmittedOnce
  <1> SUFFICES ASSUME FederationInv PROVE AdmittedOnce
    OBVIOUS
  <1>1. ASSUME NEW i \in DOMAIN admitted, NEW k \in DOMAIN admitted, i # k
        PROVE  admitted[i][1] # admitted[k][1] /\ admitted[i][2] # admitted[k][2]
    BY <1>1 DEF FederationInv, AdmittedRightly, Answers
  <1>2. ASSUME NEW i \in DOMAIN admitted
        PROVE  LET s == assertion[admitted[i][2]]
               IN /\ s.of = admitted[i][1] /\ s.by = login[s.of].provider
                  /\ "changed" \notin s.form.faults
                  /\ \E g \in s.form.groups : g \in DOMAIN GroupToRole /\ GroupToRole[g] \in AssignableRoles
    BY <1>2 DEF FederationInv, AdmittedRightly, Answers, GivesRole
  <1> QED
    BY <1>1, <1>2 DEF AdmittedOnce

LEMMA WaitingIsTyped == Waiting \in ProcessType /\ Waiting.at = "idle"
  BY DEF Waiting, ProcessType, ReportType, Failed

LEMMA FederationInvInit == FederationInit => FederationInv
  <1> SUFFICES ASSUME FederationInit PROVE FederationInv
    OBVIOUS
  <1>1. FederationTypes
    <2>1. [of |-> FNone, by |-> FNone, valid |-> FALSE, form |-> FNone] \in AssertionType
      BY DEF AssertionType
    <2>2. [state |-> "none", provider |-> FNone] \in LoginType
      BY DEF LoginType
    <2> QED
      BY <2>1, <2>2, WaitingIsTyped DEF FederationInit, FederationTypes
  <1>2. \A h \in Process : ProcessKnows(h)
    BY WaitingIsTyped DEF FederationInit, ProcessKnows
  <1>3. AdmittedRightly
    BY DEF FederationInit, AdmittedRightly
  <1> QED
    BY <1>1, <1>2, <1>3 DEF FederationInv

(* What a consumed login and an issued assertion say never changes. *)
Settled ==
  /\ \A l \in Login : login[l].state = "consumed" => login'[l].state = "consumed" /\ login'[l].provider = login[l].provider
  /\ \A s \in Assertion : assertion[s].of # FNone =>
        assertion'[s].of = assertion[s].of /\ assertion'[s].by = assertion[s].by /\ assertion'[s].form = assertion[s].form

LEMMA AnswersStays ==
  ASSUME Settled, NEW s \in Assertion, NEW l \in Login, login[l].state = "consumed", Answers(s, l)
  PROVE  Answers(s, l)' /\ (GivesRole(s) => GivesRole(s)')
  BY FederationAssumption DEF Settled, Answers, GivesRole

LEMMA AdmittedStays ==
  ASSUME FederationInv, FederationTypes', Settled, UNCHANGED admitted
  PROVE  AdmittedRightly'
  <1>1. ASSUME NEW i \in DOMAIN admitted
        PROVE  /\ login'[admitted[i][1]].state = "consumed"
               /\ Answers(admitted[i][2], admitted[i][1])' /\ GivesRole(admitted[i][2])'
    <2>1. admitted[i][1] \in Login /\ admitted[i][2] \in Assertion
      BY AdmittedPairs DEF FederationInv
    <2>2. /\ login[admitted[i][1]].state = "consumed"
          /\ Answers(admitted[i][2], admitted[i][1]) /\ GivesRole(admitted[i][2])
      BY DEF FederationInv, AdmittedRightly
    <2>3. login'[admitted[i][1]].state = "consumed"
      BY <2>1, <2>2 DEF Settled
    <2> QED
      BY <2>1, <2>2, <2>3, AnswersStays
  <1> QED
    BY <1>1 DEF FederationInv, AdmittedRightly

(* A request that is as it was, among others that are as they were or wait. *)
LEMMA KnowsStill ==
  ASSUME FederationInv, Settled, UNCHANGED admitted, NEW h \in Process, process'[h] = process[h],
         \A k \in Process : \/ process'[k].at = "idle"
                            \/ process'[k].login = process[k].login /\ process[k].at # "idle"
                            \/ process'[k].login # process[h].login
  PROVE  ProcessKnows(h)'
  <1> SUFFICES ASSUME process[h].at # "idle" PROVE ProcessKnows(h)'
    BY DEF ProcessKnows
  <1>1. /\ process[h].login \in Login /\ login[process[h].login].state = "consumed"
        /\ process[h].assertion \in Assertion /\ assertion[process[h].assertion].of # FNone
    BY DEF FederationInv, ProcessKnows
  <1>2. /\ login'[process[h].login].state = "consumed" /\ assertion'[process[h].assertion].of = assertion[process[h].assertion].of
        /\ assertion'[process[h].assertion].form = assertion[process[h].assertion].form
    BY <1>1 DEF Settled
  <1>3. process[h].at = "map" => Answers(process[h].assertion, process[h].login)'
    BY <1>1, AnswersStays DEF FederationInv, ProcessKnows
  <1>4. \A k \in Process : k # h /\ process'[k].at # "idle" => process'[k].login # process[h].login
    BY DEF FederationInv, ProcessKnows
  <1>5. \A i \in DOMAIN admitted : admitted[i][1] # process[h].login
    BY DEF FederationInv, ProcessKnows
  <1>6. process[h].at = "decide" /\ process[h].report.answers = process[h].login =>
          /\ assertion[process[h].assertion].of = process[h].login
          /\ "changed" \notin assertion[process[h].assertion].form.faults
    BY DEF FederationInv, ProcessKnows
  <1> QED
    BY <1>1, <1>2, <1>3, <1>4, <1>5, <1>6 DEF ProcessKnows, Answers

LEMMA EnvironmentMoves ==
  ASSUME FederationInv, FederationTypes', Settled, UNCHANGED <<process, admitted>>
  PROVE  FederationInv'
  <1>1. \A h \in Process : ProcessKnows(h)'
    <2> SUFFICES ASSUME NEW h \in Process PROVE ProcessKnows(h)'
      OBVIOUS
    <2>1. \A k \in Process : process'[k].at = "idle" \/ (process'[k].login = process[k].login /\ process[k].at # "idle")
      OBVIOUS
    <2> QED
      BY <2>1, KnowsStill
  <1> QED
    BY <1>1, AdmittedStays DEF FederationInv

LEMMA ProcessMoves ==
  ASSUME FederationInv, FederationTypes', Settled, UNCHANGED admitted, NEW h \in Process,
         \A k \in Process : k # h => process'[k] = process[k],
         process'[h].at # "idle" =>
           /\ ProcessKnows(h)'
           /\ \/ process'[h].login = process[h].login /\ process[h].at # "idle"
              \/ \A k \in Process : process[k].at # "idle" => process'[h].login # process[k].login
  PROVE  FederationInv'
  <1>1. ASSUME NEW k \in Process PROVE ProcessKnows(k)'
    <2>1. CASE k = h
      <3>1. CASE process'[h].at = "idle"
        BY <2>1, <3>1 DEF ProcessKnows
      <3>2. CASE process'[h].at # "idle"
        BY <2>1, <3>2
      <3> QED
        BY <3>1, <3>2
    <2>2. CASE k # h /\ process[k].at = "idle"
      BY <2>2 DEF ProcessKnows
    <2>3. CASE k # h /\ process[k].at # "idle"
      <3>1. \A q \in Process :
              \/ process'[q].at = "idle"
              \/ process'[q].login = process[q].login /\ process[q].at # "idle"
              \/ process'[q].login # process[k].login
        BY <2>3
      <3> QED
        BY <2>3, <3>1, KnowsStill
    <2> QED
      BY <2>1, <2>2, <2>3
  <1> QED
    BY <1>1, AdmittedStays DEF FederationInv

LEMMA LoginSet ==
  ASSUME FederationInv, UNCHANGED <<assertion, ledger, enabled, process, admitted>>, NEW l \in Login,
         NEW x \in LoginType, login' = [login EXCEPT ![l] = x], login[l].state # "consumed"
  PROVE  FederationInv'
  <1>1. login' \in [Login -> LoginType]
    BY DEF FederationInv, FederationTypes
  <1>2. FederationTypes'
    BY <1>1 DEF FederationInv, FederationTypes
  <1>3. Settled
    BY DEF Settled, FederationInv, FederationTypes
  <1> QED
    BY <1>2, <1>3, EnvironmentMoves

LEMMA AssertionSet ==
  ASSUME FederationInv, UNCHANGED <<login, ledger, enabled, process, admitted>>, NEW s \in Assertion,
         NEW x \in AssertionType, assertion' = [assertion EXCEPT ![s] = x],
         x.form \in Form \/ x.of = FNone,
         assertion[s].of # FNone => x.of = assertion[s].of /\ x.by = assertion[s].by /\ x.form = assertion[s].form
  PROVE  FederationInv'
  <1>1. assertion' \in [Assertion -> AssertionType]
    BY DEF FederationInv, FederationTypes
  <1>2. FederationTypes'
    BY <1>1 DEF FederationInv, FederationTypes
  <1>3. Settled
    BY DEF Settled, FederationInv, FederationTypes
  <1> QED
    BY <1>2, <1>3, EnvironmentMoves

LEMMA FederationTyped ==
  ASSUME FederationInv
  PROVE  /\ \A l \in Login : login[l] \in LoginType
         /\ \A s \in Assertion : assertion[s] \in AssertionType /\ (assertion[s].of # FNone => assertion[s].form \in Form)
         /\ \A h \in Process : process[h] \in ProcessType
         /\ login \in [Login -> LoginType] /\ assertion \in [Assertion -> AssertionType] /\ process \in [Process -> ProcessType]
  BY DEF FederationInv, FederationTypes

LEMMA SurroundingsKeep ==
  ASSUME FederationInv,
         \/ \E l \in Login, p \in Provider : StartLogin(l, p)
         \/ \E l \in Login : LoginExpires(l)
         \/ \E s \in Assertion : AssertionExpires(s) \/ \E l \in Login : IssueAssertion(s, l)
         \/ PruneLedger \/ UNCHANGED federationVars \/ \E p \in Provider : SwitchProvider(p)
  PROVE  FederationInv'
  <1> USE FederationTyped
  <1>1. ASSUME NEW l \in Login, NEW p \in Provider, StartLogin(l, p) PROVE FederationInv'
    <2>1. [state |-> "open", provider |-> p] \in LoginType
      BY DEF LoginType
    <2> QED
      BY <1>1, <2>1, LoginSet DEF StartLogin
  <1>2. ASSUME NEW l \in Login, LoginExpires(l) PROVE FederationInv'
    <2>1. [login[l] EXCEPT !.state = "expired"] \in LoginType
      BY DEF LoginType
    <2>2. login' = [login EXCEPT ![l] = [login[l] EXCEPT !.state = "expired"]]
      BY <1>2 DEF LoginExpires
    <2> QED
      BY <1>2, <2>1, <2>2, LoginSet DEF LoginExpires
  <1>3. ASSUME NEW s \in Assertion, AssertionExpires(s) PROVE FederationInv'
    <2> DEFINE x == [assertion[s] EXCEPT !.valid = FALSE]
    <2>1. /\ x \in AssertionType /\ x.of = assertion[s].of /\ x.by = assertion[s].by /\ x.form = assertion[s].form
      BY DEF AssertionType
    <2>2. assertion' = [assertion EXCEPT ![s] = x] /\ UNCHANGED <<login, ledger, enabled, process, admitted>>
      BY <1>3 DEF AssertionExpires
    <2>3. x.form \in Form \/ x.of = FNone
      BY <2>1
    <2> HIDE DEF x
    <2> QED
      BY <2>1, <2>2, <2>3, AssertionSet
  <1>4. ASSUME NEW s \in Assertion, NEW l \in Login, IssueAssertion(s, l) PROVE FederationInv'
    <2>1. PICK form \in Form : assertion' = [assertion EXCEPT ![s] = [of |-> l, by |-> login[l].provider, valid |-> TRUE, form |-> form]]
      BY <1>4 DEF IssueAssertion
    <2> DEFINE x == [of |-> l, by |-> login[l].provider, valid |-> TRUE, form |-> form]
    <2>2. x \in AssertionType /\ x.form \in Form
      BY DEF AssertionType, LoginType
    <2>3. assertion' = [assertion EXCEPT ![s] = x] /\ UNCHANGED <<login, ledger, enabled, process, admitted>>
      BY <1>4, <2>1 DEF IssueAssertion
    <2>4. assertion[s].of = FNone
      BY <1>4 DEF IssueAssertion
    <2> HIDE DEF x
    <2> QED
      BY <2>2, <2>3, <2>4, AssertionSet
  <1>5. CASE PruneLedger \/ (\E p \in Provider : SwitchProvider(p)) \/ UNCHANGED federationVars
    <2>1. UNCHANGED <<login, assertion, process, admitted>> /\ ledger' \subseteq Assertion /\ enabled' \subseteq Provider
      BY <1>5 DEF PruneLedger, SwitchProvider, federationVars, FederationInv, FederationTypes
    <2>2. FederationTypes' /\ Settled
      BY <2>1 DEF FederationInv, FederationTypes, Settled
    <2> QED
      BY <2>1, <2>2, EnvironmentMoves
  <1> QED
    BY <1>1, <1>2, <1>3, <1>4, <1>5

LEMMA ProcessSet ==
  ASSUME FederationInv, UNCHANGED <<assertion, enabled, admitted>>, login' \in [Login -> LoginType],
         \A l \in Login : login[l].state = "consumed" => login'[l] = login[l],
         ledger' \subseteq Assertion, NEW h \in Process, NEW x \in ProcessType, process' = [process EXCEPT ![h] = x]
  PROVE  /\ FederationTypes' /\ Settled /\ process'[h] = x
         /\ \A k \in Process : k # h => process'[k] = process[k]
  BY DEF FederationInv, FederationTypes, Settled

LEMMA ConsumeStep ==
  ASSUME FederationInv, NEW h \in Process, NEW l \in Login, NEW s \in Assertion, NEW p \in Provider, ConsumeLogin(h, l, s, p)
  PROVE  FederationInv'
  <1> USE FederationTyped
  <1> DEFINE y == [login[l] EXCEPT !.state = "consumed"]
             x == [Waiting EXCEPT !.at = "config", !.login = l, !.assertion = s]
  <1>1. /\ process[h] = Waiting /\ assertion[s].of # FNone /\ login[l].state = "open"
        /\ login' = [login EXCEPT ![l] = y] /\ UNCHANGED <<assertion, ledger, enabled, admitted>>
        /\ process' = process \/ process' = [process EXCEPT ![h] = x]
    BY DEF ConsumeLogin
  <1>2. y \in LoginType /\ y.state = "consumed"
    BY DEF LoginType
  <1>3. x \in ProcessType /\ x.at = "config" /\ x.login = l /\ x.assertion = s
    BY WaitingIsTyped DEF ProcessType
  <1> HIDE DEF x, y
  <1>4. login' \in [Login -> LoginType] /\ login'[l].state = "consumed" /\ \A m \in Login : m # l => login'[m] = login[m]
    BY <1>1, <1>2
  <1>5. \A m \in Login : login[m].state = "consumed" => login'[m] = login[m]
    BY <1>1, <1>4
  <1>6. ledger' \subseteq Assertion
    BY <1>1 DEF FederationInv, FederationTypes
  <1>7. CASE process' = process
    <2>1. FederationTypes' /\ Settled
      BY <1>1, <1>4, <1>5, <1>7 DEF FederationInv, FederationTypes, Settled
    <2> QED
      BY <1>1, <1>7, <2>1, EnvironmentMoves
  <1>8. CASE process' = [process EXCEPT ![h] = x]
    <2>1. /\ FederationTypes' /\ Settled /\ process'[h] = x
          /\ \A k \in Process : k # h => process'[k] = process[k]
      BY <1>1, <1>3, <1>4, <1>5, <1>6, <1>8, ProcessSet
    <2>2. \A k \in Process : process[k].at # "idle" => l # process[k].login
      BY <1>1 DEF FederationInv, ProcessKnows
    <2>3. \A i \in DOMAIN admitted : admitted[i][1] # l
      BY <1>1 DEF FederationInv, AdmittedRightly
    <2>4. ProcessKnows(h)'
      BY <1>1, <1>3, <1>4, <2>1, <2>2, <2>3 DEF ProcessKnows
    <2> QED
      BY <1>1, <1>3, <2>1, <2>2, <2>4, ProcessMoves
  <1> QED
    BY <1>1, <1>7, <1>8

(* A request that goes on with what it has, to somewhere. *)
LEMMA GoesOn ==
  ASSUME FederationInv, NEW h \in Process, NEW x \in ProcessType, process' = [process EXCEPT ![h] = x],
         UNCHANGED <<login, assertion, enabled, admitted>>, ledger' \subseteq Assertion,
         x.at # "idle" =>
           /\ process[h].at # "idle" /\ x.login = process[h].login /\ x.assertion = process[h].assertion
           /\ x.at = "decide" /\ x.report.answers = x.login =>
                assertion[x.assertion].of = x.login /\ "changed" \notin assertion[x.assertion].form.faults
           /\ x.at = "map" => Answers(x.assertion, x.login)
  PROVE  FederationInv'
  <1>1. /\ FederationTypes' /\ Settled /\ process'[h] = x
        /\ \A k \in Process : k # h => process'[k] = process[k]
    <2>1. login' \in [Login -> LoginType] /\ \A l \in Login : login'[l] = login[l]
      BY FederationTyped
    <2> QED
      BY <2>1, ProcessSet
  <1>2. CASE x.at = "idle"
    BY <1>1, <1>2, ProcessMoves
  <1>3. CASE x.at # "idle"
    <2>1. process[h].at # "idle" /\ x.login = process[h].login /\ x.assertion = process[h].assertion
      BY <1>3
    <2>2. /\ x.login \in Login /\ login[x.login].state = "consumed"
          /\ x.assertion \in Assertion /\ assertion[x.assertion].of # FNone
          /\ \A k \in Process : k # h /\ process[k].at # "idle" => process[k].login # x.login
          /\ \A i \in DOMAIN admitted : admitted[i][1] # x.login
      BY <2>1 DEF FederationInv, ProcessKnows
    <2>3. ProcessKnows(h)'
      BY <1>1, <1>3, <2>2 DEF ProcessKnows, Answers
    <2> QED
      BY <1>1, <2>1, <2>3, ProcessMoves
  <1> QED
    BY <1>2, <1>3

LEMMA ConfigStep ==
  ASSUME FederationInv, NEW h \in Process, ConfigFor(h)
  PROVE  FederationInv'
  <1> DEFINE on == login[process[h].login].provider \in enabled
             x == [process[h] EXCEPT !.at = "trust", !.enabled = on]
  <1>1. process[h].at = "config" /\ UNCHANGED <<login, assertion, ledger, enabled, admitted>>
    BY DEF ConfigFor
  <1>2. process' = [process EXCEPT ![h] = x]
    BY FederationTyped DEF ConfigFor, ProcessType
  <1>3. x \in ProcessType /\ x.at = "trust" /\ x.login = process[h].login /\ x.assertion = process[h].assertion
    <2>1. on \in BOOLEAN
      OBVIOUS
    <2> HIDE DEF on
    <2> QED
      BY <2>1, FederationTyped DEF ProcessType
  <1>4. ledger' \subseteq Assertion
    BY <1>1 DEF FederationInv, FederationTypes
  <1> HIDE DEF x
  <1> QED
    BY <1>1, <1>2, <1>3, <1>4, GoesOn

(* A report that passes is about an undamaged message and answers what that says. *)
LEMMA ReportIsTrue ==
  ASSUME NEW m, m.says \subseteq Statement, m.inside \in Login \cup {Absent}, m.outside \in Login \cup {Absent},
         NEW certificate, NEW report \in {ValidateSaml(m, certificate), ValidateOidc(m, certificate)}
  PROVE  /\ report \in ReportType
         /\ report.result = "PASS" => "changed" \notin m.faults /\ report.answers \in {m.inside, m.outside}
  <1>1. Failed \in ReportType /\ Failed.result = "FAIL"
    BY DEF Failed, ReportType
  <1>2. CASE report = Failed
    BY <1>1, <1>2
  <1>3. CASE report # Failed /\ report = ValidateSaml(m, certificate)
    <2>1. /\ report = [result |-> "PASS", verified |-> TRUE, answers |-> AnsweredLogin(m), says |-> m.says \ {"issued"}]
          /\ "changed" \notin m.faults
      BY <1>3 DEF ValidateSaml, SignerIsConfigured
    <2>2. AnsweredLogin(m) \in {m.inside, m.outside}
      BY DEF AnsweredLogin
    <2> QED
      BY <2>1, <2>2 DEF ReportType
  <1>4. CASE report # Failed /\ report = ValidateOidc(m, certificate)
    <2>1. /\ report = [result |-> "PASS", verified |-> TRUE, answers |-> m.inside, says |-> (m.says \ {"issued"}) \cup AuthTime(m)]
          /\ "changed" \notin m.faults
      BY <1>4 DEF ValidateOidc, VerifyCompactJws
    <2>2. AuthTime(m) \subseteq Statement
      BY DEF AuthTime, Statement
    <2>3. (m.says \ {"issued"}) \cup AuthTime(m) \in SUBSET Statement
      BY <2>2
    <2> QED
      BY <2>1, <2>3 DEF ReportType
  <1> QED
    BY <1>2, <1>3, <1>4

LEMMA ValidateStep ==
  ASSUME FederationInv, NEW h \in Process, ValidateAssertion(h)
  PROVE  FederationInv'
  <1> DEFINE s == process[h].assertion
             m == Message(s)
             report == IF ProtocolFor(login[process[h].login].provider) = "SAML2"
                       THEN ValidateSaml(m, Trusted) ELSE ValidateOidc(m, Trusted)
             x == [process[h] EXCEPT !.at = "decide", !.report = report]
  <1>1. /\ process[h].at = "trust" /\ UNCHANGED <<login, assertion, ledger, enabled, admitted>>
        /\ process' = [process EXCEPT ![h] = Waiting]
           \/ (process' = [process EXCEPT ![h].at = "decide", ![h].report = report] /\ ToWorkforceAssertion(report))
    BY DEF ValidateAssertion
  <1>2. s \in Assertion /\ assertion[s].of # FNone /\ assertion[s] \in AssertionType /\ assertion[s].form \in Form
    BY <1>1, FederationTyped DEF FederationInv, ProcessKnows
  <1>3. /\ m.says \subseteq Statement /\ m.faults = assertion[s].form.faults
        /\ m.inside \in {assertion[s].of, Absent} /\ m.outside \in {assertion[s].of, Absent}
    BY <1>2, FederationAssumption DEF Message
  <1>4. assertion[s].of \in Login
    BY <1>2 DEF AssertionType
  <1> HIDE DEF m
  <1>5. report \in {ValidateSaml(m, Trusted), ValidateOidc(m, Trusted)}
    OBVIOUS
  <1> HIDE DEF report
  <1>6. /\ report \in ReportType
        /\ report.result = "PASS" => "changed" \notin m.faults /\ report.answers \in {m.inside, m.outside}
    BY <1>3, <1>4, <1>5, ReportIsTrue
  <1>7. ledger' \subseteq Assertion
    BY <1>1 DEF FederationInv, FederationTypes
  <1>8. CASE process' = [process EXCEPT ![h] = Waiting]
    BY <1>1, <1>7, <1>8, WaitingIsTyped, GoesOn
  <1>9. CASE process' = [process EXCEPT ![h].at = "decide", ![h].report = report] /\ ToWorkforceAssertion(report)
    <2>1. process' = [process EXCEPT ![h] = x]
      BY <1>9, FederationTyped DEF ProcessType
    <2>2. /\ x \in ProcessType /\ x.at = "decide" /\ x.login = process[h].login /\ x.assertion = s /\ x.report = report
      BY <1>6, FederationTyped DEF ProcessType
    <2>3. report.answers \in {assertion[s].of, Absent} /\ "changed" \notin assertion[s].form.faults
      BY <1>3, <1>6, <1>9 DEF ToWorkforceAssertion
    <2>4. process[h].login \in Login
      BY <1>1 DEF FederationInv, ProcessKnows
    <2>5. report.answers = process[h].login => assertion[s].of = process[h].login
      BY <2>3, <2>4, FederationAssumption
    <2> HIDE DEF x
    <2> QED
      BY <1>1, <1>7, <2>1, <2>2, <2>3, <2>5, GoesOn
  <1> QED
    BY <1>1, <1>8, <1>9

LEMMA VerifyStep ==
  ASSUME FederationInv, NEW h \in Process, VerifyWorkforceAssertion(h)
  PROVE  FederationInv'
  <1> DEFINE s == process[h].assertion
             fresh == Acceptable(h) /\ s \notin ledger
             x == [process[h] EXCEPT !.at = "map"]
  <1>1. /\ process[h].at = "decide" /\ UNCHANGED <<login, assertion, enabled, admitted>>
        /\ ledger' \in {ledger, ledger \cup {s}}
        /\ process' = [process EXCEPT ![h] = Waiting] \/ (process' = [process EXCEPT ![h] = x] /\ Acceptable(h))
    BY DEF VerifyWorkforceAssertion, Goes, Refused
  <1>2. s \in Assertion /\ ledger' \subseteq Assertion
    BY <1>1 DEF FederationInv, FederationTypes, ProcessKnows
  <1>3. CASE process' = [process EXCEPT ![h] = Waiting]
    BY <1>1, <1>2, <1>3, WaitingIsTyped, GoesOn
  <1>4. CASE process' = [process EXCEPT ![h] = x] /\ Acceptable(h)
    <2>1. x \in ProcessType /\ x.at = "map" /\ x.login = process[h].login /\ x.assertion = s
      BY FederationTyped DEF ProcessType
    <2>2. Answers(s, process[h].login)
      BY <1>1, <1>4 DEF Acceptable, Answers, FederationInv, ProcessKnows
    <2> HIDE DEF x
    <2> QED
      BY <1>1, <1>2, <1>4, <2>1, <2>2, GoesOn
  <1> QED
    BY <1>1, <1>3, <1>4

LEMMA MapStep ==
  ASSUME FederationInv, NEW h \in Process, MapWorkforceIdentity(h)
  PROVE  FederationInv'
  <1> DEFINE s == process[h].assertion
             l == process[h].login
  <1>1. /\ process[h].at = "map" /\ process' = [process EXCEPT ![h] = Waiting]
        /\ UNCHANGED <<login, assertion, ledger, enabled>>
    BY DEF MapWorkforceIdentity, Refused
  <1>2. /\ l \in Login /\ s \in Assertion /\ login[l].state = "consumed" /\ Answers(s, l)
        /\ \A k \in Process : k # h /\ process[k].at # "idle" => process[k].login # l
        /\ \A i \in DOMAIN admitted : admitted[i][1] # l
    BY <1>1 DEF FederationInv, ProcessKnows
  <1>3. CASE UNCHANGED admitted
    <2>1. ledger' \subseteq Assertion
      BY <1>1 DEF FederationInv, FederationTypes
    <2> QED
      BY <1>1, <1>3, <2>1, WaitingIsTyped, GoesOn
  <1>4. CASE admitted' = Append(admitted, <<l, s>>) /\ MappedRoles(assertion[s].form.groups) # {}
    <2>1. GivesRole(s)
      BY <1>4 DEF MappedRoles, GivesRole
    <2>2. admitted \in Seq(Login \X Assertion) /\ <<l, s>> \in Login \X Assertion
      BY <1>2 DEF FederationInv, FederationTypes
    <2>3. /\ admitted' \in Seq(Login \X Assertion) /\ Len(admitted') = Len(admitted) + 1
          /\ admitted'[Len(admitted) + 1] = <<l, s>>
          /\ \A i \in 1..Len(admitted) : admitted'[i] = admitted[i]
          /\ DOMAIN admitted' = 1..Len(admitted) + 1 /\ DOMAIN admitted = 1..Len(admitted) /\ Len(admitted) \in Nat
      BY <1>4, <2>2
    <2>4. process'[h] = Waiting /\ \A k \in Process : k # h => process'[k] = process[k]
      BY <1>1, FederationTyped
    <2>5. FederationTypes'
      BY <1>1, <2>3, WaitingIsTyped DEF FederationInv, FederationTypes
    <2>6. ASSUME NEW i \in DOMAIN admitted'
          PROVE  \/ i \in DOMAIN admitted /\ admitted'[i] = admitted[i]
                 \/ i = Len(admitted) + 1 /\ admitted'[i] = <<l, s>>
      BY <2>3
    <2>7. ASSUME NEW k \in Process PROVE ProcessKnows(k)'
      <3>1. CASE k = h
        BY <2>4, <3>1, WaitingIsTyped DEF ProcessKnows
      <3>2. CASE k # h
        <4>1. process[k].at # "idle" => \A i \in DOMAIN admitted' : admitted'[i][1] # process[k].login
          BY <1>2, <2>6, <3>2 DEF FederationInv, ProcessKnows
        <4>2. process'[k] = process[k] /\ ProcessKnows(k)
          BY <2>4, <3>2 DEF FederationInv
        <4>3. process[k].at # "idle" =>
                \A q \in Process : q # k /\ process'[q].at # "idle" => process'[q].login # process[k].login
          BY <2>4, <4>2, WaitingIsTyped DEF ProcessKnows
        <4> QED
          BY <1>1, <4>1, <4>2, <4>3 DEF ProcessKnows, Answers
      <3> QED
        BY <3>1, <3>2
    <2>8. AdmittedRightly'
      <3>1. \A i \in DOMAIN admitted : /\ login[admitted[i][1]].state = "consumed"
                                      /\ Answers(admitted[i][2], admitted[i][1]) /\ GivesRole(admitted[i][2])
        BY DEF FederationInv, AdmittedRightly
      <3>2. \A i \in DOMAIN admitted' : /\ login[admitted'[i][1]].state = "consumed"
                                       /\ Answers(admitted'[i][2], admitted'[i][1]) /\ GivesRole(admitted'[i][2])
        BY <1>2, <2>1, <2>6, <3>1
      <3>3. \A i, k \in DOMAIN admitted' : i # k => admitted'[i][1] # admitted'[k][1]
        BY <1>2, <2>6 DEF FederationInv, AdmittedRightly
      <3> QED
        BY <1>1, <3>2, <3>3 DEF AdmittedRightly, Answers, GivesRole
    <2> QED
      BY <2>5, <2>7, <2>8 DEF FederationInv
  <1> QED
    BY <1>3, <1>4 DEF MapWorkforceIdentity

LEMMA FederationInvNext == FederationInv /\ [FederationNext]_federationVars => FederationInv'
  <1> SUFFICES ASSUME FederationInv, [FederationNext]_federationVars PROVE FederationInv'
    OBVIOUS
  <1>1. ASSUME NEW h \in Process, LoseProcess(h) PROVE FederationInv'
    <2>1. ledger' \subseteq Assertion
      BY <1>1 DEF LoseProcess, FederationInv, FederationTypes
    <2> QED
      BY <1>1, <2>1, WaitingIsTyped, GoesOn DEF LoseProcess, Refused
  <1>2. ASSUME NEW h \in Process,
               \/ \E l \in Login, s \in Assertion, p \in Provider : ConsumeLogin(h, l, s, p)
               \/ ConfigFor(h) \/ ValidateAssertion(h) \/ VerifyWorkforceAssertion(h) \/ MapWorkforceIdentity(h)
        PROVE  FederationInv'
    BY <1>2, ConsumeStep, ConfigStep, ValidateStep, VerifyStep, MapStep
  <1>3. CASE \/ \E l \in Login, p \in Provider : StartLogin(l, p)
             \/ \E l \in Login : LoginExpires(l)
             \/ \E s \in Assertion : AssertionExpires(s) \/ \E l \in Login : IssueAssertion(s, l)
             \/ PruneLedger \/ UNCHANGED federationVars \/ \E p \in Provider : SwitchProvider(p)
    BY <1>3, SurroundingsKeep
  <1> QED
    BY <1>1, <1>2, <1>3 DEF FederationNext

(* Logins, assertions and the ledger keep their types (federation-repository.ts). *)
THEOREM FederationTypeCorrect == FederationSpec => []FederationTypeOK
  <1>1. FederationInv => FederationTypeOK
    BY DEF FederationInv, FederationTypes, FederationTypeOK, LoginType, AssertionType
  <1> QED
    BY <1>1, FederationInvInit, FederationInvNext, PTL DEF FederationSpec

(* In whichever processes, how often and how late assertions are presented, a
   login lets somebody in once, with an undamaged assertion issued for it by its
   own provider, which gives a role, and which no other login was entered with
   (federation-repository.ts, consumeLogin; the two validators).               *)
THEOREM AdmittedOnceHolds == FederationSpec => []AdmittedOnce
  BY FederationInvImplies, FederationInvInit, FederationInvNext, PTL DEF FederationSpec

-------------------------------------------------------------------------------
(* Side by side.  The parts share no variable, and a step of one leaves the others
   alone; the two halves of an application's way take different steps of it.      *)
LEMMA StepOfEveryPart ==
  ASSUME [Next]_<<draftVars, idemVars, onboardingVars, accountVars, federationVars, domainVars, part>>
  PROVE  /\ [DraftNext]_draftVars /\ [IdemNext]_idemVars /\ [OnboardingNext]_onboardingVars
         /\ [AccountsNext]_accountVars /\ [FederationNext]_federationVars /\ [DomainsNext]_domainVars
  <1>1. CASE TenantNext /\ UNCHANGED <<draftVars, idemVars, accountVars, federationVars, domainVars>>
    BY <1>1 DEF TenantNext, OnboardingNext
  <1> QED BY <1>1 DEF Next

(* The parts before signing, composed as the run checks them, keep every variable to
   its type; in particular a document has one status and one job, the answer to a
   key is one of the four a caller can be given, and login attempts are not counted
   past the block.                                                                *)
THEOREM BeforeSigningTypeCorrect == Spec => []BeforeSigningTypeOK
  <1>1. Init => DraftInit /\ IdemInit /\ OnboardingInit /\ AccountsInit /\ FederationInit /\ DomainsInit
    BY DEF Init
  <1>2. Spec => DraftSpec /\ IdemSpec /\ OnboardingSpec /\ AccountsSpec /\ FederationSpec /\ DomainsSpec
    BY <1>1, StepOfEveryPart, PTL DEF Spec, DraftSpec, IdemSpec, OnboardingSpec, AccountsSpec, FederationSpec,
                                          DomainsSpec
  <1> QED BY <1>2, DraftTypeCorrect, IdemTypeCorrect, OnboardingTypeCorrect, AccountsTypeCorrect,
             FederationTypeCorrect, DomainsTypeCorrect, PTL DEF BeforeSigningTypeOK

===============================================================================
