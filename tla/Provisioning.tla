----------------------------- MODULE Provisioning -----------------------------
(* Making the tenant of an approved application: a list of steps, each in two
   transactions of the control database, run by a TENANT_PROVISION job.  The
   claim of the request is a soft one: fifteen minutes after the last sign of
   life another worker may take it over while the first is still at work, and a
   worker that fails marks request, step and application whoever holds them.  *)
EXTENDS Naturals, Sequences, Functions, FiniteSets, FiniteSetsExt

CONSTANTS
    Runner,        \* deliveries of the job that may be at work at once
    Steps,         \* the step keys, in their order
    PNone,
    MaxAttempts    \* claims of the request that are looked at

ASSUME ProvisioningAssumption ==
    /\ Steps \in Seq(STRING) /\ IsInjective(Steps) /\ MaxAttempts \in Nat
    /\ {"reserve_tenant_slug", "assign_data_plane", "create_environment",
        "create_default_domain"} \subseteq Range(Steps)

VARIABLES
    application,   \* control.onboarding_applications.status
    request,       \* the row of tenant_provisioning_requests
    stepStatus,    \* tenant_provisioning_steps.status
    made,          \* the steps whose work has been done
    tenants,       \* platform_tenants rows made for the request
    tenant,        \* the status of the one the request names
    dataPlane,     \* whether a data plane of the wanted kind is ready
    wildcard,      \* PLATFORM_WILDCARD_VERIFIED
    recovering,    \* a worker that starts has found the request lying
    runner

rowVars == <<request, stepStatus, made, tenants, tenant>>
worldVars == <<dataPlane, wildcard, recovering>>
provisioningVars == <<application, rowVars, worldVars, runner>>

StepKey == Range(Steps)
\* Steps that write to something else than the control database.
Outside == StepKey \cap {"create_storage_namespaces", "seed_policies"}
Rest == [at |-> "idle", i |-> 1, step |-> PNone, code |-> PNone]
Current(r) == Steps[runner[r].i]
Halted == {"failed", "waiting_for_external_dependency"}

ProvisioningInit ==
    /\ request = [status |-> "none", dedicated |-> FALSE, fresh |-> FALSE, attempts |-> 0,
                  current |-> PNone, blocking |-> PNone]
    /\ stepStatus = [k \in StepKey |-> "pending"]
    /\ made = {} /\ tenants = 0 /\ tenant = "none"
    /\ dataPlane \in BOOLEAN /\ wildcard \in BOOLEAN /\ recovering = FALSE
    /\ runner = [r \in Runner |-> Rest]

RunnerGoto(r, at) == runner' = [runner EXCEPT ![r].at = at]
(* A row written is a sign of life for fifteen minutes. *)
Touch(changed) == request' = [changed EXCEPT !.fresh = TRUE]

(* provision() and createOrganization(): the request and its steps. *)
NewRequest(dedicated) ==
    /\ Touch([request EXCEPT !.status = "queued", !.dedicated = dedicated, !.current = Head(Steps)])
    /\ UNCHANGED <<stepStatus, made, tenants, tenant, worldVars, runner>>

Requeue ==
    /\ Touch([request EXCEPT !.status = "queued", !.blocking = PNone])
    /\ UNCHANGED <<stepStatus, made, tenants, tenant, worldVars, runner>>

RequestAges ==
    /\ request.status = "running" /\ request.fresh
    /\ request' = [request EXCEPT !.fresh = FALSE]
    /\ UNCHANGED <<application, stepStatus, made, tenants, tenant, worldVars, runner>>

(* A completed request is answered as such and one that shows signs of life is
   left alone; neither changes anything.                                      *)
Claim(r) ==
    /\ runner[r].at = "idle" /\ request.attempts < MaxAttempts
    /\ request.status \notin {"none", "completed"}
    /\ ~(request.status = "running" /\ request.fresh)
    /\ Touch([request EXCEPT !.status = "running", !.blocking = PNone, !.attempts = @ + 1])
    /\ runner' = [runner EXCEPT ![r] = [Rest EXCEPT !.at = "starting"]]
    /\ UNCHANGED <<application, stepStatus, made, tenants, tenant, worldVars>>

StartStep(r) ==
    /\ runner[r].at = "starting" /\ runner[r].i <= Len(Steps)
    /\ LET k == Current(r) IN
       IF stepStatus[k] = "completed"
       THEN /\ runner' = [runner EXCEPT ![r].i = @ + 1]
            /\ UNCHANGED <<request, stepStatus>>
       ELSE /\ stepStatus' = [stepStatus EXCEPT ![k] = "running"]
            /\ Touch([request EXCEPT !.current = k])
            /\ RunnerGoto(r, "doing")
    /\ UNCHANGED <<application, made, tenants, tenant, worldVars>>

ReserveAnyway == tenants' = tenants + 1 /\ tenant' = "provisioning"
(* The tenant is made once: a step that runs again finds it on the request. *)
ReserveTenant ==
    IF tenants > 0 THEN UNCHANGED <<tenants, tenant>>
    ELSE tenants' = 1 /\ tenant' = "provisioning"

(* What a step reads of the work of those before it: the tenant on the request,
   the data plane it was given, its production environment.                   *)
Needs(k) ==
    CASE k = "reserve_tenant_slug" -> {}
      [] k = "create_environment" -> {"reserve_tenant_slug", "assign_data_plane"}
      [] k = "create_default_domain" -> {"reserve_tenant_slug", "create_environment"}
      [] OTHER -> {"reserve_tenant_slug"}

(* The work of a step.  Its rows are written so that a repetition finds them
   ("on conflict", "where not exists").                                       *)
Make(k) ==
    /\ Needs(k) \subseteq made /\ (k = "assign_data_plane" => dataPlane)
    /\ made' = made \cup {k}
    /\ IF k = "reserve_tenant_slug" THEN ReserveTenant ELSE UNCHANGED <<tenants, tenant>>

(* The step is looked at again under its lock. *)
DoStep(r) ==
    LET k == Current(r) IN
    /\ runner[r].at = "doing"
    /\ IF stepStatus[k] = "completed" THEN UNCHANGED <<stepStatus, made, tenants, tenant>>
       ELSE Make(k) /\ stepStatus' = [stepStatus EXCEPT ![k] = "completed"]
    /\ runner' = [runner EXCEPT ![r].at = "starting", ![r].i = @ + 1]
    /\ UNCHANGED <<application, request, worldVars>>

LacksDataPlane(r) ==
    /\ runner[r].at = "doing" /\ Current(r) = "assign_data_plane"
    /\ stepStatus["assign_data_plane"] # "completed" /\ ~dataPlane
    /\ runner' = [runner EXCEPT ![r] = [at |-> "waiting", i |-> 1, step |-> "assign_data_plane", code |-> "DATA_PLANE_NOT_READY"]]
    /\ UNCHANGED <<application, rowVars, worldVars>>

(* A step throws: what it did outside of the control database stays done. *)
StepFails(r, before) ==
    /\ runner[r].at = "doing" /\ stepStatus[Current(r)] # "completed"
    /\ before => Current(r) \in Outside
    /\ made' = IF before THEN made \cup {Current(r)} ELSE made
    /\ runner' = [runner EXCEPT ![r] = [Rest EXCEPT !.at = "failing", !.step = Current(r)]]
    /\ UNCHANGED <<application, request, stepStatus, tenants, tenant, worldVars>>

(* Anything else that throws: the step is then the one the request names. *)
RunFails(r) ==
    /\ runner[r].at \in {"starting", "finishing"}
    /\ runner' = [runner EXCEPT ![r] = [Rest EXCEPT !.at = "failing"]]
    /\ UNCHANGED <<application, rowVars, worldVars>>

AllSteps(r) ==
    /\ runner[r].at = "starting" /\ runner[r].i > Len(Steps)
    /\ IF request.dedicated /\ ~wildcard
       THEN runner' = [runner EXCEPT ![r] = [at |-> "waiting", i |-> 1, step |-> "create_default_domain",
                                             code |-> "DEFAULT_TENANT_DOMAIN_EXTERNAL_VERIFICATION_REQUIRED"]]
       ELSE RunnerGoto(r, "finishing")
    /\ UNCHANGED <<application, rowVars, worldVars>>

Finish(r) ==
    /\ runner[r].at = "finishing"
    /\ Touch([request EXCEPT !.status = "completed", !.current = PNone, !.blocking = PNone])
    /\ tenant' = IF tenant = "provisioning" THEN "onboarding" ELSE tenant
    /\ application' = IF application = "provisioning" THEN "onboarding" ELSE application
    /\ runner' = [runner EXCEPT ![r] = Rest]
    /\ UNCHANGED <<stepStatus, made, tenants, worldVars>>

(* Neither asks whether the request is still this worker's, or still running. *)
MarkWaiting(r) ==
    /\ runner[r].at = "waiting"
    /\ Touch([request EXCEPT !.status = "waiting_for_external_dependency",
                             !.current = runner[r].step, !.blocking = runner[r].code])
    /\ stepStatus' = [stepStatus EXCEPT ![runner[r].step] = "waiting"]
    /\ runner' = [runner EXCEPT ![r] = Rest]
    /\ UNCHANGED <<application, made, tenants, tenant, worldVars>>

MarkFailed(r) ==
    /\ runner[r].at = "failing"
    /\ Touch([request EXCEPT !.status = "failed", !.blocking = "failure"])
    /\ application' = IF application = "provisioning" THEN "provisioning_failed" ELSE application
    /\ LET k == IF runner[r].step # PNone THEN runner[r].step ELSE request.current IN
       stepStatus' = IF k = PNone THEN stepStatus ELSE [stepStatus EXCEPT ![k] = "failed"]
    /\ runner' = [runner EXCEPT ![r] = Rest]
    /\ UNCHANGED <<made, tenants, tenant, worldVars>>

(* A worker is lost between two of its transactions; its job comes back. *)
LoseRunner(r) ==
    /\ runner[r].at # "idle"
    /\ runner' = [runner EXCEPT ![r] = Rest]
    /\ UNCHANGED <<application, rowVars, worldVars>>

(* A worker that starts looks for requests left lying, makes their jobs due in
   the data database, and only then queues each one that is not completed,
   whatever has become of it since.                                           *)
Recoverable ==
    \/ request.status = "queued"
    \/ request.status = "running" /\ ~request.fresh
    \/ request.status = "waiting_for_external_dependency" /\ request.blocking = "DATA_PLANE_NOT_READY" /\ dataPlane

RecoverReads ==
    /\ ~recovering /\ Recoverable
    /\ recovering' = TRUE
    /\ UNCHANGED <<application, rowVars, dataPlane, wildcard, runner>>

RecoverWrites ==
    /\ recovering /\ recovering' = FALSE
    /\ IF request.status = "completed" THEN UNCHANGED request
       ELSE Touch([request EXCEPT !.status = "queued", !.blocking = PNone])
    /\ UNCHANGED <<application, stepStatus, made, tenants, tenant, dataPlane, wildcard, runner>>

(* The operator sets up a data plane, or deploys with the wildcard verified. *)
WorldImproves ==
    /\ \/ ~dataPlane /\ dataPlane' = TRUE /\ UNCHANGED wildcard
       \/ ~wildcard /\ wildcard' = TRUE /\ UNCHANGED dataPlane
    /\ UNCHANGED <<application, rowVars, recovering, runner>>

ProvisioningNext ==
    \/ \E r \in Runner :
         \/ Claim(r) \/ StartStep(r) \/ DoStep(r) \/ LacksDataPlane(r) \/ RunFails(r)
         \/ \E before \in BOOLEAN : StepFails(r, before)
         \/ AllSteps(r) \/ Finish(r) \/ MarkWaiting(r) \/ MarkFailed(r) \/ LoseRunner(r)
    \/ RequestAges \/ RecoverReads \/ RecoverWrites \/ WorldImproves
-------------------------------------------------------------------------------
ProvisioningTypeOK ==
    /\ request \in [status : {"none", "queued", "running", "completed"} \cup Halted, dedicated : BOOLEAN, fresh : BOOLEAN,
                    attempts : 0..MaxAttempts, current : StepKey \cup {PNone},
                    blocking : {PNone, "failure", "DATA_PLANE_NOT_READY", "DEFAULT_TENANT_DOMAIN_EXTERNAL_VERIFICATION_REQUIRED"}]
    /\ stepStatus \in [StepKey -> {"pending", "running", "waiting", "failed", "completed"}]
    /\ made \subseteq StepKey /\ tenants \in Nat
    /\ tenant \in {"none", "provisioning", "onboarding", "active"}
    /\ dataPlane \in BOOLEAN /\ wildcard \in BOOLEAN /\ recovering \in BOOLEAN
    /\ \A r \in Runner : /\ runner[r].at \in {"idle", "starting", "doing", "finishing", "waiting", "failing"}
                         /\ runner[r].i \in 1..Len(Steps) + 1

(* However often the request is taken over, fails, is retried or is recovered,
   it makes one tenant; a tenant becomes "onboarding" only when every step's
   work has been done; and a completed request never leaves its tenant in
   "provisioning" (control migration 0016, "Verification").                   *)
ProvisionedWhole ==
    /\ tenants <= 1
    /\ tenant = "onboarding" => made = StepKey
    /\ request.status = "completed" => tenant # "provisioning"
===============================================================================
