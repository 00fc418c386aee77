------------------------------- MODULE Accounts -------------------------------
(* One person's account in one organisation.  Three stores know the person: the
   identity provider, the register of invitations in the control database, and
   the membership in the tenant's data database.  Administrators invite, disable
   and enable; the person follows links from mails, sets a password and logs in.
   Every call is a sequence of requests to the stores, and may be lost between
   any two of them.                                                           *)
EXTENDS Naturals

CONSTANTS
    Admin,        \* calls of administrators in flight
    Key,          \* Idempotency-Keys of invitations
    Browser,      \* browsers of the person
    ANone,
    Threshold,    \* login attempts in a window
    MaxCalls      \* calls of administrators

ASSUME AccountsAssumption == Threshold \in Nat \ {0} /\ MaxCalls \in Nat /\ ANone \notin Key

VARIABLES
    provisioned,  \* the organisation has its tenant, its database and its roles
    identity,     \* at the provider; "confirmed" has followed a link, "password" has set one
    link,         \* a mailed link that is neither used nor expired
    register,     \* the row of organization_account_invitations
    member,       \* app.users.disabled_at and app.memberships.status
    admin,        \* what each administrator's call is about to do
    calls,
    browser,      \* what the login in each browser is about to do
    session,      \* its row of host_bound_sessions
    bucket        \* its row of auth_rate_limit_buckets

adminVars == <<admin, calls>>
personVars == <<browser, session, bucket>>
accountVars == <<provisioned, identity, link, register, member, adminVars, personVars>>

NoCall == [does |-> "nothing", key |-> ANone, state |-> ANone]
FreshBucket == [attempts |-> 0, old |-> FALSE, blocked |-> FALSE]

AccountsInit ==
    /\ provisioned = FALSE /\ identity = "none" /\ link = FALSE
    /\ register = [status |-> "none", accepted |-> FALSE, key |-> ANone]
    /\ member = "none"
    /\ admin = [a \in Admin |-> NoCall] /\ calls = 0
    /\ browser = [b \in Browser |-> "idle"]
    /\ session = [b \in Browser |-> "none"]
    /\ bucket = FreshBucket

AdminDoes(a, what, state) == admin' = [admin EXCEPT ![a].does = what, ![a].state = state]
AdminEnds(a) == admin' = [admin EXCEPT ![a] = NoCall]
BrowserGoes(b, to) == browser' = [browser EXCEPT ![b] = to]

-------------------------------------------------------------------------------
(* Administrators *)

BeginCall(a, does, key) ==
    /\ admin[a] = NoCall /\ calls < MaxCalls
    /\ admin' = [admin EXCEPT ![a] = [does |-> does, key |-> key, state |-> ANone]]
    /\ calls' = calls + 1
    /\ UNCHANGED <<identity, link, register, member, personVars>>

(* Nobody suspends a tenant: once there, it stays. *)
TenantIsProvisioned ==
    /\ ~provisioned /\ provisioned' = TRUE
    /\ UNCHANGED <<identity, link, register, member, adminVars, personVars>>

AssertOrganizationAccountProvisionable == provisioned

(* A key that made a row which did not fail only repairs the membership. *)
InviteOrganizationUser(a, k) ==
    /\ AssertOrganizationAccountProvisionable
    /\ IF register.key = k /\ register.status # "failed"
       THEN BeginCall(a, "repair", k)
       ELSE BeginCall(a, "find", k)

(* The new values of users.disabled_at, the membership and its one role. *)
ProvisionTenantUser == member' = "active"

Repair(a) ==
    /\ admin[a].does = "repair"
    /\ ProvisionTenantUser /\ AdminEnds(a)
    /\ UNCHANGED <<identity, link, register, calls, personVars>>

(* Somebody whose address is unconfirmed is not invited twice. *)
FindUserByEmail(a) ==
    /\ admin[a].does = "find"
    /\ IF identity = "none" THEN AdminDoes(a, "invite", ANone)
       ELSE AdminDoes(a, "record", IF identity = "unconfirmed" THEN "pending" ELSE "active")
    /\ UNCHANGED <<identity, link, register, member, calls, personVars>>

InviteUser(a) ==
    /\ admin[a].does = "invite"
    /\ IF identity \in {"none", "unconfirmed"}
       THEN identity' = "unconfirmed" /\ link' = TRUE /\ AdminDoes(a, "record", "invited")
       ELSE AdminEnds(a) /\ UNCHANGED <<identity, link>>
    /\ UNCHANGED <<register, member, calls, personVars>>

(* The upsert of the register, before any access is given. *)
RecordInvitation(a) ==
    /\ admin[a].does = "record"
    /\ LET active == admin[a].state = "active" IN
       register' = [status |-> IF active THEN "active" ELSE "invited",
                    accepted |-> register.accepted \/ active, key |-> admin[a].key]
    /\ AdminDoes(a, "provision", admin[a].state)
    /\ UNCHANGED <<identity, link, member, calls, personVars>>

GiveAccess(a) ==
    /\ admin[a].does = "provision"
    /\ \/ /\ ProvisionTenantUser
          /\ IF admin[a].state = "invited" THEN AdminEnds(a) ELSE AdminDoes(a, "mail", ANone)
       \/ AdminDoes(a, "fail", ANone) /\ UNCHANGED member
    /\ UNCHANGED <<identity, link, register, calls, personVars>>

(* A person the provider knew already gets a recovery link. *)
MailRecovery(a) ==
    /\ admin[a].does = "mail"
    /\ \/ link' = TRUE /\ AdminEnds(a)
       \/ AdminDoes(a, "fail", ANone) /\ UNCHANGED link
    /\ UNCHANGED <<identity, register, member, calls, personVars>>

RecordFailure(a) ==
    /\ admin[a].does = "fail"
    /\ register' = [register EXCEPT !.status = "failed"] /\ AdminEnds(a)
    /\ UNCHANGED <<identity, link, member, calls, personVars>>

(* The register is read once; nothing is done when it says so already. *)
DisableUser(a) ==
    /\ register.status \notin {"none", "disabled"}
    /\ BeginCall(a, "shut", ANone)

\* An account enabled that was never accepted.
EnableAnyway(a) ==
    /\ register.status \notin {"none", "active"}
    /\ BeginCall(a, "open", ANone)

EnableUser(a) ==
    /\ register.status \notin {"none", "active"} /\ register.accepted
    /\ BeginCall(a, "open", ANone)

(* First the data database ... *)
SetTenantUserEnabled(a) ==
    /\ admin[a].does \in {"shut", "open"}
    /\ IF member = "none" THEN AdminEnds(a) /\ UNCHANGED member
       ELSE /\ member' = IF admin[a].does = "open" THEN "active" ELSE "disabled"
            /\ AdminDoes(a, IF admin[a].does = "open" THEN "mark active" ELSE "mark disabled", ANone)
    /\ UNCHANGED <<identity, link, register, calls, personVars>>

(* ... and then the register, with the sessions that there are. *)
SetRegister(a) ==
    /\ \/ /\ admin[a].does = "mark active"
          /\ register' = [register EXCEPT !.status = "active"] /\ UNCHANGED session
       \/ /\ admin[a].does = "mark disabled"
          /\ register' = [register EXCEPT !.status = "disabled"]
          /\ session' = [b \in Browser |-> IF session[b] = "live" THEN "revoked" ELSE session[b]]
    /\ AdminEnds(a)
    /\ UNCHANGED <<identity, link, member, calls, browser, bucket>>

LoseCall(a) ==
    /\ admin[a] # NoCall /\ AdminEnds(a)
    /\ UNCHANGED <<identity, link, register, member, calls, personVars>>

AdminStep(a) ==
    \/ \E k \in Key : InviteOrganizationUser(a, k)
    \/ DisableUser(a) \/ EnableUser(a)
    \/ Repair(a) \/ FindUserByEmail(a) \/ InviteUser(a) \/ RecordInvitation(a) \/ GiveAccess(a)
    \/ MailRecovery(a) \/ RecordFailure(a) \/ SetTenantUserEnabled(a) \/ SetRegister(a) \/ LoseCall(a)

-------------------------------------------------------------------------------
(* The person *)

Unadministered == <<register, member, adminVars>>
AtProvider == <<identity, link>>

(* One attempt is counted, in a new window when the old one is 15 minutes old. *)
Counted ==
    LET attempts == IF bucket.old THEN 1 ELSE bucket.attempts + 1 IN
    [attempts |-> IF attempts > Threshold THEN Threshold + 1 ELSE attempts, old |-> FALSE,
     blocked |-> bucket.blocked \/ (~bucket.old /\ attempts > Threshold)]

EnforceAuthRateLimit(b) ==
    /\ browser[b] = "idle" /\ session[b] # "live"
    /\ bucket' = Counted
    /\ BrowserGoes(b, IF Counted.blocked \/ Counted.attempts > Threshold THEN "idle" ELSE "counted")
    /\ UNCHANGED <<AtProvider, Unadministered, session>>

\* A block is put on during a window and so outlives it.
WindowPasses ==
    /\ \/ bucket.attempts > 0 /\ ~bucket.old /\ bucket' = [bucket EXCEPT !.old = TRUE]
       \/ bucket.blocked /\ bucket.old /\ bucket' = [bucket EXCEPT !.blocked = FALSE]
    /\ UNCHANGED <<AtProvider, Unadministered, browser, session>>

SignInWithPassword(b) ==
    /\ browser[b] = "counted"
    /\ \/ identity = "password" /\ BrowserGoes(b, "identified")
       \/ BrowserGoes(b, "idle")
    /\ UNCHANGED <<AtProvider, Unadministered, session, bucket>>

(* Where the person belongs is one look at the membership, and whether they may
   go there another.                                                           *)
ResolveSubjectDestination(b) ==
    /\ browser[b] = "identified"
    /\ BrowserGoes(b, IF member = "active" THEN "directed" ELSE "idle")
    /\ UNCHANGED <<AtProvider, Unadministered, session, bucket>>

AssertSubjectAccess(b) ==
    /\ browser[b] = "directed"
    /\ BrowserGoes(b, IF member = "active" THEN "admitted" ELSE "idle")
    /\ UNCHANGED <<AtProvider, Unadministered, session, bucket>>

(* The bucket is cleared and the session made side by side. *)
ClearAuthRateLimit(b) ==
    /\ browser[b] \in {"admitted", "entered"}
    /\ bucket' = FreshBucket
    /\ BrowserGoes(b, IF browser[b] = "admitted" THEN "cleared" ELSE "idle")
    /\ UNCHANGED <<AtProvider, Unadministered, session>>

CreateSession(b) ==
    /\ browser[b] \in {"admitted", "cleared", "accepted"}
    /\ session' = [session EXCEPT ![b] = "live"]
    /\ BrowserGoes(b, IF browser[b] = "admitted" THEN "entered" ELSE "idle")
    /\ UNCHANGED <<AtProvider, Unadministered, bucket>>

ForgotPassword ==
    /\ identity # "none" /\ link' = TRUE
    /\ UNCHANGED <<identity, Unadministered, personVars>>

LinkExpires ==
    /\ link /\ link' = FALSE
    /\ UNCHANGED <<identity, Unadministered, personVars>>

(* Following the link confirms the address and uses the link up. *)
VerifyEmailOtp(b) ==
    /\ browser[b] = "idle" /\ link
    /\ link' = FALSE
    /\ identity' = IF identity = "unconfirmed" THEN "confirmed" ELSE identity
    /\ BrowserGoes(b, "linked")
    /\ UNCHANGED <<Unadministered, session, bucket>>

(* The last of four looks decides. *)
ResolvePasswordCompletion(b) ==
    /\ browser[b] = "linked"
    /\ BrowserGoes(b, IF member = "active" THEN "expected" ELSE "idle")
    /\ UNCHANGED <<AtProvider, Unadministered, session, bucket>>

UpdatePassword(b) ==
    /\ browser[b] = "expected"
    /\ identity' = "password" /\ BrowserGoes(b, "renewed")
    /\ UNCHANGED <<link, Unadministered, session, bucket>>

\* An acceptance that does not look at the status.
MarkAcceptedAnyway(b) ==
    /\ browser[b] = "renewed"
    /\ register' = [register EXCEPT !.status = "active", !.accepted = TRUE]
    /\ BrowserGoes(b, "accepted")
    /\ UNCHANGED <<AtProvider, member, adminVars, session, bucket>>

MarkInvitationAccepted(b) ==
    /\ browser[b] = "renewed"
    /\ register' = IF register.status = "invited"
                   THEN [register EXCEPT !.status = "active", !.accepted = TRUE] ELSE register
    /\ BrowserGoes(b, "accepted")
    /\ UNCHANGED <<AtProvider, member, adminVars, session, bucket>>

(* A request of the login fails or is given up, and the login with it. *)
LoseLogin(b) ==
    /\ browser[b] # "idle" /\ BrowserGoes(b, "idle")
    /\ UNCHANGED <<AtProvider, Unadministered, session, bucket>>

(* By logging out, or after sessionLifetimeSeconds. *)
SessionEnds(b) ==
    /\ session[b] = "live" /\ session' = [session EXCEPT ![b] = "ended"]
    /\ UNCHANGED <<AtProvider, Unadministered, browser, bucket>>

PersonStep(b) ==
    \/ EnforceAuthRateLimit(b) \/ SignInWithPassword(b) \/ ResolveSubjectDestination(b) \/ AssertSubjectAccess(b)
    \/ ClearAuthRateLimit(b) \/ CreateSession(b)
    \/ VerifyEmailOtp(b) \/ ResolvePasswordCompletion(b) \/ UpdatePassword(b) \/ MarkInvitationAccepted(b)
    \/ LoseLogin(b) \/ SessionEnds(b)

AccountsNext ==
    \/ TenantIsProvisioned
    \/ /\ UNCHANGED provisioned
       /\ \/ \E a \in Admin : AdminStep(a)
          \/ \E b \in Browser : PersonStep(b)
          \/ WindowPasses \/ ForgotPassword \/ LinkExpires

AccountsSpec == AccountsInit /\ [][AccountsNext]_accountVars

-------------------------------------------------------------------------------
AccountsTypeOK ==
    /\ provisioned \in BOOLEAN
    /\ identity \in {"none", "unconfirmed", "confirmed", "password"} /\ link \in BOOLEAN
    /\ register \in [status : {"none", "invited", "active", "failed", "disabled"},
                     accepted : BOOLEAN, key : Key \cup {ANone}]
    /\ member \in {"none", "active", "disabled"}
    /\ bucket \in [attempts : 0..Threshold + 1, old : BOOLEAN, blocked : BOOLEAN]
    /\ \A b \in Browser : session[b] \in {"none", "live", "revoked", "ended"}

(* An account that the register calls active belongs to somebody who has
   confirmed the address at the provider, and nobody has access who is not in
   the register (inviteOrganizationUser, setOrganizationUserStatus).          *)
RegisterIsTrue ==
    /\ register.status = "active" => identity \in {"confirmed", "password"}
    /\ member # "none" => register.status # "none"

(* A disabled account comes back by the act of an administrator only, and not
   by a password that the person was in the middle of setting
   (markInvitationAccepted).                                                  *)
RevivedByAdminOnly ==
    [][register.status = "disabled" /\ register'.status # "disabled" => admin' # admin]_accountVars

================================================================================
