------------------------------ MODULE Federation ------------------------------
(* Login through the identity providers of one tenant.  A login that is started
   leaves a row which the assertion must answer; any process may receive the
   assertion, and the browser may present it twice, late, or with the reference
   of another of its logins.                                                  *)
EXTENDS Naturals, Sequences, FederationReports

CONSTANTS
    Login,          \* logins started
    Assertion,      \* assertions issued
    Process,        \* requests with an assertion being handled
    Providers,      \* the tenant's providers, by environment
    Oidc,           \* those that speak OIDC; the others speak SAML2
    Form,           \* what messages look like: [faults, says, bound, groups]
    StrictContext,  \* the tenant requires an authentication context
    FNone,
    MaxSwitches     \* providers switched on or off

ASSUME FederationAssumption ==
    /\ MaxSwitches \in Nat /\ FNone \notin Login /\ Absent \notin Login
    /\ \A form \in Form : form.faults \subseteq Fault /\ form.says \subseteq Statement

VARIABLES
    login,          \* federation_login_requests: the provider, and "open", "consumed", "expired"
    assertion,      \* which login it was issued for, by whom, whether it is in time, and its form
    ledger,         \* federation_assertion_ledger
    enabled,        \* tenant_identity_providers.enabled
    switches,
    process,        \* what each request has found out
    admitted        \* the logins that were let in: <<login, assertion>> in order

federationVars == <<login, assertion, ledger, enabled, switches, process, admitted>>

Provider == {Providers[i] : i \in DOMAIN Providers}
Waiting == [at |-> "idle", login |-> FNone, assertion |-> FNone, enabled |-> FALSE, report |-> Failed]

FederationInit ==
    /\ login = [l \in Login |-> [state |-> "none", provider |-> FNone]]
    /\ assertion = [s \in Assertion |-> [of |-> FNone, by |-> FNone, valid |-> FALSE, form |-> FNone]]
    /\ ledger = {}
    /\ enabled \in SUBSET Provider
    /\ switches = 0
    /\ process = [h \in Process |-> Waiting]
    /\ admitted = <<>>

-------------------------------------------------------------------------------
StartLogin(l, p) ==
    /\ login[l].state = "none" /\ p \in enabled
    /\ login' = [login EXCEPT ![l] = [state |-> "open", provider |-> p]]
    /\ UNCHANGED <<assertion, ledger, enabled, switches, process, admitted>>

LoginExpires(l) ==
    /\ login[l].state = "open"
    /\ login' = [login EXCEPT ![l].state = "expired"]
    /\ UNCHANGED <<assertion, ledger, enabled, switches, process, admitted>>

(* The person authenticates, perhaps more than once for one login.  Not every
   provider says until when, since when, and in which assertion, or binds what it
   signs to the login; some of what is sent arrives damaged.                  *)
IssueAssertion(s, l) ==
    /\ assertion[s].of = FNone /\ login[l].state # "none"
    /\ \E form \in Form :
          assertion' = [assertion EXCEPT ![s] = [of |-> l, by |-> login[l].provider, valid |-> TRUE, form |-> form]]
    /\ UNCHANGED <<login, ledger, enabled, switches, process, admitted>>

(* notOnOrAfter passes, or the authentication is older than the tenant takes. *)
AssertionExpires(s) ==
    /\ assertion[s].valid
    /\ assertion' = [assertion EXCEPT ![s].valid = FALSE]
    /\ UNCHANGED <<login, ledger, enabled, switches, process, admitted>>

(* What can no longer be used is deleted. *)
PruneLedger ==
    /\ \E s \in ledger : ~assertion[s].valid
    /\ ledger' = {s \in ledger : assertion[s].valid}
    /\ UNCHANGED <<login, assertion, enabled, switches, process, admitted>>

SwitchProvider(p) ==
    /\ switches < MaxSwitches /\ switches' = switches + 1
    /\ enabled' = IF p \in enabled THEN enabled \ {p} ELSE enabled \cup {p}
    /\ UNCHANGED <<login, assertion, ledger, process, admitted>>

-------------------------------------------------------------------------------
(* A request with an assertion. *)
Goes(h, to) == process' = [process EXCEPT ![h].at = to]
Refused(h) == process' = [process EXCEPT ![h] = Waiting]

\* A login whose row is read and not consumed.
ReadLogin(h, l, s, p) ==
    /\ process[h] = Waiting /\ assertion[s].of # FNone
    /\ login[l].state = "open" /\ login[l].provider = p
    /\ process' = [process EXCEPT ![h] = [Waiting EXCEPT !.at = "config", !.login = l, !.assertion = s]]
    /\ UNCHANGED <<login, assertion, ledger, enabled, switches, admitted>>

(* The login is consumed before anything is read from the assertion, and stays
   so when the request is refused; p is the provider of the endpoint.         *)
ConsumeLogin(h, l, s, p) ==
    /\ process[h] = Waiting /\ assertion[s].of # FNone
    /\ login[l].state = "open"
    /\ login' = [login EXCEPT ![l].state = "consumed"]
    /\ process' = IF login[l].provider # p THEN process
                  ELSE [process EXCEPT ![h] = [Waiting EXCEPT !.at = "config", !.login = l, !.assertion = s]]
    /\ UNCHANGED <<assertion, ledger, enabled, switches, admitted>>

ConfigFor(h) ==
    /\ process[h].at = "config"
    /\ process' = [process EXCEPT ![h].at = "trust", ![h].enabled = login[process[h].login].provider \in enabled]
    /\ UNCHANGED <<login, assertion, ledger, enabled, switches, admitted>>

(* The certificate is that of the first provider that is enabled, whichever
   provider the login was started with.                                       *)
Trusted ==
    IF enabled = {} THEN FNone
    ELSE LET first == CHOOSE i \in DOMAIN Providers : /\ Providers[i] \in enabled
                                                      /\ \A k \in 1..i - 1 : Providers[k] \notin enabled
         IN Providers[first]

(* The protocol follows from the provider, and with it the validator, never from
   the endpoint that was called.                                               *)
ProtocolFor(p) == IF p \in Oidc THEN "OIDC" ELSE "SAML2"

(* The message of an assertion, as it arrives at the endpoint of a protocol. *)
Message(s) ==
    LET form == assertion[s].form
    IN [protocol |-> ProtocolFor(assertion[s].by), key |-> assertion[s].by, faults |-> form.faults,
        outside |-> IF form.bound = "outside" THEN assertion[s].of ELSE Absent,
        inside |-> IF form.bound = "inside" THEN assertion[s].of ELSE Absent,
        says |-> form.says]

ValidateAssertion(h) ==
    LET m == Message(process[h].assertion)
        report == IF ProtocolFor(login[process[h].login].provider) = "SAML2"
                  THEN ValidateSaml(m, Trusted) ELSE ValidateOidc(m, Trusted) IN
    /\ process[h].at = "trust"
    /\ \E status \in {IF report.verified THEN 200 ELSE 422, 500} :
          process' = IF IsReport(status, report) /\ ToWorkforceAssertion(report)
                     THEN [process EXCEPT ![h].at = "decide", ![h].report = report]
                     ELSE [process EXCEPT ![h] = Waiting]
    /\ UNCHANGED <<login, assertion, ledger, enabled, switches, admitted>>

(* Issuer and audience are those of the login's provider; the report answers the
   login, and is in time.                                                     *)
Acceptable(h) ==
    LET l == process[h].login
        s == process[h].assertion IN
    /\ process[h].enabled
    /\ assertion[s].by = login[l].provider
    /\ process[h].report.answers = l
    /\ assertion[s].valid

(* What is refused for its context or for want of a subject has been consumed. *)
VerifyWorkforceAssertion(h) ==
    LET fresh == Acceptable(h) /\ process[h].assertion \notin ledger IN
    /\ process[h].at = "decide"
    /\ ledger' = IF fresh THEN ledger \cup {process[h].assertion} ELSE ledger
    /\ IF fresh /\ ~RefusedAfterConsumption(process[h].report, StrictContext) THEN Goes(h, "map") ELSE Refused(h)
    /\ UNCHANGED <<login, assertion, enabled, switches, admitted>>

MapWorkforceIdentity(h) ==
    LET s == process[h].assertion IN
    /\ process[h].at = "map"
    /\ admitted' = IF MappedRoles(assertion[s].form.groups) = {} THEN admitted
                   ELSE Append(admitted, <<process[h].login, s>>)
    /\ Refused(h)
    /\ UNCHANGED <<login, assertion, ledger, enabled, switches>>

LoseProcess(h) ==
    /\ process[h] # Waiting /\ Refused(h)
    /\ UNCHANGED <<login, assertion, ledger, enabled, switches, admitted>>

FederationNext ==
    \/ \E l \in Login, p \in Provider : StartLogin(l, p)
    \/ \E l \in Login : LoginExpires(l)
    \/ \E s \in Assertion : AssertionExpires(s) \/ \E l \in Login : IssueAssertion(s, l)
    \/ PruneLedger
    \/ \E p \in Provider : SwitchProvider(p)
    \/ \E h \in Process :
        \/ \E l \in Login, s \in Assertion, p \in Provider : ConsumeLogin(h, l, s, p)
        \/ ConfigFor(h) \/ ValidateAssertion(h) \/ VerifyWorkforceAssertion(h) \/ MapWorkforceIdentity(h)
        \/ LoseProcess(h)

FederationSpec == FederationInit /\ [][FederationNext]_federationVars

-------------------------------------------------------------------------------
FederationTypeOK ==
    /\ \A l \in Login : login[l].state \in {"none", "open", "consumed", "expired"}
    /\ \A s \in Assertion : assertion[s].of \in Login \cup {FNone}
    /\ ledger \subseteq Assertion /\ enabled \subseteq Provider
    /\ admitted \in Seq(Login \X Assertion)

(* A login lets somebody in once, with an assertion that answers it, that arrived
   undamaged and gives a role the tenant allows, and that no other login was
   entered with, in whichever processes and however often the assertions are
   presented (consumeLogin, AssertionLedger.consume, the two validators).     *)
AdmittedOnce ==
    /\ \A i, k \in DOMAIN admitted :
          i # k => admitted[i][1] # admitted[k][1] /\ admitted[i][2] # admitted[k][2]
    /\ \A i \in DOMAIN admitted :
          LET s == assertion[admitted[i][2]]
          IN /\ s.of = admitted[i][1] /\ s.by = login[s.of].provider
             /\ "changed" \notin s.form.faults
             /\ \E g \in s.form.groups : g \in DOMAIN GroupToRole /\ GroupToRole[g] \in AssignableRoles

================================================================================
