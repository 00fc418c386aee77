---------------------------- MODULE FederationReports ----------------------------
(* What the validation service reports of the message an identity provider had a
   browser deliver, how the API reads the report, and which roles it gives.  The
   service verifies and parses; it admits nobody.                               *)

CONSTANTS
    GroupToRole,    \* control.tenant_federation_role_mappings
    AssignableRoles \* the roles the tenant lets federation give

Absent == "absent"

(* A message: its protocol, whose key signed it, what is wrong with its form, the
   login it says it answers outside the confirmation of the subject and inside
   (the nonce of a token), and what it states.                                  *)
Statement == {"window", "authenticated", "issued", "identifier", "subject", "context"}
Fault == {"unparsed", "unsigned part", "changed", "not success", "names its key", "critical"}

-------------------------------------------------------------------------------
Failed == [result |-> "FAIL", verified |-> FALSE, answers |-> Absent, says |-> {}]

(* One signature, whose references are in the document and lead to the assertion
   or to a response that holds it.                                              *)
OneSignature(m) == {"unparsed", "unsigned part"} \cap m.faults = {}

(* The key in the message verifies, and is the configured one. *)
SignerIsConfigured(m, certificate) == "changed" \notin m.faults /\ m.key = certificate

(* What the confirmation of the subject says goes before what the response says. *)
AnsweredLogin(m) == IF m.inside # Absent THEN m.inside ELSE m.outside

ValidateSaml(m, certificate) ==
    IF m.protocol = "SAML2" /\ OneSignature(m) /\ SignerIsConfigured(m, certificate)
       /\ "not success" \notin m.faults
    THEN [result |-> "PASS", verified |-> TRUE, answers |-> AnsweredLogin(m), says |-> m.says \ {"issued"}]
    ELSE Failed

(* The algorithm is one the caller names and fits the key; no extension that must
   be understood is.                                                            *)
VerifyCompactJws(m, certificate) ==
    {"unparsed", "critical", "changed"} \cap m.faults = {} /\ m.key = certificate

(* A token that does not say when the person authenticated is taken to have been
   issued then.                                                                 *)
AuthTime(m) == IF {"authenticated", "issued"} \cap m.says # {} THEN {"authenticated"} ELSE {}

ValidateOidc(m, certificate) ==
    IF m.protocol = "OIDC" /\ "names its key" \notin m.faults /\ VerifyCompactJws(m, certificate)
    THEN [result |-> "PASS", verified |-> TRUE, answers |-> m.inside,
          says |-> (m.says \ {"issued"}) \cup AuthTime(m)]
    ELSE Failed

(* An answer that is neither 200 nor 422, or contradicts itself, is no report. *)
IsReport(status, report) == status \in {200, 422} /\ (report.result = "PASS" => report.verified)

-------------------------------------------------------------------------------
(* No window, time or identifier is made up for a message without one. *)
ToWorkforceAssertion(report) ==
    report.result = "PASS" /\ {"window", "authenticated", "identifier"} \subseteq report.says

(* What is asked only after the identifier of the assertion has been consumed. *)
RefusedAfterConsumption(report, contextRequired) ==
    "subject" \notin report.says \/ (contextRequired /\ "context" \notin report.says)

(* The roles of the groups that have one; none when one of them may not be given. *)
MappedRoles(groups) ==
    LET roles == {GroupToRole[g] : g \in groups \cap DOMAIN GroupToRole}
    IN IF roles \subseteq AssignableRoles THEN roles ELSE {}

================================================================================
