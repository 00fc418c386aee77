---------------------------- MODULE MCBeforeSigning ----------------------------
(* What happens before a case is signed: a case is drafted and sent, a call is
   retried under its Idempotency-Key, an organisation becomes a tenant, and its
   people get accounts or log in through their own identity provider, at a host
   name of its own.  The parts share no state, so one instance checks them side by side: a behaviour
   is about the part it starts in, and the others stay as they began.  The
   application and the making of its tenant share state and are one module; the
   instance looks at the applications that are reviewed apart from those an
   administrator creates, and at the workers that make the tenant of the latter. *)
EXTENDS CaseDraft, Idempotency, Onboarding, Accounts, Federation, TenantDomains, TLC

CONSTANTS p1, p2, o1, s1, w1, w2, k1, k2, k3, b1, b2, host, none

MixedUploads == {p1, p2, o1}
OneOffice == {o1}
\* The file that was declared, another of its size that carries malware, and one of
\* its size that is no Office file.
ThreeFiles ==
    {[sized |-> TRUE, same |-> TRUE, container |-> "zip", infected |-> FALSE],
     [sized |-> TRUE, same |-> FALSE, container |-> "zip", infected |-> TRUE],
     [sized |-> TRUE, same |-> FALSE, container |-> "unknown", infected |-> FALSE]}
WhatTheyAre == [u \in MixedUploads |-> CHOOSE f \in ThreeFiles : f.same]
NoAttachment == {}
OneSigner == {s1}
TwoActors == {w1, w2}
ThreeCallers == {k1, k2, k3}
TwoBodies == {b1, b2}
TwoReviews == {"legal", "security"}
FiveSteps == <<"reserve_tenant_slug", "assign_data_plane", "create_environment",
               "create_default_domain", "seed_policies">>
OneKey == {k1}
OneBrowser == {b1}
TwoLogins == {p1, p2}
TwoAssertions == {k1, k2}
TwoProviders == <<"development", "production">>
OneOidc == {"production"}
Handlers == [handlers |-> "handler", auditors |-> "auditor"]
OneAssignable == {"handler"}
\* The domain the environment is given, and one the tenant brings.
OneOwn == {host}
Whole == [faults |-> {}, says |-> Statement \ {"issued"}, bound |-> "inside", groups |-> {"handlers", "guests"}]
\* A message as it should be; one bound to its login only outside the signed part, of
\* a person with a role that may not be given; one with neither the time of
\* authentication nor a subject; and one that was damaged.
FourForms ==
    {Whole, [Whole EXCEPT !.bound = "outside", !.groups = {"handlers", "auditors"}],
     [Whole EXCEPT !.says = Statement \ {"authenticated", "subject"}], [Whole EXCEPT !.faults = {"changed"}]}

\* PDFs, and logins, are interchangeable, and so are those who act in one part:
\* workers, officials, administrators and requests.
Symmetry == Permutations(TwoLogins) \cup Permutations(TwoActors)

VARIABLE part

Init == /\ part \in {"draft", "key", "review", "provision", "account", "federation", "domain"}
        /\ DraftInit /\ IdemInit /\ OnboardingInit /\ AccountsInit /\ FederationInit
        /\ DomainsInit
        /\ part \notin {"review", "provision"} => ~dataPlane /\ ~wildcard
        /\ part # "federation" => enabled = {}
        /\ part # "domain" => proven = {}

\* Any two of the three uploads are made.
TwoUploads == Cardinality({u \in Upload : grant'[u] # "none"}) <= 2

TenantNext ==
    \/ part = "review" /\ (Apply \/ Administer)
    \/ part = "provision" /\ OnboardingNext /\ UNCHANGED reviewVars

Next == /\ \/ /\ part = "draft" /\ DraftNext /\ TwoUploads
              /\ UNCHANGED <<idemVars, onboardingVars, accountVars, federationVars, domainVars>>
           \/ /\ part = "key" /\ IdemNext
              /\ UNCHANGED <<draftVars, onboardingVars, accountVars, federationVars, domainVars>>
           \/ /\ TenantNext
              /\ UNCHANGED <<draftVars, idemVars, accountVars, federationVars, domainVars>>
           \/ /\ part = "account" /\ AccountsNext
              /\ UNCHANGED <<draftVars, idemVars, onboardingVars, federationVars, domainVars>>
           \/ /\ part = "federation" /\ FederationNext
              /\ UNCHANGED <<draftVars, idemVars, onboardingVars, accountVars, domainVars>>
           \/ /\ part = "domain" /\ DomainsNext
              /\ UNCHANGED <<draftVars, idemVars, onboardingVars, accountVars, federationVars>>
        /\ UNCHANGED part

Spec == Init /\ [][Next]_<<draftVars, idemVars, onboardingVars, accountVars, federationVars, domainVars, part>>

(* Every variable of the parts keeps its type; in particular a document has one
   status of the enumeration and one job, the answer to a key is one of the four
   a caller can be given, and login attempts are not counted past the block.  *)
BeforeSigningTypeOK ==
    /\ DraftTypeOK /\ IdemTypeOK /\ OnboardingTypeOK /\ AccountsTypeOK /\ FederationTypeOK
    /\ DomainsTypeOK
================================================================================
