----------------------------- MODULE TenantDomains -----------------------------
(* The host names of one tenant's environment: the domain the platform gives it
   and those it brings itself, each a row of control.tenant_domains; the domain
   provider they are attached at; and one process of the gateway, which answers
   from a cache.  An operation reads the row, calls the provider and writes the
   row in a transaction of its own, by id and without asking again what it read;
   what it may write is up to the constraints and the trigger of the table.   *)
EXTENDS FiniteSets, Naturals

CONSTANTS
    Standard,      \* the platform's own domain of the environment
    Custom,        \* the domains the tenant brings
    Operator,      \* calls of the domain management that may overlap
    Visitor,       \* requests the gateway resolves at the same time
    MaxChanges     \* operations begun that are looked at

ASSUME DomainsAssumption == Standard \notin Custom /\ MaxChanges \in Nat

VARIABLES
    row,           \* tenant_domains: status, is_primary, whether dns_verified_at is set
    challenged,    \* domains with a challenge that is neither used, revoked nor over
    vercel,        \* what the provider holds of a domain
    operator,      \* how far each operation is, and on which domain
    begun,
    cached,        \* the domains in the cache of the gateway
    visitor,
    proven,        \* those the provider ever found the DNS record of
    crossed,       \* the row of a coming primary was written after it was looked at
    incident       \* what became of invalidating a domain that was taken out of use

rowsVars == <<row, challenged, vercel, proven, crossed, incident>>
domainVars == <<rowsVars, operator, begun, cached, visitor>>

Domain == Custom \cup {Standard}
DomainState == {"none", "requested", "dns_challenge_created", "dns_verification_pending",
                "routing_pending", "certificate_pending", "active", "suspended",
                "removed", "failed"}
NoRow == [status |-> "none", primary |-> FALSE, verified |-> FALSE]
AtRest == [at |-> "idle", d |-> Standard]

(* Step create_default_domain of the provisioning: the platform's domain is
   active and primary where its wildcard is known to work, and routed nowhere
   else.                                                                      *)
DomainsInit ==
    /\ \E routed \in BOOLEAN :
        /\ row = [d \in Domain |->
                    IF d \in Custom THEN NoRow
                    ELSE [status |-> IF routed THEN "active" ELSE "routing_pending",
                          primary |-> routed, verified |-> routed]]
        /\ proven = IF routed THEN {Standard} ELSE {}
    /\ challenged = {} /\ cached = {}
    /\ vercel = [d \in Domain |-> "absent"]
    /\ operator = [o \in Operator |-> AtRest] /\ begun = 0
    /\ visitor = [v \in Visitor |-> AtRest]
    /\ crossed = FALSE
    /\ incident = [d \in Domain |-> "none"]

--------------------------------------------------------------------------------
(* The row. *)
Primaries(rows) == {d \in Domain : rows[d].primary /\ rows[d].status # "removed"}

\* An active domain has its evidence, an environment one primary domain.
ConstraintsHold(rows) ==
    /\ \A d \in Domain : rows[d].status = "active" => rows[d].verified
    /\ \A d, e \in Primaries(rows) : d = e

\* Mutant: the trigger looks at the flag only.
FlagIsGuarded(old, new) == old.primary => new.primary

\* control.guard_primary_domain_change, of a change of is_primary or status.
GuardAllows(old, new) ==
    /\ new.primary => new.status = "active"
    /\ old.primary => new.primary

Target(o) == operator[o].d
Ends(o) == operator' = [operator EXCEPT ![o] = AtRest]
Proceeds(o, at) == operator' = [operator EXCEPT ![o].at = at]

(* An ordinary update, and the history of it: was the domain about to become
   primary, is it in use again.                                               *)
Update(d, new) ==
    /\ row' = [row EXCEPT ![d] = new]
    /\ crossed' = (crossed \/ \E o \in Operator : operator[o] = [at |-> "switching", d |-> d])
    /\ incident' = IF new.status = "active" THEN [incident EXCEPT ![d] = "none"] ELSE incident

Accepted(d, new) == GuardAllows(row[d], new) /\ ConstraintsHold([row EXCEPT ![d] = new])

(* What the transaction of an operation comes to: committed, or refused and then
   rolled back with everything in it.                                         *)
Written(o, new, open) ==
    /\ IF Accepted(Target(o), new) THEN Update(Target(o), new) /\ challenged' = open
       ELSE UNCHANGED <<row, crossed, incident, challenged>>
    /\ Ends(o)

--------------------------------------------------------------------------------
(* The provider. *)
\* requestDomain: a domain that is there already is as good as a new one.
Listing(d) == IF vercel[d] = "absent" THEN {"pending", "verified"} ELSE {vercel[d]}
List(d) == \E s \in Listing(d) : vercel' = [vercel EXCEPT ![d] = s]

--------------------------------------------------------------------------------
(* The operations. *)
Begins(o, at, d) ==
    /\ operator[o].at = "idle" /\ begun < MaxChanges
    /\ row[d].status # "none"
    /\ operator' = [operator EXCEPT ![o] = [at |-> at, d |-> d]]
    /\ begun' = begun + 1
    /\ UNCHANGED <<cached, visitor>>

(* A host name is inserted once; a second request reaches the provider only.  *)
RequestCustomDomain(d) ==
    /\ begun < MaxChanges /\ begun' = begun + 1
    /\ List(d)
    /\ row' = IF row[d] = NoRow THEN [row EXCEPT ![d].status = "requested"] ELSE row
    /\ UNCHANGED <<challenged, proven, crossed, incident, operator, cached, visitor>>

\* The provider has a challenge only for what it has not verified; without one
\* the call is over.
CreateChallenge(o, d) ==
    /\ \E s \in Listing(d) :
        /\ Begins(o, IF s = "pending" THEN "challenging" ELSE "idle", d)
        /\ vercel' = [vercel EXCEPT ![d] = s]
    /\ UNCHANGED <<row, challenged, proven, crossed, incident>>

ChallengeCreated(o) ==
    /\ operator[o].at = "challenging"
    /\ Written(o, [row[Target(o)] EXCEPT !.status = "dns_challenge_created"], challenged \cup {Target(o)})
    /\ UNCHANGED <<vercel, proven, begun, cached, visitor>>

ChallengeExpires(d) ==
    /\ d \in challenged /\ challenged' = challenged \ {d}
    /\ UNCHANGED <<row, vercel, proven, crossed, incident, operator, begun, cached, visitor>>

VerifyAndAttach(o, d) ==
    /\ Begins(o, "verifying", d)
    /\ d \in challenged
    /\ UNCHANGED rowsVars

DnsVerified(o) ==
    /\ operator[o].at = "verifying" /\ vercel[Target(o)] # "absent"
    /\ vercel' = [vercel EXCEPT ![Target(o)] = "verified"]
    /\ proven' = proven \cup {Target(o)}
    /\ Proceeds(o, "attaching")
    /\ UNCHANGED <<row, challenged, crossed, incident, begun, cached, visitor>>

DnsNotVerified(o) ==
    /\ operator[o].at = "verifying" /\ vercel[Target(o)] = "pending"
    /\ Proceeds(o, "unverified")
    /\ UNCHANGED <<rowsVars, begun, cached, visitor>>

VerificationPending(o) ==
    /\ operator[o].at = "unverified"
    /\ Written(o, [row[Target(o)] EXCEPT !.status = "dns_verification_pending"], challenged)
    /\ UNCHANGED <<vercel, proven, begun, cached, visitor>>

AttachDomain(o) ==
    /\ operator[o].at = "attaching"
    /\ List(Target(o)) /\ Proceeds(o, "attached")
    /\ UNCHANGED <<row, challenged, proven, crossed, incident, begun, cached, visitor>>

Attached(o) ==
    /\ operator[o].at = "attached"
    /\ Written(o, [row[Target(o)] EXCEPT !.status = "certificate_pending", !.verified = TRUE],
               challenged \ {Target(o)})
    /\ UNCHANGED <<vercel, proven, begun, cached, visitor>>

(* The provider has issued a certificate for what it has verified.  Whether the
   domain then answers for its tenant is seen from outside.                   *)
CheckCertificateAndHealth(o, d) ==
    /\ Begins(o, "certified", d)
    /\ vercel[d] = "verified"
    /\ UNCHANGED rowsVars

HealthChecked(o) ==
    /\ operator[o].at = "certified"
    /\ \E status \in {"active", "failed"} :
        Written(o, [row[Target(o)] EXCEPT !.status = status], challenged)
    /\ UNCHANGED <<vercel, proven, begun, cached, visitor>>

(* control.set_primary_tenant_domain: under the environment's advisory lock it
   looks at the domain, and later, the trigger told to stand aside, takes the
   flag from the one that has it and gives it away.                           *)
SetPrimary(o, d) ==
    /\ Begins(o, "switching", d)
    /\ \A other \in Operator : operator[other].at # "switching"
    /\ row[d].status = "active"
    /\ UNCHANGED rowsVars

PrimarySet(o) ==
    /\ operator[o].at = "switching"
    /\ row' = [d \in Domain |->
                 IF d = Target(o) THEN [row[d] EXCEPT !.primary = TRUE]
                 ELSE IF d \in Primaries(row) THEN [row[d] EXCEPT !.primary = FALSE] ELSE row[d]]
    /\ Ends(o)
    /\ UNCHANGED <<challenged, vercel, proven, crossed, incident, begun, cached, visitor>>

Remove(o, d) ==
    /\ Begins(o, "removing", d)
    /\ ~row[d].primary
    /\ vercel' = [vercel EXCEPT ![d] = "absent"]
    /\ UNCHANGED <<row, challenged, proven, crossed, incident>>

Removed(o) ==
    /\ operator[o].at = "removing"
    /\ Written(o, [row[Target(o)] EXCEPT !.status = "removed"], challenged)
    /\ UNCHANGED <<vercel, proven, begun, cached, visitor>>

\* The provider, or the network, fails: the operation ends where it is.
OperationFails(o) ==
    /\ operator[o].at # "idle"
    /\ Ends(o)
    /\ UNCHANGED <<rowsVars, begun, cached, visitor>>

\* A domain is taken out of use by hand.
Suspend(d) ==
    /\ row[d].status \notin {"none", "suspended", "removed"}
    /\ LET new == [row[d] EXCEPT !.status = "suspended"] IN Accepted(d, new) /\ Update(d, new)
    /\ UNCHANGED <<challenged, vercel, proven, operator, begun, cached, visitor>>

--------------------------------------------------------------------------------
(* The gateway. *)
\* findActiveByHostname, for a tenant and an environment that are active.
Resolves(d) ==
    /\ row[d].status = "active" /\ row[Standard].status = "active"
    /\ \E p \in Domain : row[p].primary /\ row[p].status = "active"

\* The cache is asked first; an entry that is over is deleted then.
Resolve(v, d) ==
    /\ visitor[v].at = "idle" /\ d \notin cached
    /\ Resolves(d)
    /\ visitor' = [visitor EXCEPT ![v] = [at |-> "found", d |-> d]]
    /\ UNCHANGED <<rowsVars, operator, begun, cached>>

Resolved(v) ==
    /\ visitor[v].at = "found"
    /\ cached' = cached \cup {visitor[v].d}
    /\ visitor' = [visitor EXCEPT ![v] = AtRest]
    /\ UNCHANGED <<rowsVars, operator, begun>>

EntryExpires(d) ==
    /\ d \in cached /\ cached' = cached \ {d}
    /\ UNCHANGED <<rowsVars, operator, begun, visitor>>

Invalidate(d) ==
    /\ row[d] # NoRow
    /\ cached' = cached \ {d}
    /\ incident' = [incident EXCEPT ![d] =
                      IF row[d].status = "active" THEN @
                      ELSE IF \E v \in Visitor : visitor[v] = [at |-> "found", d |-> d]
                      THEN "overtaken" ELSE "over"]
    /\ UNCHANGED <<row, challenged, vercel, proven, crossed, operator, begun, visitor>>

--------------------------------------------------------------------------------
Operation(o) ==
    \/ \E d \in Domain :
        \/ CreateChallenge(o, d) \/ VerifyAndAttach(o, d)
        \/ CheckCertificateAndHealth(o, d) \/ SetPrimary(o, d) \/ Remove(o, d)
    \/ ChallengeCreated(o) \/ DnsVerified(o) \/ DnsNotVerified(o) \/ VerificationPending(o)
    \/ AttachDomain(o) \/ Attached(o) \/ HealthChecked(o) \/ PrimarySet(o) \/ Removed(o)
    \/ OperationFails(o)

Gateway ==
    \/ \E v \in Visitor : Resolved(v) \/ \E d \in Domain : Resolve(v, d)
    \/ \E d \in Domain : EntryExpires(d) \/ Invalidate(d)

DomainsNext ==
    \/ \E o \in Operator : Operation(o)
    \/ \E d \in Custom : RequestCustomDomain(d)
    \/ \E d \in Domain : ChallengeExpires(d) \/ Suspend(d)
    \/ Gateway

DomainsSpec == DomainsInit /\ [][DomainsNext]_domainVars

--------------------------------------------------------------------------------
DomainsTypeOK ==
    /\ row \in [Domain -> [status : DomainState, primary : BOOLEAN, verified : BOOLEAN]]
    /\ challenged \subseteq Domain /\ cached \subseteq Domain /\ proven \subseteq Domain
    /\ vercel \in [Domain -> {"absent", "pending", "verified"}]
    /\ operator \in [Operator -> [at : {"idle", "challenging", "verifying", "unverified", "attaching",
                                        "attached", "certified", "switching", "removing"},
                                  d : Domain]]
    /\ begun \in 0..MaxChanges
    /\ visitor \in [Visitor -> [at : {"idle", "found"}, d : Domain]]
    /\ crossed \in BOOLEAN
    /\ incident \in [Domain -> {"none", "over", "overtaken"}]

(* The environment has one primary domain at the most, and it is active, unless
   the row of a coming primary was written between the look of
   set_primary_tenant_domain at it and the update that gives it the flag: the
   trigger keeps every other operation from taking a primary domain out of use,
   however the calls overlap.                                                 *)
PrimaryWorks ==
    ~crossed => /\ \A d \in Domain : row[d].primary => row[d].status = "active"
                /\ \A d, e \in Domain : row[d].primary /\ row[e].primary => d = e

(* A domain that is active was found by the provider to be the tenant's, though
   no operation asks what the others have written since it read the row.      *)
ActiveWasProved == \A d \in Domain : row[d].status = "active" => d \in proven

(* A domain that was taken out of use and then out of the cache of the gateway
   is not in it again until it is active again, unless a request for it was
   being resolved when the cache was told.                                    *)
InvalidationHolds == \A d \in cached : incident[d] # "over"
================================================================================
