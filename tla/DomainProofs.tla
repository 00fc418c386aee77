------------------------------ MODULE DomainProofs ------------------------------
(* What holds of the domains of an environment, for any number of domains, of
   overlapping operations on them and of requests at the gateway.             *)
EXTENDS TenantDomains, TLAPS

RowType == [status : DomainState, primary : BOOLEAN, verified : BOOLEAN]
OperatorType == [at : {"idle", "challenging", "verifying", "unverified", "attaching",
                       "attached", "certified", "switching", "removing"}, d : Domain]

(* Evidence is only written of what the provider has found, and an operation
   that goes on after its answer had a good one.                              *)
EvidenceIsReal ==
    /\ \A d \in Domain : row[d].status = "active" => row[d].verified
    /\ \A d \in Domain : row[d].verified => d \in proven
    /\ \A o \in Operator : operator[o].at \in {"attaching", "attached"} => Target(o) \in proven

(* What a switch looked at still holds when nobody wrote to it. *)
SwitchSawActive ==
    ~crossed => \A o \in Operator : operator[o].at = "switching" => row[Target(o)].status = "active"

(* Only what is out of use has an incident, and no request that is being resolved
   was found before a clean invalidation.                                     *)
IncidentsAreKnown ==
    /\ \A d \in Domain : incident[d] # "none" => row[d].status # "active"
    /\ \A v \in Visitor : visitor[v].at = "found" => incident[visitor[v].d] # "over"

DomainsInv ==
    /\ DomainsTypeOK
    /\ PrimaryWorks
    /\ EvidenceIsReal
    /\ SwitchSawActive
    /\ InvalidationHolds
    /\ IncidentsAreKnown

LEMMA StandardIsDomain == Standard \in Domain
  BY DEF Domain

LEMMA DomainsInitEstablishes == DomainsInit => DomainsInv
  <1> SUFFICES ASSUME DomainsInit PROVE DomainsInv
    OBVIOUS
  <1> USE StandardIsDomain, DomainsAssumption DEF DomainsInit
  <1>1. DomainsTypeOK
    <2>1. PICK routed \in BOOLEAN :
            row = [d \in Domain |->
                     IF d \in Custom THEN NoRow
                     ELSE [status |-> IF routed THEN "active" ELSE "routing_pending",
                           primary |-> routed, verified |-> routed]]
      OBVIOUS
    <2>2. row \in [Domain -> RowType]
      BY <2>1 DEF RowType, DomainState, NoRow
    <2>3. begun \in 0..MaxChanges
      OBVIOUS
    <2> QED
      BY <2>2, <2>3 DEF DomainsTypeOK, RowType, AtRest
  <1>2. PrimaryWorks /\ EvidenceIsReal
    BY DEF PrimaryWorks, EvidenceIsReal, NoRow, AtRest, Domain, Target
  <1>3. SwitchSawActive /\ InvalidationHolds /\ IncidentsAreKnown
    BY DEF SwitchSawActive, InvalidationHolds, IncidentsAreKnown, AtRest
  <1> QED
    BY <1>1, <1>2, <1>3 DEF DomainsInv

(* One row after an accepted update. *)
LEMMA UpdatedRow ==
    ASSUME DomainsTypeOK, NEW d \in Domain, NEW new \in RowType, Update(d, new)
    PROVE  /\ row' \in [Domain -> RowType] /\ row'[d] = new
           /\ \A e \in Domain : e # d => row'[e] = row[e]
           /\ crossed' \in BOOLEAN
           /\ incident' \in [Domain -> {"none", "over", "overtaken"}]
  BY DEF DomainsTypeOK, Update, RowType

(* An update through the trigger keeps what is said of the rows, if what it says
   of the evidence is true.                                                   *)
LEMMA UpdateKeeps ==
    ASSUME DomainsInv, NEW d \in Domain, NEW new \in RowType,
           Accepted(d, new), Update(d, new), new.primary = row[d].primary,
           proven' = proven, new.verified => d \in proven
    PROVE  /\ PrimaryWorks'
           /\ \A e \in Domain : row'[e].status = "active" => row'[e].verified
           /\ \A e \in Domain : row'[e].verified => e \in proven'
           /\ \A e \in Domain : incident'[e] # "none" => row'[e].status # "active"
  <1> USE DEF DomainsInv
  <1>1. /\ row'[d] = new /\ \A e \in Domain : e # d => row'[e] = row[e]
        /\ row' \in [Domain -> RowType]
    BY UpdatedRow
  <1>2. new.primary => new.status = "active"
    BY DEF Accepted, GuardAllows
  <1>3. crossed => crossed'
    BY DEF Update
  <1>4. PrimaryWorks'
    BY <1>1, <1>2, <1>3 DEF PrimaryWorks
  <1>5. \A e \in Domain : row'[e].status = "active" => row'[e].verified
    BY DEF Accepted, ConstraintsHold, Update
  <1>6. \A e \in Domain : row'[e].verified => e \in proven'
    BY <1>1 DEF EvidenceIsReal
  <1>7. \A e \in Domain : incident'[e] # "none" => row'[e].status # "active"
    BY <1>1 DEF IncidentsAreKnown, Update, DomainsTypeOK
  <1> QED
    BY <1>4, <1>5, <1>6, <1>7

(* The end of an operation that writes, committed or refused. *)
LEMMA WrittenKeeps ==
    ASSUME DomainsInv, NEW o \in Operator, operator[o].at \notin {"idle", "switching"},
           NEW new \in RowType, new.primary = row[Target(o)].primary,
           new.verified => Target(o) \in proven,
           NEW open \in SUBSET Domain, Written(o, new, open),
           UNCHANGED <<vercel, proven, begun, cached, visitor>>
    PROVE  DomainsInv'
  <1> USE DEF DomainsInv
  <1>0. /\ Target(o) \in Domain /\ operator' = [operator EXCEPT ![o] = AtRest]
        /\ operator' \in [Operator -> OperatorType]
        /\ \A p \in Operator : p # o => operator'[p] = operator[p]
        /\ operator'[o].at = "idle"
    BY StandardIsDomain DEF DomainsTypeOK, Written, Ends, Target, OperatorType, AtRest
  <1>1. CASE Accepted(Target(o), new)
    <2>1. Update(Target(o), new) /\ challenged' = open
      BY <1>1 DEF Written
    <2>2. /\ row' \in [Domain -> RowType] /\ row'[Target(o)] = new
          /\ \A e \in Domain : e # Target(o) => row'[e] = row[e]
          /\ crossed' \in BOOLEAN
          /\ incident' \in [Domain -> {"none", "over", "overtaken"}]
      BY <1>0, <2>1, UpdatedRow
    <2>3. /\ PrimaryWorks'
          /\ \A e \in Domain : row'[e].status = "active" => row'[e].verified
          /\ \A e \in Domain : row'[e].verified => e \in proven'
          /\ \A e \in Domain : incident'[e] # "none" => row'[e].status # "active"
      BY <1>0, <1>1, <2>1, UpdateKeeps
    <2>4. DomainsTypeOK'
      BY <1>0, <2>1, <2>2 DEF DomainsTypeOK, RowType, OperatorType
    <2>5. EvidenceIsReal'
      BY <1>0, <2>3 DEF EvidenceIsReal, Target
    <2>6. SwitchSawActive'
      <3> SUFFICES ASSUME ~crossed', NEW p \in Operator, operator'[p].at = "switching"
                   PROVE  row'[operator'[p].d].status = "active"
        BY DEF SwitchSawActive, Target
      <3>1. p # o /\ operator'[p] = operator[p] /\ operator[p].d \in Domain
        BY <1>0 DEF DomainsTypeOK
      <3>2. ~crossed /\ operator[p] # [at |-> "switching", d |-> Target(o)]
        BY <2>1 DEF Update
      <3>3. operator[p].d # Target(o)
        BY <3>1, <3>2 DEF DomainsTypeOK
      <3> QED
        BY <2>2, <3>1, <3>2, <3>3 DEF SwitchSawActive, Target
    <2>7. InvalidationHolds' /\ IncidentsAreKnown'
      <3>1. \A e \in Domain : incident'[e] = incident[e] \/ incident'[e] = "none"
        BY <2>1 DEF Update, DomainsTypeOK
      <3> QED
        BY <2>3, <3>1 DEF InvalidationHolds, IncidentsAreKnown, DomainsTypeOK
    <2> QED
      BY <2>3, <2>4, <2>5, <2>6, <2>7
  <1>2. CASE ~Accepted(Target(o), new)
    <2>1. UNCHANGED <<row, crossed, incident, challenged>>
      BY <1>2 DEF Written
    <2>2. DomainsTypeOK'
      BY <1>0, <2>1 DEF DomainsTypeOK, OperatorType
    <2>3. PrimaryWorks' /\ EvidenceIsReal' /\ SwitchSawActive' /\ InvalidationHolds' /\ IncidentsAreKnown'
      BY <1>0, <2>1 DEF PrimaryWorks, EvidenceIsReal, SwitchSawActive, InvalidationHolds,
         IncidentsAreKnown, Target
    <2> QED
      BY <2>2, <2>3
  <1> QED
    BY <1>1, <1>2

(* A step of an operation that leaves the rows, the cache and the requests: what
   it is about to write must be proved, and what it switches to active.       *)
LEMMA OperatorMoves ==
    ASSUME DomainsInv, NEW o \in Operator, NEW op \in OperatorType,
           operator' = [operator EXCEPT ![o] = op],
           UNCHANGED <<row, cached, visitor, crossed, incident>>,
           challenged' \in SUBSET Domain, proven' \in SUBSET Domain, proven \subseteq proven',
           vercel' \in [Domain -> {"absent", "pending", "verified"}],
           begun' \in 0..MaxChanges,
           op.at \in {"attaching", "attached"} => op.d \in proven',
           op.at = "switching" => row[op.d].status = "active"
    PROVE  DomainsInv'
  <1> USE DEF DomainsInv
  <1>1. operator' \in [Operator -> OperatorType] /\ operator'[o] = op
        /\ \A p \in Operator : p # o => operator'[p] = operator[p]
    BY DEF DomainsTypeOK, OperatorType
  <1>2. DomainsTypeOK'
    BY <1>1 DEF DomainsTypeOK, OperatorType
  <1>3. PrimaryWorks' /\ InvalidationHolds' /\ IncidentsAreKnown'
    BY DEF PrimaryWorks, InvalidationHolds, IncidentsAreKnown
  <1>4. EvidenceIsReal'
    BY <1>1 DEF EvidenceIsReal, Target
  <1>5. SwitchSawActive'
    BY <1>1 DEF SwitchSawActive, Target
  <1> QED
    BY <1>2, <1>3, <1>4, <1>5

(* Each operation, up to its transaction and with it. *)
LEMMA RowTyped == ASSUME DomainsTypeOK, NEW o \in Operator
                  PROVE  Target(o) \in Domain /\ row[Target(o)] \in RowType
  BY DEF DomainsTypeOK, Target, RowType

LEMMA WritesKeep ==
    ASSUME DomainsInv, NEW o \in Operator,
           \/ ChallengeCreated(o) \/ VerificationPending(o) \/ Attached(o)
           \/ HealthChecked(o) \/ Removed(o)
    PROVE  DomainsInv'
  <1> USE DEF DomainsInv
  <1>0. Target(o) \in Domain /\ row[Target(o)] \in RowType /\ challenged \in SUBSET Domain
    BY RowTyped DEF DomainsTypeOK
  <1>1. row[Target(o)].verified => Target(o) \in proven
    BY <1>0 DEF EvidenceIsReal
  <1>2. ASSUME NEW status \in DomainState
        PROVE  LET new == [row[Target(o)] EXCEPT !.status = status]
               IN  /\ new \in RowType /\ new.primary = row[Target(o)].primary
                   /\ new.verified = row[Target(o)].verified
    BY ONLY <1>0, <1>2 DEF RowType
  <1>3. CASE ChallengeCreated(o)
    <2> DEFINE new == [row[Target(o)] EXCEPT !.status = "dns_challenge_created"]
    <2>1. /\ new \in RowType /\ new.primary = row[Target(o)].primary
          /\ new.verified = row[Target(o)].verified
      BY <1>2 DEF DomainState
    <2>2. \E open \in SUBSET Domain : Written(o, new, open)
      BY <1>0, <1>3 DEF ChallengeCreated
    <2>3. operator[o].at \notin {"idle", "switching"} /\ UNCHANGED <<vercel, proven, begun, cached, visitor>>
      BY <1>3 DEF ChallengeCreated
    <2> HIDE DEF new
    <2> QED
      BY <1>1, <2>1, <2>2, <2>3, WrittenKeeps
  <1>4. CASE VerificationPending(o)
    <2> DEFINE new == [row[Target(o)] EXCEPT !.status = "dns_verification_pending"]
    <2>1. /\ new \in RowType /\ new.primary = row[Target(o)].primary
          /\ new.verified = row[Target(o)].verified
      BY <1>2 DEF DomainState
    <2>2. \E open \in SUBSET Domain : Written(o, new, open)
      BY <1>0, <1>4 DEF VerificationPending
    <2>3. operator[o].at \notin {"idle", "switching"} /\ UNCHANGED <<vercel, proven, begun, cached, visitor>>
      BY <1>4 DEF VerificationPending
    <2> HIDE DEF new
    <2> QED
      BY <1>1, <2>1, <2>2, <2>3, WrittenKeeps
  <1>5. CASE Attached(o)
    <2>1. Target(o) \in proven
      BY <1>5 DEF Attached, EvidenceIsReal
    <2> DEFINE new == [row[Target(o)] EXCEPT !.status = "certificate_pending", !.verified = TRUE]
    <2>2. new \in RowType /\ new.primary = row[Target(o)].primary
      BY <1>0 DEF RowType, DomainState
    <2> QED
      BY <1>0, <1>5, <2>1, <2>2, WrittenKeeps DEF Attached
  <1>6. CASE HealthChecked(o)
    <2>1. PICK status \in {"active", "failed"} :
            Written(o, [row[Target(o)] EXCEPT !.status = status], challenged)
      BY <1>6 DEF HealthChecked
    <2>2. status \in DomainState
      BY DEF DomainState
    <2> QED
      BY <1>0, <1>1, <1>2, <1>6, <2>1, <2>2, WrittenKeeps DEF HealthChecked
  <1>7. CASE Removed(o)
    <2> DEFINE new == [row[Target(o)] EXCEPT !.status = "removed"]
    <2>1. /\ new \in RowType /\ new.primary = row[Target(o)].primary
          /\ new.verified = row[Target(o)].verified
      BY <1>2 DEF DomainState
    <2>2. \E open \in SUBSET Domain : Written(o, new, open)
      BY <1>0, <1>7 DEF Removed
    <2>3. operator[o].at \notin {"idle", "switching"} /\ UNCHANGED <<vercel, proven, begun, cached, visitor>>
      BY <1>7 DEF Removed
    <2> HIDE DEF new
    <2> QED
      BY <1>1, <2>1, <2>2, <2>3, WrittenKeeps
  <1> QED
    BY <1>3, <1>4, <1>5, <1>6, <1>7

LEMMA BeginningsKeep ==
    ASSUME DomainsInv, NEW o \in Operator, NEW d \in Domain,
           \/ CreateChallenge(o, d) \/ VerifyAndAttach(o, d) \/ Remove(o, d)
           \/ CheckCertificateAndHealth(o, d) \/ SetPrimary(o, d)
    PROVE  DomainsInv'
  <1> USE DEF DomainsInv
  <1>1. ASSUME NEW at \in {"idle", "challenging", "verifying", "removing", "certified", "switching"}
        PROVE  [at |-> at, d |-> d] \in OperatorType
    BY DEF OperatorType
  <1>2. PICK at \in {"idle", "challenging", "verifying", "removing", "certified", "switching"} :
          Begins(o, at, d) /\ (at = "switching" => row[d].status = "active")
    BY DEF CreateChallenge, VerifyAndAttach, Remove, CheckCertificateAndHealth, SetPrimary
  <1>3. begun' \in 0..MaxChanges
    BY <1>2, DomainsAssumption DEF Begins, DomainsTypeOK
  <1>4. /\ UNCHANGED <<row, challenged, proven, crossed, incident>>
        /\ vercel' \in [Domain -> {"absent", "pending", "verified"}]
    BY DEF CreateChallenge, VerifyAndAttach, Remove, CheckCertificateAndHealth, SetPrimary,
       Listing, rowsVars, DomainsTypeOK
  <1>5. challenged \in SUBSET Domain /\ proven \in SUBSET Domain
    BY DEF DomainsTypeOK
  <1> QED
    BY <1>1, <1>2, <1>3, <1>4, <1>5, OperatorMoves DEF Begins

LEMMA ListingTyped == ASSUME DomainsTypeOK, NEW d \in Domain, List(d)
                      PROVE  vercel' \in [Domain -> {"absent", "pending", "verified"}]
  BY DEF DomainsTypeOK, List, Listing

LEMMA MiddlesKeep ==
    ASSUME DomainsInv, NEW o \in Operator,
           DnsVerified(o) \/ DnsNotVerified(o) \/ AttachDomain(o) \/ OperationFails(o)
    PROVE  DomainsInv'
  <1> USE DEF DomainsInv
  <1>0. /\ operator[o] \in OperatorType /\ Target(o) \in Domain
        /\ challenged \in SUBSET Domain /\ proven \in SUBSET Domain
        /\ vercel \in [Domain -> {"absent", "pending", "verified"}] /\ begun \in 0..MaxChanges
        /\ operator[o].d = Target(o)
    BY DEF DomainsTypeOK, OperatorType, Target
  <1>1. ASSUME NEW at \in {"attaching", "unverified", "attached"}, Proceeds(o, at)
        PROVE  \E op \in OperatorType : /\ operator' = [operator EXCEPT ![o] = op]
                                        /\ op.at = at /\ op.d = Target(o)
    <2> DEFINE op == [operator[o] EXCEPT !.at = at]
    <2>1. op \in OperatorType /\ op.at = at /\ op.d = Target(o)
      BY <1>0 DEF OperatorType
    <2>2. operator' = [operator EXCEPT ![o] = op]
      BY <1>1 DEF Proceeds
    <2> QED
      BY <2>1, <2>2
  <1>2. CASE DnsVerified(o)
    <2>1. PICK op \in OperatorType : /\ operator' = [operator EXCEPT ![o] = op]
                                     /\ op.at = "attaching" /\ op.d = Target(o)
      BY <1>1, <1>2 DEF DnsVerified
    <2>2. /\ vercel' \in [Domain -> {"absent", "pending", "verified"}]
          /\ proven' = proven \cup {Target(o)} /\ begun' = begun
          /\ UNCHANGED <<row, challenged, crossed, incident, cached, visitor>>
      BY <1>0, <1>2 DEF DnsVerified
    <2>3. proven' \in SUBSET Domain
      BY <1>0, <2>2
    <2> QED
      BY <1>0, <2>1, <2>2, <2>3, OperatorMoves
  <1>3. CASE DnsNotVerified(o)
    <2>1. PICK op \in OperatorType : operator' = [operator EXCEPT ![o] = op] /\ op.at = "unverified"
      BY <1>1, <1>3 DEF DnsNotVerified
    <2> QED
      BY <1>0, <1>3, <2>1, OperatorMoves DEF DnsNotVerified, rowsVars
  <1>4. CASE AttachDomain(o)
    <2>1. PICK op \in OperatorType : /\ operator' = [operator EXCEPT ![o] = op]
                                     /\ op.at = "attached" /\ op.d = Target(o)
      BY <1>1, <1>4 DEF AttachDomain
    <2>2. Target(o) \in proven
      BY <1>4 DEF AttachDomain, EvidenceIsReal
    <2>3. vercel' \in [Domain -> {"absent", "pending", "verified"}]
      BY <1>0, <1>4, ListingTyped DEF AttachDomain
    <2> QED
      BY <1>0, <1>4, <2>1, <2>2, <2>3, OperatorMoves DEF AttachDomain
  <1>5. CASE OperationFails(o)
    <2>1. AtRest \in OperatorType
      BY StandardIsDomain DEF AtRest, OperatorType
    <2> QED
      BY <1>0, <1>5, <2>1, OperatorMoves DEF OperationFails, Ends, AtRest, rowsVars
  <1> QED
    BY <1>2, <1>3, <1>4, <1>5

(* The switch: if nobody wrote to the row it looked at, it hands the flag to an
   active domain and takes it from whichever had it.                          *)
LEMMA PrimarySetKeeps ==
    ASSUME DomainsInv, NEW o \in Operator, PrimarySet(o)
    PROVE  DomainsInv'
  <1> USE DEF DomainsInv
  <1>1. Target(o) \in Domain
    BY DEF DomainsTypeOK, Target
  <1>2. /\ row' \in [Domain -> RowType]
        /\ \A d \in Domain : row'[d].status = row[d].status /\ row'[d].verified = row[d].verified
        /\ \A d \in Domain : row'[d].primary => d = Target(o) \/ (row[d].primary /\ row[d].status = "removed")
    <2>1. row' = [d \in Domain |->
                   IF d = Target(o) THEN [row[d] EXCEPT !.primary = TRUE]
                   ELSE IF d \in Primaries(row) THEN [row[d] EXCEPT !.primary = FALSE] ELSE row[d]]
      BY DEF PrimarySet
    <2>2. \A d \in Domain :
            /\ row'[d] \in RowType
            /\ row'[d].status = row[d].status /\ row'[d].verified = row[d].verified
            /\ row'[d].primary => d = Target(o) \/ (row[d].primary /\ row[d].status = "removed")
      BY <2>1 DEF DomainsTypeOK, RowType, Primaries
    <2> QED
      BY <2>1, <2>2
  <1>3. /\ operator' \in [Operator -> OperatorType] /\ operator'[o].at = "idle"
        /\ \A p \in Operator : p # o => operator'[p] = operator[p]
    BY StandardIsDomain DEF PrimarySet, Ends, DomainsTypeOK, OperatorType, AtRest
  <1>4. UNCHANGED <<challenged, vercel, proven, crossed, incident, begun, cached, visitor>>
    BY DEF PrimarySet
  <1>5. DomainsTypeOK'
    BY <1>2, <1>3, <1>4 DEF DomainsTypeOK, RowType, OperatorType
  <1>6. PrimaryWorks'
    <2> SUFFICES ASSUME ~crossed
                 PROVE  /\ \A d \in Domain : row'[d].primary => row'[d].status = "active"
                        /\ \A d, e \in Domain : row'[d].primary /\ row'[e].primary => d = e
      BY <1>4 DEF PrimaryWorks
    <2>1. row[Target(o)].status = "active"
      BY DEF SwitchSawActive, PrimarySet
    <2>2. \A d \in Domain : ~(row[d].primary /\ row[d].status = "removed")
      BY DEF PrimaryWorks
    <2> QED
      BY <1>2, <2>1, <2>2
  <1>7. EvidenceIsReal'
    BY <1>2, <1>3, <1>4 DEF EvidenceIsReal, Target
  <1>8. SwitchSawActive'
    BY <1>2, <1>3, <1>4 DEF SwitchSawActive, Target, DomainsTypeOK
  <1>9. InvalidationHolds' /\ IncidentsAreKnown'
    BY <1>2, <1>4 DEF InvalidationHolds, IncidentsAreKnown
  <1> QED
    BY <1>5, <1>6, <1>7, <1>8, <1>9

LEMMA OperationKeeps ==
    ASSUME DomainsInv, NEW o \in Operator, Operation(o)
    PROVE  DomainsInv'
  BY WritesKeep, BeginningsKeep, MiddlesKeep, PrimarySetKeeps DEF Operation

(* A new domain: its row has nothing to show for it yet. *)
LEMMA RequestKeeps ==
    ASSUME DomainsInv, NEW d \in Custom, RequestCustomDomain(d)
    PROVE  DomainsInv'
  <1> USE DEF DomainsInv
  <1>1. d \in Domain
    BY DEF Domain
  <1>2. /\ vercel' \in [Domain -> {"absent", "pending", "verified"}] /\ begun' \in 0..MaxChanges
        /\ UNCHANGED <<challenged, proven, crossed, incident, operator, cached, visitor>>
    BY <1>1, ListingTyped, DomainsAssumption DEF RequestCustomDomain, DomainsTypeOK
  <1>3. CASE row[d] = NoRow
    <2> DEFINE new == [row[d] EXCEPT !.status = "requested"]
    <2>1. /\ new \in RowType /\ new.status = "requested" /\ ~new.primary /\ ~new.verified
          /\ row[d].status # "active" /\ ~row[d].primary
      <3>1. row[d] \in RowType /\ "requested" \in DomainState
        BY <1>1 DEF DomainsTypeOK, RowType, DomainState
      <3>2. row[d].status = "none" /\ ~row[d].primary /\ ~row[d].verified
        BY <1>3 DEF NoRow
      <3> QED
        BY <3>1, <3>2 DEF RowType
    <2>2. row' = [row EXCEPT ![d] = new]
      BY <1>3 DEF RequestCustomDomain
    <2>3. /\ row' \in [Domain -> RowType] /\ row'[d] = new
          /\ \A e \in Domain : e # d => row'[e] = row[e]
      BY <1>1, <2>1, <2>2 DEF DomainsTypeOK, RowType
    <2> HIDE DEF new
    <2>4. DomainsTypeOK'
      BY <1>2, <2>3 DEF DomainsTypeOK, RowType
    <2>5. PrimaryWorks' /\ EvidenceIsReal'
      BY <1>2, <2>1, <2>3 DEF PrimaryWorks, EvidenceIsReal, Target
    <2>6. SwitchSawActive'
      BY <1>2, <2>1, <2>3 DEF SwitchSawActive, Target, DomainsTypeOK
    <2>7. InvalidationHolds' /\ IncidentsAreKnown'
      BY <1>2, <2>1, <2>3 DEF InvalidationHolds, IncidentsAreKnown
    <2> QED
      BY <2>4, <2>5, <2>6, <2>7
  <1>4. CASE row[d] # NoRow
    <2>1. row' = row
      BY <1>4 DEF RequestCustomDomain
    <2> QED
      BY <1>2, <2>1 DEF DomainsTypeOK, PrimaryWorks, EvidenceIsReal, SwitchSawActive,
         InvalidationHolds, IncidentsAreKnown, Target
  <1> QED
    BY <1>3, <1>4

LEMMA SuspendKeeps ==
    ASSUME DomainsInv, NEW d \in Domain, Suspend(d)
    PROVE  DomainsInv'
  <1> USE DEF DomainsInv
  <1> DEFINE new == [row[d] EXCEPT !.status = "suspended"]
  <1>1. /\ new \in RowType /\ new.primary = row[d].primary /\ new.status = "suspended"
        /\ new.verified = row[d].verified
    <2>1. row[d] \in RowType /\ "suspended" \in DomainState
      BY DEF DomainsTypeOK, RowType, DomainState
    <2> QED
      BY <2>1 DEF RowType
  <1>2. /\ Accepted(d, new) /\ Update(d, new)
        /\ UNCHANGED <<challenged, vercel, proven, operator, begun, cached, visitor>>
    BY DEF Suspend
  <1>3. new.verified => d \in proven
    BY <1>1 DEF EvidenceIsReal
  <1>4. /\ row' \in [Domain -> RowType] /\ row'[d] = new
        /\ \A e \in Domain : e # d => row'[e] = row[e]
        /\ crossed' \in BOOLEAN /\ incident' = incident
    BY <1>1, <1>2, UpdatedRow DEF Update
  <1>5. DomainsTypeOK'
    BY <1>2, <1>4 DEF DomainsTypeOK, RowType
  <1>6. /\ PrimaryWorks'
        /\ \A e \in Domain : row'[e].status = "active" => row'[e].verified
        /\ \A e \in Domain : row'[e].verified => e \in proven'
        /\ \A e \in Domain : incident'[e] # "none" => row'[e].status # "active"
    BY <1>1, <1>2, <1>3, UpdateKeeps
  <1>7. EvidenceIsReal' /\ InvalidationHolds' /\ IncidentsAreKnown'
    BY <1>2, <1>4, <1>6 DEF EvidenceIsReal, InvalidationHolds, IncidentsAreKnown, Target
  <1>8. SwitchSawActive'
    <2> SUFFICES ASSUME ~crossed', NEW p \in Operator, operator[p].at = "switching"
                 PROVE  row'[operator[p].d].status = "active"
      BY <1>2 DEF SwitchSawActive, Target
    <2>1. ~crossed /\ operator[p] # [at |-> "switching", d |-> d] /\ operator[p].d \in Domain
      BY <1>2 DEF Update, DomainsTypeOK
    <2>2. operator[p].d # d
      BY <2>1 DEF DomainsTypeOK
    <2> QED
      BY <1>4, <2>1, <2>2 DEF SwitchSawActive, Target
  <1> QED
    BY <1>5, <1>6, <1>7, <1>8

(* The gateway: it stores what was active when it was found, and an invalidation
   knows of the requests that were being resolved.                            *)
LEMMA GatewayKeeps ==
    ASSUME DomainsInv, Gateway \/ \E d \in Domain : ChallengeExpires(d)
    PROVE  DomainsInv'
  <1> USE DEF DomainsInv
  <1>1. CASE \E d \in Domain : ChallengeExpires(d) \/ EntryExpires(d)
    <2>1. /\ challenged' \subseteq challenged /\ cached' \subseteq cached
          /\ UNCHANGED <<row, vercel, proven, crossed, incident, operator, begun, visitor>>
      BY <1>1 DEF ChallengeExpires, EntryExpires, rowsVars
    <2> QED
      BY <2>1 DEF DomainsTypeOK, PrimaryWorks, EvidenceIsReal, SwitchSawActive,
         InvalidationHolds, IncidentsAreKnown, Target
  <1>2. ASSUME NEW v \in Visitor, NEW d \in Domain, Resolve(v, d)
        PROVE  DomainsInv'
    <2>1. /\ visitor' = [visitor EXCEPT ![v] = [at |-> "found", d |-> d]] /\ incident[d] = "none"
          /\ UNCHANGED <<row, challenged, vercel, proven, crossed, incident, operator, begun, cached>>
      BY <1>2 DEF Resolve, Resolves, IncidentsAreKnown, rowsVars, DomainsTypeOK
    <2> QED
      BY <2>1 DEF DomainsTypeOK, PrimaryWorks, EvidenceIsReal, SwitchSawActive,
         InvalidationHolds, IncidentsAreKnown, Target
  <1>3. ASSUME NEW v \in Visitor, Resolved(v)
        PROVE  DomainsInv'
    <2>1. /\ visitor[v].at = "found" /\ visitor[v].d \in Domain
          /\ visitor' = [visitor EXCEPT ![v] = AtRest] /\ cached' = cached \cup {visitor[v].d}
          /\ UNCHANGED <<row, challenged, vercel, proven, crossed, incident, operator, begun>>
      BY <1>3 DEF Resolved, rowsVars, DomainsTypeOK
    <2>2. DomainsTypeOK'
      BY <2>1, StandardIsDomain DEF DomainsTypeOK, AtRest
    <2>3. InvalidationHolds' /\ IncidentsAreKnown'
      BY <2>1 DEF InvalidationHolds, IncidentsAreKnown, DomainsTypeOK, AtRest
    <2> QED
      BY <2>1, <2>2, <2>3 DEF PrimaryWorks, EvidenceIsReal, SwitchSawActive, Target
  <1>4. ASSUME NEW d \in Domain, Invalidate(d)
        PROVE  DomainsInv'
    <2>1. /\ cached' = cached \ {d}
          /\ \A e \in Domain : e # d => incident'[e] = incident[e]
          /\ incident' \in [Domain -> {"none", "over", "overtaken"}]
          /\ row[d].status = "active" => incident'[d] = incident[d]
          /\ UNCHANGED <<row, challenged, vercel, proven, crossed, operator, begun, visitor>>
      BY <1>4 DEF Invalidate, DomainsTypeOK
    <2>2. DomainsTypeOK'
      BY <2>1 DEF DomainsTypeOK
    <2>3. InvalidationHolds'
      BY <2>1 DEF InvalidationHolds, DomainsTypeOK
    <2>4. IncidentsAreKnown'
      <3>1. \A e \in Domain : incident'[e] # "none" => row'[e].status # "active"
        BY <2>1 DEF IncidentsAreKnown
      <3>2. ASSUME NEW v \in Visitor, visitor[v].at = "found" PROVE incident'[visitor[v].d] # "over"
        <4>1. visitor[v] \in [at : {"idle", "found"}, d : Domain]
          BY DEF DomainsTypeOK
        <4>2. CASE visitor[v].d = d
          <5>1. visitor[v] = [at |-> "found", d |-> d]
            BY <3>2, <4>1, <4>2
          <5>2. incident[d] # "over"
            BY <3>2, <4>2 DEF IncidentsAreKnown
          <5> QED
            BY <1>4, <4>2, <5>1, <5>2 DEF Invalidate, DomainsTypeOK
        <4>3. CASE visitor[v].d # d
          BY <2>1, <3>2, <4>1, <4>3 DEF IncidentsAreKnown
        <4> QED
          BY <4>2, <4>3
      <3> QED
        BY <2>1, <3>1, <3>2 DEF IncidentsAreKnown
    <2> QED
      BY <2>1, <2>2, <2>3, <2>4 DEF PrimaryWorks, EvidenceIsReal, SwitchSawActive, Target
  <1> QED
    BY <1>1, <1>2, <1>3, <1>4 DEF Gateway

LEMMA DomainsStepKeeps == DomainsInv /\ [DomainsNext]_domainVars => DomainsInv'
  <1> SUFFICES ASSUME DomainsInv, [DomainsNext]_domainVars PROVE DomainsInv'
    OBVIOUS
  <1>1. CASE UNCHANGED domainVars
    BY <1>1 DEF domainVars, rowsVars, DomainsInv, DomainsTypeOK, PrimaryWorks, EvidenceIsReal,
       SwitchSawActive, InvalidationHolds, IncidentsAreKnown, Target
  <1> QED
    BY <1>1, OperationKeeps, RequestKeeps, SuspendKeeps, GatewayKeeps DEF DomainsNext

THEOREM DomainsInvHolds == DomainsSpec => []DomainsInv
  BY DomainsInitEstablishes, DomainsStepKeeps, PTL DEF DomainsSpec

(* A primary domain stays usable whatever the domain management does, as long as
   nobody writes to a row between the look of a switch and its update.        *)
THEOREM PrimaryWorksHolds == DomainsSpec => []PrimaryWorks
  <1>1. DomainsInv => PrimaryWorks
    BY DEF DomainsInv
  <1> QED
    BY <1>1, DomainsInvHolds, PTL

(* What is active was found to be the tenant's, in whatever order the steps of
   the operations come.                                                       *)
THEOREM ActiveWasProvedHolds == DomainsSpec => []ActiveWasProved
  <1>1. DomainsInv => ActiveWasProved
    BY DEF DomainsInv, EvidenceIsReal, ActiveWasProved
  <1> QED
    BY <1>1, DomainsInvHolds, PTL

(* A clean invalidation lasts until the domain is in use again. *)
THEOREM InvalidationLasts == DomainsSpec => []InvalidationHolds
  <1>1. DomainsInv => InvalidationHolds
    BY DEF DomainsInv
  <1> QED
    BY <1>1, DomainsInvHolds, PTL

(* Rows, operations and the gateway keep their types. *)
THEOREM DomainsTypeCorrect == DomainsSpec => []DomainsTypeOK
  <1>1. DomainsInv => DomainsTypeOK
    BY DEF DomainsInv
  <1> QED
    BY <1>1, DomainsInvHolds, PTL
================================================================================
