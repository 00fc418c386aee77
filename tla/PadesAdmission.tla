----------------------------- MODULE PadesAdmission -----------------------------
(* What a signed revision is worth, and who says so.  The signing service says
   which levels it can produce.  The database computes the level of an artifact
   from the rows of its evidence, at commit.  The validation service reports what
   it finds in the bytes, and the worker derives from the report whether the
   signature is admitted under the policy of the case, or has failed.           *)
EXTENDS Naturals

CONSTANT TimestampConfigured    \* the signing service is given a time stamping authority
ASSUME TimestampAssumption == TimestampConfigured \in BOOLEAN

Level == {"none", "B", "T", "LT", "LTA"}
Indication == {"TOTAL_PASSED", "INDETERMINATE", "TOTAL_FAILED"}

Rank == [none |-> 0, B |-> 1, T |-> 2, LT |-> 3, LTA |-> 4]

(* requiredPadesLevel, requiresTimestamp and allowedValidationResults of a
   policy_snapshot.                                                             *)
Policies == [level : Level, timestamp : BOOLEAN, allowed : SUBSET (Indication \ {"TOTAL_FAILED"})]

SupportedPadesLevels == IF TimestampConfigured THEN {"B", "T"} ELSE {"B"}

-------------------------------------------------------------------------------
(* The highest level that evidence supports; each needs what the one below it
   does.  "path" is the certificate and its chain.                              *)
AttainedPadesLevel(evidence) ==
    IF "path" \notin evidence THEN "none"
    ELSE IF "timestamp" \notin evidence THEN "B"
    ELSE IF {"revocation", "trust list"} \ evidence # {} THEN "T"
    ELSE IF "archive timestamp" \notin evidence THEN "LT"
    ELSE "LTA"

(* Of all evidence PADES_CREATE writes rows of the certificate and its chain. *)
RecordedEvidence == {"path"}

\* The trigger believes what the signing service advertises.
OverclaimedUnlessSupported(level) == level \notin SupportedPadesLevels

LevelOverclaimed(level) == Rank[level] > Rank[AttainedPadesLevel(RecordedEvidence)]

-------------------------------------------------------------------------------
(* What the validator can find true of a document.  The engine of our own
   signatures adds no time stamp, but a signature the upload had may have one.  *)
Mandatory == {"integrity", "parsed", "identity", "path", "covers", "ades"}
Finding == Mandatory \cup {"complete", "valid", "timestamp", "revocation"}

IndicationOf(found) ==
    IF {"integrity", "parsed"} \ found # {} THEN "TOTAL_FAILED"
    ELSE IF Mandatory \cup {"complete"} \subseteq found THEN "TOTAL_PASSED"
    ELSE IF "valid" \in found THEN "INDETERMINATE"
    ELSE "TOTAL_FAILED"

LevelEvidence(found) ==
    IF {"integrity", "parsed"} \subseteq found THEN found \cap {"path", "timestamp", "revocation"} ELSE {}

ReportOn(found) == [indication |-> IndicationOf(found), evidence |-> LevelEvidence(found)]

AdmitPadesSignature(policy, report) ==
    LET attained == AttainedPadesLevel(report.evidence) IN
    /\ policy.level # "none"
    /\ report.indication # "TOTAL_FAILED" /\ report.indication \in policy.allowed
    /\ attained # "none"
    /\ policy.timestamp => "timestamp" \in report.evidence
    /\ Rank[attained] >= Rank[policy.level]

(* The handler asks for admission only for a report that passed, whatever the
   policy allows.                                                               *)
Verdict(policy, report) ==
    IF report.indication = "TOTAL_PASSED" /\ AdmitPadesSignature(policy, report) THEN "validated" ELSE "failed"

Reports == {ReportOn(found) : found \in SUBSET Finding}

================================================================================
