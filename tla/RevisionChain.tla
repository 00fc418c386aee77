---------------------------- MODULE RevisionChain ----------------------------
(* The signatures on one document.  PADES_CREATE appends each signature to the
   latest signed revision: it reads that revision, has it signed, puts the
   result under the signer's key in storage that never overwrites, and inserts
   the artifact, which a trigger checks against the rows committed so far.
   PADES_VALIDATE then admits or rejects the artifact.

   A revision is the sequence of signatures in it; the canonical document has
   none.  Signing the same revision twice gives different bytes, because the
   signing time goes in: a signature carries a stamp not in use elsewhere.     *)
EXTENDS PadesAdmission, Sequences, FiniteSets

CONSTANTS
    Signer,
    Before,         \* who must have signed before a signer's turn comes
    Thread,         \* places where jobs run: a process runs its batch at once
    None,
    Stamp,          \* signing times that can be told apart
    Policy,         \* the policies a case may have
    MaxLosses,      \* bound: lost workers and jobs run twice
    MaxRejections   \* bound: signatures that are not admitted

ASSUME NobodyAssumption == None \notin Signer \cup Seq(Signer \X Stamp)
ASSUME TurnAssumption == Before \in [Signer -> SUBSET Signer]
ASSUME PolicyAssumption == Policy \subseteq Policies
ASSUME CapsAssumption == MaxLosses \in Nat /\ MaxRejections \in Nat

VARIABLES
    policy,     \* policy_snapshot of the case
    artifacts,  \* signature_artifacts with the status of their attempts
    stored,     \* the object under the signer's key
    stage,      \* how far a thread is with PADES_CREATE
    task,       \* the signer it is signing for
    input,      \* the revision it read
    output,     \* the revision it had signed
    losses, rejections

thread == <<stage, task, input, output>>
vars == <<policy, artifacts, stored, stage, task, input, output, losses, rejections>>

Canonical == <<>>
Revision == Seq(Signer \X Stamp)
State == {"signed", "validated", "failed"}
Stage == {"idle", "read", "signed", "stored", "inserting"}

Init ==
    /\ policy \in Policy
    /\ artifacts = {}
    /\ stored = [s \in Signer |-> None]
    /\ stage = [w \in Thread |-> "idle"]
    /\ task = [w \in Thread |-> None]
    /\ input = [w \in Thread |-> Canonical]
    /\ output = [w \in Thread |-> Canonical]
    /\ losses = 0
    /\ rejections = 0

Of(s) == {a \in artifacts : a.signer = s}
HasSigned(s) == \E a \in Of(s) : a.state = "validated"

(* Mutant: nobody waits for a turn. *)
TurnDisregarded(s) == s \in Signer
TurnHasCome(s) == \A t \in Before[s] : HasSigned(t)

(* Mutants: the reader takes any revision, or always the canonical one. *)
LatestOfAnyState ==
    LET tips == {a \in artifacts : \A b \in artifacts : b.input # a.output}
    IN IF tips = {} THEN {Canonical} ELSE {a.output : a \in tips}
LatestIsCanonical == {Canonical}

(* loadLatestRevision: a validated revision without successor, else the
   canonical document.                                                        *)
Latest ==
    LET tips == {a \in artifacts : /\ a.state = "validated"
                                   /\ \A b \in artifacts : b.input # a.output}
    IN IF tips = {} THEN {Canonical} ELSE {a.output : a \in tips}

Idle(w) ==
    /\ stage' = [stage EXCEPT ![w] = "idle"]
    /\ task' = [task EXCEPT ![w] = None]
    /\ input' = [input EXCEPT ![w] = Canonical]
    /\ output' = [output EXCEPT ![w] = Canonical]

(* The job of a signer starts, or starts again after an error; a lost lease may
   start it a second time while the first is still running.                   *)
Read(w, s) ==
    /\ stage[w] = "idle"
    /\ TurnHasCome(s)
    /\ Of(s) = {}
    /\ \/ s \notin {task[v] : v \in Thread} /\ UNCHANGED losses
       \/ s \in {task[v] : v \in Thread} /\ losses < MaxLosses /\ losses' = losses + 1
    /\ stage' = [stage EXCEPT ![w] = "read"]
    /\ task' = [task EXCEPT ![w] = s]
    /\ \E tip \in Latest : input' = [input EXCEPT ![w] = tip]
    /\ UNCHANGED <<policy, artifacts, stored, output, rejections>>

InUse == {stored[s] : s \in Signer} \cup {output[w] : w \in Thread}
         \cup {a.output : a \in artifacts}

(* The engine refuses a level it does not offer. *)
SignRefused(w) ==
    /\ stage[w] = "read" /\ policy.level \notin SupportedPadesLevels
    /\ Idle(w)
    /\ UNCHANGED <<policy, artifacts, stored, losses, rejections>>

Sign(w) ==
    /\ stage[w] = "read" /\ policy.level \in SupportedPadesLevels
    /\ \E n \in Stamp :
          LET revision == Append(input[w], <<task[w], n>>)
          IN revision \notin InUse /\ output' = [output EXCEPT ![w] = revision]
    /\ stage' = [stage EXCEPT ![w] = "signed"]
    /\ UNCHANGED <<policy, artifacts, stored, task, input, losses, rejections>>

(* Mutant: the object is overwritten. *)
StoreOverwriting(w) ==
    /\ stage[w] = "signed"
    /\ stored' = [stored EXCEPT ![task[w]] = output[w]]
    /\ stage' = [stage EXCEPT ![w] = "stored"]
    /\ UNCHANGED <<policy, artifacts, task, input, output, losses, rejections>>

(* putObject, immutable: writing the same bytes again is a success. *)
Store(w) ==
    /\ stage[w] = "signed"
    /\ stored[task[w]] \in {None, output[w]}
    /\ stored' = [stored EXCEPT ![task[w]] = output[w]]
    /\ stage' = [stage EXCEPT ![w] = "stored"]
    /\ UNCHANGED <<policy, artifacts, task, input, output, losses, rejections>>

StoreRefused(w) ==
    /\ stage[w] = "signed"
    /\ stored[task[w]] \notin {None, output[w]}
    /\ Idle(w)
    /\ UNCHANGED <<policy, artifacts, stored, losses, rejections>>

(* assert_signature_revision_chain, on the rows committed so far. *)
Continues(revision) ==
    \/ artifacts = {} /\ revision = Canonical
    \/ /\ \E a \in artifacts : a.output = revision
       /\ \A a \in artifacts : a.input # revision

(* Two inserts for one signer draw the same attempt number, and the second
   waits; two inserts for different signers do not meet.                      *)
Insert(w) ==
    /\ stage[w] = "stored" /\ Continues(input[w])
    /\ \A v \in Thread : stage[v] = "inserting" => task[v] # task[w]
    /\ stage' = [stage EXCEPT ![w] = "inserting"]
    /\ UNCHANGED <<policy, artifacts, stored, task, input, output, losses, rejections>>

InsertRejected(w) ==
    /\ stage[w] = "stored" /\ ~Continues(input[w])
    /\ Idle(w)
    /\ UNCHANGED <<policy, artifacts, stored, losses, rejections>>

(* The artifact is recorded in the format PAdES-<level of the policy>. *)
Commit(w) ==
    /\ stage[w] = "inserting" /\ ~LevelOverclaimed(policy.level)
    /\ artifacts' = artifacts \cup
          {[signer |-> task[w], input |-> input[w], output |-> output[w], state |-> "signed",
            admitted |-> "none"]}
    /\ Idle(w)
    /\ UNCHANGED <<policy, stored, losses, rejections>>

(* assert_pades_level_not_overclaimed, deferred to the commit; the object stays. *)
CommitRejected(w) ==
    /\ stage[w] = "inserting" /\ LevelOverclaimed(policy.level)
    /\ Idle(w)
    /\ UNCHANGED <<policy, artifacts, stored, losses, rejections>>

WorkerLost(w) ==
    /\ stage[w] # "idle" /\ losses < MaxLosses
    /\ losses' = losses + 1
    /\ Idle(w)
    /\ UNCHANGED <<policy, artifacts, stored, rejections>>

(* PADES_VALIDATE. *)
Becomes(a, state, level) ==
    artifacts' = (artifacts \ {a}) \cup {[a EXCEPT !.state = state, !.admitted = level]}

(* The level that is admitted goes into the audit log. *)
Admit(a, report) ==
    /\ Verdict(policy, report) = "validated"
    /\ Becomes(a, "validated", AttainedPadesLevel(report.evidence))
    /\ UNCHANGED rejections

Reject(a, report) ==
    /\ Verdict(policy, report) = "failed"
    /\ rejections < MaxRejections /\ rejections' = rejections + 1
    /\ Becomes(a, "failed", "none")

Validate(a) ==
    /\ a.state = "signed"
    /\ \E report \in Reports : Admit(a, report) \/ Reject(a, report)
    /\ UNCHANGED <<policy, stored, thread, losses>>

Progress(w) ==
    \/ Sign(w) \/ SignRefused(w) \/ Store(w) \/ StoreRefused(w)
    \/ Insert(w) \/ InsertRejected(w) \/ Commit(w) \/ CommitRejected(w)

Next ==
    \/ \E w \in Thread : Progress(w) \/ WorkerLost(w) \/ \E s \in Signer : Read(w, s)
    \/ \E a \in artifacts : Validate(a)

Spec == Init /\ [][Next]_vars

(* Failed jobs are retried, handlers return, artifacts are validated. *)
Fairness ==
    /\ WF_vars(\E a \in artifacts : Validate(a))
    /\ \A w \in Thread : WF_vars(Progress(w))
    /\ \A s \in Signer : SF_vars(\E w \in Thread : Read(w, s))

FairSpec == Spec /\ Fairness

-----------------------------------------------------------------------------
Artifact == [signer : Signer, input : Revision, output : Revision, state : State,
             admitted : Level]

TypeOK ==
    /\ policy \in Policy
    /\ artifacts \subseteq Artifact
    /\ stored \in [Signer -> Revision \cup {None}]
    /\ stage \in [Thread -> Stage]
    /\ task \in [Thread -> Signer \cup {None}]
    /\ input \in [Thread -> Revision]
    /\ output \in [Thread -> Revision]
    /\ losses \in 0..MaxLosses
    /\ rejections \in 0..MaxRejections

(* What an artifact records is what storage holds under its key, also after
   retries and with the job running twice: no signature replaces another.     *)
StoredIsRecorded == \A a \in artifacts : stored[a.signer] = a.output

(* Two signatures never branch from one revision (0021, the revision guard):
   otherwise each is valid and one of them is missing from the document.      *)
NoFork == \A a, b \in artifacts : a.input = b.input => a = b

(* Signers in parallel are those of whom neither waits for the other. *)
InParallel(s, t) == s # t /\ s \notin Before[t] /\ t \notin Before[s]

(* Where one signer waits for another the turn keeps them apart, also with two
   threads at work on one signer: only signers in parallel can ever branch.    *)
NoForkInTurn ==
    \A a, b \in artifacts :
        a.input = b.input /\ ~InParallel(a.signer, b.signer) => a = b

(* A signature is put on the canonical document or on a revision whose own
   signature has been found valid, never on one that may still be rejected.   *)
BuildsOnValidated ==
    \A a \in artifacts : a.input = Canonical \/
        \E b \in artifacts : b.output = a.input /\ b.state = "validated"

(* A signature counts only at the level that the policy demands, twice over: the
   database records it at that level because the rows of its evidence support it,
   and the worker admits it at that level or a higher one because the report on
   the signed bytes does.  Neither knows of the other; together they never let a
   case rest on less than was asked for, nor claim more than there is.         *)
LevelIsEarned ==
    \A a \in artifacts :
        /\ Rank[policy.level] <= Rank[AttainedPadesLevel(RecordedEvidence)]
        /\ a.state = "validated" =>
              /\ policy.level # "none" /\ Rank[a.admitted] >= Rank[policy.level]
              /\ policy.timestamp => Rank[a.admitted] >= Rank["T"]
              /\ "TOTAL_PASSED" \in policy.allowed

(* Every signer's signature gets into the document, or that of one in parallel
   who shuts the signer out, as long as no worker is lost and no signature is
   rejected, where the policy asks for no more than the rows can show: with any
   other no signature is ever recorded.                                        *)
EverySignerSigns ==
    \A s \in Signer :
        <>(\/ \E t \in Signer : (t = s \/ InParallel(s, t)) /\ Of(t) # {}
           \/ losses + rejections > 0
           \/ policy.level \notin SupportedPadesLevels \/ LevelOverclaimed(policy.level))

=============================================================================
