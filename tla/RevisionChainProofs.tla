------------------------- MODULE RevisionChainProofs -------------------------
(* What holds of the signatures on a document for every number of signers and
   threads.  IInv says what a thread carries from one step to the next.  At the
   end, the other chain that must not fork: the audit log of the control plane. *)
EXTENDS RevisionChain, ControlAudit, TLAPS

(* From the moment the object is stored until the row is inserted, the object
   under the signer's key is the thread's own revision.                       *)
HoldsObject(w) == stage[w] \in {"stored", "inserting"} => stored[task[w]] = output[w]

(* The revision a thread read is the canonical document or was validated. *)
Validated(revision) ==
    revision = Canonical \/ \E b \in artifacts : b.output = revision /\ b.state = "validated"

Working ==
    \A w \in Thread : stage[w] # "idle" =>
        /\ task[w] \in Signer
        /\ Validated(input[w])
        /\ HoldsObject(w)

IInv == TypeOK /\ Working /\ StoredIsRecorded /\ BuildsOnValidated /\ LevelIsEarned

(* Levels are ranked, and one above B has a time stamp. *)
LEMMA LevelsAreRanked ==
  /\ \A level \in Level : Rank[level] \in Nat
  /\ \A evidence : AttainedPadesLevel(evidence) \in Level
  /\ \A evidence : "timestamp" \in evidence /\ AttainedPadesLevel(evidence) # "none"
                   => Rank[AttainedPadesLevel(evidence)] >= Rank["T"]
  <1>1. \A level \in Level : Rank[level] \in Nat
    BY DEF Level, Rank
  <1>2. \A evidence : AttainedPadesLevel(evidence) \in Level
    BY DEF Level, AttainedPadesLevel
  <1>3. ASSUME NEW evidence, "timestamp" \in evidence, AttainedPadesLevel(evidence) # "none"
        PROVE  Rank[AttainedPadesLevel(evidence)] >= Rank["T"]
    <2>1. AttainedPadesLevel(evidence) \in {"T", "LT", "LTA"}
      BY <1>3 DEF AttainedPadesLevel
    <2>2. Rank["T"] = 2 /\ Rank["LT"] = 3 /\ Rank["LTA"] = 4
      BY DEF Rank
    <2> QED
      BY <2>1, <2>2
  <1> QED
    BY <1>1, <1>2, <1>3

(* What the admission gate lets through has the level that was asked for. *)
LEMMA AdmittedReachesPolicy ==
  ASSUME NEW report, Verdict(policy, report) = "validated"
  PROVE  /\ policy.level # "none"
         /\ Rank[AttainedPadesLevel(report.evidence)] >= Rank[policy.level]
         /\ policy.timestamp => Rank[AttainedPadesLevel(report.evidence)] >= Rank["T"]
         /\ "TOTAL_PASSED" \in policy.allowed
  <1>1. AdmitPadesSignature(policy, report) /\ report.indication = "TOTAL_PASSED"
    BY DEF Verdict
  <1> QED
    BY <1>1, LevelsAreRanked DEF AdmitPadesSignature

LEMMA InitEstablishes == Init => IInv
  <1> SUFFICES ASSUME Init PROVE IInv
    OBVIOUS
  <1> USE CapsAssumption DEF Init
  <1>1. Canonical \in Revision
    BY DEF Canonical, Revision
  <1>2. TypeOK
    BY <1>1 DEF TypeOK, Stage
  <1> QED
    BY <1>2 DEF IInv, Working, StoredIsRecorded, BuildsOnValidated, LevelIsEarned

(* The stage of a thread is reset together with what it carried. *)
LEMMA IdleKeeps ==
  ASSUME IInv, NEW w \in Thread, Idle(w), UNCHANGED <<policy, artifacts, stored>>,
         losses' \in 0..MaxLosses, rejections' \in 0..MaxRejections
  PROVE  IInv'
  <1>1. Canonical \in Revision
    BY DEF Canonical, Revision
  <1>2. TypeOK'
    BY <1>1 DEF IInv, TypeOK, Idle, Stage
  <1>3. Working'
    BY DEF IInv, TypeOK, Working, Idle, Validated, HoldsObject
  <1> QED
    BY <1>2, <1>3 DEF IInv, StoredIsRecorded, BuildsOnValidated, LevelIsEarned

LEMMA ReadKeeps ==
  ASSUME IInv, NEW w \in Thread, NEW s \in Signer, Read(w, s)
  PROVE  IInv'
  <1>1. PICK tip \in Latest : input' = [input EXCEPT ![w] = tip]
    BY DEF Read
  <1>2. Validated(tip) /\ tip \in Revision
    <2>1. Canonical \in Revision
      BY DEF Canonical, Revision
    <2> QED
      BY <1>1, <2>1 DEF Latest, Validated, IInv, TypeOK, Artifact
  <1>3. losses' \in 0..MaxLosses
    BY CapsAssumption DEF Read, IInv, TypeOK
  <1>4. TypeOK'
    BY <1>1, <1>2, <1>3 DEF IInv, TypeOK, Read, Stage
  <1>5. Working'
    BY <1>1, <1>2 DEF IInv, TypeOK, Working, Read, Validated, HoldsObject
  <1> QED
    BY <1>4, <1>5 DEF IInv, StoredIsRecorded, BuildsOnValidated, LevelIsEarned, Read

LEMMA SignKeeps ==
  ASSUME IInv, NEW w \in Thread, Sign(w)
  PROVE  IInv'
  <1>1. PICK n \in Stamp : output' = [output EXCEPT ![w] = Append(input[w], <<task[w], n>>)]
    BY DEF Sign
  <1>2. task[w] \in Signer
    BY DEF IInv, Working, Sign
  <1>3. Append(input[w], <<task[w], n>>) \in Revision
    BY <1>2 DEF IInv, TypeOK, Revision
  <1>4. TypeOK'
    BY <1>1, <1>3 DEF IInv, TypeOK, Sign, Stage
  <1>5. Working'
    BY <1>1 DEF IInv, TypeOK, Working, Sign, Validated, HoldsObject
  <1> QED
    BY <1>4, <1>5 DEF IInv, StoredIsRecorded, BuildsOnValidated, LevelIsEarned, Sign

(* A second object under a key would break what an earlier row or another
   thread relies on: the write goes through only if there is none, or the same. *)
LEMMA StoreKeeps ==
  ASSUME IInv, NEW w \in Thread, Store(w)
  PROVE  IInv'
  <1>1. task[w] \in Signer
    BY DEF IInv, Working, Store
  <1>2. output[w] \in Revision /\ None \notin Revision
    BY NobodyAssumption DEF IInv, TypeOK, Revision
  <1>3. \A s \in Signer : stored[s] # None => stored'[s] = stored[s]
    BY <1>1 DEF Store, IInv, TypeOK
  <1>4. stored'[task[w]] = output[w]
    BY <1>1 DEF Store, IInv, TypeOK
  <1>5. TypeOK'
    BY <1>1, <1>2 DEF IInv, TypeOK, Store, Stage
  <1>6. StoredIsRecorded'
    <2> SUFFICES ASSUME NEW a \in artifacts
                 PROVE  stored'[a.signer] = a.output
      BY DEF StoredIsRecorded, Store
    <2>1. a.signer \in Signer /\ a.output \in Revision /\ stored[a.signer] = a.output
      BY DEF IInv, TypeOK, Artifact, StoredIsRecorded
    <2> QED
      BY <2>1, <1>2, <1>3
  <1>7. Working'
    <2> SUFFICES ASSUME NEW v \in Thread, stage'[v] # "idle"
                 PROVE  task'[v] \in Signer /\ Validated(input[v])' /\ HoldsObject(v)'
      BY DEF Working
    <2>1. stage[v] # "idle"
      BY DEF Store, IInv, TypeOK
    <2>2. task'[v] \in Signer /\ Validated(input[v])'
      BY <2>1 DEF Store, IInv, Working, Validated
    <2>3. HoldsObject(v)'
      <3>1. CASE v = w
        BY <3>1, <1>4 DEF HoldsObject, Store
      <3>2. CASE v # w /\ stage[v] \in {"stored", "inserting"}
        BY <3>2, <2>1, <1>2, <1>3 DEF HoldsObject, Store, IInv, TypeOK, Working
      <3>3. CASE v # w /\ stage[v] \notin {"stored", "inserting"}
        BY <3>3 DEF HoldsObject, Store, IInv, TypeOK
      <3> QED
        BY <3>1, <3>2, <3>3
    <2> QED
      BY <2>2, <2>3
  <1> QED
    BY <1>5, <1>6, <1>7 DEF IInv, BuildsOnValidated, LevelIsEarned, Store

LEMMA InsertKeeps ==
  ASSUME IInv, NEW w \in Thread, Insert(w)
  PROVE  IInv'
  <1>1. TypeOK'
    BY DEF IInv, TypeOK, Insert, Stage
  <1>2. Working'
    BY DEF IInv, TypeOK, Working, Insert, Validated, HoldsObject
  <1> QED
    BY <1>1, <1>2 DEF IInv, StoredIsRecorded, BuildsOnValidated, LevelIsEarned, Insert

LEMMA CommitKeeps ==
  ASSUME IInv, NEW w \in Thread, Commit(w)
  PROVE  IInv'
  <1> DEFINE new == [signer |-> task[w], input |-> input[w], output |-> output[w],
                     state |-> "signed", admitted |-> "none"]
  <1>1. task[w] \in Signer /\ Validated(input[w]) /\ stored[task[w]] = output[w]
    BY DEF IInv, Working, HoldsObject, Commit
  <1>2. new \in Artifact
    BY <1>1 DEF IInv, TypeOK, Artifact, State, Level
  <1>3. Canonical \in Revision
    BY DEF Canonical, Revision
  <1>4. artifacts' = artifacts \cup {new}
    BY DEF Commit
  <1>5. TypeOK'
    <2>1. artifacts' \subseteq Artifact
      BY <1>2, <1>4 DEF IInv, TypeOK
    <2>2. (stage \in [Thread -> Stage])' /\ (task \in [Thread -> Signer \cup {None}])'
      BY DEF IInv, TypeOK, Commit, Idle, Stage
    <2>3. (input \in [Thread -> Revision])' /\ (output \in [Thread -> Revision])'
      BY <1>3 DEF IInv, TypeOK, Commit, Idle
    <2> QED
      BY <2>1, <2>2, <2>3 DEF IInv, TypeOK, Commit
  <1>6. StoredIsRecorded'
    BY <1>1, <1>4 DEF IInv, StoredIsRecorded, Commit
  <1>7. BuildsOnValidated'
    BY <1>1, <1>4 DEF IInv, BuildsOnValidated, Validated
  <1>8. Working'
    BY <1>4 DEF IInv, TypeOK, Working, Commit, Idle, Validated, HoldsObject
  <1>9. LevelIsEarned'
    <2>1. policy.level \in Level
      BY PolicyAssumption DEF IInv, TypeOK, Policies
    <2>2. Rank[policy.level] <= Rank[AttainedPadesLevel(RecordedEvidence)]
      BY <2>1, LevelsAreRanked DEF Commit, LevelOverclaimed
    <2> QED
      BY <1>4, <2>2 DEF IInv, LevelIsEarned, Commit
  <1> QED
    BY <1>5, <1>6, <1>7, <1>8, <1>9 DEF IInv

LEMMA ValidateKeeps ==
  ASSUME IInv, NEW a \in artifacts, Validate(a)
  PROVE  IInv'
  <1>1. PICK report \in Reports : Admit(a, report) \/ Reject(a, report)
    BY DEF Validate
  <1>0. PICK state \in State, level \in Level : Becomes(a, state, level)
    BY <1>1, LevelsAreRanked DEF Admit, Reject, State, Level
  <1> DEFINE new == [a EXCEPT !.state = state, !.admitted = level]
  <1>2. artifacts' = (artifacts \ {a}) \cup {new}
    BY <1>0 DEF Becomes
  <1>3. a \in Artifact
    BY DEF IInv, TypeOK
  <1>4. /\ new \in Artifact
        /\ new.signer = a.signer /\ new.input = a.input /\ new.output = a.output
    BY <1>3 DEF Artifact
  <1>5. UNCHANGED <<policy, stored, stage, task, input, output, losses>> /\ a.state = "signed"
    BY DEF Validate, thread
  <1>6. rejections' \in 0..MaxRejections
    BY <1>1, CapsAssumption DEF Admit, Reject, IInv, TypeOK
  <1>7. TypeOK'
    BY <1>2, <1>4, <1>5, <1>6 DEF IInv, TypeOK
  <1>8. StoredIsRecorded'
    BY <1>2, <1>4, <1>5 DEF IInv, StoredIsRecorded
  <1>9. ASSUME NEW revision, Validated(revision)
        PROVE  revision = Canonical \/ \E b \in artifacts' : b.output = revision /\ b.state = "validated"
    BY <1>2, <1>5, <1>9 DEF Validated
  <1>10. BuildsOnValidated'
    <2> SUFFICES ASSUME NEW c \in artifacts'
                 PROVE  c.input = Canonical \/
                        \E b \in artifacts' : b.output = c.input /\ b.state = "validated"
      BY DEF BuildsOnValidated
    <2>1. Validated(c.input)
      BY <1>2, <1>4 DEF IInv, BuildsOnValidated, Validated
    <2> QED
      BY <2>1, <1>9
  <1>11. Working'
    BY <1>5, <1>9 DEF IInv, Working, Validated, HoldsObject
  <1>12. LevelIsEarned'
    <2>1. Rank[policy.level] <= Rank[AttainedPadesLevel(RecordedEvidence)]
      BY DEF IInv, LevelIsEarned
    <2>2. CASE Admit(a, report)
      <3>1. artifacts' = (artifacts \ {a}) \cup
                {[a EXCEPT !.state = "validated", !.admitted = AttainedPadesLevel(report.evidence)]}
        BY <2>2 DEF Admit, Becomes
      <3>2. [a EXCEPT !.state = "validated", !.admitted = AttainedPadesLevel(report.evidence)].admitted
            = AttainedPadesLevel(report.evidence)
        BY <1>3 DEF Artifact
      <3> QED
        BY <3>1, <3>2, <2>1, <2>2, <1>5, AdmittedReachesPolicy DEF Admit, IInv, LevelIsEarned
    <2>3. CASE Reject(a, report)
      <3>1. artifacts' = (artifacts \ {a}) \cup {[a EXCEPT !.state = "failed", !.admitted = "none"]}
        BY <2>3 DEF Reject, Becomes
      <3>2. [a EXCEPT !.state = "failed", !.admitted = "none"].state = "failed"
        BY <1>3 DEF Artifact
      <3> QED
        BY <3>1, <3>2, <2>1, <1>5 DEF IInv, LevelIsEarned
    <2> QED
      BY <1>1, <2>2, <2>3
  <1> QED
    BY <1>7, <1>8, <1>10, <1>11, <1>12 DEF IInv

LEMMA StepPreserves == IInv /\ [Next]_vars => IInv'
  <1> SUFFICES ASSUME IInv, [Next]_vars PROVE IInv'
    OBVIOUS
  <1>1. CASE UNCHANGED vars
    BY <1>1 DEF vars, IInv, TypeOK, Working, Validated, HoldsObject,
                StoredIsRecorded, BuildsOnValidated, LevelIsEarned
  <1>2. ASSUME NEW w \in Thread, NEW s \in Signer, Read(w, s) PROVE IInv'
    BY <1>2, ReadKeeps
  <1>3. ASSUME NEW w \in Thread, Progress(w) PROVE IInv'
    <2>1. losses \in 0..MaxLosses /\ rejections \in 0..MaxRejections
      BY DEF IInv, TypeOK
    <2>2. CASE SignRefused(w) \/ StoreRefused(w) \/ InsertRejected(w) \/ CommitRejected(w)
      BY <2>1, <2>2, IdleKeeps DEF SignRefused, StoreRefused, InsertRejected, CommitRejected
    <2> QED
      BY <1>3, <2>2, SignKeeps, StoreKeeps, InsertKeeps, CommitKeeps DEF Progress
  <1>4. ASSUME NEW w \in Thread, WorkerLost(w) PROVE IInv'
    <2>1. losses' \in 0..MaxLosses /\ rejections' \in 0..MaxRejections
      BY <1>4, CapsAssumption DEF WorkerLost, IInv, TypeOK
    <2> QED
      BY <1>4, <2>1, IdleKeeps DEF WorkerLost
  <1>5. ASSUME NEW a \in artifacts, Validate(a) PROVE IInv'
    BY <1>5, ValidateKeeps
  <1> QED
    BY <1>1, <1>2, <1>3, <1>4, <1>5 DEF Next

LEMMA Invariance == Spec => []IInv
  BY InitEstablishes, StepPreserves, PTL DEF Spec

(* Every variable of the chain keeps its type: revisions grow without bound. *)
THEOREM ChainTypes == Spec => []TypeOK
  BY Invariance, PTL DEF IInv

(* However often workers are lost, jobs run twice and signers overlap, the
   artifact of a row is the object in storage: what the database records of a
   signature has never been overwritten.                                      *)
THEOREM StorageSafety == Spec => []StoredIsRecorded
  BY Invariance, PTL DEF IInv

(* And no signature is ever put on a revision that was not found valid. *)
THEOREM ContinuationSafety == Spec => []BuildsOnValidated
  BY Invariance, PTL DEF IInv

(* Whatever policy a case has and whatever the validator reports: a signature
   counts only at a level that was asked for and that its rows support.        *)
THEOREM LevelSafety == Spec => []LevelIsEarned
  BY Invariance, PTL DEF IInv

-----------------------------------------------------------------------------
(* The guard against forks reads the rows before it inserts.  It is enough where
   nothing commits in between, which one thread alone ensures.                *)
Undisturbed ==
    /\ \A w \in Thread : stage[w] = "inserting" => \A a \in artifacts : a.input # input[w]
    /\ NoFork

THEOREM OneThreadNeverForks ==
  ASSUME \A v, w \in Thread : v = w
  PROVE  Spec => []NoFork
  <1>1. Init => Undisturbed
    BY DEF Init, Undisturbed, NoFork
  <1>2. IInv /\ Undisturbed /\ [Next]_vars => Undisturbed'
    <2> SUFFICES ASSUME IInv, Undisturbed, [Next]_vars PROVE Undisturbed'
      OBVIOUS
    <2>1. CASE UNCHANGED vars
      BY <2>1 DEF vars, Undisturbed, NoFork
    <2>2. ASSUME NEW w \in Thread, NEW s \in Signer, Read(w, s) PROVE Undisturbed'
      BY <2>2 DEF Read, Undisturbed, NoFork, IInv, TypeOK
    <2>3. ASSUME NEW w \in Thread,
                 SignRefused(w) \/ StoreRefused(w) \/ InsertRejected(w) \/ CommitRejected(w) \/ WorkerLost(w)
          PROVE  Undisturbed'
      BY <2>3 DEF SignRefused, StoreRefused, InsertRejected, CommitRejected, WorkerLost, Idle, Undisturbed, NoFork, IInv, TypeOK
    <2>4. ASSUME NEW w \in Thread, Sign(w) \/ Store(w) PROVE Undisturbed'
      BY <2>4 DEF Sign, Store, Undisturbed, NoFork, IInv, TypeOK
    <2>5. ASSUME NEW w \in Thread, Insert(w) PROVE Undisturbed'
      BY <2>5 DEF Insert, Continues, Undisturbed, NoFork, IInv, TypeOK
    <2>6. ASSUME NEW w \in Thread, Commit(w) PROVE Undisturbed'
      <3>1. \A v \in Thread : stage'[v] = "idle"
        BY <2>6 DEF Commit, Idle, IInv, TypeOK
      <3>2. NoFork'
        BY <2>6 DEF Commit, Undisturbed, NoFork
      <3> QED
        BY <3>1, <3>2 DEF Undisturbed
    <2>7. ASSUME NEW a \in artifacts, Validate(a) PROVE Undisturbed'
      <3>1. PICK state \in State, level \in Level : Becomes(a, state, level)
        BY <2>7, LevelsAreRanked DEF Validate, Admit, Reject, State, Level
      <3>2. a \in Artifact
        BY DEF IInv, TypeOK
      <3>3. [a EXCEPT !.state = state, !.admitted = level].input = a.input
        BY <3>2 DEF Artifact
      <3>4. \A b \in artifacts' : (b \in artifacts /\ b # a) \/ b = [a EXCEPT !.state = state, !.admitted = level]
        BY <3>1 DEF Becomes
      <3>5. NoFork'
        BY <3>3, <3>4 DEF Undisturbed, NoFork
      <3>6. stage' = stage /\ input' = input
        BY <2>7 DEF Validate, thread
      <3>7. \A w \in Thread : stage'[w] = "inserting" => \A b \in artifacts' : b.input # input'[w]
        BY <3>3, <3>4, <3>6 DEF Undisturbed
      <3> QED
        BY <3>5, <3>7 DEF Undisturbed
    <2> QED
      BY <2>1, <2>2, <2>3, <2>4, <2>5, <2>6, <2>7 DEF Next, Progress
  <1>3. Undisturbed => NoFork
    BY DEF Undisturbed
  <1> QED
    BY <1>1, <1>2, <1>3, Invariance, PTL DEF Spec

-----------------------------------------------------------------------------
(* The guard alone does not keep two threads apart that insert at once.  For one
   signer storage does: the second thread has the object of the first, so it has
   read what the first has read, and that has a successor.  So a signer has one
   artifact, and who waits for a signer reads what comes after it.               *)
Extends(revision, s, result) == \E n \in Stamp : result = Append(revision, <<s, n>>)

Extended ==
    /\ \A a \in artifacts : Extends(a.input, a.signer, a.output)
    /\ \A w \in Thread : stage[w] \in {"signed", "stored", "inserting"} => Extends(input[w], task[w], output[w])

OneEach ==
    /\ \A a, b \in artifacts : a.signer = b.signer => a = b
    /\ \A w \in Thread : stage[w] = "inserting" => \A a \in artifacts : a.signer # task[w]
    /\ \A v, w \in Thread : stage[v] = "inserting" /\ stage[w] = "inserting" /\ task[v] = task[w] => v = w

(* Nobody who was waited for has signed the revision of who waited. *)
After(s, revision) == \A t \in Before[s] : \A a \in artifacts : a.signer = t => a.input # revision

TurnsKept ==
    /\ \A a \in artifacts : TurnHasCome(a.signer) /\ After(a.signer, a.input)
    /\ \A w \in Thread : stage[w] # "idle" =>
         /\ TurnHasCome(task[w])
         /\ After(task[w], input[w]) \/ (input[w] = Canonical /\ stage[w] # "inserting")

TurnInv == Extended /\ OneEach /\ TurnsKept

LEMMA ExtensionIsUnique ==
  ASSUME NEW r \in Revision, NEW q \in Revision, NEW s \in Signer, NEW t \in Signer, NEW result,
         Extends(r, s, result), Extends(q, t, result)
  PROVE  r = q /\ result # Canonical
  <1>1. PICK m \in Stamp, n \in Stamp : result = Append(r, <<s, m>>) /\ result = Append(q, <<t, n>>)
    BY DEF Extends
  <1>2. /\ r \in Seq(Signer \X Stamp) /\ q \in Seq(Signer \X Stamp)
        /\ <<s, m>> \in Signer \X Stamp /\ <<t, n>> \in Signer \X Stamp
    BY DEF Revision
  <1>3. Len(result) = Len(r) + 1 /\ Len(result) = Len(q) + 1
    BY <1>1, <1>2
  <1>4. Len(r) = Len(q) /\ \A i \in 1..Len(r) : r[i] = q[i]
    <2>1. Len(r) = Len(q)
      BY <1>2, <1>3
    <2>2. \A i \in 1..Len(r) : Append(r, <<s, m>>)[i] = r[i] /\ Append(q, <<t, n>>)[i] = q[i]
      BY <1>2, <2>1
    <2> QED BY <1>1, <2>1, <2>2
  <1>5. r = q
    BY <1>2, <1>4
  <1> QED BY <1>2, <1>3, <1>5 DEF Canonical

LEMMA TurnInvInit == Init => TurnInv
  BY DEF Init, TurnInv, Extended, OneEach, TurnsKept

(* A thread that stops, or goes on without inserting, disturbs no other. *)
LEMMA ThreadStops ==
  ASSUME IInv, TurnInv, NEW w \in Thread, Idle(w), artifacts' = artifacts
  PROVE  TurnInv'
  <1>1. /\ stage'[w] = "idle"
        /\ \A v \in Thread : v # w => /\ stage'[v] = stage[v] /\ task'[v] = task[v]
                                      /\ input'[v] = input[v] /\ output'[v] = output[v]
    BY DEF IInv, TypeOK, Idle
  <1>2. Extended'
    BY <1>1 DEF TurnInv, Extended
  <1>3. OneEach'
    BY <1>1 DEF TurnInv, OneEach
  <1>4. TurnsKept'
    BY <1>1 DEF TurnInv, TurnsKept, TurnHasCome, HasSigned, Of, After
  <1> QED BY <1>2, <1>3, <1>4 DEF TurnInv

LEMMA ReadTurn ==
  ASSUME IInv, TurnInv, NEW w \in Thread, NEW s \in Signer, Read(w, s)
  PROVE  TurnInv'
  <1>1. PICK tip \in Latest : input' = [input EXCEPT ![w] = tip]
    BY DEF Read
  <1>2. /\ stage'[w] = "read" /\ task'[w] = s /\ input'[w] = tip /\ artifacts' = artifacts
        /\ \A v \in Thread : v # w => /\ stage'[v] = stage[v] /\ task'[v] = task[v]
                                      /\ input'[v] = input[v] /\ output'[v] = output[v]
    BY <1>1 DEF IInv, TypeOK, Read
  <1>3. tip = Canonical \/ \A b \in artifacts : b.input # tip
    BY DEF Latest
  <1>4. TurnHasCome(s)
    BY DEF Read
  <1>5. Extended'
    BY <1>2 DEF TurnInv, Extended
  <1>6. OneEach'
    BY <1>2 DEF TurnInv, OneEach
  <1>7. TurnsKept'
    BY <1>2, <1>3, <1>4 DEF TurnInv, TurnsKept, TurnHasCome, HasSigned, Of, After
  <1> QED BY <1>5, <1>6, <1>7 DEF TurnInv

LEMMA SignTurn ==
  ASSUME IInv, TurnInv, NEW w \in Thread, Sign(w) \/ Store(w)
  PROVE  TurnInv'
  <1>1. /\ stage[w] # "idle" /\ stage'[w] \in {"signed", "stored"} /\ artifacts' = artifacts
        /\ UNCHANGED <<task, input>> /\ \A v \in Thread : v # w => stage'[v] = stage[v] /\ output'[v] = output[v]
    BY DEF IInv, TypeOK, Sign, Store
  <1>2. Extends(input[w], task[w], output'[w])
    <2>1. CASE Sign(w)
      BY <2>1 DEF IInv, TypeOK, Sign, Extends
    <2>2. CASE Store(w)
      BY <2>2 DEF TurnInv, Extended, Store
    <2> QED BY <2>1, <2>2
  <1>3. Extended'
    BY <1>1, <1>2 DEF TurnInv, Extended
  <1>4. OneEach'
    BY <1>1 DEF TurnInv, OneEach
  <1>5. TurnsKept'
    BY <1>1 DEF TurnInv, TurnsKept, TurnHasCome, HasSigned, Of, After
  <1> QED BY <1>3, <1>4, <1>5 DEF TurnInv

(* When a thread inserts, its signer has no artifact: that would be of its own
   object, on the revision it read, which then has a successor.                 *)
LEMMA InsertTurn ==
  ASSUME IInv, TurnInv, NEW w \in Thread, Insert(w)
  PROVE  TurnInv'
  <1>1. /\ stage[w] = "stored" /\ stage'[w] = "inserting" /\ Continues(input[w])
        /\ UNCHANGED <<artifacts, task, input, output>> /\ \A v \in Thread : v # w => stage'[v] = stage[v]
        /\ \A v \in Thread : stage[v] = "inserting" => task[v] # task[w]
    BY DEF IInv, TypeOK, Insert
  <1>2. /\ task[w] \in Signer /\ stored[task[w]] = output[w] /\ input[w] \in Revision
        /\ Extends(input[w], task[w], output[w])
    BY <1>1 DEF IInv, TypeOK, Working, HoldsObject, TurnInv, Extended
  <1>3. ASSUME NEW a \in artifacts, a.signer = task[w] PROVE FALSE
    <2>1. a.output = output[w] /\ a.input \in Revision /\ Extends(a.input, a.signer, a.output)
      BY <1>2, <1>3 DEF IInv, TypeOK, StoredIsRecorded, Artifact, TurnInv, Extended
    <2>2. a.input = input[w]
      BY <1>2, <1>3, <2>1, ExtensionIsUnique
    <2> QED BY <1>1, <2>2 DEF Continues
  <1>4. After(task[w], input[w])
    <2>1. TurnHasCome(task[w]) /\ (After(task[w], input[w]) \/ input[w] = Canonical)
      BY <1>1 DEF TurnInv, TurnsKept
    <2>2. CASE artifacts = {}
      BY <2>2 DEF After
    <2>3. CASE \E a \in artifacts : a.output = input[w]
      <3>1. PICK a \in artifacts : a.output = input[w]
        BY <2>3
      <3>2. a.signer \in Signer /\ a.input \in Revision /\ Extends(a.input, a.signer, a.output)
        BY DEF IInv, TypeOK, Artifact, TurnInv, Extended
      <3>3. input[w] # Canonical
        BY <3>1, <3>2, ExtensionIsUnique
      <3> QED BY <2>1, <3>3
    <2> QED BY <1>1, <2>2, <2>3 DEF Continues
  <1>5. Extended'
    BY <1>1, <1>2 DEF TurnInv, Extended
  <1>6. OneEach'
    BY <1>1, <1>3 DEF TurnInv, OneEach
  <1>7. TurnsKept'
    BY <1>1, <1>4 DEF TurnInv, TurnsKept, TurnHasCome, HasSigned, Of, After
  <1> QED BY <1>5, <1>6, <1>7 DEF TurnInv


(* The new artifact is the first of its signer, so nobody has waited for it. *)
LEMMA CommitTurn ==
  ASSUME IInv, TurnInv, NEW w \in Thread, Commit(w)
  PROVE  TurnInv'
  <1> DEFINE new == [signer |-> task[w], input |-> input[w], output |-> output[w],
                     state |-> "signed", admitted |-> "none"]
  <1>1. /\ stage[w] = "inserting" /\ artifacts' = artifacts \cup {new} /\ stage'[w] = "idle"
        /\ \A v \in Thread : v # w => /\ stage'[v] = stage[v] /\ task'[v] = task[v]
                                      /\ input'[v] = input[v] /\ output'[v] = output[v]
    BY DEF IInv, TypeOK, Commit, Idle
  <1>2. new.signer = task[w] /\ new.input = input[w] /\ new.output = output[w] /\ new.state = "signed"
    OBVIOUS
  <1>3. PICK fresh : fresh = new
    OBVIOUS
  <1> HIDE DEF new
  <1>4. \A a \in artifacts : a.signer # task[w]
    BY <1>1 DEF TurnInv, OneEach
  <1>5. \A a \in artifacts' : a \in artifacts \/ a = fresh
    BY <1>1, <1>3
  <1>6. \A s : TurnHasCome(s) => TurnHasCome(s)' /\ task[w] \notin Before[s]
    BY <1>1, <1>4 DEF TurnHasCome, HasSigned, Of
  <1>7. \A s, revision : TurnHasCome(s) /\ After(s, revision) => After(s, revision)'
    <2> SUFFICES ASSUME NEW s, NEW revision, TurnHasCome(s), After(s, revision),
                        NEW t \in Before[s], NEW a \in artifacts', a.signer = t
                 PROVE  a.input # revision
      BY DEF After
    <2>1. a # fresh
      BY <1>2, <1>3, <1>6
    <2> QED BY <1>5, <2>1 DEF After
  <1>8. Extended'
    <2>1. Extends(fresh.input, fresh.signer, fresh.output)
      BY <1>1, <1>2, <1>3 DEF TurnInv, Extended
    <2>2. \A a \in artifacts' : Extends(a.input, a.signer, a.output)
      BY <1>5, <2>1 DEF TurnInv, Extended
    <2>3. \A v \in Thread : stage'[v] \in {"signed", "stored", "inserting"} => Extends(input'[v], task'[v], output'[v])
      BY <1>1 DEF TurnInv, Extended
    <2> QED BY <2>2, <2>3 DEF Extended
  <1>9. OneEach'
    <2>1. \A a, b \in artifacts' : a.signer = b.signer => a = b
      BY <1>2, <1>3, <1>4, <1>5 DEF TurnInv, OneEach
    <2>2. \A v \in Thread : stage'[v] = "inserting" => v # w /\ stage[v] = "inserting" /\ task'[v] = task[v]
      BY <1>1
    <2>3. \A v \in Thread : stage'[v] = "inserting" => \A a \in artifacts' : a.signer # task'[v]
      <3> SUFFICES ASSUME NEW v \in Thread, stage'[v] = "inserting", NEW a \in artifacts'
                   PROVE  a.signer # task'[v]
        OBVIOUS
      <3>1. CASE a \in artifacts
        BY <2>2, <3>1 DEF TurnInv, OneEach
      <3>2. CASE a = fresh
        BY <1>1, <1>2, <1>3, <2>2, <3>2 DEF TurnInv, OneEach
      <3> QED BY <1>5, <3>1, <3>2
    <2>4. \A u, v \in Thread : stage'[u] = "inserting" /\ stage'[v] = "inserting" /\ task'[u] = task'[v] => u = v
      BY <2>2 DEF TurnInv, OneEach
    <2> QED BY <2>1, <2>3, <2>4 DEF OneEach
  <1>10. TurnsKept'
    <2>1. \A a \in artifacts : TurnHasCome(a.signer) /\ After(a.signer, a.input)
      BY DEF TurnInv, TurnsKept
    <2>2. TurnHasCome(fresh.signer) /\ After(fresh.signer, fresh.input)
      BY <1>1, <1>2, <1>3 DEF TurnInv, TurnsKept
    <2>3. \A a \in artifacts' : TurnHasCome(a.signer)' /\ After(a.signer, a.input)'
      BY <1>5, <1>6, <1>7, <2>1, <2>2
    <2>4. ASSUME NEW v \in Thread, stage'[v] # "idle"
          PROVE  /\ TurnHasCome(task[v])'
                 /\ After(task[v], input[v])' \/ (input'[v] = Canonical /\ stage'[v] # "inserting")
      <3>1. v # w
        BY <1>1, <2>4
      <3>2. /\ TurnHasCome(task[v])
            /\ After(task[v], input[v]) \/ (input[v] = Canonical /\ stage[v] # "inserting")
        BY <1>1, <2>4, <3>1 DEF TurnInv, TurnsKept
      <3>3. PICK s, revision : s = task[v] /\ revision = input[v]
        OBVIOUS
      <3>4. TurnHasCome(s)' /\ (After(s, revision)' \/ (revision = Canonical /\ stage'[v] # "inserting"))
        BY <1>1, <1>6, <1>7, <3>1, <3>2, <3>3
      <3>5. task'[v] = s /\ input'[v] = revision
        BY <1>1, <3>1, <3>3
      <3> QED BY <3>4, <3>5 DEF TurnHasCome, After
    <2> QED BY <2>3, <2>4 DEF TurnsKept
  <1> QED BY <1>8, <1>9, <1>10 DEF TurnInv

(* A verdict changes nothing of who signed what. *)
LEMMA ValidateTurn ==
  ASSUME IInv, TurnInv, NEW a \in artifacts, Validate(a)
  PROVE  TurnInv'
  <1>1. PICK state \in State, level \in Level : Becomes(a, state, level)
    BY LevelsAreRanked DEF Validate, Admit, Reject, State, Level
  <1>2. PICK new : new = [a EXCEPT !.state = state, !.admitted = level]
    OBVIOUS
  <1>3. a \in Artifact
    BY DEF IInv, TypeOK
  <1>4. new.signer = a.signer /\ new.input = a.input /\ new.output = a.output
    BY <1>2, <1>3 DEF Artifact
  <1>5. artifacts' = (artifacts \ {a}) \cup {new}
    BY <1>1, <1>2 DEF Becomes
  <1>6. a.state = "signed" /\ UNCHANGED <<stage, task, input, output>>
    BY DEF Validate, thread
  <1>7. \A b \in artifacts' : \E c \in artifacts : /\ b.signer = c.signer /\ b.input = c.input /\ b.output = c.output
                                                   /\ b = c \/ (c = a /\ b = new)
    BY <1>4, <1>5
  <1>8. \A s : TurnHasCome(s) => TurnHasCome(s)'
    BY <1>5, <1>6 DEF TurnHasCome, HasSigned, Of
  <1>9. \A s, revision : After(s, revision) => After(s, revision)'
    BY <1>7 DEF After
  <1>10. Extended'
    BY <1>6, <1>7 DEF TurnInv, Extended
  <1>11. OneEach'
    <2>1. \A b, c \in artifacts' : b.signer = c.signer => b = c
      BY <1>4, <1>5 DEF TurnInv, OneEach
    <2>2. \A w \in Thread : stage[w] = "inserting" => \A b \in artifacts' : b.signer # task[w]
      BY <1>7 DEF TurnInv, OneEach
    <2> QED BY <1>6, <2>1, <2>2 DEF TurnInv, OneEach
  <1>12. TurnsKept'
    <2>1. \A b \in artifacts' : TurnHasCome(b.signer)' /\ After(b.signer, b.input)'
      <3> SUFFICES ASSUME NEW b \in artifacts' PROVE TurnHasCome(b.signer)' /\ After(b.signer, b.input)'
        OBVIOUS
      <3>1. PICK c \in artifacts : b.signer = c.signer /\ b.input = c.input
        BY <1>7
      <3>2. TurnHasCome(b.signer) /\ After(b.signer, b.input)
        BY <3>1 DEF TurnInv, TurnsKept
      <3> QED BY <1>8, <1>9, <3>2
    <2>2. \A w \in Thread : stage[w] # "idle" =>
            /\ TurnHasCome(task[w])'
            /\ After(task[w], input[w])' \/ (input[w] = Canonical /\ stage[w] # "inserting")
      <3> SUFFICES ASSUME NEW w \in Thread, stage[w] # "idle", NEW s, s = task[w], NEW revision, revision = input[w]
                   PROVE  /\ TurnHasCome(s)'
                          /\ After(s, revision)' \/ (revision = Canonical /\ stage[w] # "inserting")
        BY <1>6
      <3>1. TurnHasCome(s) /\ (After(s, revision) \/ (revision = Canonical /\ stage[w] # "inserting"))
        BY DEF TurnInv, TurnsKept
      <3> QED BY <1>8, <1>9, <3>1
    <2> QED BY <1>6, <2>1, <2>2 DEF TurnsKept
  <1> QED BY <1>10, <1>11, <1>12 DEF TurnInv

LEMMA TurnInvNext == IInv /\ TurnInv /\ [Next]_vars => TurnInv'
  <1> SUFFICES ASSUME IInv, TurnInv, [Next]_vars PROVE TurnInv'
    OBVIOUS
  <1>1. CASE UNCHANGED vars
    BY <1>1 DEF vars, TurnInv, Extended, OneEach, TurnsKept, TurnHasCome, HasSigned, Of, After
  <1>2. ASSUME NEW w \in Thread, NEW s \in Signer, Read(w, s) PROVE TurnInv'
    BY <1>2, ReadTurn
  <1>3. ASSUME NEW w \in Thread, Progress(w) \/ WorkerLost(w) PROVE TurnInv'
    <2>1. CASE SignRefused(w) \/ StoreRefused(w) \/ InsertRejected(w) \/ CommitRejected(w) \/ WorkerLost(w)
      <3>1. Idle(w) /\ artifacts' = artifacts
        BY <2>1 DEF SignRefused, StoreRefused, InsertRejected, CommitRejected, WorkerLost
      <3> QED BY <3>1, ThreadStops
    <2> QED BY <1>3, <2>1, SignTurn, InsertTurn, CommitTurn DEF Progress
  <1>4. ASSUME NEW a \in artifacts, Validate(a) PROVE TurnInv'
    BY <1>4, ValidateTurn
  <1> QED BY <1>1, <1>2, <1>3, <1>4 DEF Next

(* With any number of threads, of lost workers and of jobs run twice, and with any
   turns: two signatures that branch from one revision are of signers in parallel.
   What the guard on the rows does not see, two threads of one signer or a signer
   who overtakes another, storage and the turns exclude.                          *)
THEOREM TurnsNeverFork == Spec => []NoForkInTurn
  <1>1. ASSUME TurnInv PROVE NoForkInTurn
    <2> SUFFICES ASSUME NEW a \in artifacts, NEW b \in artifacts, a.input = b.input, ~InParallel(a.signer, b.signer)
                 PROVE  a = b
      BY DEF NoForkInTurn
    <2>1. CASE a.signer = b.signer
      BY <1>1, <2>1 DEF TurnInv, OneEach
    <2>2. CASE a.signer \in Before[b.signer]
      BY <1>1, <2>2 DEF TurnInv, TurnsKept, After
    <2>3. CASE b.signer \in Before[a.signer]
      BY <1>1, <2>3 DEF TurnInv, TurnsKept, After
    <2> QED BY <2>1, <2>2, <2>3 DEF InParallel
  <1> QED BY <1>1, TurnInvInit, TurnInvNext, Invariance, PTL DEF Spec

---------------------------------------------------------------------------------
(* The audit chain of the control plane.  The stamps are of the beginning: the order of
   beginning is kept only when no appender commits after one that began later.       *)
CommitsInOrder == \A e \in chain' \ chain : \A f \in chain : f.occurredAt < e.occurredAt

ChainInv ==
  /\ began \in [Appender -> Nat] /\ outcome \in [Appender -> {"open", "committed", "rolled_back"}] /\ now \in Nat
  /\ \A e \in chain : /\ e.event \in Appender /\ outcome[e.event] = "committed"
                      /\ e.occurredAt \in Nat \ {0} /\ e.occurredAt = began[e.event]
                      /\ e.previous \in Appender => \E f \in chain : f.event = e.previous
  /\ \A e, f \in chain : e.event = f.event => e = f
  /\ chain # {} => \E last \in chain : /\ \A f \in chain : f = last \/ f.occurredAt < last.occurredAt
                                       /\ \A f \in chain : f.previous # last.event
  /\ NoTwoSuccessors

(* The latest event by its stamp, when one has the greatest. *)
LEMMA LatestIsLast ==
  ASSUME NEW last \in chain, \A f \in chain : f.occurredAt \in Nat,
         \A f \in chain : f = last \/ f.occurredAt < last.occurredAt
  PROVE  LatestEvent = last.event
  <1> DEFINE stamps == {f.occurredAt : f \in chain}
  <1>1. last.occurredAt \in stamps /\ \A t \in stamps : last.occurredAt >= t
    OBVIOUS
  <1>2. stamps \subseteq Nat
    OBVIOUS
  <1> HIDE DEF stamps
  <1>3. Max(stamps) \in stamps /\ \A t \in stamps : Max(stamps) >= t
    BY <1>1 DEF Max
  <1>4. Max(stamps) = last.occurredAt
    <2>1. PICK m, t : m = Max(stamps) /\ t = last.occurredAt
      OBVIOUS
    <2>2. m \in Nat /\ t \in Nat /\ m >= t /\ t >= m
      BY <1>1, <1>2, <1>3, <2>1
    <2> QED BY <2>1, <2>2
  <1>5. \A e \in chain : e.occurredAt = Max(stamps) <=> e = last
    BY <1>4
  <1>6. (CHOOSE e \in chain : e.occurredAt = Max(stamps)) = last
    BY <1>5
  <1>7. LatestEvent = (CHOOSE e \in chain : e.occurredAt = Max(stamps)).event
    BY DEF LatestEvent, stamps
  <1> QED BY <1>6, <1>7

LEMMA AppendKeepsChain ==
  ASSUME Genesis \notin Appender, ChainInv, NEW a \in Appender, AppendControlAudit(a), CommitsInOrder
  PROVE  ChainInv'
  <1>1. PICK latest : latest = LatestEvent
    OBVIOUS
  <1>2. PICK new : new = [event |-> a, occurredAt |-> began[a], previous |-> latest]
    OBVIOUS
  <1>3. new.event = a /\ new.occurredAt = began[a] /\ new.previous = latest
    BY <1>2
  <1>4. /\ outcome[a] = "open" /\ began[a] > 0 /\ chain' = chain \cup {new} /\ UNCHANGED <<now, began>>
        /\ outcome' = [outcome EXCEPT ![a] = "committed"]
    BY <1>1, <1>2 DEF AppendControlAudit
  <1>5. began[a] \in Nat \ {0} /\ \A e \in chain : e.event # a
    BY <1>4 DEF ChainInv
  <1>6. new \notin chain /\ \A f \in chain : f.occurredAt < new.occurredAt
    BY <1>3, <1>4, <1>5 DEF CommitsInOrder
  <1>7. \/ chain = {} /\ latest = Genesis
        \/ \E last \in chain : latest = last.event /\ \A f \in chain : f.previous # last.event
    <2>1. CASE chain = {}
      BY <1>1, <2>1 DEF LatestEvent
    <2>2. CASE chain # {}
      <3>1. PICK last \in chain : /\ \A f \in chain : f = last \/ f.occurredAt < last.occurredAt
                                  /\ \A f \in chain : f.previous # last.event
        BY <2>2 DEF ChainInv
      <3>2. LatestEvent = last.event
        BY <3>1, LatestIsLast DEF ChainInv
      <3> QED BY <1>1, <3>1, <3>2
    <2> QED BY <2>1, <2>2
  <1>8. \A f \in chain : f.previous # latest
    BY <1>7
  <1>9. latest # a /\ \A f \in chain : f.previous # a
    <2>1. \A f \in chain : f.previous \in Appender => \E e \in chain : e.event = f.previous
      BY DEF ChainInv
    <2> QED BY <1>5, <1>7, <2>1
  <1>10. NoTwoSuccessors'
    BY <1>3, <1>4, <1>8 DEF ChainInv, NoTwoSuccessors
  <1>11. \A f \in chain' : (f = new \/ f.occurredAt < new.occurredAt) /\ f.previous # new.event
    BY <1>3, <1>4, <1>6, <1>9
  <1>12. \A e \in chain' : /\ e.event \in Appender /\ outcome'[e.event] = "committed"
                           /\ e.occurredAt \in Nat \ {0} /\ e.occurredAt = began'[e.event]
    BY <1>3, <1>4, <1>5 DEF ChainInv
  <1>13. \A e \in chain' : e.previous \in Appender => \E f \in chain' : f.event = e.previous
    BY <1>3, <1>4, <1>7 DEF ChainInv
  <1>14. \A e, f \in chain' : e.event = f.event => e = f
    BY <1>3, <1>4, <1>5 DEF ChainInv
  <1>15. began' \in [Appender -> Nat] /\ outcome' \in [Appender -> {"open", "committed", "rolled_back"}] /\ now' \in Nat
    BY <1>4 DEF ChainInv
  <1>16. new \in chain'
    BY <1>4
  <1> QED BY <1>10, <1>11, <1>12, <1>13, <1>14, <1>15, <1>16 DEF ChainInv

(* The lock alone does not keep the chain from forking (audit_fork); it does when events
   are also committed in the order in which their transactions began, for any number of
   appenders (appendControlAudit, "order by occurred_at desc").                         *)
THEOREM OrderedCommitsNeverFork ==
  ASSUME Genesis \notin Appender
  PROVE  AuditInit /\ [][AuditNext /\ CommitsInOrder]_auditVars => []NoTwoSuccessors
  <1>1. AuditInit => ChainInv
    BY DEF AuditInit, ChainInv, NoTwoSuccessors
  <1>2. ChainInv /\ [AuditNext /\ CommitsInOrder]_auditVars => ChainInv'
    <2> SUFFICES ASSUME ChainInv, [AuditNext /\ CommitsInOrder]_auditVars PROVE ChainInv'
      OBVIOUS
    <2>1. ASSUME NEW a \in Appender, AppendControlAudit(a), CommitsInOrder PROVE ChainInv'
      BY <2>1, AppendKeepsChain
    <2>2. ASSUME NEW a \in Appender, Begin(a) PROVE ChainInv'
      <3>1. /\ now' = now + 1 /\ began' = [began EXCEPT ![a] = now + 1] /\ UNCHANGED <<outcome, chain>>
            /\ began[a] = 0
        BY <2>2 DEF Begin
      <3>2. \A e \in chain : e.event # a
        BY <3>1 DEF ChainInv
      <3>3. began' \in [Appender -> Nat] /\ now' \in Nat /\ \A b \in Appender \ {a} : began'[b] = began[b]
        BY <3>1 DEF ChainInv
      <3> QED BY <3>1, <3>2, <3>3 DEF ChainInv, NoTwoSuccessors
    <2>3. ASSUME NEW a \in Appender, RollBackAppender(a) PROVE ChainInv'
      BY <2>3 DEF RollBackAppender, ChainInv, NoTwoSuccessors
    <2>4. CASE UNCHANGED auditVars
      BY <2>4 DEF auditVars, ChainInv, NoTwoSuccessors
    <2> QED BY <2>1, <2>2, <2>3, <2>4 DEF AuditNext
  <1>3. ChainInv => NoTwoSuccessors
    BY DEF ChainInv
  <1> QED BY <1>1, <1>2, <1>3, PTL

=============================================================================
