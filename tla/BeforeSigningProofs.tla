--------------------------- MODULE BeforeSigningProofs ---------------------------
(* What holds, for every number of callers, documents and signers, of a request
   that is repeated under an idempotency key and of a case until it is sent.    *)
EXTENDS CaseDraft, Idempotency, TLAPS

--------------------------------------------------------------------------------
(* Idempotency keys. *)
LEMMA IdemTypeInit == IdemInit => IdemTypeOK
  BY IdempotencyAssumption DEF IdemInit, IdemTypeOK, NoAnswer, Answer

AnswerType == [kind : {"none", "ok", "conflict", "error"}, response : Caller \cup {INone}]
CallerType == [at : {"idle", "asking", "looking", "working", "committing"}, body : Body \cup {INone},
               asked : 0..MaxAsks, answer : AnswerType]

(* Who is answered is idle, with the answer; the others are as they were. *)
LEMMA AnswerWithMoves ==
  ASSUME IdemTypeOK, NEW c \in Caller, NEW a \in AnswerType, AnswerWith(c, a)
  PROVE  /\ caller' \in [Caller -> CallerType] /\ keyLock' = INone
         /\ caller'[c].at = "idle" /\ caller'[c].answer = a /\ caller'[c].body = caller[c].body
         /\ \A d \in Caller : d # c => caller'[d] = caller[d]
  <1>1. caller \in [Caller -> CallerType]
    BY DEF IdemTypeOK, CallerType, AnswerType
  <1>2. [caller[c] EXCEPT !.at = "idle", !.answer = a] \in CallerType
    BY <1>1 DEF CallerType
  <1>3. caller' = [caller EXCEPT ![c] = [@ EXCEPT !.at = "idle", !.answer = a]] /\ keyLock' = INone
    BY <1>1 DEF AnswerWith, CallerType
  <1>4. caller[c] \in CallerType
    BY <1>1
  <1> QED
    BY <1>1, <1>2, <1>3, <1>4 DEF CallerType

LEMMA AnswersTyped ==
  ASSUME NEW kind \in {"none", "ok", "conflict", "error"}, NEW r \in Caller \cup {INone}
  PROVE  Answer(kind, r) \in AnswerType /\ Answer(kind, r).kind = kind /\ Answer(kind, r).response = r
  BY DEF Answer, AnswerType

LEMMA IdemTypeNext == IdemTypeOK /\ [IdemNext]_idemVars => IdemTypeOK'
  <1> SUFFICES ASSUME IdemTypeOK, [IdemNext]_idemVars PROVE IdemTypeOK'
    OBVIOUS
  <1> USE IdempotencyAssumption DEF IdemTypeOK
  <1>1. ASSUME NEW c \in Caller, NEW b \in Body, Ask(c, b) PROVE IdemTypeOK'
    BY <1>1 DEF Ask, NoAnswer, Answer
  <1>2. ASSUME NEW c \in Caller, TakeKeyLock(c) PROVE IdemTypeOK'
    BY <1>2 DEF TakeKeyLock
  <1>3. ASSUME NEW c \in Caller, LookUp(c) PROVE IdemTypeOK'
    <2>1. CASE keyRow.state = "absent"
      BY <1>3, <2>1 DEF LookUp
    <2>2. CASE keyRow.state # "absent"
      <3>1. PICK a \in AnswerType : AnswerWith(c, a) /\ UNCHANGED <<keyRow, committed, enqueued>>
        BY <1>3, <2>2, AnswersTyped DEF LookUp
      <3> QED
        BY <3>1, AnswerWithMoves DEF CallerType, AnswerType
    <2> QED
      BY <2>1, <2>2
  <1>4. ASSUME NEW c \in Caller, WorkEnqueues(c) PROVE IdemTypeOK'
    BY <1>4 DEF WorkEnqueues
  <1>5. ASSUME NEW c \in Caller, RollBack(c) PROVE IdemTypeOK'
    <2>1. PICK a \in AnswerType : AnswerWith(c, a) /\ UNCHANGED <<keyRow, committed, enqueued>>
      BY <1>5, AnswersTyped DEF RollBack
    <2> QED
      BY <2>1, AnswerWithMoves DEF CallerType, AnswerType
  <1>6. ASSUME NEW c \in Caller, NEW heard \in BOOLEAN, CommitWork(c, heard) PROVE IdemTypeOK'
    <2>1. PICK a \in AnswerType : AnswerWith(c, a)
      BY <1>6, AnswersTyped DEF CommitWork
    <2> QED
      BY <1>6, <2>1, AnswerWithMoves DEF CommitWork, CallerType, AnswerType
  <1>7. CASE KeyExpires
    BY <1>7 DEF KeyExpires
  <1>8. CASE UNCHANGED idemVars
    BY <1>8 DEF idemVars
  <1> QED
    BY <1>1, <1>2, <1>3, <1>4, <1>5, <1>6, <1>7, <1>8 DEF IdemNext

(* Whoever looks for the key or works has its lock; the work goes on only while
   there is no row, and there is one exactly when the work was committed.       *)
InTransaction(c) == caller[c].at \in {"looking", "working", "committing"}

OneWorksAtATime ==
  /\ \A c \in Caller : InTransaction(c) => keyLock = c
  /\ \A c \in Caller : caller[c].at \in {"working", "committing"} => keyRow.state = "absent"
  /\ committed = IF keyRow.state = "absent" THEN 0 ELSE 1

AnsweredFromTheRow ==
  \A c \in Caller : caller[c].answer.kind = "ok" =>
    /\ keyRow.state # "absent"
    /\ caller[c].body = keyRow.body /\ caller[c].answer.response = keyRow.response

IdemInv == IdemTypeOK /\ OneWorksAtATime /\ AnsweredFromTheRow

LEMMA IdemInvInit == IdemInit => IdemInv
  BY IdemTypeInit DEF IdemInit, IdemInv, OneWorksAtATime, AnsweredFromTheRow, InTransaction, NoAnswer, Answer

LEMMA IdemInvNext == IdemInv /\ [IdemNext]_idemVars => IdemInv'
  <1> SUFFICES ASSUME IdemInv, [IdemNext]_idemVars PROVE OneWorksAtATime' /\ AnsweredFromTheRow'
    BY IdemTypeNext DEF IdemInv
  <1> USE IdempotencyAssumption DEF IdemInv, IdemTypeOK, OneWorksAtATime, AnsweredFromTheRow, InTransaction
  <1>1. ASSUME NEW c \in Caller, NEW b \in Body, Ask(c, b) PROVE OneWorksAtATime' /\ AnsweredFromTheRow'
    BY <1>1 DEF Ask, NoAnswer, Answer
  <1>2. ASSUME NEW c \in Caller, TakeKeyLock(c) PROVE OneWorksAtATime' /\ AnsweredFromTheRow'
    BY <1>2 DEF TakeKeyLock
  <1>3. ASSUME NEW c \in Caller, LookUp(c) PROVE OneWorksAtATime' /\ AnsweredFromTheRow'
    <2>1. CASE keyRow.state = "absent"
      BY <1>3, <2>1 DEF LookUp
    <2>2. CASE keyRow.state # "absent"
      <3>1. PICK a \in AnswerType :
              /\ AnswerWith(c, a) /\ UNCHANGED <<keyRow, committed, enqueued>>
              /\ a.kind = "ok" => a.response = keyRow.response /\ keyRow.body = caller[c].body
        BY <1>3, <2>2, AnswersTyped DEF LookUp
      <3>2. keyLock = c
        BY <1>3 DEF LookUp
      <3> QED
        BY <2>2, <3>1, <3>2, AnswerWithMoves
    <2> QED
      BY <2>1, <2>2
  <1>4. ASSUME NEW c \in Caller, WorkEnqueues(c) PROVE OneWorksAtATime' /\ AnsweredFromTheRow'
    BY <1>4 DEF WorkEnqueues
  <1>5. ASSUME NEW c \in Caller, RollBack(c) PROVE OneWorksAtATime' /\ AnsweredFromTheRow'
    <2>1. PICK a \in AnswerType :
            AnswerWith(c, a) /\ a.kind = "error" /\ UNCHANGED <<keyRow, committed, enqueued>>
      BY <1>5, AnswersTyped DEF RollBack
    <2>2. keyLock = c
      BY <1>5 DEF RollBack
    <2> QED
      BY <2>1, <2>2, AnswerWithMoves
  <1>6. ASSUME NEW c \in Caller, NEW heard \in BOOLEAN, CommitWork(c, heard)
        PROVE  OneWorksAtATime' /\ AnsweredFromTheRow'
    <2>1. keyLock = c /\ keyRow.state = "absent" /\ committed = 0
      BY <1>6 DEF CommitWork
    <2>2. PICK a \in AnswerType : AnswerWith(c, a) /\ (a.kind = "ok" => a.response = c)
      BY <1>6, AnswersTyped DEF CommitWork
    <2>3. /\ caller'[c].at = "idle" /\ caller'[c].answer = a /\ caller'[c].body = caller[c].body
          /\ \A d \in Caller : d # c => caller'[d] = caller[d] /\ ~InTransaction(d)
      BY <2>1, <2>2, AnswerWithMoves
    <2>4. keyRow' = [state |-> "live", body |-> caller[c].body, response |-> c] /\ committed' = 1
      BY <1>6, <2>1 DEF CommitWork
    <2> QED
      BY <2>1, <2>2, <2>3, <2>4
  <1>7. CASE KeyExpires
    BY <1>7 DEF KeyExpires
  <1>8. CASE UNCHANGED idemVars
    BY <1>8 DEF idemVars
  <1> QED
    BY <1>1, <1>2, <1>3, <1>4, <1>5, <1>6, <1>7, <1>8 DEF IdemNext

(* The key's row, the callers and the counts keep their types
   (runIdempotent and its table). *)
THEOREM IdemTypeCorrect == IdemSpec => []IdemTypeOK
  <1>1. IdemInit => IdemTypeOK
    BY IdemTypeInit
  <1>2. IdemTypeOK /\ [IdemNext]_idemVars => IdemTypeOK'
    BY IdemTypeNext
  <1> QED
    BY <1>1, <1>2, PTL DEF IdemSpec

(* The work under a key is committed at most once, by any number of callers and
   after any number of lost answers, and whoever is answered ok is given the
   stored answer to the body it sent (withIdempotency).                        *)
THEOREM AnsweredAlikeHolds == IdemSpec => []AnsweredAlike
  <1>1. IdemInit => IdemInv
    BY IdemInvInit
  <1>2. IdemInv /\ [IdemNext]_idemVars => IdemInv'
    BY IdemInvNext
  <1>3. IdemInv => AnsweredAlike
    BY DEF IdemInv, IdemTypeOK, OneWorksAtATime, AnsweredFromTheRow, AnsweredAlike
  <1> QED
    BY <1>1, <1>2, <1>3, PTL DEF IdemSpec

--------------------------------------------------------------------------------
(* A case until it is sent.  Everything that says something of a document or of
   one who works on it: the file is there; what was made of it is on the shelf,
   and the row that is ready names it; the report kept for it says it is clean.  *)
Busy(w) == docWorker[w].at # "idle"
Finishing(w) == docWorker[w].at \in {"finish", "check", "commit"}
Prepared(u) == version[u].status \in {"ready", "locked"}

FilesAreThere ==
  /\ \A u \in Upload :
       /\ grant[u] \in {"uploaded", "consumed"} \/ version[u].status # "none"
            \/ djob[u].scan = "open" \/ djob[u].canonicalize = "open" => bytes[u] \in Content
       /\ bytes[u] \in Content /\ bytes[u].same => bytes[u] = Declared[u]
  /\ \A w \in DocWorker : Busy(w) => docWorker[w].doc \in Upload /\ bytes[docWorker[w].doc] \in Content

JobsHaveDocuments ==
  /\ \A u \in Upload : djob[u].scan = "open" \/ djob[u].canonicalize = "open" => version[u].status # "none"
  /\ \A u \in Upload : version[u].status # "none" => grant[u] = "consumed"
  /\ \A w \in DocWorker : Busy(w) => version[docWorker[w].doc].status # "none"

ReadyIsStored ==
  /\ \A w \in DocWorker :
       /\ docWorker[w].at \in {"report", "store"} \/ Finishing(w) => docWorker[w].made # 0
       /\ Finishing(w) => shelf[docWorker[w].doc].canonical = docWorker[w].made
  /\ \A u \in Upload :
       /\ Prepared(u) => shelf[u].canonical = version[u].digest
       /\ Prepared(u) <=> version[u].digest # 0

CleanIsScanned ==
  /\ \A u \in Upload : Prepared(u) \/ version[u].status = "canonicalizing" => scanned[u] = "PASS"
  /\ \A w \in DocWorker : docWorker[w].at = "passed" => scanned[docWorker[w].doc] = "PASS"
  /\ \A u \in Upload \ Office : scanned[u] # "none" => scanned[u] = ScanMalware(Declared[u])

(* What send() read is what the case has while it holds the case row. *)
SendingKnows ==
  sending.on => caseStatus = "ready" /\ {x.doc : x \in sending.read} = Documents

(* From the audit chain head to the commit one handler is alone: if another
   document kept it from making the case ready, that one is not ready yet.      *)
HeadKeepsApart ==
  \A w \in DocWorker :
    /\ docWorker[w].at \in {"check", "commit"} => head = w
    /\ docWorker[w].at = "commit" /\ ~docWorker[w].readies =>
         \/ version[docWorker[w].doc].status \notin {"canonicalizing", "ready"}
         \/ \E x \in Documents \ {docWorker[w].doc} : version[x].status # "ready"

DraftInv ==
  /\ DraftTypeOK /\ FilesAreThere /\ JobsHaveDocuments /\ ReadyIsStored /\ CleanIsScanned
  /\ SendingKnows /\ SentIsWhole /\ HeadKeepsApart /\ LastDocumentReadies

LEMMA DraftInvInit == DraftInit => DraftInv
  <1> SUFFICES ASSUME DraftInit PROVE DraftInv
    OBVIOUS
  <1>1. DraftTypeOK
    BY DraftAssumption DEF DraftInit, DraftTypeOK, Rendition, Idle, Name
  <1> QED
    BY <1>1, DraftAssumption
    DEF DraftInit, DraftInv, FilesAreThere, JobsHaveDocuments, ReadyIsStored, CleanIsScanned, SendingKnows, SentIsWhole,
        HeadKeepsApart, LastDocumentReadies, Busy, Finishing, Prepared, Documents, Idle

(* Types, by those who act. *)
VersionType == [status : {"none", "quarantined", "scanning", "canonicalizing", "ready", "locked", "rejected"},
                digest : Rendition]
JobsType == [scan : {"none", "open", "closed"}, canonicalize : {"none", "open", "closed"}]
Place == {"idle", "load", "judge", "passed", "refused", "convert", "report", "store", "finish", "check", "commit"}
WorkType == [at : Place, doc : Upload \cup {DNone}, job : {"scan", "canonicalize"}, made : Rendition,
             readies : BOOLEAN]

LEMMA WorkTypes ==
  DraftTypeOK => /\ version \in [Upload -> VersionType] /\ djob \in [Upload -> JobsType]
                 /\ docWorker \in [DocWorker -> WorkType] /\ Idle \in WorkType
  BY DraftAssumption DEF DraftTypeOK, VersionType, JobsType, WorkType, Place, Idle, Rendition

(* What a handler does to its own record and to its job. *)
LEMMA GotoTypes ==
  ASSUME DraftTypeOK, NEW w \in DocWorker, NEW at \in Place, Goto(w, at)
  PROVE  /\ docWorker' \in [DocWorker -> WorkType] /\ djob' = djob
         /\ docWorker'[w].at = at /\ docWorker'[w].doc = docWorker[w].doc
         /\ docWorker'[w].made = docWorker[w].made /\ docWorker'[w].readies = docWorker[w].readies
         /\ \A x \in DocWorker : x # w => docWorker'[x] = docWorker[x]
  BY WorkTypes DEF Goto, WorkType

LEMMA ThrowTypes ==
  ASSUME DraftTypeOK, NEW w \in DocWorker, Throw(w)
  PROVE  /\ docWorker' \in [DocWorker -> WorkType] /\ djob' = djob
         /\ docWorker'[w].at = "idle"
         /\ \A x \in DocWorker : x # w => docWorker'[x] = docWorker[x]
  BY WorkTypes DEF Throw, Idle, WorkType

LEMMA ReturnTypes ==
  ASSUME DraftTypeOK, NEW w \in DocWorker, Return(w)
  PROVE  /\ docWorker' \in [DocWorker -> WorkType] /\ djob' \in [Upload -> JobsType]
         /\ docWorker'[w].at = "idle"
         /\ \A x \in DocWorker : x # w => docWorker'[x] = docWorker[x]
         /\ \A u \in Upload : /\ djob'[u].scan = "open" => djob[u].scan = "open"
                              /\ djob'[u].canonicalize = "open" => djob[u].canonicalize = "open"
  <1>1. CASE docWorker[w].job = "scan"
    BY <1>1, WorkTypes DEF Return, JobsType, Idle
  <1>2. CASE docWorker[w].job = "canonicalize"
    BY <1>2, WorkTypes DEF Return, JobsType, Idle
  <1> QED
    BY <1>1, <1>2, WorkTypes DEF WorkType

LEMMA AddDocumentTypes ==
  ASSUME DraftTypeOK, NEW u \in Upload, AddDocument(u)
  PROVE  version' \in [Upload -> VersionType] /\ djob' \in [Upload -> JobsType]
  <1>1. version' \in [Upload -> VersionType]
    BY WorkTypes DEF AddDocument, VersionType
  <1>2. djob' \in [Upload -> JobsType]
    BY WorkTypes DEF AddDocument, JobsType
  <1> QED
    BY <1>1, <1>2

LEMMA OperatorTypes == DraftTypeOK /\ OperatorStep => DraftTypeOK'
  <1> SUFFICES ASSUME DraftTypeOK, OperatorStep PROVE DraftTypeOK'
    OBVIOUS
  <1> USE DraftAssumption DEF DraftTypeOK, uploadVars, workVars, peopleVars, Rendition
  <1>1. ASSUME NEW u \in Upload, NEW name \in NamesOf(u), CreateUpload(u, name) PROVE DraftTypeOK'
    <2>1. CleanFileName(name) \in Name
      BY DEF NamesOf, CleanFileName, Name
    <2> QED
      BY <1>1, <2>1 DEF CreateUpload
  <1>2. ASSUME NEW u \in Upload, NEW f \in Content, ClientPuts(u, f) PROVE DraftTypeOK'
    BY <1>2 DEF ClientPuts
  <1>3. ASSUME NEW u \in Upload, CompleteUpload(u) PROVE DraftTypeOK'
    BY <1>3 DEF CompleteUpload
  <1>4. ASSUME NEW u \in Upload, AddDocument(u) PROVE DraftTypeOK'
    BY <1>4, AddDocumentTypes DEF AddDocument, VersionType, JobsType
  <1>5. ASSUME NEW s \in DraftSigner, NEW required \in BOOLEAN,
               AddSigner(s, required) \/ UpdateSigner(s, required)
        PROVE  DraftTypeOK'
    BY <1>5 DEF AddSigner, UpdateSigner, InsertOrUpdateSigner
  <1>6. CASE SendReads
    BY <1>6 DEF SendReads, Documents
  <1>7. CASE SendRefused
    BY <1>7 DEF SendRefused
  <1>8. CASE SendCommits
    <2>1. version' \in [Upload -> VersionType]
      BY <1>8, WorkTypes DEF SendCommits, VersionType
    <2>2. intent' \in [DraftSigner -> SUBSET [doc : Upload, digest : Rendition]]
      BY <1>8 DEF SendCommits
    <2> QED
      BY <1>8, <2>1, <2>2 DEF SendCommits, VersionType
  <1>9. CASE CancelDraft
    BY <1>9 DEF CancelDraft
  <1> QED
    BY <1>1, <1>2, <1>3, <1>4, <1>5, <1>6, <1>7, <1>8, <1>9 DEF OperatorStep

(* What a handler's step leaves alone, and what it has to keep typed. *)
LEMMA HandlerTypes ==
  ASSUME DraftTypeOK, UNCHANGED <<uploadVars, sending, peopleVars>>,
         version' \in [Upload -> VersionType], djob' \in [Upload -> JobsType],
         docWorker' \in [DocWorker -> WorkType],
         shelf' \in [Upload -> [inspection : Rendition, report : Rendition, canonical : Rendition]],
         scanned' \in [Upload -> {"none", "PASS", "FAIL"}], head' \in DocWorker \cup {DNone},
         lastReady' \in Upload \cup {DNone}, dlosses' \in 0..MaxDLosses,
         caseStatus' \in {"draft", "preparing", "ready", "sent", "cancelled"}
  PROVE  DraftTypeOK'
  BY DEF DraftTypeOK, uploadVars, peopleVars, VersionType, JobsType, WorkType, Place

LEMMA ScanTypes == ASSUME DraftTypeOK, NEW w \in DocWorker, ScanStep(w) PROVE DraftTypeOK'
  <1> USE DEF uploadVars, peopleVars
  <1>0. /\ version \in [Upload -> VersionType] /\ djob \in [Upload -> JobsType]
        /\ docWorker \in [DocWorker -> WorkType] /\ Idle \in WorkType
        /\ shelf \in [Upload -> [inspection : Rendition, report : Rendition, canonical : Rendition]]
        /\ scanned \in [Upload -> {"none", "PASS", "FAIL"}] /\ head \in DocWorker \cup {DNone}
        /\ lastReady \in Upload \cup {DNone} /\ dlosses \in 0..MaxDLosses
        /\ caseStatus \in {"draft", "preparing", "ready", "sent", "cancelled"}
    BY WorkTypes DEF DraftTypeOK
  <1>1. CASE LoadForScan(w)
    <2>1. version' \in [Upload -> VersionType]
      BY <1>0, <1>1 DEF LoadForScan, VersionType
    <2>2. djob' \in [Upload -> JobsType] /\ docWorker' \in [DocWorker -> WorkType]
      BY <1>0, <1>1, ReturnTypes, GotoTypes DEF LoadForScan, Place
    <2> QED
      BY <1>0, <1>1, <2>1, <2>2, HandlerTypes DEF LoadForScan
  <1>2. CASE RefuseUnscanned(w)
    <2>1. djob' \in [Upload -> JobsType] /\ docWorker' \in [DocWorker -> WorkType]
      BY <1>0, <1>2, GotoTypes DEF RefuseUnscanned, Place
    <2> QED
      BY <1>0, <1>2, <2>1, HandlerTypes DEF RefuseUnscanned
  <1>3. CASE PassScan(w)
    <2>1. version' \in [Upload -> VersionType]
      BY <1>0, <1>3, ZenonT(60) DEF PassScan, VersionType
    <2>2. djob' \in [Upload -> JobsType]
      <3> DEFINE u == docWorker[w].doc
                 closed == [djob EXCEPT ![u].scan = "closed"]
      <3>1. closed \in [Upload -> JobsType]
        BY <1>0 DEF JobsType
      <3>2. djob' = [closed EXCEPT ![u].canonicalize = IF @ = "none" THEN "open" ELSE @]
        BY <1>3, Zenon DEF PassScan
      <3> HIDE DEF closed
      <3>3. [closed EXCEPT ![u].canonicalize = IF @ = "none" THEN "open" ELSE @] \in [Upload -> JobsType]
        BY <3>1 DEF JobsType
      <3> QED
        BY <3>2, <3>3
    <2>3. docWorker' \in [DocWorker -> WorkType]
      BY <1>0, <1>3 DEF PassScan
    <2> QED
      BY <1>0, <1>3, <2>1, <2>2, <2>3, HandlerTypes DEF PassScan
  <1>4. CASE RejectDocument(w)
    <2>1. version' \in [Upload -> VersionType]
      BY <1>0, <1>4, ZenonT(60) DEF RejectDocument, Rejected, VersionType
    <2>2. djob' \in [Upload -> JobsType] /\ docWorker' \in [DocWorker -> WorkType]
      BY <1>0, <1>4, ReturnTypes DEF RejectDocument
    <2> QED
      BY <1>0, <1>4, <2>1, <2>2, HandlerTypes DEF RejectDocument
  <1>5. ASSUME NEW inspection \in InspectionAnswer, ScanBytes(w, inspection) PROVE DraftTypeOK'
    <2>1. scanned' \in [Upload -> {"none", "PASS", "FAIL"}]
      BY <1>0, <1>5 DEF ScanBytes, KeptReport, ScanMalware
    <2>2. djob' \in [Upload -> JobsType] /\ docWorker' \in [DocWorker -> WorkType]
      BY <1>0, <1>5, ThrowTypes, GotoTypes DEF ScanBytes, AfterScan, Place
    <2> QED
      BY <1>0, <1>5, <2>1, <2>2, HandlerTypes DEF ScanBytes
  <1> QED
    BY <1>1, <1>2, <1>3, <1>4, <1>5 DEF ScanStep

LEMMA CanonicalizeTypes == ASSUME DraftTypeOK, NEW w \in DocWorker, CanonicalizeStep(w) PROVE DraftTypeOK'
  <1> USE DEF uploadVars, peopleVars
  <1>0. /\ version \in [Upload -> VersionType] /\ djob \in [Upload -> JobsType]
        /\ docWorker \in [DocWorker -> WorkType] /\ Idle \in WorkType
        /\ shelf \in [Upload -> [inspection : Rendition, report : Rendition, canonical : Rendition]]
        /\ scanned \in [Upload -> {"none", "PASS", "FAIL"}] /\ head \in DocWorker \cup {DNone}
        /\ lastReady \in Upload \cup {DNone} /\ dlosses \in 0..MaxDLosses
        /\ caseStatus \in {"draft", "preparing", "ready", "sent", "cancelled"}
    BY WorkTypes DEF DraftTypeOK
  <1>1. CASE LoadForCanonicalize(w)
    <2>1. djob' \in [Upload -> JobsType] /\ docWorker' \in [DocWorker -> WorkType]
      BY <1>0, <1>1, ReturnTypes, GotoTypes DEF LoadForCanonicalize, Place
    <2> QED
      BY <1>0, <1>1, <2>1, HandlerTypes DEF LoadForCanonicalize
  <1>2. CASE StoreCanonical(w)
    <2>1. djob' \in [Upload -> JobsType] /\ docWorker' \in [DocWorker -> WorkType]
      BY <1>0, <1>2, ThrowTypes, GotoTypes DEF StoreCanonical, Place
    <2>2. shelf' \in [Upload -> [inspection : Rendition, report : Rendition, canonical : Rendition]]
      <3>1. docWorker[w].made \in Rendition
        BY <1>0 DEF WorkType
      <3>2. CASE shelf' = [shelf EXCEPT ![docWorker[w].doc].canonical = docWorker[w].made]
        BY <1>0, <3>1, <3>2
      <3> QED
        BY <1>0, <1>2, <3>2 DEF StoreCanonical
    <2> QED
      BY <1>0, <1>2, <2>1, <2>2, HandlerTypes DEF StoreCanonical
  <1>3. CASE FinishOffice(w)
    <2>1. version' \in [Upload -> VersionType] /\ lastReady' \in Upload \cup {DNone}
      BY <1>0, <1>3 DEF FinishOffice, MakeReady, VersionType, WorkType
    <2>2. djob' \in [Upload -> JobsType] /\ docWorker' \in [DocWorker -> WorkType]
      BY <1>0, <1>3, ReturnTypes DEF FinishOffice
    <2> QED
      BY <1>0, <1>3, <2>1, <2>2, HandlerTypes DEF FinishOffice
  <1>4. ASSUME NEW n \in 1..MaxRenditions, NEW gotenberg \in GotenbergAnswer, NEW inspection \in InspectionAnswer,
               Convert(w, n, gotenberg, inspection)
        PROVE  DraftTypeOK'
    <2>1. n \in Rendition
      BY DraftAssumption DEF Rendition
    <2>2. shelf' \in [Upload -> [inspection : Rendition, report : Rendition, canonical : Rendition]]
      BY <1>0, <1>4, <2>1 DEF Convert
    <2>3. djob' \in [Upload -> JobsType] /\ docWorker' \in [DocWorker -> WorkType]
      <3>1. CASE Throw(w)
        BY <1>0, <3>1, ThrowTypes
      <3>2. CASE Goto(w, "refused")
        BY <1>0, <3>2, GotoTypes DEF Place
      <3>3. CASE djob' = djob /\ docWorker' = [docWorker EXCEPT ![w].at = "report", ![w].made = n]
        BY <1>0, <3>3, <2>1 DEF WorkType, Place
      <3> QED
        BY <1>4, <3>1, <3>2, <3>3 DEF Convert
    <2> QED
      BY <1>0, <1>4, <2>2, <2>3, HandlerTypes DEF Convert
  <1>5. ASSUME NEW verdicts \in ValidatePdfA, StoreReport(w, verdicts) PROVE DraftTypeOK'
    <2>1. djob' \in [Upload -> JobsType] /\ docWorker' \in [DocWorker -> WorkType]
      BY <1>0, <1>5, ThrowTypes, GotoTypes DEF StoreReport, Place
    <2>2. shelf' \in [Upload -> [inspection : Rendition, report : Rendition, canonical : Rendition]]
      BY <1>0, <1>5, SMTT(30) DEF StoreReport, WorkType
    <2> QED
      BY <1>0, <1>5, <2>1, <2>2, HandlerTypes DEF StoreReport
  <1>6. CASE TakeHead(w)
    <2>1. djob' \in [Upload -> JobsType] /\ docWorker' \in [DocWorker -> WorkType]
      BY <1>0, <1>6, GotoTypes DEF TakeHead, Place
    <2> QED
      BY <1>0, <1>6, <2>1, HandlerTypes DEF TakeHead
  <1>7. CASE CheckCase(w)
    <2>1. PICK yes \in BOOLEAN : docWorker' = [docWorker EXCEPT ![w].at = "commit", ![w].readies = yes]
      BY <1>7 DEF CheckCase
    <2>2. docWorker' \in [DocWorker -> WorkType]
      <3>1. docWorker[w] \in WorkType
        BY <1>0
      <3>2. [docWorker[w] EXCEPT !.at = "commit", !.readies = yes] \in WorkType
        BY <3>1 DEF WorkType, Place
      <3>3. docWorker' = [docWorker EXCEPT ![w] = [docWorker[w] EXCEPT !.at = "commit", !.readies = yes]]
        BY <1>0, <2>1
      <3> QED
        BY <1>0, <3>2, <3>3
    <2> QED
      BY <1>0, <1>7, <2>2, HandlerTypes DEF CheckCase
  <1>8. CASE FinishPdf(w)
    <2>1. version' \in [Upload -> VersionType] /\ lastReady' \in Upload \cup {DNone}
      BY <1>0, <1>8 DEF FinishPdf, MakeReady, VersionType, WorkType
    <2>2. djob' \in [Upload -> JobsType] /\ docWorker' \in [DocWorker -> WorkType]
      BY <1>0, <1>8, ReturnTypes DEF FinishPdf
    <2> QED
      BY <1>0, <1>8, <2>1, <2>2, HandlerTypes DEF FinishPdf
  <1> QED
    BY <1>1, <1>2, <1>3, <1>4, <1>5, <1>6, <1>7, <1>8 DEF CanonicalizeStep

LEMMA WorkerTypes == ASSUME DraftTypeOK, NEW w \in DocWorker, DocWorkerStep(w) PROVE DraftTypeOK'
  <1>1. ASSUME NEW u \in Upload, NEW kind \in {"scan", "canonicalize"}, TakeDocJob(w, u, kind) PROVE DraftTypeOK'
    <2>1. docWorker' \in [DocWorker -> WorkType]
      BY <1>1, WorkTypes DEF TakeDocJob, WorkType, Place
    <2>2. dlosses' \in 0..MaxDLosses
      BY <1>1, DraftAssumption DEF TakeDocJob, DraftTypeOK
    <2> QED
      BY <1>1, <2>1, <2>2, HandlerTypes, WorkTypes DEF TakeDocJob, DraftTypeOK, uploadVars, peopleVars
  <1>2. CASE LoseHandler(w)
    <2>1. dlosses' \in 0..MaxDLosses
      BY <1>2, DraftAssumption DEF LoseHandler, DraftTypeOK
    <2> QED
      BY <1>2, <2>1, ThrowTypes, HandlerTypes, WorkTypes DEF LoseHandler, DraftTypeOK, uploadVars, peopleVars
  <1> QED
    BY <1>1, <1>2, ScanTypes, CanonicalizeTypes DEF DocWorkerStep

LEMMA DraftTypeNext == DraftTypeOK /\ [DraftNext]_draftVars => DraftTypeOK'
  <1>1. DraftTypeOK /\ UNCHANGED draftVars => DraftTypeOK'
    BY DEF draftVars, uploadVars, workVars, peopleVars, DraftTypeOK
  <1> QED
    BY <1>1, OperatorTypes, WorkerTypes DEF DraftNext

(* What the steps do that change more than one field of a row. *)
LEMMA LoadForScanMoves ==
  ASSUME DraftTypeOK, NEW w \in DocWorker, LoadForScan(w)
  PROVE  \/ Return(w) /\ UNCHANGED version
         \/ /\ Goto(w, "judge")
            /\ docWorker[w].doc \in Upload =>
                 version[docWorker[w].doc].status \in Scannable /\ version'[docWorker[w].doc].status = "scanning"
            /\ \A u \in Upload : /\ version'[u].digest = version[u].digest
                                 /\ u # docWorker[w].doc => version'[u] = version[u]
  <1>1. version \in [Upload -> VersionType]
    BY WorkTypes
  <1>2. CASE Return(w) /\ UNCHANGED version
    BY <1>2
  <1>3. CASE /\ version[docWorker[w].doc].status \in Scannable
             /\ version' = [version EXCEPT ![docWorker[w].doc].status = "scanning"] /\ Goto(w, "judge")
    BY <1>1, <1>3 DEF VersionType
  <1> QED
    BY <1>2, <1>3 DEF LoadForScan

LEMMA PassScanMoves ==
  ASSUME DraftTypeOK, NEW w \in DocWorker, PassScan(w), docWorker[w].doc \in Upload
  PROVE  /\ docWorker'[w].at = "idle"
         /\ \A x \in DocWorker : x # w => docWorker'[x] = docWorker[x]
         /\ \A u \in Upload : /\ version'[u].digest = version[u].digest
                              /\ u # docWorker[w].doc => version'[u] = version[u] /\ djob'[u] = djob[u]
                              /\ version'[u].status = version[u].status
                                   \/ (version[u].status = "scanning" /\ version'[u].status = "canonicalizing")
  <1>1. version \in [Upload -> VersionType]
    BY WorkTypes
  <1>2. \A u \in Upload : u # docWorker[w].doc => djob'[u] = djob[u]
    BY WorkTypes DEF PassScan
  <1>3. \A u \in Upload : /\ version'[u].digest = version[u].digest
                          /\ u # docWorker[w].doc => version'[u] = version[u]
                          /\ version'[u].status = version[u].status
                               \/ (version[u].status = "scanning" /\ version'[u].status = "canonicalizing")
    <2>1. CASE version[docWorker[w].doc].status = "scanning"
      <3>1. version' = [version EXCEPT ![docWorker[w].doc].status = "canonicalizing"]
        BY <2>1 DEF PassScan
      <3> TAKE u \in Upload
      <3>2. CASE u = docWorker[w].doc
        BY <1>1, <2>1, <3>1, <3>2 DEF VersionType
      <3>3. CASE u # docWorker[w].doc
        BY <1>1, <3>1, <3>3
      <3> QED
        BY <3>2, <3>3
    <2>2. CASE version[docWorker[w].doc].status # "scanning"
      <3>1. version' = [version EXCEPT ![docWorker[w].doc].status = version[docWorker[w].doc].status]
        BY <2>2 DEF PassScan
      <3> TAKE u \in Upload
      <3>2. CASE u = docWorker[w].doc
        BY <1>1, <2>2, <3>1, <3>2 DEF VersionType
      <3>3. CASE u # docWorker[w].doc
        BY <1>1, <3>1, <3>3
      <3> QED
        BY <3>2, <3>3
    <2> QED
      BY <2>1, <2>2
  <1> QED
    BY <1>2, <1>3, WorkTypes DEF PassScan, Idle, WorkType

LEMMA ScanBytesMoves ==
  ASSUME DraftTypeOK, NEW w \in DocWorker, NEW inspection \in InspectionAnswer, ScanBytes(w, inspection),
         docWorker[w].doc \in Upload
  PROVE  /\ scanned'[docWorker[w].doc] = KeptReport(docWorker[w].doc)
         /\ \A u \in Upload : u # docWorker[w].doc => scanned'[u] = scanned[u]
         /\ \/ Throw(w)
            \/ Goto(w, "refused")
            \/ /\ Goto(w, "passed") /\ ScanMalware(bytes[docWorker[w].doc]) = "PASS"
               /\ ~ReportRefused(docWorker[w].doc)
  <1> DEFINE outcome == AfterScan(StillOffice(docWorker[w].doc), bytes[docWorker[w].doc], inspection)
  <1>1. scanned' = [scanned EXCEPT ![docWorker[w].doc] = KeptReport(docWorker[w].doc)]
    BY DEF ScanBytes
  <1>2. \/ outcome \in {"refused", "throws"}
        \/ outcome = "passed" /\ ScanMalware(bytes[docWorker[w].doc]) = "PASS"
    BY DEF AfterScan, ScanMalware
  <1>3. \/ Throw(w)
        \/ Goto(w, outcome) /\ outcome # "throws" /\ ~ReportRefused(docWorker[w].doc)
    BY DEF ScanBytes
  <1> QED
    BY <1>1, <1>2, <1>3 DEF DraftTypeOK

LEMMA ConvertMoves ==
  ASSUME DraftTypeOK, NEW w \in DocWorker, NEW n \in 1..MaxRenditions, NEW gotenberg \in GotenbergAnswer,
         NEW inspection \in InspectionAnswer, Convert(w, n, gotenberg, inspection)
  PROVE  /\ docWorker'[w].at \in {"idle", "refused", "report"} /\ UNCHANGED djob
         /\ docWorker'[w].at # "idle" => docWorker'[w].doc = docWorker[w].doc
         /\ docWorker'[w].at = "report" => docWorker'[w].made = n
         /\ \A x \in DocWorker : x # w => docWorker'[x] = docWorker[x]
         /\ \A u \in Upload : shelf'[u].canonical = shelf[u].canonical
  <1>1. \A u \in Upload : shelf'[u].canonical = shelf[u].canonical
    BY DEF Convert, DraftTypeOK
  <1>2. CASE Throw(w)
    BY <1>1, <1>2, ThrowTypes
  <1>3. CASE Goto(w, "refused")
    BY <1>1, <1>3, GotoTypes DEF Place
  <1>4. CASE djob' = djob /\ docWorker' = [docWorker EXCEPT ![w].at = "report", ![w].made = n]
    BY <1>1, <1>4, WorkTypes DEF WorkType
  <1> QED
    BY <1>2, <1>3, <1>4 DEF Convert

LEMMA StoreCanonicalMoves ==
  ASSUME DraftTypeOK, NEW w \in DocWorker, StoreCanonical(w), docWorker[w].doc \in Upload
  PROVE  \/ Throw(w) /\ UNCHANGED shelf
         \/ /\ Goto(w, "finish") /\ Accepts(shelf[docWorker[w].doc].canonical, docWorker[w].made)
            /\ shelf'[docWorker[w].doc].canonical = docWorker[w].made
            /\ \A u \in Upload : u # docWorker[w].doc => shelf'[u] = shelf[u]
  BY DEF StoreCanonical, DraftTypeOK

LEMMA StoreReportMoves ==
  ASSUME DraftTypeOK, NEW w \in DocWorker, NEW verdicts \in ValidatePdfA, StoreReport(w, verdicts)
  PROVE  /\ Throw(w) \/ Goto(w, "store") \/ Goto(w, "refused")
         /\ \A u \in Upload : shelf'[u].canonical = shelf[u].canonical
  <1>1. \A u \in Upload : shelf'[u].canonical = shelf[u].canonical
    <2>1. CASE UNCHANGED shelf
      BY <2>1
    <2>2. CASE shelf' = [shelf EXCEPT ![docWorker[w].doc].report = docWorker[w].made]
      BY <2>2 DEF DraftTypeOK
    <2> QED
      BY <2>1, <2>2 DEF StoreReport
  <1>2. Throw(w) \/ Goto(w, "store") \/ Goto(w, "refused")
    BY DEF StoreReport
  <1> QED
    BY <1>1, <1>2

(* The parts of the invariant, over the steps of a handler. *)
LEMMA HandlerFiles == ASSUME DraftInv, NEW w \in DocWorker, DocWorkerStep(w) PROVE FilesAreThere'
  <1> USE DEF FilesAreThere, Busy, uploadVars, workVars, peopleVars
  <1>0. DraftTypeOK /\ docWorker \in [DocWorker -> WorkType] /\ version \in [Upload -> VersionType]
        /\ djob \in [Upload -> JobsType] /\ FilesAreThere
    BY WorkTypes DEF DraftInv, DraftTypeOK
  <1>1. CASE LoadForScan(w)
    BY <1>0, <1>1, ReturnTypes, GotoTypes, LoadForScanMoves DEF LoadForScan, Place
  <1>2. CASE RefuseUnscanned(w)
    BY <1>0, <1>2, GotoTypes DEF RefuseUnscanned, Place
  <1>3. CASE PassScan(w)
    BY <1>0, <1>3, PassScanMoves, ZenonT(60) DEF PassScan, Place
  <1>4. CASE RejectDocument(w)
    BY <1>0, <1>4, ReturnTypes DEF RejectDocument, Rejected, Place
  <1>5. ASSUME NEW inspection \in InspectionAnswer, ScanBytes(w, inspection) PROVE FilesAreThere'
    <2>1. docWorker[w].doc \in Upload /\ UNCHANGED <<grant, bytes, version>>
      BY <1>0, <1>5 DEF ScanBytes
    <2>2. \/ Throw(w) \/ Goto(w, "refused") \/ Goto(w, "passed")
      BY <1>0, <1>5, <2>1, ScanBytesMoves
    <2> QED
      BY <1>0, <2>1, <2>2, <1>5, ThrowTypes, GotoTypes DEF Place, ScanBytes
  <1>6. CASE LoadForCanonicalize(w)
    BY <1>0, <1>6, ReturnTypes, GotoTypes DEF LoadForCanonicalize, Place
  <1>7. CASE StoreCanonical(w)
    BY <1>0, <1>7, ThrowTypes, GotoTypes, StoreCanonicalMoves DEF StoreCanonical, Place
  <1>8. CASE FinishOffice(w)
    BY <1>0, <1>8, ReturnTypes DEF FinishOffice, MakeReady, Place
  <1>9. ASSUME NEW n \in 1..MaxRenditions, NEW gotenberg \in GotenbergAnswer, NEW inspection \in InspectionAnswer,
               Convert(w, n, gotenberg, inspection) PROVE FilesAreThere'
    <2>1. docWorker[w].doc \in Upload /\ UNCHANGED <<grant, bytes, version>>
      BY <1>0, <1>9 DEF Convert
    <2>2. /\ docWorker'[w].at \in {"idle", "refused", "report"} /\ UNCHANGED djob
          /\ docWorker'[w].at # "idle" => docWorker'[w].doc = docWorker[w].doc
          /\ \A x \in DocWorker : x # w => docWorker'[x] = docWorker[x]
      BY <1>0, <1>9, ConvertMoves
    <2>3. bytes[docWorker[w].doc] \in Content
      BY <1>0, <1>9 DEF Convert
    <2> QED
      BY <1>0, <2>1, <2>2, <2>3
  <1>10. ASSUME NEW verdicts \in ValidatePdfA, StoreReport(w, verdicts) PROVE FilesAreThere'
    BY <1>0, <1>10, ThrowTypes, GotoTypes, StoreReportMoves DEF StoreReport, Place
  <1>11. CASE TakeHead(w)
    BY <1>0, <1>11, GotoTypes DEF TakeHead, Place
  <1>12. CASE CheckCase(w)
    BY <1>0, <1>12 DEF CheckCase
  <1>13. CASE FinishPdf(w)
    BY <1>0, <1>13, ReturnTypes DEF FinishPdf, MakeReady, Place
  <1>14. ASSUME NEW u \in Upload, NEW kind \in {"scan", "canonicalize"}, TakeDocJob(w, u, kind) PROVE FilesAreThere'
    BY <1>0, <1>14 DEF TakeDocJob, Idle
  <1>15. CASE LoseHandler(w)
    BY <1>0, <1>15, ThrowTypes DEF LoseHandler, Place
  <1> QED
    BY <1>1, <1>2, <1>3, <1>4, <1>5, <1>6, <1>7, <1>8, <1>9, <1>10, <1>11, <1>12, <1>13, <1>14, <1>15 DEF DocWorkerStep, ScanStep, CanonicalizeStep

LEMMA HandlerStores == ASSUME DraftInv, NEW w \in DocWorker, DocWorkerStep(w) PROVE ReadyIsStored'
  <1> USE DEF ReadyIsStored, Finishing, Prepared, Busy, uploadVars, peopleVars, Accepts
  <1>0. DraftTypeOK /\ docWorker \in [DocWorker -> WorkType] /\ version \in [Upload -> VersionType]
        /\ djob \in [Upload -> JobsType] /\ ReadyIsStored /\ FilesAreThere
        /\ shelf \in [Upload -> [inspection : Rendition, report : Rendition, canonical : Rendition]]
    BY WorkTypes DEF DraftInv, DraftTypeOK
  <1>1. CASE LoadForScan(w)
    <2>1. docWorker[w].doc \in Upload /\ UNCHANGED shelf /\ docWorker[w].at = "load"
      BY <1>0, <1>1 DEF LoadForScan, FilesAreThere, Busy
    <2>2. CASE Return(w) /\ UNCHANGED version
      BY <1>0, <2>1, <2>2, ReturnTypes
    <2>3. CASE ~(Return(w) /\ UNCHANGED version)
      <3>1. /\ Goto(w, "judge")
            /\ version[docWorker[w].doc].status \in Scannable /\ version'[docWorker[w].doc].status = "scanning"
            /\ \A u \in Upload : /\ version'[u].digest = version[u].digest
                                 /\ u # docWorker[w].doc => version'[u] = version[u]
        BY <1>0, <1>1, <2>1, <2>3, LoadForScanMoves
      <3> QED
        BY <1>0, <2>1, <3>1, GotoTypes DEF Place, Scannable
    <2> QED
      BY <2>2, <2>3
  <1>2. CASE RefuseUnscanned(w)
    BY <1>0, <1>2, GotoTypes DEF RefuseUnscanned, Place
  <1>3. CASE PassScan(w)
    <2>1. docWorker[w].doc \in Upload /\ UNCHANGED shelf
      BY <1>0, <1>3 DEF PassScan, FilesAreThere, Busy
    <2> QED
      BY <1>0, <1>3, <2>1, PassScanMoves
  <1>4. CASE RejectDocument(w)
    BY <1>0, <1>4, ReturnTypes DEF RejectDocument, Rejected, Place
  <1>5. ASSUME NEW inspection \in InspectionAnswer, ScanBytes(w, inspection) PROVE ReadyIsStored'
    <2>1. docWorker[w].doc \in Upload /\ UNCHANGED <<shelf, version>>
      BY <1>0, <1>5 DEF ScanBytes, FilesAreThere, Busy
    <2>2. \/ Throw(w) \/ Goto(w, "refused") \/ Goto(w, "passed")
      BY <1>0, <1>5, <2>1, ScanBytesMoves
    <2> QED
      BY <1>0, <2>1, <2>2, ThrowTypes, GotoTypes DEF Place
  <1>6. CASE LoadForCanonicalize(w)
    BY <1>0, <1>6, ReturnTypes, GotoTypes DEF LoadForCanonicalize, Place
  <1>7. CASE StoreCanonical(w)
    <2>1. docWorker[w].doc \in Upload /\ UNCHANGED version /\ docWorker[w].at = "store"
      BY <1>0, <1>7 DEF StoreCanonical, FilesAreThere, Busy
    <2>2. CASE Throw(w) /\ UNCHANGED shelf
      BY <1>0, <2>1, <2>2, ThrowTypes
    <2>3. CASE ~(Throw(w) /\ UNCHANGED shelf)
      <3>1. /\ Goto(w, "finish") /\ Accepts(shelf[docWorker[w].doc].canonical, docWorker[w].made)
            /\ shelf'[docWorker[w].doc].canonical = docWorker[w].made
            /\ \A u \in Upload : u # docWorker[w].doc => shelf'[u] = shelf[u]
        BY <1>0, <1>7, <2>1, <2>3, StoreCanonicalMoves
      <3>2. \A x \in DocWorker : x # w /\ Finishing(x) => shelf'[docWorker[x].doc].canonical = docWorker[x].made
        BY <1>0, <2>1, <3>1 DEF FilesAreThere, Busy
      <3>3. \A u \in Upload : Prepared(u) => shelf'[u].canonical = version[u].digest
        BY <1>0, <3>1
      <3> QED
        BY <1>0, <2>1, <3>1, <3>2, <3>3, GotoTypes DEF Place
    <2> QED
      BY <2>2, <2>3
  <1>8. CASE FinishOffice(w)
    BY <1>0, <1>8, ReturnTypes DEF FinishOffice, MakeReady, Place
  <1>9. ASSUME NEW n \in 1..MaxRenditions, NEW gotenberg \in GotenbergAnswer, NEW inspection \in InspectionAnswer,
               Convert(w, n, gotenberg, inspection) PROVE ReadyIsStored'
    <2>1. docWorker[w].doc \in Upload /\ UNCHANGED version /\ n # 0
      BY <1>0, <1>9 DEF Convert, FilesAreThere, Busy
    <2>2. /\ docWorker'[w].at \in {"idle", "refused", "report"}
          /\ docWorker'[w].at = "report" => docWorker'[w].made = n
          /\ \A x \in DocWorker : x # w => docWorker'[x] = docWorker[x]
          /\ \A u \in Upload : shelf'[u].canonical = shelf[u].canonical
      BY <1>0, <1>9, ConvertMoves
    <2> QED
      BY <1>0, <2>1, <2>2 DEF FilesAreThere, Busy
  <1>10. ASSUME NEW verdicts \in ValidatePdfA, StoreReport(w, verdicts) PROVE ReadyIsStored'
    <2>1. docWorker[w].doc \in Upload /\ UNCHANGED version /\ docWorker[w].at = "report"
      BY <1>0, <1>10 DEF StoreReport, FilesAreThere, Busy
    <2>2. /\ Throw(w) \/ Goto(w, "store") \/ Goto(w, "refused")
          /\ \A u \in Upload : shelf'[u].canonical = shelf[u].canonical
      BY <1>0, <1>10, StoreReportMoves
    <2> QED
      BY <1>0, <2>1, <2>2, ThrowTypes, GotoTypes DEF Place, FilesAreThere, Busy
  <1>11. CASE TakeHead(w)
    BY <1>0, <1>11, GotoTypes DEF TakeHead, Place
  <1>12. CASE CheckCase(w)
    BY <1>0, <1>12 DEF CheckCase
  <1>13. CASE FinishPdf(w)
    BY <1>0, <1>13, ReturnTypes DEF FinishPdf, MakeReady, Place
  <1>14. ASSUME NEW u \in Upload, NEW kind \in {"scan", "canonicalize"}, TakeDocJob(w, u, kind) PROVE ReadyIsStored'
    BY <1>0, <1>14 DEF TakeDocJob, Idle
  <1>15. CASE LoseHandler(w)
    BY <1>0, <1>15, ThrowTypes DEF LoseHandler, Place
  <1> QED
    BY <1>1, <1>2, <1>3, <1>4, <1>5, <1>6, <1>7, <1>8, <1>9, <1>10, <1>11, <1>12, <1>13, <1>14, <1>15 DEF DocWorkerStep, ScanStep, CanonicalizeStep

LEMMA HandlerScans == ASSUME DraftInv, NEW w \in DocWorker, DocWorkerStep(w) PROVE CleanIsScanned'
  <1> USE DEF CleanIsScanned, Prepared, Busy, uploadVars, peopleVars
  <1>0. DraftTypeOK /\ docWorker \in [DocWorker -> WorkType] /\ version \in [Upload -> VersionType]
        /\ djob \in [Upload -> JobsType] /\ CleanIsScanned /\ FilesAreThere /\ ReadyIsStored
        /\ scanned \in [Upload -> {"none", "PASS", "FAIL"}]
    BY WorkTypes DEF DraftInv, DraftTypeOK
  <1>1. CASE LoadForScan(w)
    BY <1>0, <1>1, ReturnTypes, GotoTypes, LoadForScanMoves DEF LoadForScan, Place
  <1>2. CASE RefuseUnscanned(w)
    BY <1>0, <1>2, GotoTypes DEF RefuseUnscanned, Place
  <1>3. CASE PassScan(w)
    <2>1. docWorker[w].doc \in Upload /\ UNCHANGED scanned /\ docWorker[w].at = "passed"
      BY <1>0, <1>3 DEF PassScan, FilesAreThere, Busy
    <2> QED
      BY <1>0, <1>3, <2>1, PassScanMoves
  <1>4. CASE RejectDocument(w)
    BY <1>0, <1>4, ReturnTypes DEF RejectDocument, Rejected, Place
  <1>5. ASSUME NEW inspection \in InspectionAnswer, ScanBytes(w, inspection) PROVE CleanIsScanned'
    <2> DEFINE u == docWorker[w].doc
    <2>1. /\ u \in Upload /\ bytes[u] \in Content /\ UNCHANGED version /\ docWorker[w].at = "judge"
          /\ ~RefusedUnscanned(StillOffice(u), named[u], bytes[u])
      BY <1>0, <1>5 DEF ScanBytes, FilesAreThere, Busy
    <2>2. /\ scanned'[u] = KeptReport(u)
          /\ \A x \in Upload : x # u => scanned'[x] = scanned[x]
          /\ \/ Throw(w)
             \/ Goto(w, "refused")
             \/ Goto(w, "passed") /\ ScanMalware(bytes[u]) = "PASS" /\ ~ReportRefused(u)
      BY <1>0, <1>5, <2>1, ScanBytesMoves
    <2>3. u \notin Office => bytes[u] = Declared[u]
      BY <1>0, <2>1 DEF RefusedUnscanned, StillOffice, StoredBytesMatchGrant, FilesAreThere
    <2>4. Prepared(u) \/ version[u].status = "canonicalizing" => scanned'[u] = "PASS"
      BY <1>0, <2>1, <2>2 DEF KeptReport
    <2>5. scanned'[u] # "none" /\ u \notin Office => scanned'[u] = ScanMalware(Declared[u])
      BY <1>0, <2>1, <2>2, <2>3 DEF KeptReport
    <2>6. Goto(w, "passed") => scanned'[u] = "PASS"
      <3>1. CASE scanned[u] = "none"
        BY <1>0, <2>1, <2>2, <3>1, GotoTypes, ThrowTypes DEF KeptReport, Place
      <3>2. CASE scanned[u] # "none" /\ StillOffice(u)
        <4>1. ReportRefused(u)
          BY <3>2 DEF ReportRefused
        <4> QED
          BY <1>0, <2>1, <2>2, <4>1, GotoTypes, ThrowTypes DEF Place
      <3>3. CASE scanned[u] # "none" /\ ~StillOffice(u)
        <4>1. CASE u \notin Office
          <5>1. Goto(w, "passed") => ScanMalware(bytes[u]) = "PASS"
            BY <1>0, <2>1, <2>2, GotoTypes, ThrowTypes DEF Place
          <5> QED
            BY <2>1, <2>2, <2>3, <2>5, <3>3, <4>1, <5>1 DEF KeptReport
        <4>2. CASE u \in Office
          <5>1. Prepared(u)
            BY <1>0, <2>1, <3>3, <4>2 DEF StillOffice, ReadyIsStored
          <5> QED
            BY <2>4, <5>1
        <4> QED
          BY <4>1, <4>2
      <3> QED
        BY <3>1, <3>2, <3>3
    <2> QED
      <3>1. \A x \in DocWorker : x # w /\ docWorker[x].at = "passed" => scanned'[docWorker[x].doc] = "PASS"
        BY <1>0, <2>1, <2>2 DEF KeptReport, FilesAreThere, Busy
      <3>2. \A x \in DocWorker : docWorker'[x].at = "passed" => scanned'[docWorker'[x].doc] = "PASS"
        BY <1>0, <2>1, <2>2, <2>6, <3>1, ThrowTypes, GotoTypes DEF Place
      <3> QED
        BY <1>0, <2>1, <2>2, <2>4, <2>5, <3>2
  <1>6. CASE LoadForCanonicalize(w)
    BY <1>0, <1>6, ReturnTypes, GotoTypes DEF LoadForCanonicalize, Place
  <1>7. CASE StoreCanonical(w)
    BY <1>0, <1>7, ThrowTypes, GotoTypes, StoreCanonicalMoves DEF StoreCanonical, Place
  <1>8. CASE FinishOffice(w)
    BY <1>0, <1>8, ReturnTypes DEF FinishOffice, MakeReady, Place
  <1>9. ASSUME NEW n \in 1..MaxRenditions, NEW gotenberg \in GotenbergAnswer, NEW inspection \in InspectionAnswer,
               Convert(w, n, gotenberg, inspection) PROVE CleanIsScanned'
    <2>1. UNCHANGED <<version, scanned>>
      BY <1>9 DEF Convert
    <2>2. /\ docWorker'[w].at \in {"idle", "refused", "report"}
          /\ \A x \in DocWorker : x # w => docWorker'[x] = docWorker[x]
      BY <1>0, <1>9, ConvertMoves
    <2> QED
      BY <1>0, <2>1, <2>2
  <1>10. ASSUME NEW verdicts \in ValidatePdfA, StoreReport(w, verdicts) PROVE CleanIsScanned'
    BY <1>0, <1>10, ThrowTypes, GotoTypes, StoreReportMoves DEF StoreReport, Place
  <1>11. CASE TakeHead(w)
    BY <1>0, <1>11, GotoTypes DEF TakeHead, Place
  <1>12. CASE CheckCase(w)
    BY <1>0, <1>12 DEF CheckCase
  <1>13. CASE FinishPdf(w)
    BY <1>0, <1>13, ReturnTypes DEF FinishPdf, MakeReady, Place
  <1>14. ASSUME NEW u \in Upload, NEW kind \in {"scan", "canonicalize"}, TakeDocJob(w, u, kind) PROVE CleanIsScanned'
    BY <1>0, <1>14 DEF TakeDocJob, Idle
  <1>15. CASE LoseHandler(w)
    BY <1>0, <1>15, ThrowTypes DEF LoseHandler, Place
  <1> QED
    BY <1>1, <1>2, <1>3, <1>4, <1>5, <1>6, <1>7, <1>8, <1>9, <1>10, <1>11, <1>12, <1>13, <1>14, <1>15 DEF DocWorkerStep, ScanStep, CanonicalizeStep

(* What happens to the rows: a version that is ready or locked stays what it is,
   and one becomes ready at the end of the work on it, by who has the head or
   while nobody has it.                                                         *)
RowMoves(w) ==
  /\ \A u \in Upload :
       /\ version'[u].status = "none" <=> version[u].status = "none"
       /\ Prepared(u) => version'[u] = version[u]
       /\ version'[u].status = "canonicalizing" /\ version[u].status # "canonicalizing" => head = DNone
       /\ version'[u].status = "ready" /\ version[u].status # "ready" =>
            u = docWorker[w].doc /\ version[u].status = "canonicalizing" /\ lastReady' = u
              /\ \/ docWorker[w].at = "finish" /\ u \in Office /\ head = DNone
                 \/ /\ docWorker[w].at = "commit"
                    /\ docWorker[w].readies /\ caseStatus = "preparing" => caseStatus' = "ready"
       /\ version'[u].status = "locked" => version[u].status = "locked"
  /\ lastReady' # lastReady => docWorker[w].doc \in Documents /\ version[docWorker[w].doc].status = "canonicalizing"
  /\ \/ UNCHANGED caseStatus
     \/ docWorker[w].at = "commit" /\ docWorker[w].readies /\ caseStatus = "preparing" /\ caseStatus' = "ready"

LEMMA MakeReadyMoves ==
  ASSUME DraftTypeOK, NEW w \in DocWorker, MakeReady(w), docWorker[w].doc \in Upload
  PROVE  /\ \A u \in Upload :
              \/ version'[u] = version[u]
              \/ /\ u = docWorker[w].doc /\ version[u].status = "canonicalizing" /\ lastReady' = u
                 /\ version'[u] = [status |-> "ready", digest |-> docWorker[w].made]
         /\ lastReady' # lastReady =>
              docWorker[w].doc \in Documents /\ version[docWorker[w].doc].status = "canonicalizing"
  BY WorkTypes DEF MakeReady, VersionType, Documents

LEMMA RejectDocumentMoves ==
  ASSUME DraftTypeOK, NEW w \in DocWorker, RejectDocument(w), docWorker[w].doc \in Upload
  PROVE  \A u \in Upload :
           \/ version'[u] = version[u]
           \/ u = docWorker[w].doc /\ ~Prepared(u) /\ version'[u].status = "rejected"
  <1>1. version \in [Upload -> VersionType]
    BY WorkTypes
  <1>2. CASE Prepared(docWorker[w].doc)
    <2>1. version' = [version EXCEPT ![docWorker[w].doc].status = version[docWorker[w].doc].status]
      BY <1>2 DEF RejectDocument, Rejected, Prepared
    <2> QED
      BY <1>1, <2>1 DEF VersionType
  <1>3. CASE ~Prepared(docWorker[w].doc)
    <2>1. version' = [version EXCEPT ![docWorker[w].doc].status = "rejected"]
      BY <1>3 DEF RejectDocument, Rejected, Prepared
    <2> QED
      BY <1>1, <1>3, <2>1 DEF VersionType
  <1> QED
    BY <1>2, <1>3

LEMMA HandlerRows == ASSUME DraftInv, NEW w \in DocWorker, DocWorkerStep(w) PROVE RowMoves(w)
  <1>0. /\ DraftTypeOK
        /\ Busy(w) => docWorker[w].doc \in Upload /\ version[docWorker[w].doc].status # "none"
    BY DEF DraftInv, FilesAreThere, JobsHaveDocuments
  <1>1. CASE UNCHANGED <<version, lastReady, caseStatus>>
    BY <1>1 DEF RowMoves
  <1>2. CASE LoadForScan(w)
    <2>1. UNCHANGED <<lastReady, caseStatus>> /\ docWorker[w].doc \in Upload
      BY <1>0, <1>2 DEF LoadForScan, Busy
    <2>2. CASE UNCHANGED version
      BY <2>1, <2>2 DEF RowMoves
    <2>3. CASE /\ version[docWorker[w].doc].status \in Scannable /\ version'[docWorker[w].doc].status = "scanning"
               /\ \A u \in Upload : u # docWorker[w].doc => version'[u] = version[u]
      BY <2>1, <2>3 DEF RowMoves, Scannable, Prepared
    <2> QED
      BY <1>0, <1>2, <2>1, <2>2, <2>3, LoadForScanMoves
  <1>3. CASE PassScan(w)
    <2>1. UNCHANGED <<lastReady, caseStatus>> /\ docWorker[w].doc \in Upload /\ head = DNone
      BY <1>0, <1>3 DEF PassScan, Busy
    <2>2. \A u \in Upload : \/ version'[u] = version[u]
                            \/ version[u].status = "scanning" /\ version'[u].status = "canonicalizing"
      <3>1. version \in [Upload -> VersionType] /\ version' \in [Upload -> VersionType]
        BY <1>0, <1>3, WorkTypes, WorkerTypes DEF DraftTypeOK, VersionType, DocWorkerStep, ScanStep
      <3>2. \A u \in Upload : /\ version'[u].digest = version[u].digest
                              /\ version'[u].status = version[u].status
                                   \/ (version[u].status = "scanning" /\ version'[u].status = "canonicalizing")
        BY <1>0, <1>3, <2>1, PassScanMoves
      <3> QED
        BY <3>1, <3>2 DEF VersionType
    <2> QED
      BY <2>1, <2>2 DEF RowMoves, Prepared
  <1>4. CASE RejectDocument(w)
    <2>1. UNCHANGED <<lastReady, caseStatus>> /\ docWorker[w].doc \in Upload /\ version[docWorker[w].doc].status # "none"
      BY <1>0, <1>4 DEF RejectDocument, Busy
    <2> QED
      BY <1>0, <1>4, <2>1, RejectDocumentMoves DEF RowMoves, Prepared
  <1>5. CASE FinishOffice(w)
    <2>1. /\ UNCHANGED caseStatus /\ docWorker[w].doc \in Upload /\ MakeReady(w)
          /\ docWorker[w].at = "finish" /\ docWorker[w].doc \in Office /\ head = DNone
      BY <1>0, <1>5 DEF FinishOffice, Busy
    <2>3. /\ \A u \in Upload :
               \/ version'[u] = version[u]
               \/ /\ u = docWorker[w].doc /\ version[u].status = "canonicalizing" /\ lastReady' = u
                  /\ version'[u] = [status |-> "ready", digest |-> docWorker[w].made]
          /\ lastReady' # lastReady =>
               docWorker[w].doc \in Documents /\ version[docWorker[w].doc].status = "canonicalizing"
      BY <1>0, <2>1, MakeReadyMoves
    <2> QED
      BY <2>1, <2>3 DEF RowMoves, Prepared
  <1>6. CASE FinishPdf(w)
    <2>1. docWorker[w].doc \in Upload /\ MakeReady(w) /\ docWorker[w].at = "commit"
      BY <1>0, <1>6 DEF FinishPdf, Busy
    <2>2. \/ UNCHANGED caseStatus
          \/ docWorker[w].readies /\ caseStatus = "preparing" /\ caseStatus' = "ready"
      BY <1>6 DEF FinishPdf
    <2>4. docWorker[w].readies /\ caseStatus = "preparing" => caseStatus' = "ready"
      BY <1>6 DEF FinishPdf
    <2>3. /\ \A u \in Upload :
               \/ version'[u] = version[u]
               \/ /\ u = docWorker[w].doc /\ version[u].status = "canonicalizing" /\ lastReady' = u
                  /\ version'[u] = [status |-> "ready", digest |-> docWorker[w].made]
          /\ lastReady' # lastReady =>
               docWorker[w].doc \in Documents /\ version[docWorker[w].doc].status = "canonicalizing"
      BY <1>0, <2>1, MakeReadyMoves
    <2> QED
      BY <2>1, <2>2, <2>3, <2>4 DEF RowMoves, Prepared
  <1> QED
    BY <1>1, <1>2, <1>3, <1>4, <1>5, <1>6
    DEF DocWorkerStep, ScanStep, CanonicalizeStep, TakeDocJob, LoseHandler, RefuseUnscanned, ScanBytes,
        LoadForCanonicalize, Convert, StoreReport, StoreCanonical, TakeHead, CheckCase

(* What happens to the handlers: who takes a step keeps his document, or takes
   the job of one; the head is taken for the check and kept until the commit.   *)
OwnMoves(w) ==
  /\ \A x \in DocWorker : x # w => docWorker'[x] = docWorker[x]
  /\ docWorker'[w].at # "idle" =>
       IF Busy(w) THEN docWorker'[w].doc = docWorker[w].doc
       ELSE docWorker'[w].at = "load" /\ docWorker'[w].doc \in Upload
            /\ (djob[docWorker'[w].doc].scan = "open" \/ djob[docWorker'[w].doc].canonicalize = "open")
  /\ \A u \in Upload :
       djob'[u].scan = "open" \/ djob'[u].canonicalize = "open" =>
         djob[u].scan = "open" \/ djob[u].canonicalize = "open" \/ (Busy(w) /\ u = docWorker[w].doc)
  /\ docWorker'[w].at = "check" => head' = w /\ head = DNone
  /\ docWorker'[w].at = "commit" => CheckCase(w)
  /\ docWorker'[w].at \notin {"check", "commit"} =>
       UNCHANGED head \/ (head = w /\ head' = DNone)

LEMMA HandlerOwns == ASSUME DraftInv, NEW w \in DocWorker, DocWorkerStep(w) PROVE OwnMoves(w)
  <1>0. DraftTypeOK /\ (Busy(w) => docWorker[w].doc \in Upload) /\ docWorker \in [DocWorker -> WorkType]
    BY WorkTypes DEF DraftInv, FilesAreThere
  <1>1. CASE LoadForScan(w)
    <2>1. UNCHANGED head /\ Busy(w) /\ docWorker[w].at # "idle"
      BY <1>1 DEF LoadForScan, Busy
    <2>2. Return(w) \/ Goto(w, "judge")
      BY <1>1 DEF LoadForScan
    <2> QED
      BY <1>0, <2>1, <2>2, ReturnTypes, GotoTypes DEF OwnMoves, Place, Busy
  <1>2. CASE RefuseUnscanned(w)
    <2>1. UNCHANGED head /\ Busy(w) /\ docWorker[w].at # "idle"
      BY <1>2 DEF RefuseUnscanned, Busy
    <2>2. Goto(w, "refused")
      BY <1>2 DEF RefuseUnscanned
    <2> QED
      BY <1>0, <2>1, <2>2, GotoTypes DEF OwnMoves, Place, Busy
  <1>3. CASE PassScan(w)
    <2>1. UNCHANGED head /\ Busy(w)
      BY <1>3 DEF PassScan, Busy
    <2>2. /\ docWorker'[w].at = "idle"
          /\ \A x \in DocWorker : x # w => docWorker'[x] = docWorker[x]
          /\ \A u \in Upload : u # docWorker[w].doc => djob'[u] = djob[u]
      BY <1>0, <1>3, <2>1, PassScanMoves
    <2> QED
      BY <2>1, <2>2 DEF OwnMoves
  <1>4. CASE RejectDocument(w)
    <2>1. UNCHANGED head /\ Busy(w) /\ docWorker[w].at # "idle"
      BY <1>4 DEF RejectDocument, Busy
    <2>2. Return(w)
      BY <1>4 DEF RejectDocument
    <2> QED
      BY <1>0, <2>1, <2>2, ReturnTypes DEF OwnMoves, Place, Busy
  <1>5. ASSUME NEW inspection \in InspectionAnswer, ScanBytes(w, inspection) PROVE OwnMoves(w)
    <2>1. UNCHANGED head /\ Busy(w) /\ docWorker[w].at # "idle"
      BY <1>5 DEF ScanBytes, Busy
    <2>2. Throw(w) \/ Goto(w, "refused") \/ Goto(w, "passed")
      BY <1>0, <1>5, <2>1, ScanBytesMoves
    <2> QED
      BY <1>0, <2>1, <2>2, ThrowTypes, GotoTypes DEF OwnMoves, Place, Busy
  <1>6. CASE LoadForCanonicalize(w)
    <2>1. UNCHANGED head /\ Busy(w) /\ docWorker[w].at # "idle"
      BY <1>6 DEF LoadForCanonicalize, Busy
    <2>2. Return(w) \/ Goto(w, "convert")
      BY <1>6 DEF LoadForCanonicalize
    <2> QED
      BY <1>0, <2>1, <2>2, ReturnTypes, GotoTypes DEF OwnMoves, Place, Busy
  <1>7. CASE StoreCanonical(w)
    <2>1. UNCHANGED head /\ Busy(w) /\ docWorker[w].at # "idle"
      BY <1>7 DEF StoreCanonical, Busy
    <2>2. Throw(w) \/ Goto(w, "finish")
      BY <1>7 DEF StoreCanonical
    <2> QED
      BY <1>0, <2>1, <2>2, ThrowTypes, GotoTypes DEF OwnMoves, Place, Busy
  <1>8. CASE FinishOffice(w)
    <2>1. UNCHANGED head /\ Busy(w) /\ docWorker[w].at # "idle"
      BY <1>8 DEF FinishOffice, Busy
    <2>2. Return(w)
      BY <1>8 DEF FinishOffice
    <2> QED
      BY <1>0, <2>1, <2>2, ReturnTypes DEF OwnMoves, Place, Busy
  <1>9. ASSUME NEW n \in 1..MaxRenditions, NEW gotenberg \in GotenbergAnswer, NEW inspection \in InspectionAnswer,
               Convert(w, n, gotenberg, inspection) PROVE OwnMoves(w)
    <2>1. UNCHANGED head /\ Busy(w)
      BY <1>9 DEF Convert, Busy
    <2>2. /\ docWorker'[w].at \in {"idle", "refused", "report"} /\ UNCHANGED djob
          /\ docWorker'[w].at # "idle" => docWorker'[w].doc = docWorker[w].doc
          /\ \A x \in DocWorker : x # w => docWorker'[x] = docWorker[x]
      BY <1>0, <1>9, ConvertMoves
    <2> QED
      BY <2>1, <2>2 DEF OwnMoves
  <1>10. ASSUME NEW verdicts \in ValidatePdfA, StoreReport(w, verdicts) PROVE OwnMoves(w)
    <2>1. UNCHANGED head /\ Busy(w) /\ docWorker[w].at # "idle"
      BY <1>10 DEF StoreReport, Busy
    <2>2. Throw(w) \/ Goto(w, "store") \/ Goto(w, "refused")
      BY <1>0, <1>10, StoreReportMoves
    <2> QED
      BY <1>0, <2>1, <2>2, ThrowTypes, GotoTypes DEF OwnMoves, Place, Busy
  <1>11. CASE TakeHead(w)
    <2>1. head = DNone /\ head' = w /\ Busy(w) /\ docWorker[w].at # "idle"
      BY <1>11 DEF TakeHead, Busy
    <2>2. Goto(w, "check")
      BY <1>11 DEF TakeHead
    <2> QED
      BY <1>0, <2>1, <2>2, GotoTypes DEF OwnMoves, Place, Busy
  <1>12. CASE CheckCase(w)
    <2>1. UNCHANGED <<head, djob>> /\ Busy(w)
      BY <1>12 DEF CheckCase, Busy
    <2>2. /\ docWorker'[w].at = "commit" /\ docWorker'[w].doc = docWorker[w].doc
          /\ \A x \in DocWorker : x # w => docWorker'[x] = docWorker[x]
      BY <1>0, <1>12 DEF CheckCase, WorkType
    <2> QED
      BY <1>12, <2>1, <2>2 DEF OwnMoves
  <1>13. CASE FinishPdf(w)
    <2>1. (head' = IF head = w THEN DNone ELSE head) /\ Busy(w) /\ docWorker[w].at # "idle"
      BY <1>13 DEF FinishPdf, Busy
    <2>2. Return(w)
      BY <1>13 DEF FinishPdf
    <2> QED
      BY <1>0, <2>1, <2>2, ReturnTypes DEF OwnMoves, Place, Busy
  <1>14. ASSUME NEW u \in Upload, NEW kind \in {"scan", "canonicalize"}, TakeDocJob(w, u, kind) PROVE OwnMoves(w)
    <2>1. UNCHANGED <<head, djob>> /\ ~Busy(w) /\ (djob[u].scan = "open" \/ djob[u].canonicalize = "open")
      BY <1>14 DEF TakeDocJob, Busy
    <2>2. /\ docWorker'[w].at = "load" /\ docWorker'[w].doc = u
          /\ \A x \in DocWorker : x # w => docWorker'[x] = docWorker[x]
      BY <1>0, <1>14 DEF TakeDocJob, WorkType, Idle
    <2> QED
      BY <2>1, <2>2 DEF OwnMoves
  <1>15. CASE LoseHandler(w)
    <2>1. (head' = IF head = w THEN DNone ELSE head) /\ docWorker[w].at # "idle"
      BY <1>15 DEF LoseHandler, Busy
    <2>2. Throw(w)
      BY <1>15 DEF LoseHandler
    <2> QED
      BY <1>0, <2>1, <2>2, ThrowTypes DEF OwnMoves, Place, Busy
  <1> QED
    BY <1>1, <1>2, <1>3, <1>4, <1>5, <1>6, <1>7, <1>8, <1>9, <1>10, <1>11, <1>12, <1>13, <1>14, <1>15 DEF DocWorkerStep, ScanStep, CanonicalizeStep

LEMMA HandlerJobs == ASSUME DraftInv, NEW w \in DocWorker, DocWorkerStep(w) PROVE JobsHaveDocuments'
  <1>1. OwnMoves(w) /\ RowMoves(w) /\ JobsHaveDocuments /\ FilesAreThere
    BY HandlerOwns, HandlerRows DEF DraftInv
  <1>2. UNCHANGED grant
    BY DEF DocWorkerStep, ScanStep, CanonicalizeStep, TakeDocJob, LoseHandler, RefuseUnscanned, ScanBytes,
           LoadForCanonicalize, Convert, StoreReport, StoreCanonical, TakeHead, CheckCase, LoadForScan, PassScan,
           RejectDocument, FinishOffice, FinishPdf, uploadVars
  <1> QED
    BY <1>1, <1>2 DEF OwnMoves, RowMoves, JobsHaveDocuments, FilesAreThere, Busy

(* A case that is being sent, or was, is what its handlers leave alone. *)
LEMMA HandlerLeavesSent ==
  ASSUME DraftInv, NEW w \in DocWorker, DocWorkerStep(w)
  PROVE  SendingKnows' /\ SentIsWhole'
  <1>1. UNCHANGED <<sending, signer, intent>>
    BY DEF DocWorkerStep, ScanStep, CanonicalizeStep, TakeDocJob, LoseHandler, RefuseUnscanned, ScanBytes,
           LoadForCanonicalize, Convert, StoreReport, StoreCanonical, TakeHead, CheckCase, LoadForScan, PassScan,
           RejectDocument, FinishOffice, FinishPdf, peopleVars
  <1>2. RowMoves(w) /\ ReadyIsStored' /\ CleanIsScanned'
    BY HandlerRows, HandlerStores, HandlerScans
  <1>3. Documents' = Documents
    BY <1>2 DEF RowMoves, Documents
  <1>4. SendingKnows'
    BY <1>1, <1>2, <1>3 DEF DraftInv, SendingKnows, RowMoves
  <1>5. SentIsWhole'
    <2> SUFFICES ASSUME caseStatus' = "sent"
                 PROVE  /\ \A u \in Documents : /\ version'[u].status = "locked"
                                               /\ shelf'[u].canonical = version'[u].digest
                                               /\ scanned'[u] = "PASS"
                        /\ \A s \in DraftSigner : signer[s] # "none" => {x.doc : x \in intent[s]} = Documents
      BY <1>1, <1>3 DEF SentIsWhole
    <2>1. SentIsWhole /\ caseStatus = "sent"
      BY <1>2 DEF DraftInv, RowMoves
    <2>2. \A u \in Documents : u \in Upload /\ version'[u].status = "locked"
      BY <1>2, <2>1 DEF SentIsWhole, RowMoves, Prepared, Documents
    <2> QED
      BY <1>2, <2>1, <2>2 DEF SentIsWhole, ReadyIsStored, CleanIsScanned, Prepared
  <1> QED
    BY <1>4, <1>5

LEMMA HandlerKeepsApart ==
  ASSUME DraftInv, NEW w \in DocWorker, DocWorkerStep(w)
  PROVE  HeadKeepsApart' /\ LastDocumentReadies'
  <1>1. /\ OwnMoves(w) /\ RowMoves(w) /\ HeadKeepsApart /\ LastDocumentReadies /\ FilesAreThere
        /\ DNone \notin DocWorker /\ docWorker \in [DocWorker -> WorkType]
    BY HandlerOwns, HandlerRows, DraftAssumption, WorkTypes DEF DraftInv
  <1>2. Documents' = Documents
    BY <1>1 DEF RowMoves, Documents
  <1>3. \A x \in DocWorker : docWorker'[x].at \in {"check", "commit"} => head' = x
    <2>1. CASE docWorker'[w].at = "commit"
      BY <1>1, <2>1 DEF OwnMoves, HeadKeepsApart, CheckCase
    <2>2. CASE docWorker'[w].at # "commit"
      BY <1>1, <2>2 DEF OwnMoves, HeadKeepsApart
    <2> QED
      BY <2>1, <2>2
  <1>4. ASSUME NEW x \in DocWorker, docWorker'[x].at = "commit", ~docWorker'[x].readies
        PROVE  \/ version'[docWorker'[x].doc].status \notin {"canonicalizing", "ready"}
               \/ \E y \in Documents \ {docWorker'[x].doc} : version'[y].status # "ready"
    <2>1. CASE x = w
      <3>1. CheckCase(w) /\ Busy(w) /\ docWorker[w].doc \in Upload
        BY <1>1, <1>4, <2>1 DEF OwnMoves, CheckCase, Busy, FilesAreThere
      <3>2. /\ docWorker'[w].doc = docWorker[w].doc /\ UNCHANGED version
            /\ docWorker'[w].readies = (/\ version[docWorker[w].doc].status \in {"canonicalizing", "ready"}
                                        /\ \A y \in Documents \ {docWorker[w].doc} : version[y].status = "ready")
        BY <1>1, <3>1 DEF CheckCase, WorkType
      <3> QED
        BY <1>4, <2>1, <3>2
    <2>2. CASE x # w
      <3>1. docWorker[x].at = "commit" /\ ~docWorker[x].readies /\ docWorker'[x] = docWorker[x] /\ head = x
        BY <1>1, <1>4, <2>2 DEF OwnMoves, HeadKeepsApart
      <3>2. docWorker[x].doc \in Upload /\ docWorker[w].at # "commit"
        BY <1>1, <2>2, <3>1 DEF FilesAreThere, Busy, HeadKeepsApart
      <3>3. \A u \in Upload : /\ version'[u].status = "ready" => version[u].status = "ready"
                              /\ version'[u].status = "canonicalizing" => version[u].status = "canonicalizing"
        BY <1>1, <3>1, <3>2 DEF RowMoves
      <3> QED
        BY <1>1, <3>1, <3>2, <3>3 DEF HeadKeepsApart, Documents
    <2> QED
      BY <2>1, <2>2
  <1>5. HeadKeepsApart'
    BY <1>2, <1>3, <1>4 DEF HeadKeepsApart
  <1>6. LastDocumentReadies'
    <2> SUFFICES ASSUME caseStatus' = "preparing", \A u \in Documents : version'[u].status = "ready"
                 PROVE  lastReady' \in Office
      BY <1>2 DEF LastDocumentReadies
    <2>1. caseStatus = "preparing"
      BY <1>1 DEF RowMoves
    <2>2. CASE \A u \in Documents : version[u].status = "ready"
      BY <1>1, <2>1, <2>2 DEF RowMoves, LastDocumentReadies
    <2>3. ASSUME NEW u \in Documents, version[u].status # "ready" PROVE lastReady' \in Office
      <3>1. /\ u \in Upload /\ u = docWorker[w].doc /\ version[u].status = "canonicalizing" /\ lastReady' = u
            /\ \/ docWorker[w].at = "finish" /\ u \in Office
               \/ docWorker[w].at = "commit" /\ ~docWorker[w].readies
        BY <1>1, <2>1, <2>3 DEF RowMoves, Documents
      <3>2. CASE docWorker[w].at = "commit"
        <4>1. ~docWorker[w].readies
          BY <3>1, <3>2
        <4>2. PICK y \in Documents \ {u} : version[y].status # "ready"
          BY <1>1, <3>1, <3>2, <4>1 DEF HeadKeepsApart
        <4> QED
          BY <1>1, <3>1, <4>2 DEF RowMoves, Documents
      <3> QED
        BY <3>1, <3>2
    <2> QED
      BY <2>2, <2>3
  <1> QED
    BY <1>5, <1>6

(* The operator. *)
LEMMA SendCommitsMoves ==
  ASSUME DraftTypeOK, SendCommits
  PROVE  \A u \in Upload :
           \/ u \in Documents /\ version[u].status = "ready" /\ version'[u].status = "locked"
                /\ version'[u].digest = version[u].digest
           \/ version[u].status = "none" /\ version'[u] = version[u]
  BY WorkTypes DEF SendCommits, Documents, VersionType

LEMMA AddDocumentMoves ==
  ASSUME DraftTypeOK, NEW u \in Upload, AddDocument(u)
  PROVE  /\ version'[u].status = "quarantined" /\ version'[u].digest = version[u].digest
         /\ \A x \in Upload : x # u => version'[x] = version[x] /\ djob'[x] = djob[x]
  BY WorkTypes DEF AddDocument, VersionType, JobsType

LEMMA OperatorInv == DraftInv /\ OperatorStep => DraftInv'
  <1> SUFFICES ASSUME DraftInv, OperatorStep
               PROVE  /\ FilesAreThere' /\ JobsHaveDocuments' /\ ReadyIsStored' /\ CleanIsScanned'
                      /\ SendingKnows' /\ SentIsWhole' /\ HeadKeepsApart' /\ LastDocumentReadies'
    BY OperatorTypes DEF DraftInv
  <1> DEFINE Goal == /\ FilesAreThere' /\ JobsHaveDocuments' /\ ReadyIsStored' /\ CleanIsScanned'
                     /\ SendingKnows' /\ SentIsWhole' /\ HeadKeepsApart' /\ LastDocumentReadies'
  <1>0. /\ DraftTypeOK /\ FilesAreThere /\ JobsHaveDocuments /\ ReadyIsStored /\ CleanIsScanned
        /\ SendingKnows /\ SentIsWhole /\ HeadKeepsApart /\ LastDocumentReadies
        /\ version \in [Upload -> VersionType] /\ djob \in [Upload -> JobsType]
        /\ docWorker \in [DocWorker -> WorkType] /\ bytes \in [Upload -> Content \cup {DNone}]
        /\ grant \in [Upload -> {"none", "issued", "uploaded", "consumed"}]
        /\ DNone \notin Content /\ Content \subseteq Files
    BY WorkTypes, DraftAssumption DEF DraftInv, DraftTypeOK
  <1> USE DEF uploadVars, workVars, peopleVars
  <1>1. ASSUME NEW u \in Upload, NEW name \in NamesOf(u), CreateUpload(u, name) PROVE Goal
    <2>1. /\ UNCHANGED <<caseStatus, bytes, workVars, sending, peopleVars>>
          /\ \A x \in Upload : grant'[x] \in {"uploaded", "consumed"} => grant'[x] = grant[x]
          /\ \A x \in Upload : grant[x] = "consumed" => grant'[x] = grant[x]
      BY <1>0, <1>1 DEF CreateUpload
    <2> QED
      BY <1>0, <2>1
      DEF FilesAreThere, JobsHaveDocuments, ReadyIsStored, CleanIsScanned, SendingKnows, SentIsWhole,
          HeadKeepsApart, LastDocumentReadies, Documents, Prepared, Busy, Finishing
  <1>2. ASSUME NEW u \in Upload, NEW f \in Content, ClientPuts(u, f) PROVE Goal
    <2>1. /\ bytes' = [bytes EXCEPT ![u] = f] /\ (f.same => f = Declared[u])
          /\ UNCHANGED <<caseStatus, grant, version, shelf, scanned, djob, docWorker, head, lastReady, sending, signer, intent>>
      BY <1>2 DEF ClientPuts
    <2>2. FilesAreThere'
      BY <1>0, <2>1 DEF FilesAreThere, Busy
    <2> QED
      BY <1>0, <2>1, <2>2
      DEF JobsHaveDocuments, ReadyIsStored, CleanIsScanned, SendingKnows, SentIsWhole,
          HeadKeepsApart, LastDocumentReadies, Documents, Prepared, Busy, Finishing
  <1>3. ASSUME NEW u \in Upload, CompleteUpload(u) PROVE Goal
    <2>1. /\ UNCHANGED <<caseStatus, bytes, workVars, sending, peopleVars>> /\ bytes[u] # DNone /\ grant[u] = "issued"
          /\ \A x \in Upload : x # u => grant'[x] = grant[x]
      BY <1>0, <1>3 DEF CompleteUpload
    <2>2. FilesAreThere'
      BY <1>0, <2>1 DEF FilesAreThere, Busy
    <2> QED
      BY <1>0, <2>1, <2>2
      DEF JobsHaveDocuments, ReadyIsStored, CleanIsScanned, SendingKnows, SentIsWhole,
          HeadKeepsApart, LastDocumentReadies, Documents, Prepared, Busy, Finishing
  <1>4. ASSUME NEW u \in Upload, AddDocument(u) PROVE Goal
    <2>1. /\ Editable /\ grant[u] = "uploaded" /\ grant'[u] = "consumed" /\ caseStatus' \in {"preparing", "ready"}
          /\ \A x \in Upload : x # u => grant'[x] = grant[x]
          /\ UNCHANGED <<bytes, shelf, scanned, docWorker, head, lastReady, sending, signer, intent>>
      BY <1>0, <1>4 DEF AddDocument, Editable
    <2>2. /\ version'[u].status = "quarantined" /\ version'[u].digest = version[u].digest
          /\ \A x \in Upload : x # u => version'[x] = version[x] /\ djob'[x] = djob[x]
      BY <1>0, <1>4, AddDocumentMoves
    <2>3. bytes[u] \in Content
      BY <1>0, <2>1 DEF FilesAreThere
    <2>4. FilesAreThere' /\ JobsHaveDocuments'
      BY <1>0, <2>1, <2>2, <2>3 DEF FilesAreThere, JobsHaveDocuments, Busy
    <2>5. ReadyIsStored' /\ CleanIsScanned'
      <3>1. version[u].status = "none"
        BY <1>0, <2>1 DEF JobsHaveDocuments
      <3> QED
        BY <1>0, <2>1, <2>2, <3>1 DEF ReadyIsStored, CleanIsScanned, Prepared, Finishing
    <2>6. HeadKeepsApart'
      BY <1>0, <2>1, <2>2 DEF HeadKeepsApart, Documents
    <2> QED
      BY <2>1, <2>2, <2>4, <2>5, <2>6
      DEF SendingKnows, SentIsWhole, LastDocumentReadies, Documents, Editable
  <1>5. ASSUME NEW s \in DraftSigner, NEW required \in BOOLEAN,
               AddSigner(s, required) \/ UpdateSigner(s, required)
        PROVE  Goal
    <2>1. Editable /\ UNCHANGED <<caseStatus, grant, bytes, workVars, sending, intent>>
      BY <1>5 DEF AddSigner, UpdateSigner, InsertOrUpdateSigner
    <2> QED
      BY <1>0, <2>1
      DEF FilesAreThere, JobsHaveDocuments, ReadyIsStored, CleanIsScanned, SendingKnows, SentIsWhole,
          HeadKeepsApart, LastDocumentReadies, Documents, Prepared, Busy, Finishing, Editable
  <1>6. CASE SendReads
    <2>1. /\ caseStatus = "ready" /\ UNCHANGED <<caseStatus, uploadVars, workVars, peopleVars>>
          /\ sending'.read = {[doc |-> u, digest |-> version[u].digest] : u \in Documents}
      BY <1>6 DEF SendReads
    <2>2. {x.doc : x \in sending'.read} = Documents
      <3>1. \A x \in sending'.read : x.doc \in Documents
        BY <2>1
      <3>2. ASSUME NEW u \in Documents PROVE \E x \in sending'.read : x.doc = u
        <4>1. [doc |-> u, digest |-> version[u].digest] \in sending'.read
          BY <2>1
        <4> QED
          BY <4>1
      <3> QED
        BY <3>1, <3>2
    <2> QED
      BY <1>0, <2>1, <2>2
      DEF FilesAreThere, JobsHaveDocuments, ReadyIsStored, CleanIsScanned, SendingKnows, SentIsWhole,
          HeadKeepsApart, LastDocumentReadies, Documents, Prepared, Busy, Finishing
  <1>7. CASE SendRefused
    <2>1. ~sending'.on /\ UNCHANGED <<caseStatus, uploadVars, workVars, peopleVars>>
      BY <1>7 DEF SendRefused
    <2> QED
      BY <1>0, <2>1
      DEF FilesAreThere, JobsHaveDocuments, ReadyIsStored, CleanIsScanned, SendingKnows, SentIsWhole,
          HeadKeepsApart, LastDocumentReadies, Documents, Prepared, Busy, Finishing
  <1>8. CASE SendCommits
    <2>1. /\ sending.on /\ ~sending'.on /\ caseStatus' = "sent"
          /\ intent' = [s \in DraftSigner |-> IF signer[s] = "none" THEN {} ELSE sending.read]
          /\ UNCHANGED <<grant, bytes, shelf, scanned, djob, docWorker, head, lastReady, signer>>
      BY <1>8 DEF SendCommits
    <2>2. \A u \in Upload :
            \/ /\ version[u].status = "ready" /\ version'[u].status = "locked"
               /\ version'[u].digest = version[u].digest
            \/ version[u].status = "none" /\ version'[u] = version[u]
      BY <1>0, <1>8, SendCommitsMoves
    <2>3. Documents' = Documents
      BY <2>2 DEF Documents
    <2>4. ReadyIsStored' /\ CleanIsScanned'
      BY <1>0, <2>1, <2>2 DEF ReadyIsStored, CleanIsScanned, Prepared, Finishing
    <2>5. FilesAreThere' /\ JobsHaveDocuments'
      BY <1>0, <2>1, <2>2 DEF FilesAreThere, JobsHaveDocuments, Busy
    <2>6. SentIsWhole'
      <3>1. \A u \in Documents : u \in Upload /\ version'[u].status = "locked"
        BY <2>2 DEF Documents
      <3>2. \A s \in DraftSigner : signer'[s] # "none" => {x.doc : x \in intent'[s]} = Documents
        BY <1>0, <2>1 DEF SendingKnows
      <3> QED
        BY <2>3, <2>4, <3>1, <3>2 DEF SentIsWhole, ReadyIsStored, CleanIsScanned, Prepared
    <2>7. HeadKeepsApart'
      BY <1>0, <2>1, <2>2, <2>3 DEF HeadKeepsApart, JobsHaveDocuments, Busy, FilesAreThere
    <2> QED
      BY <2>1, <2>4, <2>5, <2>6, <2>7 DEF SendingKnows, LastDocumentReadies
  <1>9. CASE CancelDraft
    <2>1. caseStatus' = "cancelled" /\ ~sending.on /\ UNCHANGED <<uploadVars, workVars, sending, peopleVars>>
      BY <1>9 DEF CancelDraft, Editable
    <2> QED
      BY <1>0, <2>1
      DEF FilesAreThere, JobsHaveDocuments, ReadyIsStored, CleanIsScanned, SendingKnows, SentIsWhole,
          HeadKeepsApart, LastDocumentReadies, Documents, Prepared, Busy, Finishing
  <1> QED
    BY <1>1, <1>2, <1>3, <1>4, <1>5, <1>6, <1>7, <1>8, <1>9 DEF OperatorStep

LEMMA DraftInvNext == DraftInv /\ [DraftNext]_draftVars => DraftInv'
  <1>1. ASSUME DraftInv, NEW w \in DocWorker, DocWorkerStep(w) PROVE DraftInv'
    <2>1. DraftTypeOK'
      BY <1>1, WorkerTypes DEF DraftInv
    <2>2. FilesAreThere' /\ ReadyIsStored' /\ CleanIsScanned'
      BY <1>1, HandlerFiles, HandlerStores, HandlerScans
    <2>3. JobsHaveDocuments' /\ SendingKnows' /\ SentIsWhole'
      BY <1>1, HandlerJobs, HandlerLeavesSent
    <2>4. HeadKeepsApart' /\ LastDocumentReadies'
      BY <1>1, HandlerKeepsApart
    <2> QED
      BY <2>1, <2>2, <2>3, <2>4 DEF DraftInv
  <1>2. ASSUME DraftInv, UNCHANGED draftVars PROVE DraftInv'
    <2>1. DraftTypeOK'
      BY <1>2, DraftTypeNext DEF DraftInv
    <2> QED
      BY <1>2, <2>1
      DEF draftVars, uploadVars, workVars, peopleVars, DraftInv, FilesAreThere, JobsHaveDocuments, ReadyIsStored,
          CleanIsScanned, SendingKnows, SentIsWhole, HeadKeepsApart, LastDocumentReadies, Documents, Prepared,
          Busy, Finishing
  <1> QED
    BY <1>1, <1>2, OperatorInv DEF DraftNext

LEMMA DraftInvHolds == DraftSpec => []DraftInv
  BY DraftInvInit, DraftInvNext, PTL DEF DraftSpec

(* The rows of a case, its uploads and their jobs keep their types, and a
   document has one status of the enumeration (app.document_versions).        *)
THEOREM DraftTypeCorrect == DraftSpec => []DraftTypeOK
  <1>1. DraftInv => DraftTypeOK
    BY DEF DraftInv
  <1> QED
    BY <1>1, DraftInvHolds, PTL

(* A case that was sent is whole, with any number of documents, handlers and
   repeated jobs: every document is locked, the object under its key is the one
   its row names, its malware report says it is clean, and each signer's intent
   covers exactly the documents (send and its re-check, DOCUMENT_SCAN).        *)
THEOREM SentIsWholeHolds == DraftSpec => []SentIsWhole
  <1>1. DraftInv => SentIsWhole
    BY DEF DraftInv
  <1> QED
    BY <1>1, DraftInvHolds, PTL

(* However the transactions of the handlers overlap, a case all whose documents
   are ready is left in preparing only by an Office file: the audit chain head is
   taken before the look at the other versions (DOCUMENT_CANONICALIZE).          *)
THEOREM LastDocumentReadiesHolds == DraftSpec => []LastDocumentReadies
  <1>1. DraftInv => LastDocumentReadies
    BY DEF DraftInv
  <1> QED
    BY <1>1, DraftInvHolds, PTL

================================================================================
