------------------------------- MODULE Retention -------------------------------
(***************************************************************************)
(* Gallring: the irreversible deletion of completed cases.                 *)
(*                                                                         *)
(* An official queues a run over cases that the retention policy says are  *)
(* due, another official approves it, and a worker erases it: objects      *)
(* first, then rows, case by case, and finally the report.  Legal holds    *)
(* come and go meanwhile, objects resist deletion, workers are lost and    *)
(* lose their lease while they go on working.                              *)
(***************************************************************************)
EXTENDS Naturals, Sequences, SequencesExt

CONSTANTS
    GCase,          \* the signature cases
    Official,       \* the people who may queue and approve
    GallringRun,    \* the gallring_jobs rows
    GWorker,        \* the workers that run RETENTION_EXECUTE
    Erasable,       \* the cases whose rows the schema lets a worker delete
    GNone,          \* nobody, nothing
    MaxHolds,       \* bound: how often a hold is placed
    MaxGLosses      \* bound: how many workers or leases are lost

ASSUME ErasableAssumption == Erasable \subseteq GCase /\ GNone \notin Official
ASSUME HoldsAssumption == MaxHolds \in Nat

VARIABLES
    policyMode,     \* the mode of the tenant's active policy
    clock,          \* case -> "open", "closed" (completed_at set) or "due"
    held,           \* cases under an unreleased legal hold
    holds,          \* how many holds were ever placed
    spared,         \* intact cases held without a break since no run was erasing them
    objects,        \* cases whose payloads are in object storage
    rows,           \* cases whose document rows are in the database
    gallring,       \* run -> its row in gallring_jobs
    reportObject,   \* runs whose gallringsrapport.json is stored
    report,         \* run -> "none", "complete" or "partial"
    gjob,           \* run -> its durable job
    gworker,        \* worker -> what its handler is doing
    glosses         \* how many workers and leases were lost

retentionVars == <<policyMode, clock, held, holds, spared, objects, rows, gallring,
                   reportObject, report, gjob, gworker, glosses>>

RetentionMode == {"retain_forever", "retain_for_period", "archive_then_delete",
                  "delete_after_period", "legal_hold"}
Active == {"PLANNED", "APPROVED", "EXECUTING"}
GallringMaxAttempts == 3

Idle == [run |-> GNone, at |-> "idle", left |-> <<>>, resisted |-> FALSE]

RetentionInit ==
    /\ policyMode \in RetentionMode
    /\ clock = [c \in GCase |-> "open"]
    /\ held = {} /\ holds = 0 /\ spared = {}
    /\ objects = GCase
    /\ rows = GCase
    /\ gallring = [g \in GallringRun |-> [state |-> "none", cases |-> <<>>, by |-> GNone, approver |-> GNone,
                                       executed |-> FALSE]]
    /\ reportObject = {}
    /\ report = [g \in GallringRun |-> "none"]
    /\ gjob = [g \in GallringRun |-> [status |-> "none", attempts |-> 0, owner |-> GNone]]
    /\ gworker = [w \in GWorker |-> Idle]
    /\ glosses = 0

--------------------------------------------------------------------------------
(* The decision, and the transitions the trigger of 0024 lets through. *)

DecideRetention(c) ==
    IF c \in held \/ clock[c] # "due" \/ policyMode \in {"legal_hold", "retain_forever", "retain_for_period"}
    THEN "RETAIN"
    ELSE IF policyMode = "archive_then_delete" THEN "ARCHIVE_THEN_DELETE" ELSE "DELETE"

GallringMay(g, to) ==
    LET from == gallring[g].state IN
    \/ from = to
    \/ to = "ABANDONED" /\ from \in Active
    \/ from = "APPROVED" /\ to = "EXECUTING" /\ held \cap ToSet(gallring[g].cases) = {}
    \/ from = "EXECUTING" /\ to = "VERIFIED"

SetState(g, to) == gallring' = [gallring EXCEPT ![g].state = to]
Execute(g) == gallring' = [gallring EXCEPT ![g].state = "EXECUTING", ![g].executed = TRUE]

(* The cases some worker may be erasing. *)
UnderErasure == (UNION {ToSet(gallring[g].cases) :
                          g \in {h \in GallringRun : gallring[h].state = "EXECUTING"}})
                \cup (UNION {ToSet(gworker[w].left) : w \in GWorker})

--------------------------------------------------------------------------------
(* What happens around the runs. *)

CaseCloses(c) ==
    /\ clock[c] = "open"
    /\ clock' = [clock EXCEPT ![c] = "closed"]
    /\ UNCHANGED <<policyMode, held, holds, spared, objects, rows, gallring,
                   reportObject, report, gjob, gworker, glosses>>

PeriodElapses(c) ==
    /\ clock[c] = "closed"
    /\ clock' = [clock EXCEPT ![c] = "due"]
    /\ UNCHANGED <<policyMode, held, holds, spared, objects, rows, gallring,
                   reportObject, report, gjob, gworker, glosses>>

PlaceHold(c) ==
    /\ c \notin held /\ holds < MaxHolds
    /\ held' = held \cup {c}
    /\ holds' = holds + 1
    /\ spared' = IF c \in objects \cap rows /\ c \notin UnderErasure
                 THEN spared \cup {c} ELSE spared
    /\ UNCHANGED <<policyMode, clock, objects, rows, gallring, reportObject, report,
                   gjob, gworker, glosses>>

ReleaseHold(c) ==
    /\ c \in held
    /\ held' = held \ {c}
    /\ spared' = spared \ {c}
    /\ UNCHANGED <<policyMode, clock, holds, objects, rows, gallring, reportObject,
                   report, gjob, gworker, glosses>>

--------------------------------------------------------------------------------
(* The officials: queue, which decides anew for every case it is sent, and *)
(* approve, which enqueues the durable job in the same transaction.        *)

(* What the preview offers to queue. *)
Eligible == {c \in GCase : clock[c] # "open" /\ DecideRetention(c) # "RETAIN"}

QueueGallring(g, who, cases) ==
    /\ gallring[g].state = "none" /\ ToSet(cases) \subseteq Eligible
    /\ \A h \in GallringRun :
          gallring[h].state \in Active => gallring[h].cases[1] # cases[1]
    /\ gallring' = [gallring EXCEPT ![g] = [state |-> "PLANNED", cases |-> cases,
                                                   by |-> who, approver |-> GNone, executed |-> FALSE]]
    /\ UNCHANGED <<policyMode, clock, held, holds, spared, objects, rows, reportObject,
                   report, gjob, gworker, glosses>>

ApproveByRequester(g, who) ==
    /\ gallring[g].state = "PLANNED"
    /\ gallring' = [gallring EXCEPT ![g].state = "APPROVED", ![g].approver = who]
    /\ gjob' = [gjob EXCEPT ![g].status = "pending"]
    /\ UNCHANGED <<policyMode, clock, held, holds, spared, objects, rows, reportObject,
                   report, gworker, glosses>>

ApproveGallring(g, who) ==
    /\ gallring[g].state = "PLANNED"
    /\ who # gallring[g].by
    /\ gallring' = [gallring EXCEPT ![g].state = "APPROVED", ![g].approver = who]
    /\ gjob' = [gjob EXCEPT ![g].status = "pending"]
    /\ UNCHANGED <<policyMode, clock, held, holds, spared, objects, rows, reportObject,
                   report, gworker, glosses>>

--------------------------------------------------------------------------------
(* The worker. *)

(* How a handler's end reaches the job: only while the worker still owns it. *)
SettledJob(g, w, ending) ==
    LET j == gjob[g] IN
    IF j.status # "running" \/ j.owner # w THEN j
    ELSE [j EXCEPT !.owner = GNone,
                   !.status = CASE ending = "completed" -> "completed"
                                [] ending = "failed" /\ j.attempts < GallringMaxAttempts -> "pending"
                                [] OTHER -> "dead"]

EndHandler(w, ending) ==
    /\ gjob' = [gjob EXCEPT ![gworker[w].run] = SettledJob(gworker[w].run, w, ending)]
    /\ gworker' = [gworker EXCEPT ![w] = Idle]

ClaimGallring(w, g) ==
    /\ gworker[w] = Idle
    /\ gjob[g].status = "pending"
    /\ gjob' = [gjob EXCEPT ![g] = [status |-> "running", attempts |-> @.attempts + 1, owner |-> w]]
    /\ gworker' = [gworker EXCEPT ![w] = [Idle EXCEPT !.run = g, !.at = "load"]]
    /\ UNCHANGED <<policyMode, clock, held, holds, spared, objects, rows, gallring,
                   reportObject, report, glosses>>

LoadGallring(w) ==
    LET g == gworker[w].run  state == gallring[g].state IN
    /\ gworker[w].at = "load"
    /\ IF state = "APPROVED"
       THEN gworker' = [gworker EXCEPT ![w].at = "begin"] /\ UNCHANGED gjob
       ELSE EndHandler(w, IF state \in {"REPORTED", "ABANDONED"} THEN "completed" ELSE "refused")
    /\ UNCHANGED <<policyMode, clock, held, holds, spared, objects, rows, gallring,
                   reportObject, report, glosses>>

BeginWithoutRecheck(w) ==
    LET g == gworker[w].run IN
    /\ gworker[w].at = "begin"
    /\ Execute(g)
    /\ gworker' = [gworker EXCEPT ![w].at = "objects", ![w].left = gallring[g].cases]
    /\ UNCHANGED <<policyMode, clock, held, holds, spared, objects, rows, gjob,
                   reportObject, report, glosses>>

(* The update to EXECUTING.  The trigger re-checks the holds, but lets an  *)
(* update pass that leaves the state as it is.                             *)
BeginExecution(w) ==
    LET g == gworker[w].run IN
    /\ gworker[w].at = "begin"
    /\ \/ /\ GallringMay(g, "EXECUTING")
          /\ Execute(g)
          /\ gworker' = [gworker EXCEPT ![w].at = "objects", ![w].left = gallring[g].cases]
          /\ UNCHANGED gjob
       \/ /\ ~GallringMay(g, "EXECUTING")
          /\ IF gallring[g].state = "APPROVED"
             THEN gworker' = [gworker EXCEPT ![w].at = "abandon"] /\ UNCHANGED gjob
             ELSE EndHandler(w, "failed")
          /\ UNCHANGED gallring
    /\ UNCHANGED <<policyMode, clock, held, holds, spared, objects, rows,
                   reportObject, report, glosses>>

AbandonGallring(w) ==
    LET g == gworker[w].run IN
    /\ gworker[w].at = "abandon"
    /\ IF GallringMay(g, "ABANDONED")
       THEN SetState(g, "ABANDONED") /\ EndHandler(w, "refused")
       ELSE EndHandler(w, "failed") /\ UNCHANGED gallring
    /\ UNCHANGED <<policyMode, clock, held, holds, spared, objects, rows,
                   reportObject, report, glosses>>

(* The payloads of one case.  Their keys come from the rows; an object that *)
(* resists deletion is counted and passed over.                             *)
EraseObjects(w) ==
    LET c == Head(gworker[w].left) IN
    /\ gworker[w].at = "objects"
    /\ \/ /\ objects' = IF c \in rows THEN objects \ {c} ELSE objects
          /\ gworker' = [gworker EXCEPT ![w].at = "rows"]
       \/ /\ c \in rows \cap objects
          /\ gworker' = [gworker EXCEPT ![w].at = "rows", ![w].resisted = TRUE]
          /\ UNCHANGED objects
    /\ UNCHANGED <<policyMode, clock, held, holds, spared, rows, gallring, reportObject,
                   report, gjob, glosses>>

(* The rows of one case, in one transaction, which the schema refuses for  *)
(* locked versions and for messages whose payload may not be null.         *)
EraseRows(w) ==
    LET c == Head(gworker[w].left) IN
    /\ gworker[w].at = "rows"
    /\ IF c \in rows => c \in Erasable
       THEN /\ rows' = rows \ {c}
            /\ gworker' = [gworker EXCEPT ![w].left = Tail(@),
                             ![w].at = IF Len(gworker[w].left) = 1 THEN "store" ELSE "objects"]
            /\ UNCHANGED gjob
       ELSE EndHandler(w, "failed") /\ UNCHANGED rows
    /\ UNCHANGED <<policyMode, clock, held, holds, spared, objects, gallring,
                   reportObject, report, glosses>>

(* The report object is immutable and names the time of the run. *)
StoreReport(w) ==
    LET g == gworker[w].run IN
    /\ gworker[w].at = "store"
    /\ IF g \notin reportObject
       THEN /\ reportObject' = reportObject \cup {g}
            /\ gworker' = [gworker EXCEPT ![w].at = "commit"]
            /\ UNCHANGED gjob
       ELSE EndHandler(w, "failed") /\ UNCHANGED reportObject
    /\ UNCHANGED <<policyMode, clock, held, holds, spared, objects, rows, gallring,
                   report, glosses>>

ReportOf(w) == IF gworker[w].resisted THEN "partial" ELSE "complete"

CommitReport(w) ==
    LET g == gworker[w].run IN
    /\ gworker[w].at = "commit"
    /\ IF GallringMay(g, "VERIFIED")
       THEN /\ SetState(g, "REPORTED")
            /\ report' = [report EXCEPT ![g] = IF @ = "none" THEN ReportOf(w) ELSE @]
            /\ EndHandler(w, "completed")
       ELSE EndHandler(w, "failed") /\ UNCHANGED <<gallring, report>>
    /\ UNCHANGED <<policyMode, clock, held, holds, spared, objects, rows,
                   reportObject, glosses>>

(* A worker is lost with all it had in memory, or only loses its lease. *)
GWorkerLost(w) ==
    /\ gworker[w] # Idle /\ glosses < MaxGLosses
    /\ glosses' = glosses + 1
    /\ gworker' = [gworker EXCEPT ![w] = Idle]
    /\ UNCHANGED <<policyMode, clock, held, holds, spared, objects, rows, gallring,
                   reportObject, report, gjob>>

GLeaseExpires(g) ==
    /\ gjob[g].status = "running"
    /\ \/ gworker[gjob[g].owner].run # g /\ UNCHANGED glosses
       \/ glosses < MaxGLosses /\ glosses' = glosses + 1
    /\ gjob' = [gjob EXCEPT ![g].owner = GNone,
                  ![g].status = IF gjob[g].attempts < GallringMaxAttempts THEN "pending" ELSE "dead"]
    /\ UNCHANGED <<policyMode, clock, held, holds, spared, objects, rows, gallring,
                   reportObject, report, gworker>>

GWorkerStep(w) ==
    \/ LoadGallring(w) \/ BeginExecution(w) \/ AbandonGallring(w) \/ EraseObjects(w)
    \/ EraseRows(w) \/ StoreReport(w) \/ CommitReport(w)
    \/ \E g \in GallringRun : ClaimGallring(w, g)

CaseLists == {<<c>> : c \in GCase} \cup {<<c, d>> : c, d \in GCase}

RetentionNext ==
    \/ \E c \in GCase : CaseCloses(c) \/ PeriodElapses(c) \/ PlaceHold(c) \/ ReleaseHold(c)
    \/ \E g \in GallringRun, who \in Official :
          \/ \E cases \in {s \in CaseLists : IsInjective(s)} : QueueGallring(g, who, cases)
          \/ ApproveGallring(g, who)
    \/ \E w \in GWorker : GWorkerStep(w) \/ GWorkerLost(w)
    \/ \E g \in GallringRun : GLeaseExpires(g)

RetentionSpec == RetentionInit /\ [][RetentionNext]_retentionVars

--------------------------------------------------------------------------------
RetentionTypeOK ==
    /\ policyMode \in RetentionMode
    /\ clock \in [GCase -> {"open", "closed", "due"}]
    /\ held \subseteq GCase /\ holds \in 0..MaxHolds /\ spared \subseteq held
    /\ objects \subseteq GCase /\ rows \subseteq GCase
    /\ \A g \in GallringRun :
         /\ gallring[g].state \in Active \cup {"none", "REPORTED", "ABANDONED"}
         /\ gallring[g].cases \in CaseLists \cup {<<>>}
         /\ {gallring[g].by, gallring[g].approver} \subseteq Official \cup {GNone}
         /\ gallring[g].executed \in BOOLEAN
         /\ report[g] \in {"none", "complete", "partial"}
         /\ gjob[g].status \in {"none", "pending", "running", "completed", "dead"}
         /\ gjob[g].attempts \in 0..GallringMaxAttempts
         /\ gjob[g].owner \in GWorker \cup {GNone}
    /\ reportObject \subseteq GallringRun
    /\ \A w \in GWorker : gworker[w].run \in GallringRun \cup {GNone}

(* An intact case that has been under legal hold since before any run was  *)
(* erasing it is never touched, however long its run waited in the queue.  *)
HoldHonoured == spared \subseteq objects \cap rows

(* Every step is one that the decision layer allows; a run whose report says *)
(* that something resisted has, for that layer, not ended.                   *)
PromisedOf(g) ==
    [state |-> IF report[g] = "partial" THEN "EXECUTING" ELSE gallring[g].state,
     cases |-> ToSet(gallring[g].cases), by |-> gallring[g].by,
     approver |-> gallring[g].approver, executed |-> gallring[g].executed]

Promised == INSTANCE GallringPromise
              WITH PromisedCase <- GCase, PromisedRun <- GallringRun, Person <- Official, Nobody <- GNone,
                   run <- [g \in GallringRun |-> PromisedOf(g)], gone <- GCase \ rows

KeepsGallringPromise == Promised!GallringPromiseSpec

================================================================================
