----------------------------- MODULE Idempotency -----------------------------
(* One Idempotency-Key of one operation, used by several callers: the client's
   own retries, and another client that picked the same key for another body.
   The key row, the work and the answer are one transaction, under an advisory
   lock on the key; what the work puts on the queue of the other database is
   not part of it.                                                           *)
EXTENDS Naturals

CONSTANTS
    Caller, Body,   \* requests, and the payloads they carry (by hash)
    INone,
    MaxAsks         \* times one caller asks

ASSUME IdempotencyAssumption == MaxAsks \in Nat /\ INone \notin Caller

VARIABLES
    keyLock,    \* who holds pg_advisory_xact_lock on the key
    keyRow,     \* the row of the key: its payload hash and stored answer
    caller,
    committed,  \* how often the work was committed
    enqueued    \* jobs the work put on the queue before it committed

idemVars == <<keyLock, keyRow, caller, committed, enqueued>>

Answer(kind, response) == [kind |-> kind, response |-> response]
NoAnswer == Answer("none", INone)

IdemInit ==
    /\ keyLock = INone
    /\ keyRow = [state |-> "absent", body |-> INone, response |-> INone]
    /\ caller = [c \in Caller |-> [at |-> "idle", body |-> INone, asked |-> 0, answer |-> NoAnswer]]
    /\ committed = 0 /\ enqueued = 0

(* A caller sends one body, and sends the same one again when it got no answer. *)
Ask(c, b) ==
    /\ caller[c].at = "idle" /\ caller[c].asked < MaxAsks
    /\ caller[c].answer.kind \in {"none", "error"} /\ caller[c].body \in {INone, b}
    /\ caller' = [caller EXCEPT ![c] = [at |-> "asking", body |-> b, asked |-> @.asked + 1, answer |-> NoAnswer]]
    /\ UNCHANGED <<keyLock, keyRow, committed, enqueued>>

TakeKeyLock(c) ==
    /\ caller[c].at = "asking" /\ keyLock = INone
    /\ keyLock' = c
    /\ caller' = [caller EXCEPT ![c].at = "looking"]
    /\ UNCHANGED <<keyRow, committed, enqueued>>

(* The transaction is over: the lock goes with it. *)
AnswerWith(c, answer) ==
    /\ caller' = [caller EXCEPT ![c].at = "idle", ![c].answer = answer]
    /\ keyLock' = INone

LookPastExpired(c) ==
    /\ caller[c].at = "looking"
    /\ IF keyRow.state \in {"absent", "expired"}
       THEN caller' = [caller EXCEPT ![c].at = "working"] /\ UNCHANGED keyLock
       ELSE AnswerWith(c, IF keyRow.body # caller[c].body THEN Answer("conflict", INone) ELSE Answer("ok", keyRow.response))
    /\ UNCHANGED <<keyRow, committed, enqueued>>

(* The row is read only while it has not expired; an expired one is not found,
   and the insert that follows meets its primary key.  A row without an answer
   is never seen: it is filled in the transaction that made it.              *)
LookUp(c) ==
    /\ caller[c].at = "looking"
    /\ IF keyRow.state = "absent"
       THEN caller' = [caller EXCEPT ![c].at = "working"] /\ UNCHANGED keyLock
       ELSE AnswerWith(c, IF keyRow.state = "expired" THEN Answer("error", INone)
                          ELSE IF keyRow.body # caller[c].body THEN Answer("conflict", INone)
                          ELSE Answer("ok", keyRow.response))
    /\ UNCHANGED <<keyRow, committed, enqueued>>

(* The queue is another database, and the job is there at once. *)
WorkEnqueues(c) ==
    /\ caller[c].at = "working"
    /\ enqueued' = enqueued + 1
    /\ caller' = [caller EXCEPT ![c].at = "committing"]
    /\ UNCHANGED <<keyLock, keyRow, committed>>

(* The work throws, or the process or the connection is lost. *)
RollBack(c) ==
    /\ caller[c].at \in {"working", "committing"}
    /\ AnswerWith(c, Answer("error", INone))
    /\ UNCHANGED <<keyRow, committed, enqueued>>

(* The answer of a transaction that committed may be lost all the same. *)
CommitWork(c, heard) ==
    /\ caller[c].at = "committing"
    /\ keyRow' = [state |-> "live", body |-> caller[c].body, response |-> c]
    /\ committed' = committed + 1
    /\ AnswerWith(c, IF heard THEN Answer("ok", c) ELSE Answer("error", INone))
    /\ UNCHANGED enqueued

KeyExpires ==
    /\ keyRow.state = "live"
    /\ keyRow' = [keyRow EXCEPT !.state = "expired"]
    /\ UNCHANGED <<keyLock, caller, committed, enqueued>>

IdemNext ==
    \/ \E c \in Caller : \/ \E b \in Body : Ask(c, b)
                         \/ TakeKeyLock(c) \/ LookUp(c) \/ WorkEnqueues(c) \/ RollBack(c)
                         \/ \E heard \in BOOLEAN : CommitWork(c, heard)
    \/ KeyExpires

IdemSpec == IdemInit /\ [][IdemNext]_idemVars

------------------------------------------------------------------------------
IdemTypeOK ==
    /\ keyLock \in Caller \cup {INone}
    /\ keyRow \in [state : {"absent", "live", "expired"}, body : Body \cup {INone}, response : Caller \cup {INone}]
    /\ caller \in [Caller -> [at : {"idle", "asking", "looking", "working", "committing"}, body : Body \cup {INone},
                              asked : 0..MaxAsks,
                              answer : [kind : {"none", "ok", "conflict", "error"}, response : Caller \cup {INone}]]]
    /\ committed \in Nat /\ enqueued \in Nat

(* However many callers use the key, and however often answers are lost or
   transactions roll back, the work is committed at most once, also by a retry
   after the key expired; and whoever is answered ok sent the body that was
   worked on and is given the answer that was stored.                        *)
AnsweredAlike ==
    /\ committed <= 1
    /\ \A c \in Caller : caller[c].answer.kind = "ok" =>
         caller[c].body = keyRow.body /\ caller[c].answer.response = keyRow.response
==============================================================================
