------------------------------- MODULE Connections -------------------------------
(* The connections of an API process.  Each database has a pool; a transaction
   takes a connection of it, waits without a limit when there is none, and gives
   it back.  The tenant of a transaction is a setting on its connection, which
   every row-level policy reads.  A transaction on the control plane may enqueue
   a job, in a transaction of the queue's own pool, before it commits.         *)
EXTENDS FiniteSets, Naturals

CONSTANTS
    Connection,
    PoolOf,         \* connection -> "control", "data", "queue"
    Request,
    Organisation,   \* tenants
    NoTenant

\* No pool is made without a connection.
ASSUME ConnectionsAssumption ==
    /\ PoolOf \in [Connection -> {"control", "data", "queue"}]
    /\ \A pool \in {"control", "data", "queue"} : \E n \in Connection : PoolOf[n] = pool

VARIABLES
    holder,         \* connection -> the request it was given to
    setting,        \* connection -> app.tenant_id
    request,        \* what each request is for, on whose behalf, and what it does
    enqueued,       \* requests whose job is committed
    kept            \* requests whose control transaction is committed

connectionVars == <<holder, setting, request, enqueued, kept>>

Absent == [kind |-> "none", tenant |-> NoTenant, at |-> "done"]

ConnectionsInit ==
    /\ holder = [n \in Connection |-> {}]
    /\ setting = [n \in Connection |-> NoTenant]
    /\ request = [r \in Request |-> Absent]
    /\ enqueued = {} /\ kept = {}

-------------------------------------------------------------------------------
(* Work in the tenant's data; a lone statement that is meant for all tenants; a
   change of the control plane, with or without a job.                         *)
Arrive(r, kind, t) ==
    /\ request[r] = Absent
    /\ request' = [request EXCEPT ![r] = [kind |-> kind, at |-> "waits",
                                           tenant |-> IF kind = "tenant" THEN t ELSE NoTenant]]
    /\ UNCHANGED <<holder, setting, enqueued, kept>>

DatabaseOf(kind) == IF kind \in {"control", "provision"} THEN "control" ELSE "data"

\* A queue that enqueues through the API's control database.
SharedPool == "control"

QueuePool == "queue"

Owns(r, pool) == {n \in Connection : holder[n] = {r} /\ PoolOf[n] = pool}

(* client.begin, or a statement of its own. *)
Acquire(r, n) ==
    /\ \/ request[r].at = "waits" /\ PoolOf[n] = DatabaseOf(request[r].kind)
       \/ request[r].at = "waits for queue" /\ PoolOf[n] = QueuePool
    /\ holder[n] = {}
    /\ holder' = [holder EXCEPT ![n] = {r}]
    /\ request' = [request EXCEPT ![r].at =
                     IF @ = "waits for queue" THEN "enqueues"
                     ELSE IF request[r].kind = "tenant" THEN "begun" ELSE "works"]
    /\ UNCHANGED <<setting, enqueued, kept>>

(* The first statement of withTenantTransaction. *)
SetContext(r) ==
    /\ request[r].at = "begun"
    /\ setting' = [n \in Connection |-> IF n \in Owns(r, "data") THEN request[r].tenant ELSE setting[n]]
    /\ request' = [request EXCEPT ![r].at = "works"]
    /\ UNCHANGED <<holder, enqueued, kept>>

CallQueue(r) ==
    /\ request[r].kind = "provision" /\ request[r].at = "works" /\ r \notin enqueued
    /\ request' = [request EXCEPT ![r].at = "waits for queue"]
    /\ UNCHANGED <<holder, setting, enqueued, kept>>

\* A setting that is made for the session outlives the transaction.
LeaveSetting(r, n) ==
    /\ holder' = [holder EXCEPT ![n] = {}]
    /\ UNCHANGED setting

(* The setting was made for the transaction and ends with it. *)
GiveBack(r, n) ==
    /\ holder' = [holder EXCEPT ![n] = {}]
    /\ setting' = [setting EXCEPT ![n] = NoTenant]

(* The job is there whether or not the change it is about will be. *)
Enqueue(r, n) ==
    /\ request[r].at = "enqueues" /\ n \in Owns(r, QueuePool)
    /\ GiveBack(r, n)
    /\ enqueued' \in {enqueued, enqueued \cup {r}}
    /\ request' = [request EXCEPT ![r].at = IF r \in enqueued' THEN "works" ELSE "fails"]
    /\ UNCHANGED kept

End(r, n, commits) ==
    /\ request[r].at \in {"works", "fails"} /\ n \in Owns(r, DatabaseOf(request[r].kind))
    /\ commits => request[r].at = "works" /\ (request[r].kind = "provision" => r \in enqueued)
    /\ GiveBack(r, n)
    /\ kept' = IF commits THEN kept \cup {r} ELSE kept
    /\ request' = [request EXCEPT ![r].at = "done"]
    /\ UNCHANGED enqueued

ConnectionsNext ==
    \E r \in Request :
        \/ \E kind \in {"tenant", "all tenants", "control", "provision"}, t \in Organisation : Arrive(r, kind, t)
        \/ SetContext(r) \/ CallQueue(r)
        \/ \E n \in Connection : Acquire(r, n) \/ Enqueue(r, n) \/ \E commits \in BOOLEAN : End(r, n, commits)

ConnectionsSpec == ConnectionsInit /\ [][ConnectionsNext]_connectionVars

-------------------------------------------------------------------------------
ConnectionsTypeOK ==
    /\ \A n \in Connection : Cardinality(holder[n]) <= 1 /\ setting[n] \in Organisation \cup {NoTenant}
    /\ enqueued \subseteq Request /\ kept \subseteq Request

(* What a request reads and writes is its own tenant's: the connection on which
   it works has its setting, and one that is not for a tenant has none, whoever
   had the connection before (withTenantTransaction, readWithoutTenantContext). *)
WorksOnItsOwn ==
    \A r \in Request : request[r].at = "works" =>
        \A n \in Owns(r, DatabaseOf(request[r].kind)) : setting[n] = request[r].tenant

(* Requests that wait for a connection while they hold another never wait for
   each other: when somebody waits, there is a free connection or somebody who
   has one can go on (createQueueAdapter: a pool of its own).                  *)
SomebodyGoesOn ==
    (\E r \in Request : request[r].at \in {"waits", "waits for queue"}) =>
        \/ \E r \in Request : request[r].at \in {"begun", "works", "enqueues", "fails"}
        \/ \E r \in Request, n \in Connection :
              /\ holder[n] = {}
              /\ \/ request[r].at = "waits" /\ PoolOf[n] = DatabaseOf(request[r].kind)
                 \/ request[r].at = "waits for queue" /\ PoolOf[n] = QueuePool

================================================================================
