----------------------------- MODULE DurableJobs -----------------------------
(* The durable job runtime: the table app.durable_jobs of the data plane, the
   worker processes that lease rows from it, run a handler and settle the row,
   the callers that enqueue, and the recovery of provisioning jobs that every
   worker process performs when it starts.

   One step is one database transaction, one return of a handler, or the
   passing of a deadline.  Time is abstracted to two facts about a row: whether
   its lease is still running (lease_expires_at against now()) and whether it is
   due (available_at <= now()).  The tenants a claim round walks through are
   abstracted to the rows it leases, one at a time.                           *)
EXTENDS Naturals, FiniteSets

CONSTANTS
    Worker,        \* worker processes, named by WORKER_ID
    Job,           \* possible rows: (tenant, job type, idempotency key)
    Provisioning,  \* the rows of type TENANT_PROVISION
    Payload,       \* contents a caller may enqueue under one key
    None,          \* SQL null
    MaxAttempts,   \* maximum_attempts
    ClaimLimit,    \* WORKER_CLAIM_LIMIT
    MaxCrashes,    \* bound: process crashes that happen by themselves
    MaxStalls      \* bound: leases that run out under a living worker

ASSUME ProvisioningAssumption == Provisioning \subseteq Job
ASSUME NoneAssumption == None \notin Worker
ASSUME AttemptsAssumption == MaxAttempts \in Nat \ {0}
ASSUME LimitAssumption == ClaimLimit \in Nat \ {0}
ASSUME BoundsAssumption == MaxCrashes \in Nat /\ MaxStalls \in Nat

VARIABLES
    status,    \* durable_jobs.status, "absent" before the row exists
    attempts,  \* durable_jobs.attempts
    owner,     \* durable_jobs.lease_owner
    leased,    \* lease_expires_at is in the future
    due,       \* available_at is not in the future
    payload,   \* durable_jobs.payload
    phase,     \* where the main loop of a worker process stands
    repair,    \* the provisioning rows a starting worker has still to look at
    run,       \* how far a worker is with a row it claimed
    taken,     \* job.attempts, as the claim returned it
    seen,      \* job.payload, as the claim returned it
    effects,   \* the attempts whose handler committed its work
    crashes, stalls

row == <<status, attempts, owner, leased, due, payload>>
process == <<phase, repair, run, taken, seen>>
budget == <<crashes, stalls>>
vars == <<status, attempts, owner, leased, due, payload,
          phase, repair, run, taken, seen, effects, crashes, stalls>>

Settled == {"completed", "dead_letter"}
Status == {"absent", "pending", "leased"} \cup Settled
Phase == {"starting", "repairing", "claiming", "processing"}
Run == {"none", "claimed", "running", "handled", "failed", "refused"}

-----------------------------------------------------------------------------
Init ==
    /\ status = [j \in Job |-> "absent"]
    /\ attempts = [j \in Job |-> 0]
    /\ owner = [j \in Job |-> None]
    /\ leased = [j \in Job |-> FALSE]
    /\ due = [j \in Job |-> FALSE]
    /\ payload \in [Job -> Payload]
    /\ phase = [w \in Worker |-> "starting"]
    /\ repair = [w \in Worker |-> {}]
    /\ run = [w \in Worker |-> [j \in Job |-> "none"]]
    /\ taken = [w \in Worker |-> [j \in Job |-> 0]]
    /\ seen = [w \in Worker |-> payload]
    /\ effects = [j \in Job |-> {}]
    /\ crashes = 0
    /\ stalls = 0

Holds(w, j) == status[j] = "leased" /\ owner[j] = w

(* Mutant: the conflict clause replaces the payload of a leased row too. *)
EnqueueReplacing(j, p) ==
    /\ \/ /\ status[j] = "absent"
          /\ status' = [status EXCEPT ![j] = "pending"]
          /\ due' = [due EXCEPT ![j] = TRUE]
       \/ /\ status[j] \in {"pending", "leased"}
          /\ UNCHANGED <<status, due>>
    /\ payload' = [payload EXCEPT ![j] = p]
    /\ UNCHANGED <<attempts, owner, leased, process, effects, budget>>

(* enqueue ... on conflict do nothing, and the queue adapter of the API, whose
   conflict clause replaces the payload of a row that is still pending.       *)
Enqueue(j, p) ==
    /\ \/ /\ status[j] = "absent"
          /\ status' = [status EXCEPT ![j] = "pending"]
          /\ due' = [due EXCEPT ![j] = TRUE]
       \/ /\ status[j] = "pending"
          /\ UNCHANGED <<status, due>>
    /\ payload' = [payload EXCEPT ![j] = p]
    /\ UNCHANGED <<attempts, owner, leased, process, effects, budget>>

(* A retried row reaches its available_at. *)
BecomesDue(j) ==
    /\ status[j] = "pending" /\ ~due[j]
    /\ due' = [due EXCEPT ![j] = TRUE]
    /\ UNCHANGED <<status, attempts, owner, leased, payload, process, effects, budget>>

-----------------------------------------------------------------------------
(* Starting a worker process: recoverProvisioningJobs reads the requests that
   look stuck, then resets their rows one transaction at a time.  A request
   whose handler committed is completed and is not read.                      *)
ScanRequests(w, stuck) ==
    /\ phase[w] = "starting"
    /\ stuck \subseteq {j \in Provisioning : effects[j] = {}}
    /\ phase' = [phase EXCEPT ![w] = "repairing"]
    /\ repair' = [repair EXCEPT ![w] = stuck]
    /\ UNCHANGED <<row, run, taken, seen, effects, budget>>

LeaseActive(j) == status[j] = "leased" /\ leased[j]

RepairRow(w, j) ==
    /\ phase[w] = "repairing" /\ j \in repair[w]
    /\ repair' = [repair EXCEPT ![w] = @ \ {j}]
    /\ IF LeaseActive(j)
       THEN UNCHANGED row
       ELSE /\ status' = [status EXCEPT ![j] = "pending"]
            /\ owner' = [owner EXCEPT ![j] = None]
            /\ leased' = [leased EXCEPT ![j] = FALSE]
            /\ due' = [due EXCEPT ![j] = TRUE]
            /\ attempts' = [attempts EXCEPT ![j] = IF status[j] = "dead_letter" THEN 0 ELSE @]
            /\ UNCHANGED payload
    /\ UNCHANGED <<phase, run, taken, seen, effects, budget>>

EnterLoop(w) ==
    /\ phase[w] = "repairing" /\ repair[w] = {}
    /\ phase' = [phase EXCEPT ![w] = "claiming"]
    /\ UNCHANGED <<row, repair, run, taken, seen, effects, budget>>

-----------------------------------------------------------------------------
(* Mutant: the claim never takes over a lease. *)
ClaimableOncePending(j) ==
    due[j] /\ attempts[j] < MaxAttempts /\ status[j] = "pending"

(* claim_durable_jobs, called for one tenant after another. *)
Claimable(j) ==
    /\ due[j]
    /\ attempts[j] < MaxAttempts
    /\ \/ status[j] = "pending"
       \/ status[j] = "leased" /\ ~leased[j]

Batch(w) == {j \in Job : run[w][j] # "none"}

Claim(w, j) ==
    /\ phase[w] = "claiming"
    /\ run[w][j] = "none" /\ Cardinality(Batch(w)) < ClaimLimit
    /\ Claimable(j)
    /\ status' = [status EXCEPT ![j] = "leased"]
    /\ attempts' = [attempts EXCEPT ![j] = @ + 1]
    /\ owner' = [owner EXCEPT ![j] = w]
    /\ leased' = [leased EXCEPT ![j] = TRUE]
    /\ run' = [run EXCEPT ![w][j] = "claimed"]
    /\ taken' = [taken EXCEPT ![w][j] = attempts'[j]]
    /\ seen' = [seen EXCEPT ![w][j] = payload[j]]
    /\ UNCHANGED <<due, payload, phase, repair, effects, budget>>

StartBatch(w) ==
    /\ phase[w] = "claiming" /\ Batch(w) # {}
    /\ phase' = [phase EXCEPT ![w] = "processing"]
    /\ UNCHANGED <<row, repair, run, taken, seen, effects, budget>>

NextRound(w) ==
    /\ phase[w] = "processing" /\ Batch(w) = {}
    /\ phase' = [phase EXCEPT ![w] = "claiming"]
    /\ UNCHANGED <<row, repair, run, taken, seen, effects, budget>>

Reach(w, j, next) == run' = [run EXCEPT ![w][j] = next]

(* The heartbeat awaited before the handler: it renews the lease, also one that
   ran out without being taken over, or throws WORKER_LEASE_LOST into the catch
   block.                                                                     *)
FirstHeartbeat(w, j) ==
    /\ phase[w] = "processing" /\ run[w][j] = "claimed"
    /\ \/ /\ Holds(w, j)
          /\ leased' = [leased EXCEPT ![j] = TRUE]
          /\ Reach(w, j, "running")
       \/ /\ ~Holds(w, j)
          /\ Reach(w, j, "failed")
          /\ UNCHANGED leased
    /\ UNCHANGED <<status, attempts, owner, due, payload, phase, repair, taken, seen, effects, budget>>

Heartbeat(w, j) ==
    /\ run[w][j] \in {"running", "handled"} /\ Holds(w, j) /\ ~leased[j]
    /\ leased' = [leased EXCEPT ![j] = TRUE]
    /\ UNCHANGED <<status, attempts, owner, due, payload, process, effects, budget>>

HandlerCommits(w, j) ==
    /\ run[w][j] = "running"
    /\ effects' = [effects EXCEPT ![j] = @ \cup {taken[w][j]}]
    /\ Reach(w, j, "handled")
    /\ UNCHANGED <<row, phase, repair, taken, seen, budget>>

(* Any error, or a PermanentWorkerError; the error of complete() itself, after
   the handler has committed, takes the same path.                            *)
HandlerFails(w, j) ==
    /\ \/ run[w][j] = "running" /\ \E verdict \in {"failed", "refused"} : Reach(w, j, verdict)
       \/ run[w][j] = "handled" /\ Reach(w, j, "failed")
    /\ UNCHANGED <<row, phase, repair, taken, seen, effects, budget>>

(* Mutant: the row is updated by id alone. *)
SettleUnguarded(w, j, to, again) ==
    /\ status' = [status EXCEPT ![j] = to]
    /\ owner' = [owner EXCEPT ![j] = None]
    /\ leased' = [leased EXCEPT ![j] = FALSE]
    /\ due' = [due EXCEPT ![j] = again]
    /\ Reach(w, j, "none")
    /\ UNCHANGED <<attempts, payload, phase, repair, taken, seen, effects, budget>>

(* complete, retry and deadLetter update the row only where it is still leased
   to this worker, and do not notice when it is not.                          *)
Settle(w, j, to, again) ==
    /\ IF Holds(w, j)
       THEN /\ status' = [status EXCEPT ![j] = to]
            /\ owner' = [owner EXCEPT ![j] = None]
            /\ leased' = [leased EXCEPT ![j] = FALSE]
            /\ due' = [due EXCEPT ![j] = again]
       ELSE UNCHANGED <<status, owner, leased, due>>
    /\ Reach(w, j, "none")
    /\ UNCHANGED <<attempts, payload, phase, repair, taken, seen, effects, budget>>

Complete(w, j) == run[w][j] = "handled" /\ Settle(w, j, "completed", due[j])

(* Mutant: one attempt too many is promised. *)
DeadTooLate(w, j) == run[w][j] = "refused" \/ taken[w][j] > MaxAttempts

Dead(w, j) == run[w][j] = "refused" \/ taken[w][j] >= MaxAttempts

DeadLetter(w, j) ==
    run[w][j] \in {"failed", "refused"} /\ Dead(w, j) /\ Settle(w, j, "dead_letter", due[j])

Retry(w, j) ==
    run[w][j] = "failed" /\ ~Dead(w, j) /\ Settle(w, j, "pending", FALSE)

-----------------------------------------------------------------------------
(* The process ends and is started again: its memory is lost, its leases stay. *)
Restart(w) ==
    /\ phase' = [phase EXCEPT ![w] = "starting"]
    /\ repair' = [repair EXCEPT ![w] = {}]
    /\ run' = [run EXCEPT ![w] = [j \in Job |-> "none"]]
    /\ UNCHANGED <<row, taken, seen, effects, stalls>>

Crash(w) ==
    /\ phase[w] # "starting" /\ crashes < MaxCrashes
    /\ crashes' = crashes + 1
    /\ Restart(w)

(* A periodic heartbeat that finds the lease lost rejects a promise nobody
   awaits; the runtime ends the process for it.                               *)
HeartbeatLost(w, j) ==
    /\ run[w][j] \in {"running", "handled"} /\ ~Holds(w, j)
    /\ Restart(w) /\ UNCHANGED crashes

Alive(j) == \E w \in Worker : Holds(w, j) /\ run[w][j] # "none"

LeaseRunsOut(j) ==
    /\ status[j] = "leased" /\ leased[j] /\ ~Alive(j)
    /\ leased' = [leased EXCEPT ![j] = FALSE]
    /\ UNCHANGED <<status, attempts, owner, due, payload, process, effects, budget>>

(* The worker lives, but its heartbeats came too late. *)
Stall(j) ==
    /\ status[j] = "leased" /\ leased[j] /\ Alive(j) /\ stalls < MaxStalls
    /\ stalls' = stalls + 1
    /\ leased' = [leased EXCEPT ![j] = FALSE]
    /\ UNCHANGED <<status, attempts, owner, due, payload, process, effects, crashes>>

-----------------------------------------------------------------------------
Work(w, j) ==
    \/ FirstHeartbeat(w, j) \/ HandlerCommits(w, j) \/ HandlerFails(w, j)
    \/ Complete(w, j) \/ DeadLetter(w, j) \/ Retry(w, j)

Next ==
    \/ \E j \in Job :
          \/ \E p \in Payload : Enqueue(j, p)
          \/ BecomesDue(j) \/ LeaseRunsOut(j) \/ Stall(j)
    \/ \E w \in Worker :
          \/ \E stuck \in SUBSET Provisioning : ScanRequests(w, stuck)
          \/ EnterLoop(w) \/ StartBatch(w) \/ NextRound(w) \/ Crash(w)
          \/ \E j \in Job :
                RepairRow(w, j) \/ Claim(w, j) \/ Heartbeat(w, j) \/ Work(w, j) \/ HeartbeatLost(w, j)

Spec == Init /\ [][Next]_vars

(* A live process keeps executing its loop and its handlers return; the clock
   advances.  A stall, a crash and the callers owe nothing.  A worker that finds
   a row claimable keeps polling, so the row is claimed by some worker unless it
   stops being claimable.                                                     *)
Fairness ==
    /\ \A j \in Job : WF_vars(BecomesDue(j)) /\ WF_vars(LeaseRunsOut(j))
                      /\ SF_vars(\E w \in Worker : Claim(w, j))
    /\ \A w \in Worker :
          /\ WF_vars(\E stuck \in SUBSET Provisioning : ScanRequests(w, stuck))
          /\ WF_vars(EnterLoop(w) \/ StartBatch(w) \/ NextRound(w))
          /\ \A j \in Job : WF_vars(RepairRow(w, j)) /\ WF_vars(Work(w, j))

FairSpec == Spec /\ Fairness

-----------------------------------------------------------------------------
TypeOK ==
    /\ status \in [Job -> Status]
    /\ attempts \in [Job -> 0..MaxAttempts]
    /\ owner \in [Job -> Worker \cup {None}]
    /\ leased \in [Job -> BOOLEAN]
    /\ due \in [Job -> BOOLEAN]
    /\ payload \in [Job -> Payload]
    /\ phase \in [Worker -> Phase]
    /\ repair \in [Worker -> SUBSET Provisioning]
    /\ run \in [Worker -> [Job -> Run]]
    /\ taken \in [Worker -> [Job -> 0..MaxAttempts]]
    /\ seen \in [Worker -> [Job -> Payload]]
    /\ effects \in [Job -> SUBSET (1..MaxAttempts)]
    /\ crashes \in 0..MaxCrashes
    /\ stalls \in 0..MaxStalls

(* A worker that still owns a lease is working on the attempt and the payload
   the row shows, although it read both when it claimed and never reads them
   again: neither a later claim, nor the recovery of provisioning jobs, nor a
   caller that enqueues the key again may change them under it.               *)
LeaseMatchesAttempt ==
    \A w \in Worker, j \in Job :
        run[w][j] # "none" /\ Holds(w, j) =>
            taken[w][j] = attempts[j] /\ seen[w][j] = payload[j]

(* Two processes may run one row at the same time once a lease ran out, but
   never under the same attempt number, so maximum_attempts bounds how often a
   handler runs.  Only the recovery of provisioning jobs resets the number.   *)
AttemptsDistinct ==
    \A v, w \in Worker, j \in Job \ Provisioning :
        v # w /\ run[v][j] # "none" /\ run[w][j] # "none" => taken[v][j] # taken[w][j]

(* A row is completed only after some attempt of it committed its work. *)
CompletedHasEffect ==
    \A j \in Job : status[j] = "completed" => effects[j] # {}

(* The only process that moves a row to completed is one whose own attempt is
   the current one and whose handler ran on the payload the row holds: an answer
   that comes after the lease was taken over changes nothing.                 *)
CompletionIsCurrentStep ==
    \A j \in Job : status[j] # "completed" /\ status'[j] = "completed" =>
        \E w \in Worker : /\ run[w][j] = "handled"
                          /\ taken[w][j] = attempts[j]
                          /\ seen[w][j] = payload[j]
CompletionIsCurrent == [][CompletionIsCurrentStep]_vars

(* A row reaches the dead letter state only when its attempts are used up or an
   attempt that still owned it was refused for good.                          *)
DeadLetterIsEarnedStep ==
    \A j \in Job : status[j] # "dead_letter" /\ status'[j] = "dead_letter" =>
        \/ attempts[j] = MaxAttempts
        \/ \E w \in Worker : Holds(w, j) /\ run[w][j] = "refused"
DeadLetterIsEarned == [][DeadLetterIsEarnedStep]_vars

(* Outside the recovery of provisioning jobs nothing brings a settled row back:
   neither enqueueing its key again nor a late retry of a stale attempt.      *)
SettledIsFinalStep ==
    \A j \in Job \ Provisioning : status[j] \in Settled => status'[j] = status[j]
SettledIsFinal == [][SettledIsFinalStep]_vars

(* A row nobody can ever claim again although it is not settled. *)
Stranded(j) ==
    /\ attempts[j] = MaxAttempts
    /\ \/ status[j] = "pending"
       \/ status[j] = "leased" /\ ~leased[j]

(* Every enqueued row is eventually settled, or left behind at its last attempt. *)
SettlesOrStrands ==
    \A j \in Job : status[j] = "pending" ~> status[j] \in Settled \/ Stranded(j)

(* While no process crashes and no heartbeat comes late, every enqueued row is
   settled.  A provisioning row is not: a process that starts late may reset a
   row another one has just completed at its last attempt, which nobody can then
   claim.                                                                     *)
Settles ==
    \A j \in Job \ Provisioning :
        status[j] = "pending" ~> status[j] \in Settled \/ crashes + stalls > 0

-----------------------------------------------------------------------------
(* What a caller sees of a row: not who holds it, nor which lease ran out. *)
PromiseOf(s) == CASE s = "absent" -> "none"
                  [] s \in {"pending", "leased"} -> "waiting"
                  [] s = "completed" -> "done"
                  [] s = "dead_letter" -> "given_up"

Caller == INSTANCE JobPromise WITH
    Promised <- Job, Revivable <- Provisioning, Limit <- MaxAttempts,
    promise <- [j \in Job |-> PromiseOf(status[j])],
    runs <- attempts,
    worked <- [j \in Job |-> effects[j] # {}]

(* Leases, heartbeats, crashes, late answers and repairs keep what JobPromise
   promises to the caller of enqueue: every step is a step of it or changes
   nothing the caller sees.                                                   *)
KeepsPromise == Caller!PromiseSpec
=============================================================================
