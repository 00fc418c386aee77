------------------------------ MODULE JobPromise ------------------------------
(* What a caller who enqueues a job is promised, whatever workers there are and
   whatever becomes of them: the job waits, handlers are started for it at most
   Limit times, its work may be committed more than once, and it ends as done,
   which it is only when some handler committed, or as given up after at least
   one attempt.  What has ended stays ended, but for the jobs that a starting
   worker may bring back.                                                     *)
EXTENDS Naturals

CONSTANTS Promised, Revivable, Limit

VARIABLES
    promise,   \* "none", "waiting", "done" or "given_up"
    runs,      \* handlers started since it was last given up and revived
    worked     \* whether some handler committed its work

promiseVars == <<promise, runs, worked>>

PromiseInit ==
    /\ promise = [j \in Promised |-> "none"]
    /\ runs = [j \in Promised |-> 0]
    /\ worked = [j \in Promised |-> FALSE]

Becomes(j, from, to) == promise[j] = from /\ promise' = [promise EXCEPT ![j] = to]

Accept(j) == Becomes(j, "none", "waiting") /\ UNCHANGED <<runs, worked>>

Start(j) ==
    /\ promise[j] = "waiting" /\ runs[j] < Limit
    /\ runs' = [runs EXCEPT ![j] = @ + 1]
    /\ UNCHANGED <<promise, worked>>

(* Also by a handler that was given up as lost. *)
CommitWork(j) ==
    /\ promise[j] # "none"
    /\ worked' = [worked EXCEPT ![j] = TRUE]
    /\ UNCHANGED <<promise, runs>>

Fulfil(j) == worked[j] /\ Becomes(j, "waiting", "done") /\ UNCHANGED <<runs, worked>>

GiveUp(j) == runs[j] > 0 /\ Becomes(j, "waiting", "given_up") /\ UNCHANGED <<runs, worked>>

Revive(j) ==
    /\ j \in Revivable
    /\ \/ Becomes(j, "done", "waiting") /\ UNCHANGED runs
       \/ Becomes(j, "given_up", "waiting") /\ runs' = [runs EXCEPT ![j] = 0]
    /\ UNCHANGED worked

PromiseNext ==
    \E j \in Promised : Accept(j) \/ Start(j) \/ CommitWork(j) \/ Fulfil(j) \/ GiveUp(j) \/ Revive(j)

PromiseSpec == PromiseInit /\ [][PromiseNext]_promiseVars
===============================================================================
