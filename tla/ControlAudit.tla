----------------------------- MODULE ControlAudit -----------------------------
(* The hash-chained audit log of the control plane.  An appender takes an
   advisory lock, reads the hash of the latest event and adds its own with that
   hash as predecessor; the lock goes when its transaction commits.  The latest
   event is the one with the greatest occurred_at, and occurred_at is now(): the
   time the transaction began, which for most appenders is long before they
   come to the lock.                                                          *)
EXTENDS Naturals, FiniteSetsExt

CONSTANTS
    Appender,   \* transactions of the control plane that record an event
    Genesis     \* the predecessor of the first event

VARIABLES
    now,        \* a clock that ticks when a transaction begins
    began,      \* when the transaction of an appender began, 0 before
    outcome,    \* whether its transaction is over
    chain       \* control.control_audit_events, as committed

auditVars == <<now, began, outcome, chain>>

AuditInit ==
    /\ now = 0
    /\ began = [a \in Appender |-> 0]
    /\ outcome = [a \in Appender |-> "open"]
    /\ chain = {}

Begin(a) ==
    /\ began[a] = 0
    /\ now' = now + 1 /\ began' = [began EXCEPT ![a] = now + 1]
    /\ UNCHANGED <<outcome, chain>>

(* order by occurred_at desc, id desc limit 1 *)
LatestEvent ==
    IF chain = {} THEN Genesis
    ELSE (CHOOSE e \in chain : e.occurredAt = Max({f.occurredAt : f \in chain})).event

(* From the lock to the commit no other appender gets in between. *)
AppendControlAudit(a) ==
    /\ began[a] > 0 /\ outcome[a] = "open"
    /\ chain' = chain \cup {[event |-> a, occurredAt |-> began[a], previous |-> LatestEvent]}
    /\ outcome' = [outcome EXCEPT ![a] = "committed"]
    /\ UNCHANGED <<now, began>>

RollBackAppender(a) ==
    /\ began[a] > 0 /\ outcome[a] = "open"
    /\ outcome' = [outcome EXCEPT ![a] = "rolled_back"]
    /\ UNCHANGED <<now, began, chain>>

AuditNext == \E a \in Appender : Begin(a) \/ AppendControlAudit(a) \/ RollBackAppender(a)

AuditSpec == AuditInit /\ [][AuditNext]_auditVars
-------------------------------------------------------------------------------
(* Events are appended one after another, so no two of them claim the same
   predecessor: "Without it two workers can read the same previous hash and
   write two events claiming the same predecessor, which silently forks the
   chain" (platform-handlers.ts, of the lock).                                *)
NoTwoSuccessors == \A e, f \in chain : e.previous = f.previous => e = f
===============================================================================
