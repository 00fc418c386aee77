---------------------------- MODULE GallringPromise ----------------------------
(* What the decision layer promises of an irreversible deletion: it is planned
   for cases that nobody demands be kept, approved by another person than the
   one who asked for it, decided anew when it begins, and reported as complete
   when nothing that was planned is left.                                     *)
CONSTANTS
    PromisedCase,
    PromisedRun,
    Person,
    Nobody

VARIABLES
    run,            \* run -> its state, its cases, who asked, who approved, and whether it was begun
    held,           \* cases somebody has demanded be kept
    gone            \* cases whose rows are deleted

promiseVars == <<run, held, gone>>

NotQueued == [state |-> "none", cases |-> {}, by |-> Nobody, approver |-> Nobody, executed |-> FALSE]

GallringPromiseInit ==
    /\ run = [g \in PromisedRun |-> NotQueued]
    /\ held = {} /\ gone = {}

Becomes(g, to) == run' = [run EXCEPT ![g].state = to]

Demand(c) ==
    /\ held' = IF c \in held THEN held \ {c} ELSE held \cup {c}
    /\ UNCHANGED <<run, gone>>

PlanGallring(g) ==
    /\ run[g].state = "none"
    /\ \E who \in Person, cases \in (SUBSET (PromisedCase \ held)) \ {{}} :
          run' = [run EXCEPT ![g] = [NotQueued EXCEPT !.state = "PLANNED", !.cases = cases, !.by = who]]
    /\ UNCHANGED <<held, gone>>

ApproveGallring(g) ==
    /\ run[g].state = "PLANNED"
    /\ \E who \in Person \ {run[g].by} :
          run' = [run EXCEPT ![g].state = "APPROVED", ![g].approver = who]
    /\ UNCHANGED <<held, gone>>

(* The decision that was queued is a proposal, and never authority. *)
BeginGallringExecution(g) ==
    /\ run[g].state = "APPROVED"
    /\ run[g].cases \cap held = {}
    /\ run' = [run EXCEPT ![g].state = "EXECUTING", ![g].executed = TRUE]
    /\ UNCHANGED <<held, gone>>

(* An execution that was begun may go on when its run is abandoned. *)
Erase(g, c) ==
    /\ run[g].executed /\ c \in run[g].cases
    /\ gone' = gone \cup {c}
    /\ UNCHANGED <<run, held>>

(* Every target that was planned is addressed and verified. *)
VerifyGallringExecution(g) == run[g].cases \subseteq gone

CompleteGallring(g) ==
    /\ run[g].state = "EXECUTING" /\ VerifyGallringExecution(g)
    /\ run[g].approver # Nobody
    /\ Becomes(g, "REPORTED")
    /\ UNCHANGED <<held, gone>>

AbandonGallring(g) ==
    /\ run[g].state \notin {"none", "REPORTED"}
    /\ Becomes(g, "ABANDONED")
    /\ UNCHANGED <<held, gone>>

GallringPromiseNext ==
    \/ UNCHANGED promiseVars          \* most of a worker's steps decide nothing
    \/ \E c \in PromisedCase : Demand(c) \/ \E g \in PromisedRun : Erase(g, c)
    \/ \E g \in PromisedRun :
          \/ PlanGallring(g) \/ ApproveGallring(g) \/ BeginGallringExecution(g)
          \/ CompleteGallring(g) \/ AbandonGallring(g)

GallringPromiseSpec == GallringPromiseInit /\ [][GallringPromiseNext]_promiseVars

================================================================================
