-------------------------- MODULE DurableJobsProofs --------------------------
(* Proofs about the job runtime, for every set of workers and rows, every limit
   and every number of crashes and stalls.                                    *)
EXTENDS DurableJobs, TLAPS

(* What a worker remembers of an attempt agrees with the row's history: attempt
   numbers start at one, never exceed the row's count (which only the recovery
   of provisioning rows lowers), and a handler that returned has left its work. *)
Bookkeeping ==
    \A w \in Worker, j \in Job :
        run[w][j] # "none" =>
            /\ taken[w][j] >= 1
            /\ j \notin Provisioning => taken[w][j] <= attempts[j]
            /\ run[w][j] = "handled" => taken[w][j] \in effects[j]

(* The inductive invariant.  LeaseMatchesAttempt is inductive with the types.
   AttemptsDistinct needs Bookkeeping: a claim hands out a number larger than
   every number still alive.  CompletedHasEffect needs its last part.          *)
IInv ==
    /\ TypeOK
    /\ LeaseMatchesAttempt
    /\ AttemptsDistinct
    /\ CompletedHasEffect
    /\ Bookkeeping

LEMMA InitEstablishes == Init => IInv
  <1> SUFFICES ASSUME Init PROVE IInv
    OBVIOUS
  <1> USE NoneAssumption, AttemptsAssumption, BoundsAssumption DEF Init
  <1>1. TypeOK
    BY SMT DEF TypeOK, Status, Settled, Phase, Run
  <1>2. LeaseMatchesAttempt /\ AttemptsDistinct /\ CompletedHasEffect /\ Bookkeeping
    BY DEF LeaseMatchesAttempt, AttemptsDistinct, CompletedHasEffect, Bookkeeping, Holds
  <1> QED
    BY <1>1, <1>2 DEF IInv

(* The steps of callers and of the clock. *)
LEMMA OutsideStep ==
    ASSUME IInv, NEW j \in Job, NEW p \in Payload,
           Enqueue(j, p) \/ BecomesDue(j) \/ LeaseRunsOut(j) \/ Stall(j)
    PROVE  IInv'
  <1> USE ProvisioningAssumption, NoneAssumption, AttemptsAssumption, BoundsAssumption
        DEF IInv, row, process, budget
  <1>1. CASE Enqueue(j, p)
    <2>1. TypeOK'
      BY <1>1 DEF Enqueue, TypeOK, Status, Settled
    <2>2. LeaseMatchesAttempt'
      BY <1>1 DEF Enqueue, TypeOK, LeaseMatchesAttempt, Holds
    <2>3. AttemptsDistinct' /\ Bookkeeping'
      BY <1>1 DEF Enqueue, AttemptsDistinct, Bookkeeping
    <2>4. CompletedHasEffect'
      BY <1>1 DEF Enqueue, TypeOK, CompletedHasEffect
    <2> QED
      BY <2>1, <2>2, <2>3, <2>4
  <1>2. CASE BecomesDue(j)
    BY <1>2 DEF BecomesDue, TypeOK, LeaseMatchesAttempt, AttemptsDistinct,
                CompletedHasEffect, Bookkeeping, Holds
  <1>3. CASE LeaseRunsOut(j)
    BY <1>3 DEF LeaseRunsOut, TypeOK, LeaseMatchesAttempt, AttemptsDistinct,
                CompletedHasEffect, Bookkeeping, Holds
  <1>4. CASE Stall(j)
    <2>1. TypeOK'
      BY <1>4 DEF Stall, TypeOK
    <2>2. LeaseMatchesAttempt' /\ AttemptsDistinct' /\ CompletedHasEffect' /\ Bookkeeping'
      BY <1>4 DEF Stall, TypeOK, LeaseMatchesAttempt, AttemptsDistinct,
                  CompletedHasEffect, Bookkeeping, Holds
    <2> QED
      BY <2>1, <2>2
  <1> QED
    BY <1>1, <1>2, <1>3, <1>4

(* The steps in which a process starts, moves through its loop or ends. *)
LEMMA LoopStep ==
    ASSUME IInv, NEW w \in Worker,
           \/ \E stuck \in SUBSET Provisioning : ScanRequests(w, stuck)
           \/ EnterLoop(w) \/ StartBatch(w) \/ NextRound(w) \/ Crash(w)
           \/ \E j \in Job : HeartbeatLost(w, j)
    PROVE  IInv'
  <1> USE ProvisioningAssumption, NoneAssumption, AttemptsAssumption, BoundsAssumption
        DEF IInv, row, process, budget
  <1>1. CASE \E stuck \in SUBSET Provisioning : ScanRequests(w, stuck)
    BY <1>1 DEF ScanRequests, TypeOK, Phase, LeaseMatchesAttempt, AttemptsDistinct,
                CompletedHasEffect, Bookkeeping, Holds
  <1>2. CASE EnterLoop(w) \/ StartBatch(w) \/ NextRound(w)
    <2>1. PICK next \in Phase : phase' = [phase EXCEPT ![w] = next]
      BY <1>2 DEF EnterLoop, StartBatch, NextRound, Phase
    <2>2. UNCHANGED <<row, repair, run, taken, seen, effects, budget>>
      BY <1>2 DEF EnterLoop, StartBatch, NextRound
    <2> QED
      BY <2>1, <2>2 DEF TypeOK, LeaseMatchesAttempt, AttemptsDistinct,
                        CompletedHasEffect, Bookkeeping, Holds
  <1>3. ASSUME Restart(w), crashes' \in 0..MaxCrashes
        PROVE  IInv'
    <2>1. TypeOK'
      BY <1>3 DEF Restart, TypeOK, Phase, Run
    <2>2. \A v \in Worker, j \in Job : run'[v][j] = IF v = w THEN "none" ELSE run[v][j]
      BY <1>3 DEF Restart, TypeOK
    <2>3. LeaseMatchesAttempt' /\ AttemptsDistinct' /\ CompletedHasEffect' /\ Bookkeeping'
      BY <1>3, <2>2 DEF Restart, LeaseMatchesAttempt, AttemptsDistinct,
                        CompletedHasEffect, Bookkeeping, Holds
    <2> QED
      BY <2>1, <2>3
  <1>4. CASE Crash(w)
    BY <1>3, <1>4 DEF Crash, TypeOK
  <1>5. CASE \E j \in Job : HeartbeatLost(w, j)
    BY <1>3, <1>5 DEF HeartbeatLost, TypeOK
  <1> QED
    BY <1>1, <1>2, <1>4, <1>5

(* Claiming a row: the number handed out is new, and whoever held the row no
   longer does.                                                               *)
LEMMA ClaimStep ==
    ASSUME IInv, NEW w \in Worker, NEW j \in Job, Claim(w, j)
    PROVE  IInv'
  <1> USE ProvisioningAssumption, NoneAssumption, AttemptsAssumption, BoundsAssumption
        DEF IInv, budget
  <1>1. attempts[j] + 1 \in 1..MaxAttempts
    BY DEF Claim, Claimable, TypeOK
  <1>2. TypeOK'
    BY <1>1 DEF Claim, TypeOK, Status, Run
  <1>3. /\ run'[w][j] = "claimed" /\ taken'[w][j] = attempts[j] + 1
        /\ seen'[w][j] = payload[j]
        /\ attempts'[j] = attempts[j] + 1 /\ owner'[j] = w /\ status'[j] = "leased"
    BY DEF Claim, TypeOK
  <1>4. \A v \in Worker, k \in Job : v # w \/ k # j =>
            /\ run'[v][k] = run[v][k]
            /\ taken'[v][k] = taken[v][k]
            /\ seen'[v][k] = seen[v][k]
    BY DEF Claim, TypeOK
  <1>5. \A k \in Job \ {j} : /\ attempts'[k] = attempts[k]
                             /\ owner'[k] = owner[k]
                             /\ status'[k] = status[k]
    BY DEF Claim, TypeOK
  <1>6. UNCHANGED <<payload, effects>>
    BY DEF Claim
  <1>7. LeaseMatchesAttempt'
    BY <1>3, <1>4, <1>5, <1>6 DEF LeaseMatchesAttempt, Holds
  <1>8. Bookkeeping'
    <2> SUFFICES ASSUME NEW v \in Worker, NEW k \in Job, run'[v][k] # "none"
                 PROVE  /\ taken'[v][k] >= 1
                        /\ k \notin Provisioning => taken'[v][k] <= attempts'[k]
                        /\ run'[v][k] = "handled" => taken'[v][k] \in effects'[k]
      BY DEF Bookkeeping
    <2>1. CASE v = w /\ k = j
      BY <2>1, <1>1, <1>3 DEF TypeOK
    <2>2. CASE v # w \/ k # j
      <3>1. attempts[k] <= attempts'[k]
        BY <1>3, <1>5, SMTT(30) DEF TypeOK
      <3>2. attempts[k] \in Nat /\ attempts'[k] \in Nat /\ taken[v][k] \in Nat
        BY <1>2 DEF TypeOK
      <3> QED
        BY <2>2, <3>1, <3>2, <1>4, <1>6 DEF Bookkeeping
    <2> QED
      BY <2>1, <2>2
  <1>9. AttemptsDistinct'
    <2> SUFFICES ASSUME NEW u \in Worker, NEW v \in Worker, NEW k \in Job \ Provisioning,
                        u # v, run'[u][k] # "none", run'[v][k] # "none"
                 PROVE  taken'[u][k] # taken'[v][k]
      BY DEF AttemptsDistinct
    <2>1. CASE k = j /\ u = w
      BY <2>1, <1>3, <1>4 DEF Bookkeeping, TypeOK
    <2>2. CASE k = j /\ v = w
      BY <2>2, <1>3, <1>4 DEF Bookkeeping, TypeOK
    <2>3. CASE k # j \/ (u # w /\ v # w)
      BY <2>3, <1>4 DEF AttemptsDistinct
    <2> QED
      BY ONLY <2>1, <2>2, <2>3
  <1>10. CompletedHasEffect'
    BY <1>3, <1>5, <1>6 DEF CompletedHasEffect
  <1> QED
    BY <1>2, <1>7, <1>8, <1>9, <1>10

(* The recovery of a provisioning row: it takes the row from everybody. *)
LEMMA RepairStep ==
    ASSUME IInv, NEW w \in Worker, NEW j \in Job, RepairRow(w, j)
    PROVE  IInv'
  <1> USE ProvisioningAssumption, NoneAssumption, AttemptsAssumption, BoundsAssumption
        DEF IInv, row, budget
  <1>1. j \in Provisioning
    BY DEF RepairRow, TypeOK
  <1>2. TypeOK'
    <2>1. repair' \in [Worker -> SUBSET Provisioning]
      BY DEF RepairRow, TypeOK
    <2>2. CASE LeaseActive(j)
      BY <2>1, <2>2 DEF RepairRow, TypeOK
    <2>3. CASE ~LeaseActive(j)
      <3>1. attempts' \in [Job -> 0..MaxAttempts]
        BY <2>3 DEF RepairRow, TypeOK
      <3>2. /\ status' \in [Job -> Status] /\ owner' \in [Job -> Worker \cup {None}]
            /\ leased' \in [Job -> BOOLEAN] /\ due' \in [Job -> BOOLEAN]
        BY <2>3 DEF RepairRow, TypeOK, Status
      <3>3. UNCHANGED <<payload, phase, run, taken, seen, effects, crashes, stalls>>
        BY <2>3 DEF RepairRow
      <3> QED
        BY <2>1, <3>1, <3>2, <3>3 DEF TypeOK
    <2> QED
      BY <2>2, <2>3
  <1>3. LeaseMatchesAttempt'
    BY DEF RepairRow, TypeOK, LeaseMatchesAttempt, Holds
  <1>4. AttemptsDistinct' /\ CompletedHasEffect'
    BY DEF RepairRow, TypeOK, AttemptsDistinct, CompletedHasEffect
  <1>5. Bookkeeping'
    BY <1>1 DEF RepairRow, TypeOK, Bookkeeping
  <1> QED
    BY <1>2, <1>3, <1>4, <1>5

(* Working on a claimed row. *)
LEMMA WorkStep ==
    ASSUME IInv, NEW w \in Worker, NEW j \in Job, Heartbeat(w, j) \/ Work(w, j)
    PROVE  IInv'
  <1> USE ProvisioningAssumption, NoneAssumption, AttemptsAssumption, BoundsAssumption
        DEF IInv, row, process, budget
  <1>1. CASE Heartbeat(w, j)
    BY <1>1 DEF Heartbeat, TypeOK, LeaseMatchesAttempt, AttemptsDistinct,
                CompletedHasEffect, Bookkeeping, Holds
  <1>2. ASSUME NEW next \in Run, Reach(w, j, next)
        PROVE  /\ run' \in [Worker -> [Job -> Run]]
               /\ run'[w][j] = next
               /\ \A v \in Worker, k \in Job : v # w \/ k # j => run'[v][k] = run[v][k]
    BY <1>2 DEF Reach, TypeOK
  <1>3. CASE FirstHeartbeat(w, j) \/ HandlerFails(w, j)
    <2>1. PICK next \in {"running", "failed", "refused"} : Reach(w, j, next)
      BY <1>3 DEF FirstHeartbeat, HandlerFails
    <2>2. /\ leased' \in [Job -> BOOLEAN]
          /\ run[w][j] # "none"
          /\ UNCHANGED <<status, attempts, owner, due, payload, phase, repair, taken, seen, effects, budget>>
      BY <1>3 DEF FirstHeartbeat, HandlerFails, TypeOK
    <2>3. next \in Run
      BY DEF Run
    <2>4. TypeOK'
      BY <2>1, <2>2, <2>3, <1>2 DEF TypeOK
    <2>5. \A v \in Worker, k \in Job :
             /\ run'[v][k] # "none" => run[v][k] # "none"
             /\ run'[v][k] = "handled" => run[v][k] = "handled"
      BY <2>1, <2>2, <2>3, <1>2
    <2>6. LeaseMatchesAttempt' /\ AttemptsDistinct'
      BY <2>2, <2>5 DEF LeaseMatchesAttempt, AttemptsDistinct, Holds
    <2>7. CompletedHasEffect' /\ Bookkeeping'
      BY <2>2, <2>5 DEF CompletedHasEffect, Bookkeeping
    <2> QED
      BY <2>4, <2>6, <2>7
  <1>4. CASE HandlerCommits(w, j)
    <2>1. taken[w][j] \in 1..MaxAttempts
      BY <1>4 DEF HandlerCommits, TypeOK, Bookkeeping
    <2>2. /\ effects' \in [Job -> SUBSET (1..MaxAttempts)]
          /\ taken[w][j] \in effects'[j]
          /\ \A k \in Job : effects[k] \subseteq effects'[k]
      BY <1>4, <2>1 DEF HandlerCommits, TypeOK
    <2>3. /\ run[w][j] = "running" /\ Reach(w, j, "handled") /\ "handled" \in Run
          /\ UNCHANGED <<row, phase, repair, taken, seen, budget>>
      BY <1>4 DEF HandlerCommits, Run
    <2>4. TypeOK'
      BY <2>2, <2>3, <1>2 DEF TypeOK
    <2>5. LeaseMatchesAttempt' /\ AttemptsDistinct'
      BY <2>3, <1>2 DEF LeaseMatchesAttempt, AttemptsDistinct, Holds
    <2>6. CompletedHasEffect'
      BY <2>2, <2>3 DEF CompletedHasEffect
    <2>7. Bookkeeping'
      BY <2>2, <2>3, <1>2 DEF Bookkeeping
    <2> QED
      BY <2>4, <2>5, <2>6, <2>7
  <1>5. ASSUME NEW to \in {"pending", "completed", "dead_letter"}, NEW again \in BOOLEAN,
               Settle(w, j, to, again), to = "completed" => run[w][j] = "handled"
        PROVE  IInv'
    <2>1. Reach(w, j, "none") /\ "none" \in Run
      BY <1>5 DEF Settle, Run
    <2>2. UNCHANGED <<attempts, payload, phase, repair, taken, seen, effects, budget>>
      BY <1>5 DEF Settle
    <2>3. TypeOK'
      <3>1. /\ status' \in [Job -> Status] /\ owner' \in [Job -> Worker \cup {None}]
            /\ leased' \in [Job -> BOOLEAN] /\ due' \in [Job -> BOOLEAN]
        <4>1. CASE Holds(w, j)
          BY <1>5, <4>1 DEF Settle, TypeOK, Status, Settled
        <4>2. CASE ~Holds(w, j)
          BY <1>5, <4>2 DEF Settle, TypeOK
        <4> QED
          BY <4>1, <4>2
      <3> QED
        BY <3>1, <2>1, <2>2, <1>2 DEF TypeOK
    <2>4. \A k \in Job, v \in Worker : Holds(v, k)' => Holds(v, k)
      BY <1>5 DEF Settle, Holds, TypeOK
    <2>5. LeaseMatchesAttempt' /\ AttemptsDistinct' /\ Bookkeeping'
      BY <2>1, <2>2, <2>4, <1>2 DEF LeaseMatchesAttempt, AttemptsDistinct, Bookkeeping
    <2>6. CompletedHasEffect'
      BY <1>5, <2>2 DEF Settle, TypeOK, CompletedHasEffect, Bookkeeping
    <2> QED
      BY <2>3, <2>5, <2>6
  <1>6. CASE Complete(w, j) \/ DeadLetter(w, j) \/ Retry(w, j)
    BY <1>5, <1>6 DEF Complete, DeadLetter, Retry, TypeOK
  <1> QED
    BY <1>1, <1>3, <1>4, <1>6 DEF Work

LEMMA StepPreserves == IInv /\ [Next]_vars => IInv'
  <1> SUFFICES ASSUME IInv, [Next]_vars PROVE IInv'
    OBVIOUS
  <1>1. CASE Next
    <2>1. ASSUME NEW j \in Job, NEW p \in Payload, Enqueue(j, p)
          PROVE  IInv'
      BY <2>1, OutsideStep
    <2>2. ASSUME NEW j \in Job, BecomesDue(j) \/ LeaseRunsOut(j) \/ Stall(j)
          PROVE  IInv'
      <3>1. payload[j] \in Payload
        BY DEF IInv, TypeOK
      <3> QED
        BY <2>2, <3>1, OutsideStep
    <2>3. ASSUME NEW w \in Worker,
                 \/ \E stuck \in SUBSET Provisioning : ScanRequests(w, stuck)
                 \/ EnterLoop(w) \/ StartBatch(w) \/ NextRound(w) \/ Crash(w)
          PROVE  IInv'
      BY <2>3, LoopStep
    <2>4. ASSUME NEW w \in Worker, NEW j \in Job,
                 RepairRow(w, j) \/ Claim(w, j) \/ Heartbeat(w, j) \/ Work(w, j) \/ HeartbeatLost(w, j)
          PROVE  IInv'
      BY <2>4, LoopStep, ClaimStep, RepairStep, WorkStep
    <2> QED
      BY <1>1, <2>1, <2>2, <2>3, <2>4 DEF Next
  <1>2. CASE UNCHANGED vars
    BY <1>2 DEF vars, IInv, TypeOK, LeaseMatchesAttempt, AttemptsDistinct,
                CompletedHasEffect, Bookkeeping, Holds
  <1> QED
    BY <1>1, <1>2

(* Every row and every worker's memory stay of their types. *)
THEOREM TypeCorrect == Spec => []TypeOK
  <1>1. IInv => TypeOK
    BY DEF IInv
  <1> QED
    BY <1>1, InitEstablishes, StepPreserves, PTL DEF Spec

(* A worker that still owns a lease works on the row's own attempt and payload:
   neither recovery nor a second enqueue changes a row under its owner.        *)
THEOREM LeaseSafety == Spec => []LeaseMatchesAttempt
  <1>1. IInv => LeaseMatchesAttempt
    BY DEF IInv
  <1> QED
    BY <1>1, InitEstablishes, StepPreserves, PTL DEF Spec

(* Two processes never run an ordinary row under the same attempt number. *)
THEOREM AttemptSafety == Spec => []AttemptsDistinct
  <1>1. IInv => AttemptsDistinct
    BY DEF IInv
  <1> QED
    BY <1>1, InitEstablishes, StepPreserves, PTL DEF Spec

(* No row is completed without the work of some attempt. *)
THEOREM CompletionSafety == Spec => []CompletedHasEffect
  <1>1. IInv => CompletedHasEffect
    BY DEF IInv
  <1> QED
    BY <1>1, InitEstablishes, StepPreserves, PTL DEF Spec

(* Which step settles a row, and who takes it. *)
LEMMA OnlyOwnersSettle ==
    ASSUME IInv, Next, NEW j \in Job, status'[j] # status[j], status'[j] \in Settled
    PROVE  \E w \in Worker :
              /\ Holds(w, j)
              /\ \/ status'[j] = "completed" /\ run[w][j] = "handled"
                 \/ status'[j] = "dead_letter" /\ run[w][j] \in {"failed", "refused"} /\ Dead(w, j)
  <1> USE DEF IInv, TypeOK, Settled, row
  <1>1. ~ \E k \in Job : \/ \E p \in Payload : Enqueue(k, p)
                        \/ BecomesDue(k) \/ LeaseRunsOut(k) \/ Stall(k)
    BY DEF Enqueue, BecomesDue, LeaseRunsOut, Stall
  <1>2. ~ \E w \in Worker :
            \/ \E stuck \in SUBSET Provisioning : ScanRequests(w, stuck)
            \/ EnterLoop(w) \/ StartBatch(w) \/ NextRound(w) \/ Crash(w)
            \/ \E k \in Job : HeartbeatLost(w, k)
    BY DEF ScanRequests, EnterLoop, StartBatch, NextRound, Crash, HeartbeatLost, Restart
  <1>3. ~ \E w \in Worker, k \in Job : RepairRow(w, k) \/ Claim(w, k) \/ Heartbeat(w, k)
    BY DEF RepairRow, Claim, Heartbeat, process
  <1>4. PICK w \in Worker, k \in Job : Work(w, k)
    BY <1>1, <1>2, <1>3 DEF Next
  <1>5. ~(FirstHeartbeat(w, k) \/ HandlerCommits(w, k) \/ HandlerFails(w, k))
    BY DEF FirstHeartbeat, HandlerCommits, HandlerFails
  <1>8. ~Retry(w, k)
    BY DEF Retry, Settle
  <1>6. CASE Complete(w, k)
    BY <1>6 DEF Complete, Settle
  <1>7. CASE DeadLetter(w, k)
    BY <1>7 DEF DeadLetter, Settle
  <1> QED
    BY <1>4, <1>5, <1>6, <1>7, <1>8 DEF Work

(* A completion is always that of the current attempt, on the row's payload. *)
THEOREM CompletionCurrency == Spec => CompletionIsCurrent
  <1>1. ASSUME IInv, [Next]_vars, NEW j \in Job,
               status[j] # "completed", status'[j] = "completed"
        PROVE  \E w \in Worker : /\ run[w][j] = "handled"
                                 /\ taken[w][j] = attempts[j]
                                 /\ seen[w][j] = payload[j]
    <2>1. PICK w \in Worker : Holds(w, j) /\ run[w][j] = "handled"
      BY <1>1, OnlyOwnersSettle DEF Settled, vars
    <2> QED
      BY <1>1, <2>1 DEF IInv, LeaseMatchesAttempt
  <1>2. IInv /\ [Next]_vars => CompletionIsCurrentStep
    BY <1>1 DEF CompletionIsCurrentStep
  <1> QED
    BY <1>2, InitEstablishes, StepPreserves, PTL DEF Spec, CompletionIsCurrent

(* A row is given up only by its owner, at its last attempt or refused for good. *)
THEOREM DeadLetterJustice == Spec => DeadLetterIsEarned
  <1>1. ASSUME IInv, [Next]_vars, NEW j \in Job,
               status[j] # "dead_letter", status'[j] = "dead_letter"
        PROVE  \/ attempts[j] = MaxAttempts
               \/ \E w \in Worker : Holds(w, j) /\ run[w][j] = "refused"
    <2>1. PICK w \in Worker : /\ Holds(w, j)
                              /\ run[w][j] \in {"failed", "refused"}
                              /\ Dead(w, j)
      BY <1>1, OnlyOwnersSettle DEF Settled, vars
    <2>2. taken[w][j] = attempts[j]
      BY <1>1, <2>1 DEF IInv, LeaseMatchesAttempt
    <2>3. attempts[j] \in 0..MaxAttempts
      BY <1>1 DEF IInv, TypeOK
    <2>4. run[w][j] # "refused" => attempts[j] = MaxAttempts
      BY <2>1, <2>2, <2>3, AttemptsAssumption DEF Dead
    <2> QED
      BY <2>1, <2>4
  <1>2. IInv /\ [Next]_vars => DeadLetterIsEarnedStep
    BY <1>1 DEF DeadLetterIsEarnedStep
  <1> QED
    BY <1>2, InitEstablishes, StepPreserves, PTL DEF Spec, DeadLetterIsEarned

(* A settled row that is not a provisioning row stays settled as it is. *)
THEOREM SettlementFinality == Spec => SettledIsFinal
  <1>1. ASSUME IInv, [Next]_vars, NEW j \in Job \ Provisioning, status[j] \in Settled
        PROVE  status'[j] = status[j]
    <2> USE DEF IInv, TypeOK, row, process, budget
    <2>1. CASE UNCHANGED vars
      BY <2>1 DEF vars
    <2>2. ASSUME NEW i \in Job, NEW p \in Payload,
                 Enqueue(i, p) \/ BecomesDue(i) \/ LeaseRunsOut(i) \/ Stall(i)
          PROVE  status'[j] = status[j]
      BY <1>1, <2>2 DEF Enqueue, BecomesDue, LeaseRunsOut, Stall, Settled
    <2>3. ASSUME NEW w \in Worker,
                 \/ \E stuck \in SUBSET Provisioning : ScanRequests(w, stuck)
                 \/ EnterLoop(w) \/ StartBatch(w) \/ NextRound(w) \/ Crash(w)
          PROVE  status'[j] = status[j]
      BY <2>3 DEF ScanRequests, EnterLoop, StartBatch, NextRound, Crash, Restart
    <2>4. ASSUME NEW w \in Worker, NEW i \in Job, RepairRow(w, i)
          PROVE  status'[j] = status[j]
      <3>1. i \in Provisioning
        BY <1>1, <2>4 DEF RepairRow
      <3> QED
        BY <1>1, <2>4, <3>1 DEF RepairRow
    <2>5. ASSUME NEW w \in Worker, NEW i \in Job, Claim(w, i)
          PROVE  status'[j] = status[j]
      BY <1>1, <2>5 DEF Claim, Claimable, Settled
    <2>6. ASSUME NEW w \in Worker, NEW i \in Job, Heartbeat(w, i) \/ HeartbeatLost(w, i)
          PROVE  status'[j] = status[j]
      BY <2>6 DEF Heartbeat, HeartbeatLost, Restart
    <2>7. ASSUME NEW w \in Worker, NEW i \in Job, NEW to, NEW again, Settle(w, i, to, again)
          PROVE  status'[j] = status[j]
      BY <1>1, <2>7 DEF Settle, Holds, Settled
    <2>8. ASSUME NEW w \in Worker, NEW i \in Job, Work(w, i)
          PROVE  status'[j] = status[j]
      <3>1. CASE FirstHeartbeat(w, i) \/ HandlerCommits(w, i) \/ HandlerFails(w, i)
        BY <3>1 DEF FirstHeartbeat, HandlerCommits, HandlerFails
      <3>2. CASE Complete(w, i) \/ DeadLetter(w, i) \/ Retry(w, i)
        BY <2>7, <3>2 DEF Complete, DeadLetter, Retry
      <3> QED
        BY <2>8, <3>1, <3>2 DEF Work
    <2>9. \A i \in Job : payload[i] \in Payload
      BY <1>1
    <2> QED
      BY <1>1, <2>1, <2>2, <2>3, <2>4, <2>5, <2>6, <2>8, <2>9 DEF Next
  <1>2. IInv /\ [Next]_vars => SettledIsFinalStep
    BY <1>1 DEF SettledIsFinalStep
  <1> QED
    BY <1>2, InitEstablishes, StepPreserves, PTL DEF Spec, SettledIsFinal

--------------------------------------------------------------------------------
(* The job runtime implements JobPromise, for every set of workers and rows and
   every number of crashes and stalls.                                        *)

\* What the runtime shows the caller: the variables of the instance Caller.
Shown == [j \in Job |-> PromiseOf(status[j])]
Worked == [j \in Job |-> effects[j] # {}]
ShownVars == <<Shown, attempts, Worked>>

(* A row that changes its status changes what is shown of it and nothing else. *)
LEMMA ShownMoves ==
    ASSUME TypeOK, NEW j \in Job, NEW to, status' = [status EXCEPT ![j] = to]
    PROVE  Shown' = [Shown EXCEPT ![j] = PromiseOf(to)]
  BY DEF TypeOK, Shown

LEMMA ShownStays ==
    ASSUME TypeOK, NEW j \in Job, NEW to, PromiseOf(status[j]) = PromiseOf(to),
           status' = [status EXCEPT ![j] = to]
    PROVE  Shown' = Shown
  <1>1. \A i \in Job : PromiseOf(status'[i]) = PromiseOf(status[i])
    BY DEF TypeOK
  <1> QED
    BY <1>1 DEF Shown

LEMMA ShownInit == Init => Caller!PromiseInit
  <1> SUFFICES ASSUME Init PROVE Caller!PromiseInit
    OBVIOUS
  <1>1. PromiseOf("absent") = "none"
    BY DEF PromiseOf
  <1> QED
    BY <1>1 DEF Init, Caller!PromiseInit

(* Callers and the clock: a row is accepted, or what is shown stays. *)
LEMMA OutsideShown ==
    ASSUME IInv, NEW j \in Job, NEW p \in Payload,
           Enqueue(j, p) \/ BecomesDue(j) \/ LeaseRunsOut(j) \/ Stall(j)
    PROVE  Caller!PromiseNext \/ UNCHANGED ShownVars
  <1> USE DEF IInv
  <1>1. CASE UNCHANGED <<status, attempts, effects>>
    BY <1>1 DEF ShownVars, Shown, Worked
  <1>2. CASE Enqueue(j, p) /\ status[j] = "absent"
    <2>1. status' = [status EXCEPT ![j] = "pending"] /\ UNCHANGED <<attempts, effects>>
      BY <1>2 DEF Enqueue
    <2>2. Shown' = [Shown EXCEPT ![j] = "waiting"] /\ Shown[j] = "none"
      BY <1>2, <2>1, ShownMoves DEF PromiseOf, Shown
    <2>3. Caller!Accept(j)
      BY <2>1, <2>2 DEF Caller!Accept, Caller!Becomes, Shown
    <2> QED
      BY <2>3 DEF Caller!PromiseNext
  <1> QED
    BY <1>1, <1>2 DEF Enqueue, BecomesDue, LeaseRunsOut, Stall, row, process, budget

(* The loop of a worker, its heartbeats and its end touch no row. *)
LEMMA LoopShown ==
    ASSUME NEW w \in Worker,
           \/ \E stuck \in SUBSET Provisioning : ScanRequests(w, stuck)
           \/ EnterLoop(w) \/ StartBatch(w) \/ NextRound(w) \/ Crash(w)
           \/ \E j \in Job : Heartbeat(w, j) \/ HeartbeatLost(w, j)
    PROVE  UNCHANGED ShownVars
  <1>1. UNCHANGED <<status, attempts, effects>>
    BY DEF ScanRequests, EnterLoop, StartBatch, NextRound, Crash, Heartbeat, HeartbeatLost, Restart, row
  <1> QED
    BY <1>1 DEF ShownVars, Shown, Worked

(* A claim starts a handler, of a row that is pending or whose lease ran out. *)
LEMMA ClaimShown ==
    ASSUME IInv, NEW w \in Worker, NEW j \in Job, Claim(w, j)
    PROVE  Caller!PromiseNext
  <1> USE DEF IInv
  <1>1. /\ status' = [status EXCEPT ![j] = "leased"] /\ status[j] \in {"pending", "leased"}
        /\ attempts[j] < MaxAttempts /\ attempts' = [attempts EXCEPT ![j] = @ + 1]
        /\ UNCHANGED effects
    BY DEF Claim, Claimable
  <1>2. PromiseOf(status[j]) = "waiting" /\ PromiseOf("leased") = "waiting"
    BY <1>1 DEF PromiseOf
  <1>3. Shown' = Shown /\ Worked' = Worked /\ Shown[j] = "waiting"
    BY <1>1, <1>2, ShownStays DEF Shown, Worked
  <1>4. Caller!Start(j)
    BY <1>1, <1>3 DEF Caller!Start, Shown, Worked
  <1> QED
    BY <1>4 DEF Caller!PromiseNext

(* Repair accepts, revives, or changes nothing that is shown. *)
LEMMA RepairShown ==
    ASSUME IInv, NEW w \in Worker, NEW j \in Job, RepairRow(w, j)
    PROVE  Caller!PromiseNext \/ UNCHANGED ShownVars
  <1> USE DEF IInv
  <1>1. j \in Provisioning /\ UNCHANGED effects /\ Worked' = Worked
    BY DEF RepairRow, TypeOK, Worked
  <1>2. CASE LeaseActive(j)
    BY <1>1, <1>2 DEF RepairRow, row, ShownVars, Shown
  <1>3. CASE ~LeaseActive(j)
    <2>1. /\ status' = [status EXCEPT ![j] = "pending"]
          /\ attempts' = [attempts EXCEPT ![j] = IF status[j] = "dead_letter" THEN 0 ELSE @]
      BY <1>3 DEF RepairRow
    <2>2. attempts \in [Job -> 0..MaxAttempts] /\ status[j] \in Status
      BY DEF TypeOK
    <2>3. PromiseOf("pending") = "waiting" /\ Shown[j] = PromiseOf(status[j])
      BY DEF PromiseOf, Shown
    <2>4. CASE status[j] \in {"pending", "leased"}
      <3>1. Shown' = Shown /\ attempts' = attempts
        BY <2>1, <2>2, <2>4, ShownStays DEF PromiseOf
      <3> QED
        BY <1>1, <3>1 DEF ShownVars
    <2>5. CASE status[j] = "absent"
      <3>1. Shown[j] = "none" /\ Shown' = [Shown EXCEPT ![j] = "waiting"] /\ attempts' = attempts
        BY <2>1, <2>2, <2>3, <2>5, ShownMoves DEF PromiseOf
      <3>2. Caller!Accept(j)
        BY <1>1, <3>1 DEF Caller!Accept, Caller!Becomes, Shown, Worked
      <3> QED
        BY <3>2 DEF Caller!PromiseNext
    <2>6. CASE status[j] = "completed"
      <3>1. Shown[j] = "done" /\ Shown' = [Shown EXCEPT ![j] = "waiting"] /\ attempts' = attempts
        BY <2>1, <2>2, <2>3, <2>6, ShownMoves DEF PromiseOf
      <3>2. Caller!Revive(j)
        BY <1>1, <3>1 DEF Caller!Revive, Caller!Becomes, Shown, Worked
      <3> QED
        BY <3>2 DEF Caller!PromiseNext
    <2>7. CASE status[j] = "dead_letter"
      <3>1. /\ Shown[j] = "given_up" /\ Shown' = [Shown EXCEPT ![j] = "waiting"]
            /\ attempts' = [attempts EXCEPT ![j] = 0]
        BY <2>1, <2>3, <2>7, ShownMoves DEF PromiseOf
      <3>2. Caller!Revive(j)
        BY <1>1, <3>1 DEF Caller!Revive, Caller!Becomes, Shown, Worked
      <3> QED
        BY <3>2 DEF Caller!PromiseNext
    <2> QED
      BY <2>2, <2>4, <2>5, <2>6, <2>7 DEF Status, Settled
  <1> QED
    BY <1>2, <1>3

(* Handlers run for rows that exist: a row never becomes absent again. *)
RowsExist == \A w \in Worker, j \in Job : run[w][j] # "none" => status[j] # "absent"

LEMMA RowsStay ==
    ASSUME IInv, RowsExist, [Next]_vars
    PROVE  RowsExist'
  <1> SUFFICES ASSUME NEW v \in Worker, NEW i \in Job, run'[v][i] # "none"
               PROVE  status'[i] # "absent"
    BY DEF RowsExist
  <1> USE DEF row, process, budget
  <1>t. run \in [Worker -> [Job -> Run]] /\ status \in [Job -> Status]
    BY DEF IInv, TypeOK
  <1>r. run[v][i] # "none" => status[i] # "absent"
    BY DEF RowsExist
  <1>1. ASSUME NEW j \in Job,
               \/ \E p \in Payload : Enqueue(j, p)
               \/ BecomesDue(j) \/ LeaseRunsOut(j) \/ Stall(j)
        PROVE  status'[i] # "absent"
    BY <1>1, <1>t, <1>r DEF Enqueue, BecomesDue, LeaseRunsOut, Stall
  <1>2. ASSUME NEW w \in Worker,
               \/ \E stuck \in SUBSET Provisioning : ScanRequests(w, stuck)
               \/ EnterLoop(w) \/ StartBatch(w) \/ NextRound(w) \/ Crash(w)
               \/ \E j \in Job : Heartbeat(w, j) \/ HeartbeatLost(w, j)
        PROVE  status'[i] # "absent"
    <2>1. UNCHANGED status /\ (run' = run \/ run' = [run EXCEPT ![w] = [j \in Job |-> "none"]])
      BY <1>2 DEF ScanRequests, EnterLoop, StartBatch, NextRound, Crash, Heartbeat, HeartbeatLost, Restart
    <2>2. run[v][i] # "none"
      BY <1>t, <2>1
    <2> QED
      BY <1>r, <2>1, <2>2
  <1>3. ASSUME NEW w \in Worker, NEW j \in Job, RepairRow(w, j)
        PROVE  status'[i] # "absent"
    BY <1>3, <1>t, <1>r DEF RepairRow
  <1>4. ASSUME NEW w \in Worker, NEW j \in Job, Claim(w, j)
        PROVE  status'[i] # "absent"
    <2>1. status' = [status EXCEPT ![j] = "leased"] /\ run' = [run EXCEPT ![w][j] = "claimed"]
      BY <1>4 DEF Claim
    <2> QED
      BY <1>t, <1>r, <2>1
  <1>5. ASSUME NEW w \in Worker, NEW j \in Job, Work(w, j)
        PROVE  status'[i] # "absent"
    <2>1. PICK to : run' = [run EXCEPT ![w][j] = to]
      BY <1>5 DEF Work, FirstHeartbeat, HandlerCommits, HandlerFails, Complete, DeadLetter, Retry, Settle, Reach
    <2>2. run[w][j] # "none"
      BY <1>5 DEF Work, FirstHeartbeat, HandlerCommits, HandlerFails, Complete, DeadLetter, Retry
    <2>3. run[v][i] # "none"
      BY <1>t, <2>1, <2>2
    <2>4. \/ UNCHANGED status
          \/ \E s \in {"completed", "dead_letter", "pending"} : status' = [status EXCEPT ![j] = s]
      BY <1>5 DEF Work, FirstHeartbeat, HandlerCommits, HandlerFails, Complete, DeadLetter, Retry, Settle
    <2> QED
      BY <1>t, <1>r, <2>3, <2>4
  <1>6. CASE UNCHANGED vars
    BY <1>6, <1>r DEF vars
  <1> QED
    BY <1>1, <1>2, <1>3, <1>4, <1>5, <1>6 DEF Next

(* The work of a handler, and the settlement of its row by its owner. *)
LEMMA WorkShown ==
    ASSUME IInv, RowsExist, NEW w \in Worker, NEW j \in Job, Work(w, j)
    PROVE  Caller!PromiseNext \/ UNCHANGED ShownVars
  <1> USE DEF IInv
  <1>1. CASE UNCHANGED <<status, attempts, effects>>
    BY <1>1 DEF ShownVars, Shown, Worked
  <1>2. CASE HandlerCommits(w, j)
    <2>1. effects' = [effects EXCEPT ![j] = @ \cup {taken[w][j]}] /\ UNCHANGED <<status, attempts>>
      BY <1>2 DEF HandlerCommits, row
    <2>2. Worked' = [Worked EXCEPT ![j] = TRUE] /\ Shown' = Shown
      BY <2>1 DEF TypeOK, Worked, Shown
    <2>3. status[j] \in Status /\ status[j] # "absent"
      BY <1>2 DEF HandlerCommits, RowsExist, TypeOK
    <2>4. Shown[j] # "none"
      BY <2>3 DEF Status, Settled, Shown, PromiseOf
    <2>5. Caller!CommitWork(j)
      BY <2>1, <2>2, <2>4 DEF Caller!CommitWork, Shown, Worked
    <2> QED
      BY <2>5 DEF Caller!PromiseNext
  <1>3. ASSUME NEW to, NEW again, Settle(w, j, to, again), Holds(w, j)
        PROVE  /\ status' = [status EXCEPT ![j] = to] /\ UNCHANGED <<attempts, effects>>
               /\ Worked' = Worked /\ Shown[j] = "waiting"
    BY <1>3 DEF Settle, Holds, Shown, PromiseOf, Worked
  <1>4. CASE Complete(w, j) /\ Holds(w, j)
    <2>1. Worked[j]
      BY <1>4 DEF Complete, Bookkeeping, Worked
    <2>2. Shown' = [Shown EXCEPT ![j] = "done"]
      BY <1>3, <1>4, ShownMoves DEF Complete, PromiseOf
    <2>3. Caller!Fulfil(j)
      BY <1>3, <1>4, <2>1, <2>2 DEF Complete, Caller!Fulfil, Caller!Becomes, Shown, Worked
    <2> QED
      BY <2>3 DEF Caller!PromiseNext
  <1>5. CASE DeadLetter(w, j) /\ Holds(w, j)
    <2>1. attempts[j] > 0
      <3>1. run[w][j] # "none"
        BY <1>5 DEF DeadLetter
      <3>2. taken[w][j] >= 1 /\ taken[w][j] = attempts[j]
        BY <1>5, <3>1 DEF Bookkeeping, LeaseMatchesAttempt
      <3>3. attempts[j] \in 0..MaxAttempts
        BY DEF TypeOK
      <3> QED
        BY <3>2, <3>3, AttemptsAssumption
    <2>2. Shown' = [Shown EXCEPT ![j] = "given_up"]
      BY <1>3, <1>5, ShownMoves DEF DeadLetter, PromiseOf
    <2>3. Caller!GiveUp(j)
      BY <1>3, <1>5, <2>1, <2>2 DEF DeadLetter, Caller!GiveUp, Caller!Becomes, Shown, Worked
    <2> QED
      BY <2>3 DEF Caller!PromiseNext
  <1>6. CASE Retry(w, j) /\ Holds(w, j)
    <2>1. PromiseOf(status[j]) = PromiseOf("pending")
      BY <1>6 DEF Holds, PromiseOf
    <2>2. Shown' = Shown
      BY <1>3, <1>6, <2>1, ShownStays DEF Retry
    <2> QED
      BY <1>3, <1>6, <2>2 DEF Retry, ShownVars
  <1>7. CASE ~Holds(w, j) /\ (Complete(w, j) \/ DeadLetter(w, j) \/ Retry(w, j))
    BY <1>1, <1>7 DEF Complete, DeadLetter, Retry, Settle
  <1>8. CASE FirstHeartbeat(w, j) \/ HandlerFails(w, j)
    BY <1>1, <1>8 DEF FirstHeartbeat, HandlerFails, row
  <1> QED
    BY <1>2, <1>4, <1>5, <1>6, <1>7, <1>8 DEF Work

(* Every step is a step of JobPromise or changes nothing that is shown. *)
LEMMA StepShown ==
    ASSUME IInv, RowsExist, [Next]_vars
    PROVE  Caller!PromiseNext \/ UNCHANGED ShownVars
  <1>1. ASSUME NEW j \in Job, NEW p \in Payload, Enqueue(j, p)
        PROVE  Caller!PromiseNext \/ UNCHANGED ShownVars
    BY <1>1, OutsideShown
  <1>2. ASSUME NEW j \in Job, BecomesDue(j) \/ LeaseRunsOut(j) \/ Stall(j)
        PROVE  Caller!PromiseNext \/ UNCHANGED ShownVars
    <2>1. payload[j] \in Payload
      BY DEF IInv, TypeOK
    <2> QED
      BY <1>2, <2>1, OutsideShown
  <1>3. ASSUME NEW w \in Worker,
               \/ \E stuck \in SUBSET Provisioning : ScanRequests(w, stuck)
               \/ EnterLoop(w) \/ StartBatch(w) \/ NextRound(w) \/ Crash(w)
               \/ \E j \in Job : Heartbeat(w, j) \/ HeartbeatLost(w, j)
        PROVE  UNCHANGED ShownVars
    BY <1>3, LoopShown
  <1>4. ASSUME NEW w \in Worker, NEW j \in Job, RepairRow(w, j) \/ Claim(w, j) \/ Work(w, j)
        PROVE  Caller!PromiseNext \/ UNCHANGED ShownVars
    BY <1>4, RepairShown, ClaimShown, WorkShown
  <1>5. CASE UNCHANGED vars
    BY <1>5 DEF vars, ShownVars, Shown, Worked
  <1> QED
    BY <1>1, <1>2, <1>3, <1>4, <1>5 DEF Next

(* The runtime keeps what it promises: it implements JobPromise. *)
THEOREM PromiseKept == Spec => KeepsPromise
  <1>1. Init => Caller!PromiseInit /\ IInv /\ RowsExist
    BY ShownInit, InitEstablishes DEF Init, RowsExist
  <1>2. IInv /\ RowsExist /\ [Next]_vars => IInv' /\ RowsExist'
    BY StepPreserves, RowsStay
  <1>3. IInv /\ RowsExist /\ [Next]_vars => [Caller!PromiseNext]_(Caller!promiseVars)
    BY StepShown DEF ShownVars, Shown, Worked, Caller!promiseVars
  <1> QED
    BY <1>1, <1>2, <1>3, PTL DEF Spec, KeepsPromise, Caller!PromiseSpec
===============================================================================
