---------------------------- MODULE Worker_proofs ----------------------------
(***************************************************************************)
(* Proofs about the workers, for any number of workers, jobs and types and *)
(* any limits: the parts of WInv one after the other, each from the parts  *)
(* before it.                                                              *)
(***************************************************************************)
EXTENDS Worker, JobTable_proofs, FiniteSetTheorems, SequenceTheorems

-----------------------------------------------------------------------------
(* Typing                                                                  *)

\* The statements the workers execute on the table keep it well formed; the arguments
\* are those of forkJobProcessing and handleJobFailure.
LEMMA WrittenTable ==
  ASSUME TableTypeOK, NEW j \in Jobs,
         NEW status \in Terminal, NEW result \in {"valid", "invalid", Undefined},
         NEW error \in {"handler", "defect", Undefined},
         jobs' = StatusUpdated(j, status, result, error)
  PROVE  /\ TableTypeOK'
         /\ jobs'[j].status = status
         /\ jobs'[j].result = IF result = Undefined THEN jobs[j].result ELSE result
         /\ \A i \in Jobs : /\ i # j => jobs'[i] = jobs[i]
                            /\ jobs'[i].type = jobs[i].type
                            /\ jobs'[i].stamp = jobs[i].stamp
<1>1. /\ status \in JobStatus
      /\ result \in Results \union {Undefined}
      /\ error \in Errors \union {Undefined}
  BY DEF JobStatus, Results, Errors
<1>. QED  BY <1>1, StatusUpdatedRow DEF TableTypeOK

LEMMA ClaimedTable ==
  ASSUME TableTypeOK, NEW t \in Types, NEW j \in Oldest(t), jobs' = Claimed(j)
  PROVE  /\ TableTypeOK'
         /\ j \in Jobs
         /\ jobs[j].status = "pending"
         /\ jobs'[j].status = "processing"
         /\ jobs'[j].result = jobs[j].result
         /\ \A i \in Jobs : /\ i # j => jobs'[i] = jobs[i]
                            /\ jobs'[i].type = jobs[i].type
                            /\ jobs'[i].stamp = jobs[i].stamp
<1>1. j \in Jobs /\ jobs[j].status = "pending"
  BY DEF Oldest, Pending
<1>2. jobs[j] \in Row
  BY <1>1 DEF TableTypeOK
<1>3. /\ jobs' \in [Jobs -> Row]
      /\ jobs'[j] = [jobs[j] EXCEPT !.status = "processing", !.age = 0]
      /\ \A i \in Jobs : i # j => jobs'[i] = jobs[i]
  BY <1>1, ClaimedRow
<1>4. /\ jobs'[j].status = "processing"
      /\ jobs'[j].result = jobs[j].result
      /\ jobs'[j].type = jobs[j].type
      /\ jobs'[j].stamp = jobs[j].stamp
  BY <1>2, <1>3 DEF Row
<1>. QED  BY <1>1, <1>3, <1>4 DEF TableTypeOK

LEMMA EnqueuedTable ==
  ASSUME TypeOK, NEW j \in Jobs, Enqueue(j)
  PROVE  /\ TableTypeOK'
         /\ jobs[j].status = "absent"
         /\ jobs'[j].status = "pending"
         /\ \A i \in Jobs : i # j => jobs'[i] = jobs[i]
<1>1. PICK t \in Types, u \in Users, s \in 1..MaxStamp : jobs' = Inserted(j, t, u, s)
  BY DEF Enqueue, NextStamp
<1>2. /\ jobs' \in [Jobs -> Row]
      /\ jobs'[j] = NewRow(t, u, s)
      /\ \A i \in Jobs : i # j => jobs'[i] = jobs[i]
  <2>1. TableTypeOK
    BY DEF TypeOK
  <2>. QED  BY <1>1, <2>1, InsertedRow
<1>. QED  BY <1>2 DEF Enqueue, NewRow, TableTypeOK

LEMMA SweptTable ==
  ASSUME TableTypeOK, jobs' = StaleFailed
  PROVE  /\ TableTypeOK'
         /\ \A i \in Jobs : i \notin Stale => jobs'[i] = jobs[i]
         /\ \A i \in Stale : jobs[i].status = "processing" /\ jobs'[i].status = "failed"
         /\ \A i \in Jobs : /\ jobs'[i].type = jobs[i].type
                            /\ jobs'[i].stamp = jobs[i].stamp
BY StaleFailedRow DEF TableTypeOK

LEMMA AgedTable ==
  ASSUME TableTypeOK, jobs' = Aged
  PROVE  /\ TableTypeOK'
         /\ \A i \in Jobs : /\ jobs'[i].status = jobs[i].status
                            /\ jobs'[i].result = jobs[i].result
                            /\ jobs'[i].type = jobs[i].type
                            /\ jobs'[i].stamp = jobs[i].stamp
BY AgedRow DEF TableTypeOK

LEMMA InitTyped == Init => TypeOK
<1>1. 0 \in 0..MaxConcurrent /\ 0 \in 0..(CheckEveryNPolls - 1) /\ 0 \in 0..MaxFaults /\ 0 \in 0..MaxExits
  BY WorkerAssumption
<1>2. <<>> \in Seq(Types)
  OBVIOUS
<1>. QED  BY <1>1, <1>2, InitialTable DEF Init, TypeOK, LoopStates, StopStates, FiberStates, LiveStates, Events

\* Every step of a fiber leaves the loops alone and ends or moves on that fiber.
LEMMA FiberTyped ==
  ASSUME TypeOK, NEW j \in Jobs, FiberStep, TableTypeOK',
         End(j) \/ \E state \in LiveStates : Become(j, state),
         announced' = announced \/ \E e \in Events : Announce(j, e),
         disturbed' = disturbed \/ Disturb({j}),
         faults' = faults \/ Fault
  PROVE  TypeOK'
<1>1. fiber' \in [Jobs -> FiberStates] /\ activeJobs' \in [Workers -> Int]
  <2>1. CASE End(j)
    <3>1. fiber' \in [Jobs -> FiberStates]
      BY <2>1 DEF End, TypeOK, FiberStates
    <3>2. activeJobs \in [Workers -> Int] /\ activeJobs' = [activeJobs EXCEPT ![owner[j]] = @ - 1]
      BY <2>1 DEF End, TypeOK
    <3>3. activeJobs' = [w \in Workers |-> IF w = owner[j] THEN activeJobs[w] - 1 ELSE activeJobs[w]]
      BY <3>2
    <3>4. \A w \in Workers : activeJobs[w] \in Int /\ activeJobs[w] - 1 \in Int
      BY <3>2
    <3>. QED  BY <3>1, <3>3, <3>4
  <2>2. CASE \E state \in LiveStates : Become(j, state)
    BY <2>2 DEF Become, TypeOK, FiberStates
  <2>. QED  BY <2>1, <2>2
<1>2. announced' \in [Jobs -> Events]
  BY DEF TypeOK, Announce
<1>3. disturbed' \subseteq Jobs
  BY DEF TypeOK, Disturb
<1>4. faults' \in 0..MaxFaults
  BY WorkerAssumption DEF TypeOK, Fault
<1>. QED  BY <1>1, <1>2, <1>3, <1>4 DEF FiberStep, loopVars, TypeOK

\* What the actions of a fiber have in common, and the statement each one executes.
LEMMA SettleShape ==
  ASSUME NEW j \in Jobs, Settle(j)
  PROVE  /\ fiber[j] \in LiveStates
         /\ FiberStep
         /\ \/ UNCHANGED jobs
            \/ \E status \in Terminal, result \in {"valid", "invalid", Undefined},
                  error \in {"handler", "defect", Undefined} :
                  jobs' = StatusUpdated(j, status, result, error)
         /\ End(j) \/ \E state \in LiveStates : Become(j, state)
         /\ announced' = announced \/ \E e \in Events : Announce(j, e)
         /\ disturbed' = disturbed \/ Disturb({j})
         /\ faults' = faults \/ Fault
<1>. USE DEF LiveStates, Terminal, Events
<1>1. CASE Complete(j)
  BY <1>1 DEF Complete
<1>2. CASE HandlerFails(j)
  BY <1>2 DEF HandlerFails
<1>3. CASE CompleteFaults(j)
  BY <1>3 DEF CompleteFaults
<1>4. CASE NotifyCompleted(j)
  BY <1>4 DEF NotifyCompleted
<1>5. CASE NotifyCompletedDies(j)
  BY <1>5 DEF NotifyCompletedDies
<1>6. CASE MarkFailed(j)
  BY <1>6 DEF MarkFailed
<1>7. CASE MarkFailedFaults(j)
  BY <1>7 DEF MarkFailedFaults
<1>8. CASE NotifyFailed(j)
  BY <1>8 DEF NotifyFailed
<1>9. CASE NotifyFailedDies(j)
  BY <1>9 DEF NotifyFailedDies
<1>. QED  BY <1>1, <1>2, <1>3, <1>4, <1>5, <1>6, <1>7, <1>8, <1>9 DEF Settle

LEMMA LiveFinite ==
  ASSUME NEW w \in Workers
  PROVE  IsFiniteSet(Live(w)) /\ Cardinality(Live(w)) \in Nat
<1>1. Live(w) \subseteq Jobs
  BY DEF Live
<1>. QED  BY <1>1, WorkerAssumption, FS_Subset, FS_CardinalityType

LEMMA ActiveIsNat ==
  ASSUME ActiveIsFibers, NEW w \in Workers, pc[w] # "down"
  PROVE  activeJobs[w] \in Nat
BY LiveFinite DEF ActiveIsFibers

LEMMA TypeStep ==
  ASSUME TypeOK, LoopWellFormed, ActiveIsFibers, [Next]_vars
  PROVE  TypeOK'
<1>t. TableTypeOK /\ (TableTypeOK <=> jobs \in [Jobs -> Row])
  BY DEF TypeOK, TableTypeOK
<1>1. ASSUME NEW j \in Jobs, Enqueue(j)
      PROVE  TypeOK'
  BY <1>1, EnqueuedTable DEF Enqueue, loopVars, fiberVars, TypeOK
<1>2. CASE Tick
  BY <1>t, <1>2, AgedTable DEF Tick, loopVars, fiberVars, TypeOK
<1>3. ASSUME NEW j \in Jobs, Settle(j)
      PROVE  TypeOK'
  <2>1. TableTypeOK'
    <3>1. CASE UNCHANGED jobs
      BY <1>t, <3>1 DEF TableTypeOK
    <3>2. CASE \E status \in Terminal, result \in {"valid", "invalid", Undefined},
                 error \in {"handler", "defect", Undefined} :
                 jobs' = StatusUpdated(j, status, result, error)
      BY <1>t, <3>2, WrittenTable
    <3>. QED  BY <1>3, <3>1, <3>2, SettleShape
  <2>. QED  BY <1>3, <2>1, FiberTyped, SettleShape
<1>4. ASSUME NEW j \in Jobs, Interrupt(j)
      PROVE  TypeOK'
  BY <1>t, <1>4, FiberTyped DEF Interrupt, TableTypeOK
<1>5. ASSUME NEW w \in Workers, Start(w)
      PROVE  TypeOK'
  BY <1>5, WorkerAssumption DEF Start, TypeOK, TableTypeOK, LoopStates
<1>6. ASSUME NEW w \in Workers, Poll(w)
      PROVE  TypeOK'
  <2>1. /\ pc' \in [Workers -> LoopStates \union StopStates \union {"down"}]
        /\ slots' \in [Workers -> 0..MaxConcurrent]
        /\ todo' \in [Workers -> Seq(Types)]
    <3>. DEFINE capacity == MaxConcurrent - activeJobs[w]
    <3>1. CASE capacity <= 0
      BY <1>6, <3>1 DEF Poll, TypeOK, LoopStates
    <3>2. CASE ~(capacity <= 0)
      <4>1. AfterClaim(JobTypes, capacity) \in LoopStates
        BY DEF AfterClaim, LoopStates
      <4>2. JobTypes \in Seq(Types)
        BY WorkerAssumption
      <4>3. capacity \in 0..MaxConcurrent
        <5>1. activeJobs[w] \in Nat
          BY <1>6, ActiveIsNat DEF Poll
        <5>. QED  BY <3>2, <5>1, WorkerAssumption
      <4>4. /\ pc' = [pc EXCEPT ![w] = AfterClaim(JobTypes, capacity)]
            /\ slots' = [slots EXCEPT ![w] = capacity]
            /\ todo' = [todo EXCEPT ![w] = JobTypes]
        BY <1>6, <3>2 DEF Poll
      <4>. HIDE DEF capacity
      <4>. QED  BY <4>1, <4>2, <4>3, <4>4 DEF TypeOK
    <3>. QED  BY <3>1, <3>2
  <2>. QED  BY <1>6, <2>1 DEF Poll, fiberVars, TypeOK, TableTypeOK
<1>7. ASSUME NEW w \in Workers, Claim(w)
      PROVE  TypeOK'
  <2>1. /\ todo[w] \in Seq(Types) /\ todo[w] # <<>>
        /\ Head(todo[w]) \in Types /\ Tail(todo[w]) \in Seq(Types)
    BY <1>7, HeadTailProperties DEF Claim, LoopWellFormed, TypeOK
  <2>2. TableTypeOK' /\ got' \in [Workers -> Jobs \union {NoJob}]
    <3>1. \/ UNCHANGED <<jobs, got>>
          \/ \E j \in Oldest(Head(todo[w])) :
               jobs' = Claimed(j) /\ (got' = [got EXCEPT ![w] = j] \/ UNCHANGED got)
      BY <1>7 DEF Claim
    <3>2. CASE UNCHANGED <<jobs, got>>
      BY <1>t, <3>2 DEF TypeOK, TableTypeOK
    <3>3. ASSUME NEW j \in Oldest(Head(todo[w])), jobs' = Claimed(j),
                 got' = [got EXCEPT ![w] = j] \/ UNCHANGED got
          PROVE  TableTypeOK' /\ got' \in [Workers -> Jobs \union {NoJob}]
      <4>1. TableTypeOK' /\ j \in Jobs
        BY <1>t, <2>1, <3>3, ClaimedTable
      <4>. QED  BY <3>3, <4>1 DEF TypeOK
    <3>. QED  BY <3>1, <3>2, <3>3
  <2>3. pc' \in [Workers -> LoopStates \union StopStates \union {"down"}]
    BY <1>7 DEF Claim, AfterClaim, TypeOK, LoopStates
  <2>4. todo' \in [Workers -> Seq(Types)]
    BY <1>7, <2>1 DEF Claim, TypeOK
  <2>5. faults' \in 0..MaxFaults
    BY <1>7, WorkerAssumption DEF Claim, Fault, TypeOK
  <2>. QED  BY <1>7, <2>2, <2>3, <2>4, <2>5 DEF Claim, fiberVars, TypeOK
<1>8. ASSUME NEW w \in Workers, Fork(w)
      PROVE  TypeOK'
  <2>1. got[w] \in Jobs /\ slots[w] - 1 \in 0..MaxConcurrent
    BY <1>8, WorkerAssumption DEF Fork, LoopWellFormed, TypeOK
  <2>2. /\ pc' \in [Workers -> LoopStates \union StopStates \union {"down"}]
        /\ slots' \in [Workers -> 0..MaxConcurrent]
        /\ got' \in [Workers -> Jobs \union {NoJob}]
    BY <1>8, <2>1 DEF Fork, AfterClaim, TypeOK, LoopStates
  <2>3. /\ activeJobs' \in [Workers -> Int]
        /\ fiber' \in [Jobs -> FiberStates]
        /\ owner' \in [Jobs -> Workers \union {NoWorker}]
        /\ runs' \in [Jobs -> Nat]
    BY <1>8, <2>1 DEF Fork, TypeOK, FiberStates, LiveStates
  <2>. QED  BY <1>8, <2>2, <2>3 DEF Fork, TypeOK, TableTypeOK
<1>9. ASSUME NEW w \in Workers, Cycle(w)
      PROVE  TypeOK'
  <2>1. (polls[w] + 1) % CheckEveryNPolls \in 0..(CheckEveryNPolls - 1)
    BY WorkerAssumption DEF TypeOK
  <2>. QED  BY <1>9, <2>1 DEF Cycle, fiberVars, TypeOK, TableTypeOK, LoopStates
<1>10. ASSUME NEW w \in Workers, Reap(w)
       PROVE  TypeOK'
  <2>1. TableTypeOK'
    BY <1>t, <1>10, SweptTable DEF Reap, TableTypeOK
  <2>2. disturbed' \subseteq Jobs /\ faults' \in 0..MaxFaults
    BY <1>10, WorkerAssumption DEF Reap, Disturb, Stale, Fault, TypeOK
  <2>. QED  BY <1>10, <2>1, <2>2 DEF Reap, fiberVars, TypeOK, LoopStates
<1>11. ASSUME NEW w \in Workers, Stop(w)
       PROVE  TypeOK'
  BY <1>11, WorkerAssumption DEF Stop, Exit, fiberVars, TypeOK, TableTypeOK, StopStates
<1>12. ASSUME NEW w \in Workers, Shutdown(w)
       PROVE  TypeOK'
  BY <1>12 DEF Shutdown, ScopeClosed, Drain, fiberVars, TypeOK, TableTypeOK, StopStates
<1>13. ASSUME NEW w \in Workers, Crash(w)
       PROVE  TypeOK'
  BY <1>13, WorkerAssumption DEF Crash, Exit, TypeOK, TableTypeOK, FiberStates
<1>14. CASE UNCHANGED vars
  BY <1>14 DEF vars, loopVars, fiberVars, TypeOK, TableTypeOK
<1>. QED
  BY <1>1, <1>2, <1>3, <1>4, <1>5, <1>6, <1>7, <1>8, <1>9, <1>10, <1>11, <1>12, <1>13, <1>14
  DEF Next, Loop

-----------------------------------------------------------------------------
(* Whose hands a job is in                                                 *)

\* What a step may do to the status of a row: only the INSERT makes one pending, only a
\* claim takes one out of pending, and only fibers and the reaper settle one.
LEMMA StatusStep ==
  ASSUME TypeOK, LoopWellFormed, [Next]_vars
  PROVE  \A i \in Jobs : jobs'[i].status # jobs[i].status =>
           \/ jobs[i].status = "absent" /\ jobs'[i].status = "pending" /\ Enqueue(i)
           \/ jobs[i].status = "pending" /\ jobs'[i].status = "processing"
                /\ \E w \in Workers : Claim(w)
           \/ jobs[i].status = "processing" /\ jobs'[i].status = "failed" /\ i \in disturbed'
           \/ Settle(i) /\ jobs'[i].status \in Terminal
<1>. DEFINE Goal ==
       \A i \in Jobs : jobs'[i].status # jobs[i].status =>
           \/ jobs[i].status = "absent" /\ jobs'[i].status = "pending" /\ Enqueue(i)
           \/ jobs[i].status = "pending" /\ jobs'[i].status = "processing"
                /\ \E w \in Workers : Claim(w)
           \/ jobs[i].status = "processing" /\ jobs'[i].status = "failed" /\ i \in disturbed'
           \/ Settle(i) /\ jobs'[i].status \in Terminal
<1>t. TableTypeOK
  BY DEF TypeOK
<1>1. ASSUME NEW j \in Jobs, Enqueue(j)
      PROVE  Goal
  BY <1>1, EnqueuedTable
<1>2. CASE Tick
  BY <1>t, <1>2, AgedTable DEF Tick
<1>3. ASSUME NEW j \in Jobs, Settle(j)
      PROVE  Goal
  <2>1. CASE UNCHANGED jobs
    BY <2>1
  <2>2. ASSUME NEW status \in Terminal, NEW result \in {"valid", "invalid", Undefined},
               NEW error \in {"handler", "defect", Undefined},
               jobs' = StatusUpdated(j, status, result, error)
        PROVE  Goal
    <3>1. jobs'[j].status = status /\ \A i \in Jobs : i # j => jobs'[i] = jobs[i]
      BY <1>t, <2>2, WrittenTable
    <3>. QED  BY <1>3, <3>1
  <2>. QED  BY <1>3, <2>1, <2>2, SettleShape
<1>4. ASSUME NEW w \in Workers, Claim(w)
      PROVE  Goal
  <2>1. Head(todo[w]) \in Types
    BY <1>4, HeadTailProperties DEF Claim, LoopWellFormed, TypeOK
  <2>2. UNCHANGED jobs \/ \E j \in Oldest(Head(todo[w])) : jobs' = Claimed(j)
    BY <1>4 DEF Claim
  <2>. QED  BY <1>t, <1>4, <2>1, <2>2, ClaimedTable
<1>5. ASSUME NEW w \in Workers, Reap(w)
      PROVE  Goal
  BY <1>t, <1>5, SweptTable DEF Reap, Disturb
<1>6. CASE UNCHANGED jobs
  BY <1>6
<1>. QED
  BY <1>1, <1>2, <1>3, <1>4, <1>5, <1>6
  DEF Next, Loop, Shutdown, Interrupt, Start, Poll, Fork, Cycle, Stop, ScopeClosed, Drain, Crash, vars

LEMMA HandsStep ==
  ASSUME TypeOK, TypeOK', LoopWellFormed, GotDistinct, Untouched, [Next]_vars
  PROVE  LoopWellFormed' /\ GotDistinct' /\ Untouched'
<1>. DEFINE Goal == LoopWellFormed' /\ GotDistinct' /\ Untouched'
            Free(i) == jobs[i].status \in {"pending", "absent"}
<1>s. \A i \in Jobs : Free(i)' => Free(i)
  BY StatusStep DEF Terminal
<1>1. ASSUME UNCHANGED <<pc, slots, todo, got, fiber, owner, runs>>
      PROVE  Goal
  BY <1>1, <1>s DEF LoopWellFormed, GotDistinct, Untouched
<1>2. ASSUME NEW j \in Jobs, Settle(j) \/ Interrupt(j)
      PROVE  Goal
  <2>1. /\ fiber[j] # "none" /\ fiber'[j] # "none"
        /\ \A i \in Jobs : i # j => fiber'[i] = fiber[i]
        /\ UNCHANGED <<pc, slots, todo, got, owner, runs>>
    <3>1. /\ fiber[j] \in LiveStates
          /\ FiberStep
          /\ End(j) \/ \E state \in LiveStates : Become(j, state)
      BY <1>2, SettleShape DEF Interrupt
    <3>2. \E state \in LiveStates \union {"ended"} : fiber' = [fiber EXCEPT ![j] = state]
      BY <3>1 DEF End, Become
    <3>. QED  BY <3>1, <3>2 DEF FiberStep, loopVars, TypeOK, LiveStates
  <2>2. LoopWellFormed' /\ GotDistinct'
    BY <1>s, <2>1 DEF LoopWellFormed, GotDistinct
  <2>3. Untouched'
    BY <1>s, <2>1 DEF Untouched
  <2>. QED  BY <2>2, <2>3
<1>3. ASSUME NEW w \in Workers, UNCHANGED <<fiber, owner, runs>>,
             \A v \in Workers : v # w =>
               pc'[v] = pc[v] /\ slots'[v] = slots[v] /\ todo'[v] = todo[v] /\ got'[v] = got[v],
             pc'[w] = "claim" => todo'[w] # <<>> /\ slots'[w] >= 1,
             pc'[w] # "fork"
      PROVE  Goal
  <2>1. LoopWellFormed'
    BY <1>3, <1>s DEF LoopWellFormed
  <2>2. GotDistinct' /\ Untouched'
    BY <1>3, <1>s DEF GotDistinct, Untouched
  <2>. QED  BY <2>1, <2>2
<1>4. ASSUME NEW w \in Workers, Poll(w)
      PROVE  Goal
  <2>1. /\ pc'[w] = "claim" => todo'[w] # <<>> /\ slots'[w] >= 1
        /\ pc'[w] # "fork"
    <3>. DEFINE capacity == MaxConcurrent - activeJobs[w]
    <3>1. CASE capacity <= 0
      BY <1>4, <3>1 DEF Poll, TypeOK
    <3>2. CASE ~(capacity <= 0)
      <4>1. capacity >= 1
        BY <3>2, WorkerAssumption DEF TypeOK
      <4>. QED  BY <1>4, <3>2, <4>1 DEF Poll, AfterClaim, TypeOK
    <3>. QED  BY <3>1, <3>2
  <2>. QED  BY <1>3, <1>4, <2>1 DEF Poll, fiberVars, TypeOK
<1>5. ASSUME NEW w \in Workers, Claim(w)
      PROVE  Goal
  <2>1. CASE pc'[w] # "fork"
    <3>1. pc'[w] = "claim" => todo'[w] # <<>> /\ slots'[w] >= 1
      BY <1>5, <2>1 DEF Claim, AfterClaim, LoopWellFormed, TypeOK
    <3>2. got' = got \/ \E j \in Jobs : got' = [got EXCEPT ![w] = j]
      BY <1>5 DEF Claim, Oldest, Pending
    <3>. QED  BY <1>3, <1>5, <2>1, <3>1, <3>2 DEF Claim, fiberVars, TypeOK
  <2>2. CASE pc'[w] = "fork"
    <3>1. PICK j \in Oldest(Head(todo[w])) : jobs' = Claimed(j) /\ got' = [got EXCEPT ![w] = j]
      BY <1>5, <2>2 DEF Claim, AfterClaim, TypeOK
    <3>2. /\ j \in Jobs /\ jobs[j].status = "pending" /\ jobs'[j].status = "processing"
          /\ fiber[j] = "none"
      <4>1. Head(todo[w]) \in Types
        BY <1>5, HeadTailProperties DEF Claim, LoopWellFormed, TypeOK
      <4>2. j \in Jobs /\ jobs[j].status = "pending" /\ jobs'[j].status = "processing"
        BY <3>1, <4>1, ClaimedTable DEF TypeOK
      <4>. QED  BY <4>2 DEF Untouched
    <3>3. /\ UNCHANGED <<slots, fiber, owner, runs>>
          /\ got'[w] = j
          /\ \A v \in Workers : v # w =>
                pc'[v] = pc[v] /\ todo'[v] = todo[v] /\ got'[v] = got[v]
      BY <1>5, <3>1 DEF Claim, fiberVars, TypeOK
    <3>4. slots[w] >= 1
      BY <1>5 DEF Claim, LoopWellFormed
    <3>5. LoopWellFormed'
      BY <1>s, <2>2, <3>2, <3>3, <3>4 DEF LoopWellFormed
    <3>6. \A v \in Workers : pc[v] = "fork" => got[v] # j
      BY <3>2 DEF LoopWellFormed
    <3>7. GotDistinct' /\ Untouched'
      BY <1>s, <3>3, <3>6 DEF GotDistinct, Untouched
    <3>. QED  BY <3>5, <3>7
  <2>. QED  BY <2>1, <2>2
<1>6. ASSUME NEW w \in Workers, Fork(w)
      PROVE  Goal
  <2>1. PICK j \in Jobs : j = got[w]
    BY <1>6 DEF Fork, LoopWellFormed
  <2>2. /\ fiber[j] = "none" /\ ~Free(j)
        /\ UNCHANGED <<jobs, todo>>
        /\ fiber'[j] = "running" /\ owner'[j] = w /\ runs'[j] = runs[j] + 1
        /\ \A i \in Jobs : i # j => fiber'[i] = fiber[i] /\ owner'[i] = owner[i] /\ runs'[i] = runs[i]
        /\ \A v \in Workers : v # w =>
              pc'[v] = pc[v] /\ slots'[v] = slots[v] /\ got'[v] = got[v]
    BY <1>6, <2>1 DEF Fork, LoopWellFormed, TypeOK
  <2>3. /\ pc'[w] = "claim" => todo'[w] # <<>> /\ slots'[w] >= 1
        /\ pc'[w] # "fork"
    BY <1>6 DEF Fork, AfterClaim, LoopWellFormed, TypeOK
  <2>4. \A v \in Workers : v # w /\ pc[v] = "fork" => got[v] # j
    BY <1>6, <2>1 DEF Fork, GotDistinct
  <2>5. LoopWellFormed'
    BY <2>2, <2>3, <2>4 DEF LoopWellFormed
  <2>6. GotDistinct'
    BY <2>2, <2>3 DEF GotDistinct
  <2>7. Untouched'
    <3>1. ASSUME NEW i \in Jobs
          PROVE  /\ jobs'[i].status \in {"pending", "absent"} => fiber'[i] = "none"
                 /\ runs'[i] = IF fiber'[i] = "none" THEN 0 ELSE 1
                 /\ fiber'[i] # "none" => owner'[i] \in Workers
      <4>1. CASE i = j
        BY <2>2, <4>1 DEF Untouched, Free
      <4>2. CASE i # j
        BY <2>2, <4>2 DEF Untouched
      <4>. QED  BY <4>1, <4>2
    <3>. QED  BY <3>1 DEF Untouched
  <2>. QED  BY <2>5, <2>6, <2>7
<1>7. ASSUME NEW w \in Workers, Start(w) \/ Cycle(w) \/ Reap(w) \/ Stop(w) \/ Shutdown(w)
      PROVE  Goal
  BY <1>3, <1>7 DEF Start, Cycle, Reap, Stop, Shutdown, ScopeClosed, Drain, fiberVars, TypeOK
<1>8. ASSUME NEW w \in Workers, Crash(w)
      PROVE  Goal
  <2>1. /\ \A v \in Workers : pc'[v] \in {pc[v], "down"} /\ (v # w => got'[v] = got[v])
        /\ pc'[w] = "down"
        /\ \A i \in Jobs : /\ fiber'[i] \in {fiber[i], "ended"}
                           /\ fiber[i] = "none" <=> fiber'[i] = "none"
        /\ UNCHANGED <<jobs, slots, todo, owner, runs>>
    BY <1>8 DEF Crash, TypeOK, Live, LiveStates
  <2>2. LoopWellFormed' /\ GotDistinct'
    BY <2>1 DEF LoopWellFormed, GotDistinct
  <2>3. Untouched'
    BY <2>1 DEF Untouched
  <2>. QED  BY <2>2, <2>3
<1>. QED
  BY <1>1, <1>2, <1>4, <1>5, <1>6, <1>7, <1>8
  DEF Next, Loop, Enqueue, Tick, vars, loopVars, fiberVars

-----------------------------------------------------------------------------
(* Counting fibers                                                         *)

\* A forked fiber adds one to its worker's count and to nobody else's.
LEMMA LiveForked ==
  ASSUME TypeOK, LoopWellFormed, NEW w \in Workers, Fork(w)
  PROVE  /\ Cardinality(Live(w)') = Cardinality(Live(w)) + 1
         /\ \A v \in Workers : v # w => Live(v)' = Live(v)
<1>1. PICK j \in Jobs : j = got[w] /\ fiber[j] = "none"
  BY DEF Fork, LoopWellFormed
<1>2. /\ fiber'[j] = "running" /\ owner'[j] = w
      /\ \A i \in Jobs : i # j => fiber'[i] = fiber[i] /\ owner'[i] = owner[i]
  BY <1>1 DEF Fork, TypeOK
<1>3. Live(w)' = Live(w) \union {j} /\ j \notin Live(w)
  BY <1>1, <1>2 DEF Live, LiveStates
<1>4. \A v \in Workers : v # w => Live(v)' = Live(v)
  BY <1>1, <1>2 DEF Live, LiveStates
<1>. QED  BY <1>3, <1>4, LiveFinite, FS_AddElement

\* An ended fiber is one less for its worker: Effect.ensuring and the Ref agree.
LEMMA LiveEnded ==
  ASSUME TypeOK, NEW j \in Jobs, fiber[j] \in LiveStates, owner[j] \in Workers,
         End(j), UNCHANGED owner
  PROVE  /\ Cardinality(Live(owner[j])') = Cardinality(Live(owner[j])) - 1
         /\ \A v \in Workers : v # owner[j] => Live(v)' = Live(v)
         /\ \A v \in Workers : Live(v) = {} => Live(v)' = {}
<1>. DEFINE w == owner[j]
<1>1. fiber'[j] = "ended" /\ \A i \in Jobs : i # j => fiber'[i] = fiber[i]
  BY DEF End, TypeOK
<1>2. Live(w)' = Live(w) \ {j} /\ j \in Live(w)
  BY <1>1 DEF Live, LiveStates
<1>3. \A v \in Workers : v # w => Live(v)' = Live(v)
  BY <1>1 DEF Live, LiveStates
<1>4. Cardinality(Live(w)') = Cardinality(Live(w)) - 1
  BY <1>2, LiveFinite, FS_RemoveElement
<1>. QED  BY <1>2, <1>3, <1>4

LEMMA LiveBecame ==
  ASSUME TypeOK, NEW j \in Jobs, fiber[j] \in LiveStates, NEW state \in LiveStates,
         Become(j, state), UNCHANGED owner
  PROVE  \A v \in Workers : Live(v)' = Live(v)
BY DEF Become, TypeOK, Live

\* A step that keeps every fiber and every counter may move loops on, as long as it
\* respects the scopes and the capacity.
LEMMA CountFrame ==
  ASSUME TypeOK, ScopeHolds, ActiveIsFibers, WithinCapacity,
         UNCHANGED <<activeJobs, fiber, owner>>,
         \A w \in Workers :
           /\ pc[w] = "down" => pc'[w] = "down"
           /\ pc'[w] \in {"draining", "down"} => pc[w] \in {"draining", "down"} \/ Live(w) = {}
  PROVE  ScopeHolds' /\ ActiveIsFibers' /\ WithinCapacity'
<1>1. \A w \in Workers : Live(w)' = Live(w)
  BY DEF Live
<1>2. ScopeHolds'
  BY <1>1 DEF ScopeHolds
<1>3. ActiveIsFibers' /\ WithinCapacity'
  BY <1>1 DEF ActiveIsFibers, WithinCapacity
<1>. QED  BY <1>2, <1>3

LEMMA CountStep ==
  ASSUME TypeOK, TypeOK', LoopWellFormed, Untouched, ScopeHolds, CapacityLeft,
         ActiveIsFibers, WithinCapacity, [Next]_vars
  PROVE  ScopeHolds' /\ CapacityLeft' /\ ActiveIsFibers' /\ WithinCapacity'
<1>. DEFINE Goal == ScopeHolds' /\ CapacityLeft' /\ ActiveIsFibers' /\ WithinCapacity'
<1>i. /\ MaxConcurrent \in Nat
      /\ \A v \in Workers : activeJobs[v] \in Int /\ slots[v] \in Int
  BY WorkerAssumption DEF TypeOK
<1>1. ASSUME UNCHANGED <<pc, slots, activeJobs, fiber, owner>>
      PROVE  Goal
  BY <1>1, CountFrame DEF CapacityLeft
<1>2. ASSUME NEW j \in Jobs, Settle(j) \/ Interrupt(j)
      PROVE  Goal
  <2>1. /\ fiber[j] \in LiveStates /\ owner[j] \in Workers
        /\ UNCHANGED <<pc, slots, owner>>
        /\ End(j) \/ \E state \in LiveStates : Become(j, state)
    BY <1>2, SettleShape DEF Interrupt, FiberStep, loopVars, Untouched, LiveStates
  <2>2. CASE End(j)
    <3>. DEFINE o == owner[j]
    <3>1. /\ Cardinality(Live(o)') = Cardinality(Live(o)) - 1
          /\ \A v \in Workers : v # o => Live(v)' = Live(v)
          /\ \A v \in Workers : Live(v) = {} => Live(v)' = {}
      BY <2>1, <2>2, LiveEnded
    <3>2. activeJobs'[o] = activeJobs[o] - 1 /\ \A v \in Workers : v # o => activeJobs'[v] = activeJobs[v]
      BY <2>1, <2>2 DEF End, TypeOK
    <3>3. ScopeHolds'
      BY <2>1, <3>1 DEF ScopeHolds
    <3>4. CapacityLeft'
      <4>. SUFFICES ASSUME NEW v \in Workers, pc[v] \in {"claim", "fork"}
                    PROVE  activeJobs'[v] + slots[v] <= MaxConcurrent
        BY <2>1 DEF CapacityLeft
      <4>1. activeJobs[v] + slots[v] <= MaxConcurrent
        BY DEF CapacityLeft
      <4>2. activeJobs'[v] = activeJobs[v] \/ activeJobs'[v] = activeJobs[v] - 1
        BY <2>1, <3>2
      <4>. QED  BY <1>i, <4>1, <4>2
    <3>5. ActiveIsFibers'
      BY <2>1, <3>1, <3>2 DEF ActiveIsFibers
    <3>6. WithinCapacity'
      BY <2>1, <3>1, LiveFinite, WorkerAssumption DEF WithinCapacity
    <3>. QED  BY <3>3, <3>4, <3>5, <3>6
  <2>3. ASSUME NEW state \in LiveStates, Become(j, state)
        PROVE  Goal
    <3>1. \A v \in Workers : Live(v)' = Live(v)
      BY <2>1, <2>3, LiveBecame
    <3>2. UNCHANGED activeJobs
      BY <2>3 DEF Become
    <3>3. ScopeHolds' /\ CapacityLeft'
      BY <2>1, <3>1, <3>2 DEF ScopeHolds, CapacityLeft
    <3>4. ActiveIsFibers' /\ WithinCapacity'
      BY <2>1, <3>1, <3>2 DEF ActiveIsFibers, WithinCapacity
    <3>. QED  BY <3>3, <3>4
  <2>. QED  BY <2>1, <2>2, <2>3
<1>3. ASSUME NEW w \in Workers, Start(w)
      PROVE  Goal
  <2>1. \A v \in Workers : Live(v)' = Live(v)
    BY <1>3 DEF Start, Live
  <2>2. /\ pc'[w] = "poll" /\ activeJobs'[w] = 0
        /\ \A v \in Workers : v # w => pc'[v] = pc[v] /\ activeJobs'[v] = activeJobs[v]
        /\ UNCHANGED slots
    BY <1>3 DEF Start, TypeOK
  <2>3. Live(w) = {} /\ Cardinality(Live(w)) = 0
    BY <1>3, FS_EmptySet DEF Start, ScopeHolds
  <2>4. ScopeHolds' /\ CapacityLeft'
    BY <2>1, <2>2 DEF ScopeHolds, CapacityLeft
  <2>5. ActiveIsFibers' /\ WithinCapacity'
    BY <2>1, <2>2, <2>3 DEF ActiveIsFibers, WithinCapacity
  <2>. QED  BY <2>4, <2>5
<1>4. ASSUME NEW w \in Workers, Poll(w)
      PROVE  Goal
  <2>1. ScopeHolds' /\ ActiveIsFibers' /\ WithinCapacity'
    <3>1. UNCHANGED <<activeJobs, fiber, owner>>
      BY <1>4 DEF Poll, fiberVars
    <3>2. /\ pc[w] = "poll" /\ pc'[w] \in {"cycle", "claim"}
          /\ \A v \in Workers : v # w => pc'[v] = pc[v]
      BY <1>4 DEF Poll, AfterClaim, TypeOK
    <3>. QED  BY <3>1, <3>2, CountFrame
  <2>2. pc'[w] \in {"claim", "fork"} => activeJobs'[w] + slots'[w] <= MaxConcurrent
    BY <1>4, WorkerAssumption DEF Poll, fiberVars, TypeOK
  <2>3. CapacityLeft'
    BY <1>4, <2>2 DEF Poll, fiberVars, CapacityLeft, TypeOK
  <2>. QED  BY <2>1, <2>3
<1>5. ASSUME NEW w \in Workers, Fork(w)
      PROVE  Goal
  <2>1. /\ Cardinality(Live(w)') = Cardinality(Live(w)) + 1
        /\ \A v \in Workers : v # w => Live(v)' = Live(v)
    BY <1>5, LiveForked
  <2>2. /\ pc[w] = "fork" /\ pc'[w] \in {"claim", "cycle"}
        /\ activeJobs'[w] = activeJobs[w] + 1 /\ slots'[w] = slots[w] - 1
        /\ \A v \in Workers : v # w =>
              pc'[v] = pc[v] /\ activeJobs'[v] = activeJobs[v] /\ slots'[v] = slots[v]
    BY <1>5 DEF Fork, AfterClaim, TypeOK
  <2>3. activeJobs[w] + slots[w] <= MaxConcurrent /\ slots[w] >= 1
    BY <2>2 DEF CapacityLeft, LoopWellFormed
  <2>4. ScopeHolds'
    BY <2>1, <2>2 DEF ScopeHolds
  <2>5. CapacityLeft'
    <3>1. activeJobs'[w] + slots'[w] <= MaxConcurrent
      BY <1>i, <2>2, <2>3
    <3>. QED  BY <2>2, <3>1 DEF CapacityLeft
  <2>6. ActiveIsFibers'
    BY <2>1, <2>2 DEF ActiveIsFibers
  <2>7. WithinCapacity'
    <3>1. Cardinality(Live(w)) = activeJobs[w]
      BY <2>2 DEF ActiveIsFibers
    <3>2. activeJobs[w] + 1 <= MaxConcurrent
      BY <2>3, WorkerAssumption DEF TypeOK
    <3>. QED  BY <2>1, <3>1, <3>2 DEF WithinCapacity
  <2>. QED  BY <2>4, <2>5, <2>6, <2>7
<1>6. ASSUME NEW w \in Workers, Claim(w)
      PROVE  Goal
  <2>1. /\ pc[w] = "claim" /\ pc'[w] \in {"claim", "cycle", "fork"}
        /\ \A v \in Workers : v # w => pc'[v] = pc[v]
        /\ UNCHANGED <<slots, activeJobs, fiber, owner>>
    BY <1>6 DEF Claim, AfterClaim, fiberVars, TypeOK
  <2>2. CapacityLeft'
    BY <2>1 DEF CapacityLeft
  <2>. QED  BY <2>1, <2>2, CountFrame
<1>7. ASSUME NEW w \in Workers, Cycle(w) \/ Reap(w) \/ Stop(w) \/ Shutdown(w)
      PROVE  Goal
  <2>1. /\ pc'[w] \notin {"claim", "fork"}
        /\ pc[w] # "down"
        /\ pc'[w] \in {"draining", "down"} => pc[w] \in {"draining", "down"} \/ Live(w) = {}
        /\ \A v \in Workers : v # w => pc'[v] = pc[v]
        /\ UNCHANGED <<slots, activeJobs, fiber, owner>>
    BY <1>7 DEF Cycle, Reap, Stop, Shutdown, ScopeClosed, Drain, fiberVars, TypeOK, LoopStates
  <2>2. CapacityLeft'
    BY <2>1 DEF CapacityLeft
  <2>. QED  BY <2>1, <2>2, CountFrame
<1>8. ASSUME NEW w \in Workers, Crash(w)
      PROVE  Goal
  <2>1. /\ pc'[w] = "down"
        /\ \A v \in Workers : v # w => pc'[v] = pc[v]
        /\ UNCHANGED <<slots, activeJobs, owner>>
    BY <1>8 DEF Crash, TypeOK
  <2>2. Live(w)' = {} /\ Cardinality(Live(w)') = 0
    <3>1. Live(w)' = {}
      BY <1>8 DEF Crash, Live, LiveStates, TypeOK
    <3>. QED  BY <3>1, FS_EmptySet
  <2>3. \A v \in Workers : v # w => Live(v)' = Live(v)
    BY <1>8 DEF Crash, Live, TypeOK
  <2>4. ScopeHolds' /\ CapacityLeft'
    BY <2>1, <2>2, <2>3 DEF ScopeHolds, CapacityLeft
  <2>5. ActiveIsFibers'
    BY <2>1, <2>3 DEF ActiveIsFibers
  <2>6. WithinCapacity'
    <3>1. 0 <= MaxConcurrent
      BY <1>i
    <3>. QED  BY <2>2, <2>3, <3>1 DEF WithinCapacity
  <2>. QED  BY <2>4, <2>5, <2>6
<1>. QED
  BY <1>1, <1>2, <1>3, <1>4, <1>5, <1>6, <1>7, <1>8
  DEF Next, Loop, Enqueue, Tick, vars, loopVars, fiberVars

-----------------------------------------------------------------------------
(* Fibers, rows and announcements                                          *)

\* The three conjuncts of WInv that relate a row to its fiber, row by row.
RowOK(i) ==
  /\ fiber[i] = "completed" => jobs[i].status = "completed" /\ jobs[i].result # "none"
  /\ fiber[i] \in {"failed", "dead"} => jobs[i].status = "failed"
  /\ announced[i] # "none" => fiber[i] = "ended" /\ jobs[i].status \in Terminal
  /\ jobs[i].status \in Terminal =>
       /\ fiber[i] \in {"running", "failing"} => i \in disturbed
       /\ fiber[i] = "dying" => i \in disturbed \/ jobs[i].status = "failed"
       /\ fiber[i] = "none" => i \in disturbed
  /\ announced[i] = "run_completed" => jobs[i].status = "completed" /\ jobs[i].result = "valid"
  /\ announced[i] = "run_failed" => \/ jobs[i].status = "failed"
                                    \/ jobs[i].status = "completed" /\ jobs[i].result = "invalid"

LEMMA RowByRow ==
  ASSUME TypeOK
  PROVE  FiberKnowsRow /\ SettledEarly /\ AnnouncementAgrees <=> \A i \in Jobs : RowOK(i)
BY DEF FiberKnowsRow, SettledEarly, AnnouncementAgrees, RowOK, TypeOK, Events

LEMMA RowByRowNext ==
  ASSUME TypeOK'
  PROVE  (FiberKnowsRow /\ SettledEarly /\ AnnouncementAgrees)' <=> \A i \in Jobs : RowOK(i)'
BY DEF FiberKnowsRow, SettledEarly, AnnouncementAgrees, RowOK, TypeOK, Events

\* The fiber's own steps keep its row and its announcement together.
LEMMA SettleRow ==
  ASSUME TypeOK, NEW j \in Jobs, Settle(j), RowOK(j)
  PROVE  /\ RowOK(j)'
         /\ jobs[j].status \in Terminal /\ jobs'[j].status # jobs[j].status => j \in disturbed
<1>. DEFINE Goal == /\ RowOK(j)'
                    /\ jobs[j].status \in Terminal /\ jobs'[j].status # jobs[j].status
                         => j \in disturbed
<1>. USE DEF RowOK, Terminal
<1>t. /\ TableTypeOK
      /\ fiber \in [Jobs -> FiberStates]
      /\ announced \in [Jobs -> Events]
      /\ disturbed \subseteq Jobs
      /\ jobs[j].result \in Results
  BY DEF TypeOK, TableTypeOK, Row
<1>a. fiber[j] \in LiveStates => announced[j] = "none"
  BY DEF LiveStates
<1>1. CASE Complete(j)
  <2>1. PICK r \in {"valid", "invalid"} : jobs' = StatusUpdated(j, "completed", r, Undefined)
    BY <1>1 DEF Complete
  <2>2. jobs'[j].status = "completed" /\ jobs'[j].result # "none"
    <3>1. r # Undefined
      BY DEF Undefined
    <3>2. jobs'[j].status = "completed" /\ jobs'[j].result = r
      BY <1>t, <2>1, <3>1, WrittenTable
    <3>. QED  BY <3>2
  <2>3. /\ fiber[j] = "running" /\ fiber'[j] = "completed"
        /\ announced'[j] = "none"
    BY <1>1, <1>t, <1>a DEF Complete, Become, LiveStates
  <2>. QED  BY <2>2, <2>3
<1>2. CASE HandlerFails(j)
  <2>1. /\ fiber[j] = "running" /\ fiber'[j] \in {"failing", "dying"}
        /\ UNCHANGED <<jobs, announced, disturbed>>
        /\ announced[j] = "none"
    BY <1>2, <1>t, <1>a DEF HandlerFails, Become, LiveStates
  <2>. QED  BY <2>1
<1>3. CASE CompleteFaults(j)
  <2>1. /\ fiber[j] = "running" /\ fiber'[j] = "failing"
        /\ announced' = announced /\ announced[j] = "none"
        /\ UNCHANGED <<jobs, disturbed>> \/ j \in disturbed'
        /\ disturbed \subseteq disturbed'
    BY <1>3, <1>t, <1>a DEF CompleteFaults, Become, Disturb, LiveStates
  <2>2. jobs[j].status \in Terminal => j \in disturbed
    BY <2>1
  <2>. QED  BY <2>1, <2>2
<1>4. CASE NotifyCompleted(j)
  <2>1. /\ fiber[j] = "completed" /\ fiber'[j] = "ended"
        /\ UNCHANGED <<jobs, disturbed>>
        /\ announced'[j] = IF jobs[j].result = "valid" THEN "run_completed" ELSE "run_failed"
    BY <1>4, <1>t DEF NotifyCompleted, Announce, End
  <2>. QED  BY <1>t, <2>1 DEF Results
<1>5. CASE NotifyCompletedDies(j)
  <2>1. /\ fiber[j] = "completed" /\ fiber'[j] = "dying" /\ j \in disturbed'
        /\ UNCHANGED <<jobs, announced>>
        /\ announced[j] = "none"
    BY <1>5, <1>t, <1>a DEF NotifyCompletedDies, Become, Disturb, LiveStates
  <2>. QED  BY <2>1
<1>6. CASE MarkFailed(j)
  <2>1. /\ fiber[j] \in {"failing", "dying"} /\ fiber'[j] \in {"failed", "dead"}
        /\ UNCHANGED <<announced, disturbed>>
        /\ announced[j] = "none"
        /\ \E error \in {"handler", "defect"} : jobs' = StatusUpdated(j, "failed", Undefined, error)
    BY <1>6, <1>t, <1>a DEF MarkFailed, Become, LiveStates
  <2>2. jobs'[j].status = "failed"
    BY <1>t, <2>1, WrittenTable
  <2>. QED  BY <2>1, <2>2
<1>7. CASE MarkFailedFaults(j)
  <2>1. /\ fiber[j] \in {"failing", "dying"} /\ fiber'[j] = "ended"
        /\ UNCHANGED <<announced, disturbed>>
        /\ announced[j] = "none"
        /\ UNCHANGED jobs \/ jobs' = StatusUpdated(j, "failed", Undefined, "handler")
    BY <1>7, <1>t, <1>a DEF MarkFailedFaults, End, LiveStates
  <2>2. UNCHANGED jobs \/ jobs'[j].status = "failed"
    BY <1>t, <2>1, WrittenTable
  <2>. QED  BY <2>1, <2>2
<1>8. CASE NotifyFailed(j)
  <2>1. /\ fiber[j] \in {"failed", "dead"} /\ fiber'[j] = "ended"
        /\ UNCHANGED <<jobs, disturbed>>
        /\ announced'[j] = "run_failed"
    BY <1>8, <1>t DEF NotifyFailed, Announce, End
  <2>. QED  BY <2>1
<1>9. CASE NotifyFailedDies(j)
  <2>1. /\ fiber[j] \in {"failed", "dead"} /\ fiber'[j] \in {"dying", "ended"}
        /\ UNCHANGED <<jobs, announced, disturbed>>
        /\ announced[j] = "none"
    BY <1>9, <1>t, <1>a DEF NotifyFailedDies, Become, End, LiveStates
  <2>. QED  BY <2>1
<1>. QED  BY <1>1, <1>2, <1>3, <1>4, <1>5, <1>6, <1>7, <1>8, <1>9 DEF Settle

\* A fiber's step changes nothing of another job.
LEMMA SettleOthers ==
  ASSUME TypeOK, NEW j \in Jobs, Settle(j), NEW i \in Jobs, i # j
  PROVE  /\ jobs'[i] = jobs[i]
         /\ fiber'[i] = fiber[i]
         /\ announced'[i] = announced[i]
         /\ i \in disturbed => i \in disturbed'
<1>t. TableTypeOK
  BY DEF TypeOK
<1>1. jobs'[i] = jobs[i]
  <2>1. CASE UNCHANGED jobs
    BY <2>1
  <2>2. ASSUME NEW status \in Terminal, NEW result \in {"valid", "invalid", Undefined},
               NEW error \in {"handler", "defect", Undefined},
               jobs' = StatusUpdated(j, status, result, error)
        PROVE  jobs'[i] = jobs[i]
    BY <1>t, <2>2, WrittenTable
  <2>. QED  BY <2>1, <2>2, SettleShape
<1>2. fiber'[i] = fiber[i]
  BY SettleShape DEF End, Become, TypeOK
<1>3. announced'[i] = announced[i] /\ (i \in disturbed => i \in disturbed')
  BY SettleShape DEF Announce, Disturb, TypeOK
<1>. QED  BY <1>1, <1>2, <1>3

LEMMA RowStep ==
  ASSUME TypeOK, LoopWellFormed, Untouched, NEW i \in Jobs, RowOK(i), [Next]_vars
  PROVE  /\ RowOK(i)'
         /\ jobs[i].status \in Terminal /\ jobs'[i].status # jobs[i].status => i \in disturbed
<1>. DEFINE Goal == /\ RowOK(i)'
                    /\ jobs[i].status \in Terminal /\ jobs'[i].status # jobs[i].status
                         => i \in disturbed
<1>t. TableTypeOK
  BY DEF TypeOK
<1>1. ASSUME jobs'[i].status = jobs[i].status, jobs'[i].result = jobs[i].result,
             \/ fiber'[i] = fiber[i]
             \/ fiber[i] # "none" /\ fiber'[i] = "ended"
             \/ fiber[i] = "none" /\ fiber'[i] = "running",
             announced'[i] = announced[i], i \in disturbed => i \in disturbed'
      PROVE  Goal
  BY <1>1 DEF RowOK
<1>2. ASSUME NEW j \in Jobs, Settle(j)
      PROVE  Goal
  <2>1. CASE i = j
    BY <1>2, <2>1, SettleRow
  <2>2. CASE i # j
    <3>1. /\ jobs'[i] = jobs[i]
          /\ fiber'[i] = fiber[i]
          /\ announced'[i] = announced[i]
          /\ i \in disturbed => i \in disturbed'
      BY <1>2, <2>2, SettleOthers
    <3>. QED  BY <1>1, <3>1
  <2>. QED  BY <2>1, <2>2
<1>3. ASSUME NEW j \in Jobs, Enqueue(j)
      PROVE  Goal
  <2>1. UNCHANGED <<fiber, announced, disturbed>>
    BY <1>3 DEF Enqueue, fiberVars
  <2>2. CASE i = j
    <3>1. /\ jobs[i].status = "absent" /\ jobs'[i].status = "pending"
          /\ fiber[i] = "none"
      BY <1>3, <2>2, EnqueuedTable DEF Untouched
    <3>. QED  BY <2>1, <3>1 DEF RowOK, Terminal
  <2>3. CASE i # j
    BY <1>1, <1>3, <2>1, <2>3, EnqueuedTable
  <2>. QED  BY <2>2, <2>3
<1>4. CASE Tick
  BY <1>t, <1>1, <1>4, AgedTable DEF Tick, fiberVars
<1>5. ASSUME NEW w \in Workers, Claim(w)
      PROVE  Goal
  <2>1. UNCHANGED <<fiber, announced, disturbed>>
    BY <1>5 DEF Claim, fiberVars
  <2>2. CASE UNCHANGED jobs
    BY <1>1, <2>1, <2>2
  <2>3. ASSUME NEW j \in Oldest(Head(todo[w])), jobs' = Claimed(j)
        PROVE  Goal
    <3>1. Head(todo[w]) \in Types
      BY <1>5, HeadTailProperties DEF Claim, LoopWellFormed, TypeOK
    <3>2. /\ j \in Jobs /\ jobs[j].status = "pending" /\ jobs'[j].status = "processing"
          /\ i # j => jobs'[i] = jobs[i]
      BY <1>t, <2>3, <3>1, ClaimedTable
    <3>3. CASE i = j
      <4>1. fiber[i] = "none"
        BY <3>2, <3>3 DEF Untouched
      <4>. QED  BY <2>1, <3>2, <3>3, <4>1 DEF RowOK, Terminal
    <3>4. CASE i # j
      BY <1>1, <2>1, <3>2, <3>4
    <3>. QED  BY <3>3, <3>4
  <2>. QED  BY <1>5, <2>2, <2>3 DEF Claim
<1>6. ASSUME NEW w \in Workers, Reap(w)
      PROVE  Goal
  <2>1. UNCHANGED <<fiber, announced>> /\ (i \in disturbed => i \in disturbed')
    BY <1>6 DEF Reap, fiberVars, Disturb
  <2>2. CASE jobs' = StaleFailed /\ i \in Stale
    <3>1. jobs[i].status = "processing" /\ jobs'[i].status = "failed"
      BY <1>t, <2>2, SweptTable
    <3>2. i \in disturbed'
      BY <1>6, <2>2, <3>1 DEF Reap, Disturb
    <3>. QED  BY <2>1, <3>1, <3>2 DEF RowOK, Terminal
  <2>3. CASE ~(jobs' = StaleFailed /\ i \in Stale)
    <3>1. jobs'[i] = jobs[i]
      BY <1>t, <1>6, <2>3, SweptTable DEF Reap
    <3>. QED  BY <1>1, <2>1, <3>1
  <2>. QED  BY <2>2, <2>3
<1>7. ASSUME NEW w \in Workers, Fork(w)
      PROVE  Goal
  <2>1. got[w] \in Jobs /\ fiber[got[w]] = "none"
    BY <1>7 DEF Fork, LoopWellFormed
  <2>. QED  BY <1>1, <1>7, <2>1 DEF Fork, TypeOK
<1>8. ASSUME NEW j \in Jobs, Interrupt(j)
      PROVE  Goal
  BY <1>1, <1>8 DEF Interrupt, End, LiveStates, TypeOK
<1>9. ASSUME NEW w \in Workers, Crash(w)
      PROVE  Goal
  BY <1>1, <1>9 DEF Crash, Live, LiveStates, TypeOK
<1>10. CASE UNCHANGED <<jobs, fiber, announced, disturbed>>
  BY <1>1, <1>10
<1>. QED
  BY <1>2, <1>3, <1>4, <1>5, <1>6, <1>7, <1>8, <1>9, <1>10
  DEF Next, Loop, Shutdown, Start, Poll, Cycle, Stop, ScopeClosed, Drain, vars, fiberVars

-----------------------------------------------------------------------------
(* The invariant, and what follows from it                                 *)

LEMMA InitInvariant == Init => WInv
<1>. SUFFICES ASSUME Init PROVE WInv
  OBVIOUS
<1>t. TypeOK
  BY InitTyped
<1>1. \A w \in Workers : Live(w) = {} /\ Cardinality(Live(w)) = 0
  <2>1. \A w \in Workers : Live(w) = {}
    BY DEF Init, Live, LiveStates
  <2>. QED  BY <2>1, FS_EmptySet
<1>2. LoopWellFormed /\ GotDistinct /\ CapacityLeft
  BY DEF Init, LoopWellFormed, GotDistinct, CapacityLeft
<1>3. Untouched
  BY DEF Init, Untouched
<1>4. ScopeHolds /\ ActiveIsFibers /\ WithinCapacity
  BY <1>1, WorkerAssumption DEF Init, ScopeHolds, ActiveIsFibers, WithinCapacity
<1>5. \A i \in Jobs : RowOK(i)
  BY InitialTable DEF Init, RowOK, Terminal
<1>. QED  BY <1>t, <1>2, <1>3, <1>4, <1>5, RowByRow DEF WInv

LEMMA StepInvariant == WInv /\ [Next]_vars => WInv'
<1>. SUFFICES ASSUME WInv, [Next]_vars PROVE WInv'
  OBVIOUS
<1>. USE DEF WInv
<1>1. TypeOK'
  BY TypeStep
<1>2. LoopWellFormed' /\ GotDistinct' /\ Untouched'
  BY <1>1, HandsStep
<1>3. ScopeHolds' /\ CapacityLeft' /\ ActiveIsFibers' /\ WithinCapacity'
  BY <1>1, CountStep
<1>4. \A i \in Jobs : RowOK(i)
  BY RowByRow
<1>5. \A i \in Jobs : RowOK(i)'
  BY <1>4, RowStep
<1>6. FiberKnowsRow' /\ SettledEarly' /\ AnnouncementAgrees'
  BY <1>1, <1>5, RowByRowNext
<1>. QED  BY <1>1, <1>2, <1>3, <1>6

LEMMA Invariant == Spec => []WInv
BY InitInvariant, StepInvariant, PTL DEF Spec

\* Every reachable state of the workers is well typed.
THEOREM TypeCorrect == Spec => []TypeOK
<1>1. WInv => TypeOK
  BY DEF WInv
<1>. QED  BY <1>1, Invariant, PTL

\* processJob is started at most once per job, for any number of workers, crashes,
\* stops, sweeps and lost replies.
THEOREM JobsAreHandledOnce == Spec => []HandledOnce
<1>1. WInv => HandledOnce
  <2>. SUFFICES ASSUME Untouched, NEW j \in Jobs PROVE runs[j] <= 1
    BY DEF WInv, HandledOnce
  <2>1. runs[j] = 0 \/ runs[j] = 1
    BY DEF Untouched
  <2>. QED  BY <2>1
<1>. QED  BY <1>1, Invariant, PTL

\* The counter a worker derives its capacity from counts its fibers.
THEOREM CounterIsExact == Spec => []ActiveIsFibers
<1>1. WInv => ActiveIsFibers
  BY DEF WInv
<1>. QED  BY <1>1, Invariant, PTL

\* No worker exceeds its concurrency limit.
THEOREM CapacityIsKept == Spec => []WithinCapacity
<1>1. WInv => WithinCapacity
  BY DEF WInv
<1>. QED  BY <1>1, Invariant, PTL

\* Once published, a terminal event and the row it is about agree for ever.
THEOREM AnnouncementsAgree == Spec => []AnnouncementAgrees
<1>1. WInv => AnnouncementAgrees
  BY DEF WInv
<1>. QED  BY <1>1, Invariant, PTL

\* Only sweeps and faults make a terminal status give way to another one.
THEOREM OverwritesAreExplained == Spec => OverwriteExplained
<1>1. WInv /\ [Next]_vars =>
        [\A j \in Jobs : jobs[j].status \in Terminal /\ jobs'[j].status # jobs[j].status
                         => j \in disturbed]_vars
  <2>. SUFFICES ASSUME WInv, [Next]_vars, NEW j \in Jobs, jobs[j].status \in Terminal,
                       jobs'[j].status # jobs[j].status
                PROVE  j \in disturbed
    OBVIOUS
  <2>1. RowOK(j)
    BY RowByRow DEF WInv
  <2>. QED  BY <2>1, RowStep DEF WInv
<1>. QED  BY <1>1, Invariant, PTL DEF Spec, OverwriteExplained

-----------------------------------------------------------------------------
(* The workers implement the lifecycle                                     *)

\* The statuses that a watcher of the table sees.
statusSeen == [j \in Jobs |-> jobs[j].status]

\* No worker deletes a row.
NoneDeleted == \A j \in Jobs : jobs[j].status # "deleted"

LEMMA NoneDeletedInvariant == Spec => []NoneDeleted
<1>1. Init => NoneDeleted
  BY InitialTable DEF Init, NoneDeleted
<1>2. WInv /\ NoneDeleted /\ [Next]_vars => NoneDeleted'
  BY StatusStep DEF WInv, NoneDeleted, Terminal
<1>. QED  BY <1>1, <1>2, Invariant, PTL DEF Spec

\* A set of rows that moves to final statuses, when no other column of interest moves.
LEMMA SettledRows ==
  ASSUME TypeOK', NoneDeleted', NEW from, NEW done \in SUBSET Jobs,
         \A j \in Jobs : jobs'[j].type = jobs[j].type /\ jobs'[j].stamp = jobs[j].stamp,
         \A j \in Jobs : j \notin done => jobs'[j].status = jobs[j].status,
         \A j \in done : jobs[j].status \in from /\ jobs'[j].status \in Terminal
  PROVE  Lifecycle!Settled(from, done)
<1>1. \A j \in Jobs : jobs'[j].status \in {"absent", "pending", "processing", "completed", "failed"}
  BY DEF TypeOK, TableTypeOK, Row, RowStatus, JobStatus, Terminal, NoneDeleted
<1>. QED  BY <1>1 DEF Lifecycle!Settled, Lifecycle!Final, Terminal

LEMMA LifecycleStep ==
  ASSUME WInv, WInv', NoneDeleted, NoneDeleted', [Next]_vars
  PROVE  Lifecycle!DocNext \/ Lifecycle!Overwrite \/ UNCHANGED statusSeen
<1>. DEFINE Goal == Lifecycle!DocNext \/ Lifecycle!Overwrite \/ UNCHANGED statusSeen
<1>t. TypeOK /\ TypeOK' /\ TableTypeOK
  BY DEF WInv, TypeOK
<1>1. ASSUME NEW j \in Jobs, Enqueue(j)
      PROVE  Goal
  <2>1. PICK t \in Types, u \in Users, s \in 1..MaxStamp :
          NextStamp(s) /\ jobs' = Inserted(j, t, u, s)
    BY <1>1 DEF Enqueue, NextStamp
  <2>2. /\ jobs[j].status = "absent"
        /\ jobs'[j].status = "pending" /\ jobs'[j].stamp = s
        /\ \A i \in Jobs : i # j => jobs'[i] = jobs[i]
    <3>1. /\ jobs'[j] = NewRow(t, u, s)
          /\ \A i \in Jobs : i # j => jobs'[i] = jobs[i]
      BY <1>t, <2>1, InsertedRow
    <3>. QED  BY <1>1, <3>1 DEF Enqueue, NewRow
  <2>3. \A k \in Jobs : jobs[k].status # "absent" => jobs[k].stamp <= s
    BY <1>t, <2>1 DEF NextStamp, Present, NoneDeleted, TableTypeOK, Row, RowStatus
  <2>4. Lifecycle!Create(j)
    BY <2>2, <2>3 DEF Lifecycle!Create
  <2>. QED  BY <2>4 DEF Lifecycle!DocNext
<1>2. ASSUME NEW w \in Workers, NEW j \in Oldest(Head(todo[w])), Claim(w), jobs' = Claimed(j)
      PROVE  Goal
  <2>1. Head(todo[w]) \in Types
    BY <1>t, <1>2, HeadTailProperties DEF Claim, LoopWellFormed, TypeOK, WInv
  <2>2. /\ j \in Jobs
        /\ jobs[j].status = "pending" /\ jobs'[j].status = "processing"
        /\ \A i \in Jobs : /\ i # j => jobs'[i] = jobs[i]
                           /\ jobs'[i].type = jobs[i].type
                           /\ jobs'[i].stamp = jobs[i].stamp
    BY <1>t, <1>2, <2>1, ClaimedTable
  <2>3. \A k \in Jobs : jobs[k].status = "pending" /\ jobs[k].type = jobs[j].type
                         => jobs[j].stamp <= jobs[k].stamp
    BY <1>2 DEF Oldest, Pending
  <2>4. Lifecycle!TakeUp(j)
    BY <2>2, <2>3 DEF Lifecycle!TakeUp
  <2>. QED  BY <2>2, <2>4 DEF Lifecycle!DocNext
<1>3. CASE jobs' = StaleFailed
  <2>1. PICK done \in SUBSET Jobs : done = Stale
    BY DEF Stale
  <2>2. /\ \A i \in Jobs : i \notin done => jobs'[i].status = jobs[i].status
        /\ \A i \in done : jobs[i].status \in {"processing"} /\ jobs'[i].status \in Terminal
        /\ \A i \in Jobs : jobs'[i].type = jobs[i].type /\ jobs'[i].stamp = jobs[i].stamp
    BY <1>t, <1>3, <2>1, SweptTable DEF Terminal
  <2>3. Lifecycle!Settled({"processing"}, done)
    BY <1>t, <2>2, SettledRows
  <2>. QED  BY <2>3 DEF Lifecycle!DocNext, Lifecycle!Finish
<1>4. ASSUME NEW j \in Jobs, Settle(j)
      PROVE  Goal
  <2>1. CASE UNCHANGED jobs
    BY <2>1 DEF statusSeen
  <2>2. ASSUME NEW status \in Terminal, NEW result \in {"valid", "invalid", Undefined},
               NEW error \in {"handler", "defect", Undefined},
               jobs' = StatusUpdated(j, status, result, error)
        PROVE  Goal
    <3>1. /\ jobs'[j].status \in Terminal
          /\ \A i \in Jobs : /\ i # j => jobs'[i] = jobs[i]
                             /\ jobs'[i].type = jobs[i].type
                             /\ jobs'[i].stamp = jobs[i].stamp
      BY <1>t, <2>2, WrittenTable
    <3>2. fiber[j] # "none"
      BY <1>4, SettleShape DEF LiveStates
    <3>3. jobs[j].status \in {"processing"} \union Terminal
      BY <1>t, <3>2 DEF WInv, Untouched, NoneDeleted, TableTypeOK, Row, RowStatus, JobStatus
    <3>4. CASE jobs[j].status = "processing"
      <4>1. Lifecycle!Settled({"processing"}, {j})
        BY <1>t, <3>1, <3>4, SettledRows
      <4>. QED  BY <4>1 DEF Lifecycle!DocNext, Lifecycle!Finish
    <3>5. CASE jobs[j].status \in Terminal
      <4>1. Lifecycle!Settled(Terminal, {j})
        BY <1>t, <3>1, <3>5, SettledRows
      <4>. QED  BY <4>1 DEF Lifecycle!Overwrite, Lifecycle!Final, Terminal
    <3>. QED  BY <3>3, <3>4, <3>5
  <2>. QED  BY <1>4, <2>1, <2>2, SettleShape
<1>5. CASE Tick
  <2>1. \A i \in Jobs : jobs'[i].status = jobs[i].status
    BY <1>t, <1>5, AgedTable DEF Tick
  <2>. QED  BY <2>1 DEF statusSeen
<1>6. CASE UNCHANGED jobs
  BY <1>6 DEF statusSeen
<1>. QED
  BY <1>1, <1>2, <1>3, <1>4, <1>5, <1>6
  DEF Next, Loop, Shutdown, Interrupt, Start, Poll, Claim, Fork, Cycle, Reap, Stop, ScopeClosed,
      Drain, Crash, vars

\* However workers, reapers, crashes and faults interleave, a watcher of the table sees
\* the lifecycle: first created, first taken up; settled once taken up; and nothing but
\* one terminal status giving way to another after that.
THEOREM WorkersImplementLifecycle == Spec => ImplementsLifecycle
<1>1. Init => Lifecycle!LifecycleInit
  BY InitialTable DEF Init, Lifecycle!LifecycleInit
<1>2. WInv /\ WInv' /\ NoneDeleted /\ NoneDeleted' /\ [Next]_vars
        => [Lifecycle!DocNext \/ Lifecycle!Overwrite]_statusSeen
  BY LifecycleStep
<1>. QED
  BY <1>1, <1>2, Invariant, NoneDeletedInvariant, PTL
  DEF Spec, ImplementsLifecycle, Lifecycle!Spec, statusSeen
=============================================================================
