-------------------------- MODULE JobQueue_proofs --------------------------
(***************************************************************************)
(* Proofs about the queue service, for any number of callers, rows, users, *)
(* types and keys.  First types, then the step lemma for the rows in       *)
(* callers' hands.                                                         *)
(***************************************************************************)
EXTENDS JobQueue, JobTable_proofs

-----------------------------------------------------------------------------
(* Typing                                                                  *)

\* The arguments that runHandler passes to updateJobStatus have the right types.
LEMMA StatusArguments ==
  /\ {"processing", "completed", "failed"} \subseteq JobStatus
  /\ {"valid", Undefined} \subseteq Results \union {Undefined}
  /\ {"handler", Undefined} \subseteq Errors \union {Undefined}
BY DEF JobStatus, Terminal, Results, Errors

LEMMA InitTyped == Init => TypeOK /\ CallsWellFormed
<1>. SUFFICES ASSUME Init PROVE TypeOK /\ CallsWellFormed
  OBVIOUS
<1>1. TableTypeOK
  BY InitialTable DEF Init
<1>2. 0 \in 0..MaxFaults
  BY QueueAssumption
<1>. QED  BY <1>1, <1>2 DEF Init, TypeOK, CallsWellFormed, Phases, Handling

\* Every action but the statements on the table leaves a call well formed: it
\* returns, or goes on with a row that exists.
LEMMA ReturnTyped ==
  ASSUME TypeOK, CallsWellFormed, NEW c \in Callers, Return(c)
  PROVE  /\ pc' \in [Callers -> Phases]
         /\ cur' \in [Callers -> Jobs \union {NoJob}]
         /\ CallsWellFormed'
BY DEF TypeOK, CallsWellFormed, Return, Phases, Handling

LEMMA GotoTyped ==
  ASSUME TypeOK, CallsWellFormed, NEW c \in Callers,
         NEW phase \in Phases, NEW j \in Jobs, Goto(c, phase, j),
         phase \in {"checked", "by_id", "by_id_failing"} => j \in ByIdJobs
  PROVE  /\ pc' \in [Callers -> Phases]
         /\ cur' \in [Callers -> Jobs \union {NoJob}]
         /\ CallsWellFormed'
BY DEF TypeOK, CallsWellFormed, Goto, Phases, Handling

LEMMA FaultTyped == ASSUME TypeOK, Fault PROVE faults' \in 0..MaxFaults
BY QueueAssumption DEF TypeOK, Fault

LEMMA TypeStep ==
  ASSUME TypeOK, CallsWellFormed, [Next]_vars
  PROVE  TypeOK' /\ CallsWellFormed'
<1>. USE DEF TableTypeOK
<1>t. TableTypeOK
  BY DEF TypeOK
<1>1. ASSUME NEW c \in Callers, NEW t \in Types, NEW u \in Users, EnqueueInsert(c, t, u)
      PROVE  TypeOK' /\ CallsWellFormed'
  <2>1. jobs' \in [Jobs -> Row]
    BY <1>1, <1>t, InsertedRow DEF EnqueueInsert
  <2>. QED  BY <1>1, <2>1 DEF EnqueueInsert, callVars, TypeOK, CallsWellFormed
<1>2. ASSUME NEW c \in Callers, NEW t \in Types, NEW u \in Users, NEW k \in Keys,
             EnqueueKeyed(c, t, u, k)
      PROVE  TypeOK' /\ CallsWellFormed'
  BY <1>2 DEF EnqueueKeyed, callVars, TypeOK, CallsWellFormed
<1>3. ASSUME NEW c \in Callers, NEW t \in Types, ClaimFaults(c, t)
      PROVE  TypeOK' /\ CallsWellFormed'
  <2>1. PICK j \in Oldest(t) : jobs' = Claimed(j)
    BY <1>3 DEF ClaimFaults
  <2>2. j \in Jobs
    BY DEF Oldest, Pending
  <2>3. jobs' \in [Jobs -> Row]
    BY <1>t, <2>1, <2>2, ClaimedRow
  <2>. QED  BY <1>3, <2>3, FaultTyped DEF ClaimFaults, callVars, TypeOK, CallsWellFormed
<1>4. ASSUME NEW c \in Callers, NEW t \in Types, ClaimNextJob(c, t)
      PROVE  TypeOK' /\ CallsWellFormed'
  <2>1. PICK j \in Oldest(t) : jobs' = Claimed(j) /\ Goto(c, "next", j)
    BY <1>4 DEF ClaimNextJob
  <2>2. j \in Jobs
    BY DEF Oldest, Pending
  <2>3. jobs' \in [Jobs -> Row]
    BY <1>t, <2>1, <2>2, ClaimedRow
  <2>. QED  BY <1>4, <2>1, <2>2, <2>3, GotoTyped DEF ClaimNextJob, TypeOK, Phases
<1>5. ASSUME NEW c \in Callers, NEW j \in Jobs, ReadJobById(c, j)
      PROVE  TypeOK' /\ CallsWellFormed'
  BY <1>5, GotoTyped DEF ReadJobById, TypeOK, Phases
<1>6. ASSUME NEW c \in Callers, MarkProcessing(c)
      PROVE  TypeOK' /\ CallsWellFormed'
  <2>0. cur[c] \in Jobs /\ cur[c] \in ByIdJobs
    BY <1>6 DEF MarkProcessing, CallsWellFormed
  <2>1. CASE Goto(c, "by_id", cur[c]) /\ jobs' = StatusUpdated(cur[c], "processing", Undefined, Undefined)
    <3>1. jobs' \in [Jobs -> Row]
      BY <1>t, <2>0, <2>1, StatusUpdatedRow, StatusArguments
    <3>. QED  BY <1>6, <2>0, <2>1, <3>1, GotoTyped DEF MarkProcessing, TypeOK, Phases
  <2>2. CASE Return(c) /\ UNCHANGED jobs
    BY <1>6, <2>2, ReturnTyped DEF MarkProcessing, TypeOK
  <2>. QED  BY <1>6, <2>1, <2>2 DEF MarkProcessing
<1>7. ASSUME NEW c \in Callers, Complete(c)
      PROVE  TypeOK' /\ CallsWellFormed'
  <2>0. cur[c] \in Jobs
    BY <1>7 DEF Complete, CallsWellFormed, Handling
  <2>1. jobs' \in [Jobs -> Row]
    BY <1>7, <1>t, <2>0, StatusUpdatedRow, StatusArguments DEF Complete
  <2>2. returned' \subseteq Jobs \X JobStatus
    BY <1>7, <2>0, StatusArguments DEF Complete, Returned, TypeOK
  <2>. QED  BY <1>7, <2>1, <2>2, ReturnTyped DEF Complete, TypeOK
<1>8. ASSUME NEW c \in Callers, CompleteFaults(c)
      PROVE  TypeOK' /\ CallsWellFormed'
  <2>0. cur[c] \in Jobs /\ (pc[c] = "by_id" => cur[c] \in ByIdJobs)
    BY <1>8 DEF CompleteFaults, CallsWellFormed, Handling
  <2>1. jobs' \in [Jobs -> Row]
    BY <1>8, <1>t, <2>0, StatusUpdatedRow, StatusArguments DEF CompleteFaults, TypeOK
  <2>2. faults' \in 0..MaxFaults
    BY <1>8, FaultTyped DEF CompleteFaults, TypeOK
  <2>3. /\ pc' \in [Callers -> Phases]
        /\ cur' \in [Callers -> Jobs \union {NoJob}]
        /\ CallsWellFormed'
    BY <1>8, <2>0, GotoTyped DEF CompleteFaults, Phases
  <2>. QED  BY <1>8, <2>1, <2>2, <2>3 DEF CompleteFaults, TypeOK
<1>9. ASSUME NEW c \in Callers, Fail(c)
      PROVE  TypeOK' /\ CallsWellFormed'
  <2>0. cur[c] \in Jobs
    BY <1>9 DEF Fail, CallsWellFormed
  <2>1. jobs' \in [Jobs -> Row]
    BY <1>9, <1>t, <2>0, StatusUpdatedRow, StatusArguments DEF Fail
  <2>2. returned' \subseteq Jobs \X JobStatus
    BY <1>9, <2>0, StatusArguments DEF Fail, Returned, TypeOK
  <2>. QED  BY <1>9, <2>1, <2>2, ReturnTyped DEF Fail, TypeOK
<1>10. ASSUME NEW c \in Callers, FailFaults(c)
       PROVE  TypeOK' /\ CallsWellFormed'
  <2>0. cur[c] \in Jobs
    BY <1>10 DEF FailFaults, CallsWellFormed
  <2>1. jobs' \in [Jobs -> Row]
    <3>1. StatusUpdated(cur[c], "failed", Undefined, "handler") \in [Jobs -> Row]
      BY <1>t, <2>0, StatusUpdatedRow, StatusArguments
    <3>. QED  BY <1>10, <1>t, <3>1 DEF FailFaults
  <2>2. faults' \in 0..MaxFaults
    BY <1>10, FaultTyped DEF FailFaults, TypeOK
  <2>. QED  BY <1>10, <2>1, <2>2, ReturnTyped DEF FailFaults, TypeOK
<1>11. CASE FailStaleJobs
  BY <1>11, <1>t, StaleFailedRow DEF FailStaleJobs, callVars, TypeOK, CallsWellFormed
<1>12. ASSUME NEW j \in Jobs, DeleteJob(j)
       PROVE  TypeOK' /\ CallsWellFormed'
  BY <1>12, <1>t, DeletedRow DEF DeleteJob, callVars, TypeOK, CallsWellFormed
<1>13. CASE Tick
  BY <1>13, <1>t, AgedRow DEF Tick, callVars, TypeOK, CallsWellFormed
<1>14. CASE UNCHANGED vars
  BY <1>14 DEF vars, TypeOK, CallsWellFormed
<1>15. ASSUME NEW c \in Callers, MarkFaults(c)
       PROVE  TypeOK' /\ CallsWellFormed'
  <2>0. cur[c] \in Jobs
    BY <1>15 DEF MarkFaults, CallsWellFormed
  <2>1. StatusUpdated(cur[c], "processing", Undefined, Undefined) \in [Jobs -> Row]
    BY <1>t, <2>0, StatusUpdatedRow, StatusArguments
  <2>2. jobs' \in [Jobs -> Row]
    BY <1>15, <1>t, <2>1 DEF MarkFaults
  <2>. QED  BY <1>15, <2>2, FaultTyped, ReturnTyped DEF MarkFaults, TypeOK
<1>. QED
  BY <1>1, <1>2, <1>3, <1>4, <1>5, <1>6, <1>7, <1>8, <1>9, <1>10, <1>11, <1>12, <1>13, <1>14, <1>15
  DEF Next, Call

\* Every reachable state of the service is well typed.
THEOREM TypeCorrect == Spec => []TypeOK
<1>1. Init => TypeOK /\ CallsWellFormed
  BY InitTyped
<1>2. (TypeOK /\ CallsWellFormed) /\ [Next]_vars => (TypeOK /\ CallsWellFormed)'
  BY TypeStep
<1>. QED  BY <1>1, <1>2, PTL DEF Spec

-----------------------------------------------------------------------------
(* Rows in callers' hands                                                  *)

\* A call that gives a row status, and then returns or writes again, keeps the rows in
\* callers' hands apart; only a call of processNextJob may add to what was returned.
LEMMA SettleStep ==
  ASSUME IInv, TypeOK', CallsWellFormed',
         NEW c \in Callers, pc[c] \in Handling,
         \/ UNCHANGED jobs
         \/ \E status \in Terminal, result \in Results \union {Undefined},
               error \in Errors \union {Undefined} :
               jobs' = StatusUpdated(cur[c], status, result, error),
         \/ Return(c)
         \/ pc[c] = "next" /\ Goto(c, "next_failing", cur[c])
         \/ pc[c] = "by_id" /\ Goto(c, "by_id_failing", cur[c])
  PROVE  /\ HandledNotClaimable'
         /\ ClaimedRowsExclusive'
         /\ \A j \in Jobs : jobs'[j].status # jobs[j].status =>
              j = cur[c] /\ jobs'[j].status \in Terminal
         /\ \A d \in Callers : pc'[d] \in Handling =>
              pc[d] \in Handling /\ cur'[d] = cur[d]
<1>. USE DEF IInv
<1>1. cur[c] \in Jobs /\ TableTypeOK
  BY DEF CallsWellFormed, TypeOK
<1>2. \A j \in Jobs : jobs'[j].status # jobs[j].status =>
        j = cur[c] /\ jobs'[j].status \in Terminal
  <2>1. CASE UNCHANGED jobs
    BY <2>1
  <2>2. ASSUME NEW status \in Terminal, NEW result \in Results \union {Undefined},
               NEW error \in Errors \union {Undefined},
               jobs' = StatusUpdated(cur[c], status, result, error)
        PROVE  \A j \in Jobs : jobs'[j].status # jobs[j].status =>
                 j = cur[c] /\ jobs'[j].status \in Terminal
    <3>. DEFINE k == cur[c]
    <3>2. k \in Jobs /\ status \in JobStatus /\ TableTypeOK
      BY <1>1 DEF JobStatus
    <3>. HIDE DEF k
    <3>3. /\ StatusUpdated(k, status, result, error)[k].status = status
          /\ \A i \in Jobs : i # k => StatusUpdated(k, status, result, error)[i] = jobs[i]
      BY <3>2, StatusWritten
    <3>. QED  BY <2>2, <3>3 DEF k
  <2>. QED  BY <2>1, <2>2
<1>3. \A d \in Callers : pc'[d] \in Handling => pc[d] \in Handling /\ cur'[d] = cur[d]
  BY DEF TypeOK, Return, Goto, Handling
<1>4. HandledNotClaimable'
  BY <1>2, <1>3 DEF HandledNotClaimable, CallsWellFormed, Terminal
<1>5. ClaimedRowsExclusive'
  BY <1>3 DEF ClaimedRowsExclusive
<1>. QED  BY <1>2, <1>3, <1>4, <1>5

\* Steps that leave the calls alone and do not make a row claimable.
LEMMA TableStep ==
  ASSUME IInv, UNCHANGED <<pc, cur, returned>>,
         \A j \in Jobs : jobs'[j].status # jobs[j].status =>
           \/ jobs[j].status = "absent" /\ jobs'[j].status = "pending"
           \/ jobs[j].status = "pending" /\ jobs'[j].status = "processing"
           \/ jobs[j].status = "processing" /\ jobs'[j].status = "failed"
           \/ jobs'[j].status = "deleted"
  PROVE  HandledNotClaimable' /\ ClaimedRowsExclusive' /\ ReturnedIsOver' /\ ReturnedStatusStands'
<1>. USE DEF IInv
<1>1. HandledNotClaimable'
  BY DEF HandledNotClaimable, CallsWellFormed
<1>2. ClaimedRowsExclusive'
  BY DEF ClaimedRowsExclusive
<1>3. \A r \in returned : r[1] \in Jobs
  BY DEF TypeOK
<1>4. ReturnedIsOver'
  BY <1>3 DEF ReturnedIsOver
<1>5. ReturnedStatusStands'
  BY <1>3 DEF ReturnedStatusStands, ReturnedIsOver, Terminal
<1>. QED  BY <1>1, <1>2, <1>4, <1>5

LEMMA HandsStep ==
  ASSUME IInv, [Next]_vars, TypeOK', CallsWellFormed'
  PROVE  HandledNotClaimable' /\ ClaimedRowsExclusive' /\ ReturnedIsOver' /\ ReturnedStatusStands'
<1>. DEFINE Goal == HandledNotClaimable' /\ ClaimedRowsExclusive' /\ ReturnedIsOver' /\ ReturnedStatusStands'
<1>. USE DEF IInv
<1>t. /\ TableTypeOK
      /\ \A r \in returned : r[1] \in Jobs
  BY DEF TypeOK
<1>1. ASSUME NEW c \in Callers, NEW t \in Types, NEW u \in Users, EnqueueInsert(c, t, u)
      PROVE  Goal
  <2>1. \A j \in Jobs : jobs'[j].status # jobs[j].status =>
          jobs[j].status = "absent" /\ jobs'[j].status = "pending"
    <3>1. PICK i \in Jobs, s \in 1..MaxStamp :
            jobs[i].status = "absent" /\ jobs' = Inserted(i, t, u, s)
      BY <1>1 DEF EnqueueInsert
    <3>2. /\ Inserted(i, t, u, s)[i] = NewRow(t, u, s)
          /\ \A h \in Jobs : h # i => Inserted(i, t, u, s)[h] = jobs[h]
      BY <1>t, InsertedRow
    <3>. QED  BY <3>1, <3>2 DEF NewRow
  <2>. QED  BY <1>1, <2>1, TableStep DEF EnqueueInsert, callVars
<1>2. ASSUME NEW c \in Callers, pc[c] \notin Handling, pc'[c] \notin Handling,
             UNCHANGED <<jobs, returned>>,
             \A d \in Callers \ {c} : pc'[d] = pc[d] /\ cur'[d] = cur[d]
      PROVE  Goal
  <2>1. \A d \in Callers : pc'[d] \in Handling => pc[d] \in Handling /\ cur'[d] = cur[d]
    BY <1>2
  <2>2. HandledNotClaimable' /\ ClaimedRowsExclusive'
    BY <1>2, <2>1 DEF HandledNotClaimable, ClaimedRowsExclusive
  <2>3. ReturnedIsOver' /\ ReturnedStatusStands'
    BY <1>2, <2>1 DEF ReturnedIsOver, ReturnedStatusStands
  <2>. QED  BY <2>2, <2>3
<1>3. ASSUME NEW c \in Callers, NEW t \in Types, ClaimNextJob(c, t)
      PROVE  Goal
  <2>1. PICK j \in Oldest(t) : jobs' = Claimed(j) /\ Goto(c, "next", j)
    BY <1>3 DEF ClaimNextJob
  <2>2. j \in Jobs /\ jobs[j].status = "pending"
    BY DEF Oldest, Pending
  <2>3. /\ jobs'[j].status = "processing"
        /\ \A i \in Jobs : i # j => jobs'[i] = jobs[i]
    BY <1>t, <2>1, <2>2, ClaimedRow DEF TableTypeOK, Row
  <2>4. \A d \in Callers : pc[d] \in Handling => cur[d] # j
    BY <2>2 DEF HandledNotClaimable
  <2>5. \A d \in Callers : IF d = c THEN pc'[d] = "next" /\ cur'[d] = j
                                     ELSE pc'[d] = pc[d] /\ cur'[d] = cur[d]
    BY <2>1 DEF Goto, TypeOK
  <2>6. HandledNotClaimable'
    BY <2>3, <2>5 DEF HandledNotClaimable, CallsWellFormed
  <2>7. ClaimedRowsExclusive'
    BY <2>4, <2>5 DEF ClaimedRowsExclusive
  <2>8. \A r \in returned : r[1] # j
    BY <2>2 DEF ReturnedIsOver
  <2>9. ReturnedIsOver' /\ ReturnedStatusStands'
    BY <1>3, <1>t, <2>3, <2>5, <2>8 DEF ClaimNextJob, ReturnedIsOver, ReturnedStatusStands, Handling
  <2>. QED  BY <2>6, <2>7, <2>9
<1>4. ASSUME NEW c \in Callers, MarkProcessing(c), Present(cur[c]),
             jobs' = StatusUpdated(cur[c], "processing", Undefined, Undefined),
             Goto(c, "by_id", cur[c])
      PROVE  Goal
  <2>1. cur[c] \in Jobs /\ cur[c] \in ByIdJobs
    BY <1>4 DEF MarkProcessing, CallsWellFormed
  <2>2. /\ jobs'[cur[c]].status = "processing"
        /\ \A i \in Jobs : i # cur[c] => jobs'[i] = jobs[i]
    <3>1. "processing" \in JobStatus /\ Undefined \in Results \union {Undefined}
                                      /\ Undefined \in Errors \union {Undefined}
      BY StatusArguments
    <3>2. LET table == StatusUpdated(cur[c], "processing", Undefined, Undefined)
          IN /\ table[cur[c]].status = "processing"
             /\ \A i \in Jobs : i # cur[c] => table[i] = jobs[i]
      BY <1>t, <2>1, <3>1, StatusWritten
    <3>. QED  BY <1>4, <3>2
  <2>3. \A d \in Callers : IF d = c THEN pc'[d] = "by_id" /\ cur'[d] = cur[c]
                                     ELSE pc'[d] = pc[d] /\ cur'[d] = cur[d]
    BY <1>4 DEF Goto, TypeOK
  <2>4. HandledNotClaimable'
    BY <2>2, <2>3 DEF HandledNotClaimable, CallsWellFormed
  <2>5. ClaimedRowsExclusive'
    BY <2>1, <2>3 DEF ClaimedRowsExclusive
  <2>6. ReturnedIsOver' /\ ReturnedStatusStands'
    BY <1>4, <1>t, <2>1, <2>2, <2>3
    DEF MarkProcessing, ReturnedIsOver, ReturnedStatusStands
  <2>. QED  BY <2>4, <2>5, <2>6
<1>5. ASSUME NEW c \in Callers, NEW status \in Terminal, pc[c] \in Handling,
             NEW result \in Results \union {Undefined}, NEW error \in Errors \union {Undefined},
             jobs' = StatusUpdated(cur[c], status, result, error),
             Returned(c, status), Return(c)
      PROVE  Goal
  <2>0. cur[c] \in Jobs /\ status \in JobStatus
    BY <1>5 DEF CallsWellFormed, JobStatus
  <2>1. /\ HandledNotClaimable' /\ ClaimedRowsExclusive'
        /\ \A d \in Callers : pc'[d] \in Handling => pc[d] \in Handling /\ cur'[d] = cur[d]
    BY <1>5, SettleStep
  <2>2. /\ jobs'[cur[c]].status = status
        /\ \A i \in Jobs : i # cur[c] => jobs'[i] = jobs[i]
    <3>1. PICK k \in Jobs : k = cur[c]
      BY <2>0
    <3>2. /\ StatusUpdated(k, status, result, error)[k].status = status
          /\ \A i \in Jobs : i # k => StatusUpdated(k, status, result, error)[i] = jobs[i]
      BY <1>t, <2>0, StatusWritten
    <3>. QED  BY <1>5, <3>1, <3>2
  <2>3. \A r \in returned : r[1] \notin ByIdJobs => r[1] # cur[c]
    BY <1>5 DEF ReturnedIsOver
  <2>4. cur[c] \notin ByIdJobs =>
          \A d \in Callers : pc'[d] \in Handling => cur'[d] # cur[c]
    <3>1. pc'[c] \notin Handling
      BY <1>5 DEF Return, TypeOK, Handling
    <3>. QED  BY <1>5, <2>1, <3>1 DEF ClaimedRowsExclusive
  <2>5. \A r \in returned' : r \in returned \/ r = <<cur[c], status>>
    BY <1>5 DEF Returned
  <2>6. ReturnedIsOver'
    <3>. SUFFICES ASSUME NEW r \in returned'
                  PROVE  /\ r[2] \in Terminal
                         /\ jobs'[r[1]].status \notin {"pending", "absent"}
                         /\ r[1] \notin ByIdJobs =>
                              \A d \in Callers : pc'[d] \in Handling => cur'[d] # r[1]
      BY DEF ReturnedIsOver
    <3>1. CASE r \in returned
      BY <1>t, <2>1, <2>2, <3>1 DEF ReturnedIsOver, Terminal
    <3>2. CASE r = <<cur[c], status>>
      BY <2>2, <2>4, <3>2 DEF Terminal
    <3>. QED  BY <2>5, <3>1, <3>2
  <2>7. ReturnedStatusStands'
    BY <1>t, <2>2, <2>3, <2>5 DEF ReturnedStatusStands
  <2>. QED  BY <2>1, <2>6, <2>7
<1>6. ASSUME NEW c \in Callers, pc[c] \in Handling, UNCHANGED returned,
             \/ UNCHANGED jobs
             \/ \E status \in Terminal, result \in Results \union {Undefined},
                   error \in Errors \union {Undefined} :
                   jobs' = StatusUpdated(cur[c], status, result, error),
             \/ Return(c)
             \/ pc[c] = "next" /\ Goto(c, "next_failing", cur[c])
             \/ pc[c] = "by_id" /\ Goto(c, "by_id_failing", cur[c])
      PROVE  Goal
  <2>1. /\ HandledNotClaimable' /\ ClaimedRowsExclusive'
        /\ \A j \in Jobs : jobs'[j].status # jobs[j].status =>
             j = cur[c] /\ jobs'[j].status \in Terminal
        /\ \A d \in Callers : pc'[d] \in Handling => pc[d] \in Handling /\ cur'[d] = cur[d]
    BY <1>6, SettleStep
  <2>2. \A r \in returned : r[1] \notin ByIdJobs => r[1] # cur[c]
    BY <1>6 DEF ReturnedIsOver
  <2>3. ReturnedIsOver'
    BY <1>6, <1>t, <2>1 DEF ReturnedIsOver, Terminal
  <2>4. ReturnedStatusStands'
    BY <1>6, <1>t, <2>1, <2>2 DEF ReturnedStatusStands
  <2>. QED  BY <2>1, <2>3, <2>4
<1>7. ASSUME NEW c \in Callers, NEW j \in Jobs, ReadJobById(c, j)
      PROVE  Goal
  BY <1>2, <1>7 DEF ReadJobById, Goto, TypeOK, Handling
<1>8. ASSUME NEW c \in Callers, MarkProcessing(c)
      PROVE  Goal
  <2>1. CASE Return(c) /\ UNCHANGED jobs
    BY <1>2, <1>8, <2>1 DEF MarkProcessing, Return, TypeOK, Handling
  <2>. QED  BY <1>4, <1>8, <2>1 DEF MarkProcessing
<1>9. ASSUME NEW c \in Callers, Complete(c)
      PROVE  Goal
  BY <1>5, <1>9, StatusArguments DEF Complete, Handling, Terminal
<1>10. ASSUME NEW c \in Callers, Fail(c)
       PROVE  Goal
  BY <1>5, <1>10, StatusArguments DEF Fail, Terminal
<1>11. ASSUME NEW c \in Callers, CompleteFaults(c)
       PROVE  Goal
  <2>1. pc[c] \in Handling
    BY <1>11 DEF CompleteFaults, Handling
  <2>2. \/ UNCHANGED jobs
        \/ \E status \in Terminal, result \in Results \union {Undefined},
              error \in Errors \union {Undefined} :
              jobs' = StatusUpdated(cur[c], status, result, error)
    BY <1>11, StatusArguments DEF CompleteFaults, Terminal
  <2>3. \/ pc[c] = "next" /\ Goto(c, "next_failing", cur[c])
        \/ pc[c] = "by_id" /\ Goto(c, "by_id_failing", cur[c])
    BY <1>11 DEF CompleteFaults
  <2>. QED  BY <1>6, <1>11, <2>1, <2>2, <2>3 DEF CompleteFaults
<1>12. ASSUME NEW c \in Callers, FailFaults(c)
       PROVE  Goal
  <2>1. \/ UNCHANGED jobs
        \/ \E status \in Terminal, result \in Results \union {Undefined},
              error \in Errors \union {Undefined} :
              jobs' = StatusUpdated(cur[c], status, result, error)
    BY <1>12, StatusArguments DEF FailFaults, Terminal
  <2>. QED  BY <1>6, <1>12, <2>1 DEF FailFaults
<1>13. CASE FailStaleJobs
  <2>1. \A j \in Jobs : jobs'[j].status # jobs[j].status =>
          jobs[j].status = "processing" /\ jobs'[j].status = "failed"
    BY <1>13, <1>t, StaleFailedRow DEF FailStaleJobs
  <2>. QED  BY <1>13, <2>1, TableStep DEF FailStaleJobs, callVars
<1>14. ASSUME NEW j \in Jobs, DeleteJob(j)
       PROVE  Goal
  <2>1. \A i \in Jobs : jobs'[i].status # jobs[i].status => jobs'[i].status = "deleted"
    BY <1>14, <1>t, DeletedRow DEF DeleteJob
  <2>. QED  BY <1>14, <2>1, TableStep DEF DeleteJob, callVars
<1>15. CASE Tick
  <2>1. \A i \in Jobs : jobs'[i].status = jobs[i].status
    BY <1>15, <1>t, AgedRow DEF Tick
  <2>. QED  BY <1>15, <2>1, TableStep DEF Tick, callVars
<1>16. CASE UNCHANGED vars
  BY <1>16, TableStep DEF vars
<1>17. ASSUME NEW c \in Callers, NEW t \in Types, NEW u \in Users, NEW k \in Keys,
              EnqueueKeyed(c, t, u, k)
       PROVE  Goal
  BY <1>17, TableStep DEF EnqueueKeyed, callVars
<1>18. ASSUME NEW c \in Callers, NEW t \in Types, ClaimFaults(c, t)
       PROVE  Goal
  <2>1. PICK j \in Oldest(t) : jobs' = Claimed(j)
    BY <1>18 DEF ClaimFaults
  <2>2. j \in Jobs /\ jobs[j].status = "pending"
    BY DEF Oldest, Pending
  <2>3. /\ jobs'[j].status = "processing"
        /\ \A i \in Jobs : i # j => jobs'[i] = jobs[i]
    BY <1>t, <2>1, <2>2, ClaimedRow DEF TableTypeOK, Row
  <2>. QED  BY <1>18, <2>2, <2>3, TableStep DEF ClaimFaults, callVars
<1>19. ASSUME NEW c \in Callers, MarkFaults(c)
       PROVE  Goal
  <2>1. CASE UNCHANGED jobs
    BY <1>2, <1>19, <2>1 DEF MarkFaults, Return, TypeOK, Handling
  <2>2. CASE Present(cur[c]) /\ jobs' = StatusUpdated(cur[c], "processing", Undefined, Undefined)
    <3>1. cur[c] \in Jobs /\ cur[c] \in ByIdJobs
      BY <1>19 DEF MarkFaults, CallsWellFormed
    <3>2. /\ jobs'[cur[c]].status = "processing"
          /\ \A i \in Jobs : i # cur[c] => jobs'[i] = jobs[i]
      <4>1. PICK k \in Jobs : k = cur[c]
        BY <3>1
      <4>2. /\ "processing" \in JobStatus /\ Undefined \in Results \union {Undefined}
            /\ Undefined \in Errors \union {Undefined}
        BY StatusArguments
      <4>3. /\ StatusUpdated(k, "processing", Undefined, Undefined)[k].status = "processing"
            /\ \A i \in Jobs : i # k => StatusUpdated(k, "processing", Undefined, Undefined)[i] = jobs[i]
        BY <1>t, <4>2, StatusWritten
      <4>. QED  BY <2>2, <4>1, <4>3
    <3>3. \A d \in Callers : pc'[d] \in Handling => pc[d] \in Handling /\ cur'[d] = cur[d]
      BY <1>19 DEF MarkFaults, Return, TypeOK, Handling
    <3>4. UNCHANGED returned
      BY <1>19 DEF MarkFaults
    <3>5. HandledNotClaimable'
      BY <3>2, <3>3 DEF HandledNotClaimable, CallsWellFormed
    <3>6. ClaimedRowsExclusive'
      BY <3>3 DEF ClaimedRowsExclusive
    <3>7. ReturnedIsOver' /\ ReturnedStatusStands'
      BY <1>t, <3>1, <3>2, <3>3, <3>4 DEF ReturnedIsOver, ReturnedStatusStands
    <3>. QED  BY <3>5, <3>6, <3>7
  <2>. QED  BY <1>19, <2>1, <2>2 DEF MarkFaults
<1>. QED
  BY <1>17, <1>18, <1>19, <1>1, <1>3, <1>7, <1>8, <1>9, <1>10, <1>11, <1>12, <1>13, <1>14, <1>15, <1>16 DEF Next, Call
-----------------------------------------------------------------------------
(* The invariant, and what follows from it                                 *)

LEMMA Invariant == Spec => []IInv
<1>1. Init => IInv
  <2>. SUFFICES ASSUME Init PROVE IInv
    OBVIOUS
  <2>2. TypeOK /\ CallsWellFormed
    BY InitTyped
  <2>3. HandledNotClaimable /\ ClaimedRowsExclusive
    BY DEF Init, HandledNotClaimable, ClaimedRowsExclusive, Handling
  <2>4. ReturnedIsOver /\ ReturnedStatusStands
    BY DEF Init, ReturnedIsOver, ReturnedStatusStands
  <2>. QED  BY <2>2, <2>3, <2>4 DEF IInv
<1>2. IInv /\ [Next]_vars => IInv'
  <2>. SUFFICES ASSUME IInv, [Next]_vars PROVE IInv'
    OBVIOUS
  <2>1. TypeOK' /\ CallsWellFormed'
    BY TypeStep DEF IInv
  <2>2. HandledNotClaimable' /\ ClaimedRowsExclusive' /\ ReturnedIsOver' /\ ReturnedStatusStands'
    BY <2>1, HandsStep
  <2>. QED  BY <2>1, <2>2 DEF IInv
<1>. QED  BY <1>1, <1>2, PTL DEF Spec

\* However many callers claim, sweep, lose replies and delete, a row that is only ever
\* taken by a claim is handled by at most one of them at a time.
THEOREM ClaimsAreExclusive == Spec => []ClaimedRowsExclusive
<1>1. IInv => ClaimedRowsExclusive
  BY DEF IInv
<1>. QED  BY <1>1, Invariant, PTL

\* What processNextJob returns stays true of the row until the row is deleted.
THEOREM ReturnsAreFinal == Spec => []ReturnedStatusStands
<1>1. IInv => ReturnedStatusStands
  BY DEF IInv
<1>. QED  BY <1>1, Invariant, PTL

\* No statement writes PENDING but the INSERT, and that one only for a new row.
LEMMA PendingStep ==
  ASSUME TypeOK, CallsWellFormed, [Next]_vars
  PROVE  \A j \in Jobs : jobs[j].status \notin {"pending", "absent"} => jobs'[j].status # "pending"
<1>. DEFINE Goal == \A j \in Jobs :
                      jobs[j].status \notin {"pending", "absent"} => jobs'[j].status # "pending"
<1>t. TableTypeOK
  BY DEF TypeOK
<1>1. ASSUME NEW c \in Callers, NEW t \in Types, NEW u \in Users, EnqueueInsert(c, t, u)
      PROVE  Goal
  <2>1. PICK j \in Jobs, s \in 1..MaxStamp :
          jobs[j].status = "absent" /\ jobs' = Inserted(j, t, u, s)
    BY <1>1 DEF EnqueueInsert
  <2>2. \A i \in Jobs : i # j => jobs'[i] = jobs[i]
    BY <1>t, <2>1, InsertedRow
  <2>. QED  BY <2>1, <2>2
<1>2. ASSUME NEW c \in Callers, NEW t \in Types, ClaimNextJob(c, t) \/ ClaimFaults(c, t)
      PROVE  Goal
  <2>1. PICK j \in Jobs : jobs' = Claimed(j)
    BY <1>2 DEF ClaimNextJob, ClaimFaults, Oldest, Pending
  <2>2. \A i \in Jobs : i # j => jobs'[i] = jobs[i]
    BY <1>t, <2>1, ClaimedRow
  <2>3. jobs'[j] = [jobs[j] EXCEPT !.status = "processing", !.age = 0]
    BY <1>t, <2>1, ClaimedRow
  <2>4. jobs[j] \in Row
    BY <1>t DEF TableTypeOK
  <2>5. jobs'[j].status = "processing"
    BY <2>3, <2>4 DEF Row
  <2>. QED  BY <2>2, <2>5
<1>3. ASSUME NEW j \in Jobs, NEW status \in JobStatus \ {"pending"},
             NEW result \in Results \union {Undefined}, NEW error \in Errors \union {Undefined},
             jobs' = StatusUpdated(j, status, result, error)
      PROVE  Goal
  <2>1. jobs'[j].status = status /\ \A i \in Jobs : i # j => jobs'[i] = jobs[i]
    BY <1>t, <1>3, StatusWritten
  <2>. QED  BY <2>1
<1>4. CASE UNCHANGED jobs
  BY <1>4
<1>5. ASSUME NEW c \in Callers,
             MarkProcessing(c) \/ MarkFaults(c) \/ Complete(c) \/ CompleteFaults(c) \/ Fail(c) \/ FailFaults(c)
      PROVE  Goal
  <2>1. cur[c] \in Jobs
    BY <1>5 DEF MarkProcessing, MarkFaults, Complete, CompleteFaults, Fail, FailFaults, CallsWellFormed, Handling
  <2>2. {"processing", "completed", "failed"} \subseteq JobStatus \ {"pending"}
    BY StatusArguments
  <2>. QED  BY <1>3, <1>4, <1>5, <2>1, <2>2, StatusArguments
            DEF MarkProcessing, MarkFaults, Complete, CompleteFaults, Fail, FailFaults
<1>6. CASE FailStaleJobs
  BY <1>t, <1>6, StaleFailedRow DEF FailStaleJobs
<1>7. ASSUME NEW j \in Jobs, DeleteJob(j)
      PROVE  Goal
  BY <1>t, <1>7, DeletedRow DEF DeleteJob
<1>8. CASE Tick
  BY <1>t, <1>8, AgedRow DEF Tick
<1>. QED
  BY <1>1, <1>2, <1>4, <1>5, <1>6, <1>7, <1>8
  DEF Next, Call, vars, EnqueueKeyed, ReadJobById

\* No sequence of calls hands a row back to claimNextJob.
THEOREM NeverBackToPending == Spec => NeverClaimableAgain
<1>1. IInv /\ [Next]_vars =>
        [\A j \in Jobs : jobs[j].status \notin {"pending", "absent"} => jobs'[j].status # "pending"]_vars
  BY PendingStep DEF IInv
<1>. QED  BY <1>1, Invariant, PTL DEF Spec, NeverClaimableAgain
=============================================================================
