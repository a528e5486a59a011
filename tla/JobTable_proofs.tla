-------------------------- MODULE JobTable_proofs --------------------------
(***************************************************************************)
(* What the statements of JobTable do to one row: each keeps the table     *)
(* well formed, and changes the fields of the rows it names and no others. *)
(* The proofs about the queue and the worker use these facts only.         *)
(***************************************************************************)
EXTENDS JobTable, TLAPS

\* Replacing fields of a row by values of their types gives a row.
LEMMA AgeUpdate ==
  ASSUME NEW r \in Row, NEW age \in 0..(StaleAge + 1)
  PROVE  [r EXCEPT !.age = age] \in Row
BY Zenon DEF Row

LEMMA StatusUpdate ==
  ASSUME NEW r \in Row, NEW status \in RowStatus, NEW age \in 0..(StaleAge + 1)
  PROVE  [r EXCEPT !.status = status, !.age = age] \in Row
BY Zenon DEF Row

LEMMA ErrorUpdate ==
  ASSUME NEW r \in Row, NEW status \in RowStatus, NEW age \in 0..(StaleAge + 1),
         NEW error \in Errors
  PROVE  [r EXCEPT !.status = status, !.age = age, !.error = error] \in Row
BY Zenon DEF Row

LEMMA ResultUpdate ==
  ASSUME NEW r \in Row, NEW status \in RowStatus, NEW age \in 0..(StaleAge + 1),
         NEW result \in Results, NEW error \in Errors
  PROVE  [r EXCEPT !.status = status, !.age = age, !.result = result, !.error = error] \in Row
BY Zenon DEF Row

LEMMA AgeZero == 0 \in 0..(StaleAge + 1)
  BY TableAssumption

\* The table that TableInit describes is well formed (job schema's defaults).
LEMMA InitialTable ==
  TableInit => TableTypeOK /\ \A j \in Jobs : jobs[j].status = "absent"
<1>1. (CHOOSE t \in Types : TRUE) \in Types
  BY TableAssumption
<1>2. (CHOOSE u \in Users : TRUE) \in Users
  BY TableAssumption
<1>3. ASSUME NEW t \in Types, NEW u \in Users
      PROVE  LET row == [NewRow(t, u, 0) EXCEPT !.status = "absent"]
             IN row \in Row /\ row.status = "absent"
  BY TableAssumption
  DEF NewRow, Row, RowStatus, JobStatus, Terminal, Results, Errors
<1>4. NoRow \in Row /\ NoRow.status = "absent"
  BY <1>1, <1>2, <1>3 DEF NoRow
<1>. QED  BY <1>4 DEF TableInit, TableTypeOK

\* INSERT fills one row with the values given (enqueue).
LEMMA InsertedRow ==
  ASSUME TableTypeOK, NEW j \in Jobs, NEW t \in Types, NEW u \in Users,
         NEW s \in 1..MaxStamp
  PROVE  /\ Inserted(j, t, u, s) \in [Jobs -> Row]
         /\ Inserted(j, t, u, s)[j] = NewRow(t, u, s)
         /\ \A i \in Jobs : i # j => Inserted(j, t, u, s)[i] = jobs[i]
<1>1. NewRow(t, u, s) \in Row
  BY TableAssumption
  DEF NewRow, Row, RowStatus, JobStatus, Terminal, Results, Errors
<1>. QED  BY <1>1 DEF Inserted, TableTypeOK

\* The claim moves one row to processing and restarts its clock (claimNextJob).
LEMMA ClaimedRow ==
  ASSUME TableTypeOK, NEW j \in Jobs
  PROVE  /\ Claimed(j) \in [Jobs -> Row]
         /\ Claimed(j)[j] = [jobs[j] EXCEPT !.status = "processing", !.age = 0]
         /\ \A i \in Jobs : i # j => Claimed(j)[i] = jobs[i]
<1>1. jobs[j] \in Row
  BY DEF TableTypeOK
<1>2. [jobs[j] EXCEPT !.status = "processing", !.age = 0] \in Row
  BY <1>1, StatusUpdate, AgeZero DEF RowStatus, JobStatus
<1>3. Claimed(j) = [jobs EXCEPT ![j] = [jobs[j] EXCEPT !.status = "processing", !.age = 0]]
  BY <1>1 DEF Claimed, TableTypeOK, Row
<1>. QED  BY <1>2, <1>3 DEF TableTypeOK

\* A status write sets status, and result and error when they are given
\* (updateJobStatus).
LEMMA StatusUpdatedRow ==
  ASSUME TableTypeOK, NEW j \in Jobs, NEW status \in JobStatus,
         NEW result \in Results \union {Undefined},
         NEW error \in Errors \union {Undefined}
  PROVE  LET table == StatusUpdated(j, status, result, error)
         IN /\ table \in [Jobs -> Row]
            /\ table[j].status = status
            /\ table[j].result = IF result = Undefined THEN jobs[j].result ELSE result
            /\ table[j].type = jobs[j].type
            /\ table[j].createdBy = jobs[j].createdBy
            /\ table[j].stamp = jobs[j].stamp
            /\ \A i \in Jobs : i # j => table[i] = jobs[i]
<1>. DEFINE res == IF result = Undefined THEN jobs[j].result ELSE result
            err == IF error = Undefined THEN jobs[j].error ELSE error
            row == [jobs[j] EXCEPT !.status = status, !.age = 0,
                                   !.result = res, !.error = err]
<1>1. jobs[j] \in Row
  BY DEF TableTypeOK
<1>2. res \in Results /\ err \in Errors
  BY <1>1 DEF Row, Undefined, Results, Errors
<1>3. row \in Row
  BY <1>1, <1>2, ResultUpdate, AgeZero DEF RowStatus
<1>4. StatusUpdated(j, status, result, error) = [jobs EXCEPT ![j] = row]
  BY <1>1 DEF StatusUpdated, TableTypeOK, Row
<1>5. /\ row.status = status
      /\ row.result = res
      /\ row.type = jobs[j].type
      /\ row.createdBy = jobs[j].createdBy
      /\ row.stamp = jobs[j].stamp
  BY <1>1 DEF Row
<1>. HIDE DEF row
<1>. QED  BY <1>3, <1>4, <1>5 DEF TableTypeOK

\* ... so it writes one status and no other row.
LEMMA StatusWritten ==
  ASSUME TableTypeOK, NEW j \in Jobs, NEW status \in JobStatus,
         NEW result \in Results \union {Undefined},
         NEW error \in Errors \union {Undefined}
  PROVE  /\ StatusUpdated(j, status, result, error)[j].status = status
         /\ \A i \in Jobs : i # j => StatusUpdated(j, status, result, error)[i] = jobs[i]
BY StatusUpdatedRow

\* The sweep fails the stale rows, all of which were in processing (failStaleJobs).
LEMMA StaleFailedRow ==
  ASSUME TableTypeOK
  PROVE  /\ StaleFailed \in [Jobs -> Row]
         /\ \A j \in Stale : /\ jobs[j].status = "processing"
                             /\ StaleFailed[j].status = "failed"
                             /\ StaleFailed[j].result = jobs[j].result
                             /\ StaleFailed[j].type = jobs[j].type
                             /\ StaleFailed[j].createdBy = jobs[j].createdBy
                             /\ StaleFailed[j].stamp = jobs[j].stamp
         /\ \A j \in Jobs : j \notin Stale => StaleFailed[j] = jobs[j]
<1>1. ASSUME NEW j \in Jobs
      PROVE  [jobs[j] EXCEPT !.status = "failed", !.age = 0, !.error = "timeout"] \in Row
  BY ErrorUpdate, AgeZero DEF TableTypeOK, RowStatus, JobStatus, Terminal, Errors
<1>2. StaleFailed \in [Jobs -> Row]
  BY <1>1 DEF StaleFailed, TableTypeOK
<1>3. ASSUME NEW j \in Stale
      PROVE  /\ j \in Jobs /\ jobs[j].status = "processing" /\ jobs[j] \in Row
             /\ StaleFailed[j] = [jobs[j] EXCEPT !.status = "failed", !.age = 0, !.error = "timeout"]
  BY DEF StaleFailed, Stale, TableTypeOK
<1>. QED  BY <1>2, <1>3 DEF StaleFailed, Row

\* Time only changes ages (startedAt against NOW()).
LEMMA AgedRow ==
  ASSUME TableTypeOK
  PROVE  /\ Aged \in [Jobs -> Row]
         /\ \A j \in Jobs : /\ Aged[j].status = jobs[j].status
                            /\ Aged[j].result = jobs[j].result
                            /\ Aged[j].type = jobs[j].type
                            /\ Aged[j].createdBy = jobs[j].createdBy
                            /\ Aged[j].stamp = jobs[j].stamp
<1>1. ASSUME NEW j \in Ageing
      PROVE  [jobs[j] EXCEPT !.age = @ + 1] \in Row
  <2>1. j \in Jobs /\ jobs[j] \in Row /\ jobs[j].age <= StaleAge
    BY DEF Ageing, TableTypeOK
  <2>2. jobs[j].age + 1 \in 0..(StaleAge + 1)
    BY <2>1, TableAssumption DEF Row
  <2>. QED  BY <2>1, <2>2, AgeUpdate
<1>. QED  BY <1>1 DEF Aged, Ageing, TableTypeOK, Row

\* Deletion keeps everything but the status (deleteJob).
LEMMA DeletedRow ==
  ASSUME TableTypeOK, NEW j \in Jobs
  PROVE  /\ Deleted(j) \in [Jobs -> Row]
         /\ Deleted(j)[j].status = "deleted"
         /\ Deleted(j)[j].type = jobs[j].type
         /\ Deleted(j)[j].createdBy = jobs[j].createdBy
         /\ \A i \in Jobs : i # j => Deleted(j)[i] = jobs[i]
<1>1. jobs[j] \in Row
  BY DEF TableTypeOK
<1>2. [jobs[j] EXCEPT !.status = "deleted", !.age = 0] \in Row
  BY <1>1, StatusUpdate, AgeZero DEF RowStatus
<1>3. Deleted(j) = [jobs EXCEPT ![j] = [jobs[j] EXCEPT !.status = "deleted", !.age = 0]]
  BY <1>1 DEF Deleted, TableTypeOK, Row
<1>. QED  BY <1>1, <1>2, <1>3 DEF TableTypeOK, Row
=============================================================================
