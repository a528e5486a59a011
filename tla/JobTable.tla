------------------------------ MODULE JobTable ------------------------------
(***************************************************************************)
(* The Postgres table `job` and the single SQL statements that the queue   *)
(* repository (packages/queue/src/repository.ts) executes on it.  Every    *)
(* operator below is one statement, hence one atomic step; the modules     *)
(* that extend this one decide which actor executes which statement next.  *)
(*                                                                         *)
(* Data that no property distinguishes is abstracted: payloads are left    *)
(* out, `result` is none / valid / invalid (does it decode as a RunResult) *)
(* and `error` is none / handler / defect / timeout (who wrote it).  Only  *)
(* the order of `createdAt` matters (stamp, ties allowed), and `startedAt` *)
(* is kept as the time since then, saturating one past the stale limit.    *)
(* There is no column `idempotencyKey`, as no row ever has a key: its      *)
(* unique index is partial (schemas/jobs.ts) while the INSERT's ON         *)
(* CONFLICT names the columns only, and Postgres, which finds no index for *)
(* that, refuses every INSERT with a key.                                  *)
(***************************************************************************)
EXTENDS Integers

CONSTANTS
  Jobs,       \* row identifiers (generateJobId never repeats one)
  Types,      \* values of the column `type`
  Users,      \* values of the column `createdBy`
  StaleAge,   \* failStaleJobs' maximal age, in clock ticks
  MaxStamp    \* bound on the distinct createdAt values

ASSUME TableAssumption ==
  /\ Types # {}
  /\ Users # {}
  /\ StaleAge \in Nat
  /\ MaxStamp \in Nat

VARIABLE jobs

Terminal == {"completed", "failed"}
JobStatus == {"pending", "processing"} \union Terminal
RowStatus == JobStatus \union {"absent", "deleted"}

Results == {"none", "valid", "invalid"}
Errors  == {"none", "handler", "defect", "timeout"}
Undefined == "undefined"   \* an optional argument that is not passed

Row == [status : RowStatus, type : Types, createdBy : Users,
        stamp : 0..MaxStamp, age : 0..(StaleAge + 1),
        result : Results, error : Errors]

TableTypeOK == jobs \in [Jobs -> Row]

Present(j) == jobs[j].status \in JobStatus

-----------------------------------------------------------------------------
(* INSERT                                                                  *)

\* defaultNow(): never before a row that is already there, ties possible.
NextStamp(s) ==
  /\ s \in 1..MaxStamp
  /\ \A k \in Jobs : Present(k) => jobs[k].stamp <= s
  /\ s = 1 \/ \E k \in Jobs : Present(k) /\ s <= jobs[k].stamp + 1

\* Faulty variant of NewRow: the status goes by the name of the event.
NewRowQueued(t, u, s) ==
  [status |-> "queued", type |-> t, createdBy |-> u,
   stamp |-> s, age |-> 0, result |-> "none", error |-> "none"]

NewRow(t, u, s) ==
  [status |-> "pending", type |-> t, createdBy |-> u,
   stamp |-> s, age |-> 0, result |-> "none", error |-> "none"]

Inserted(j, t, u, s) == [jobs EXCEPT ![j] = NewRow(t, u, s)]

-----------------------------------------------------------------------------
(* UPDATE                                                                  *)

\* Faulty variants of Pending: a claim that also takes rows somebody works on, and one
\* that also retries failed rows.
PendingOrTaken(t) == {j \in Jobs : jobs[j].status \in {"pending", "processing"} /\ jobs[j].type = t}
PendingOrFailed(t) == {j \in Jobs : jobs[j].status \in {"pending", "failed"} /\ jobs[j].type = t}

Pending(t) == {j \in Jobs : jobs[j].status = "pending" /\ jobs[j].type = t}

\* Faulty variant of Oldest: LIMIT 1 without the ORDER BY.
AnyPending(t) == Pending(t)

\* ORDER BY "createdAt" ASC LIMIT 1
Oldest(t) == {j \in Pending(t) : \A k \in Pending(t) : jobs[j].stamp <= jobs[k].stamp}

\* claimNextJob's UPDATE of the row its subquery selected.
Claimed(j) == [jobs EXCEPT ![j].status = "processing", ![j].age = 0]

\* updateJobStatus: no condition but the row's id; what is undefined is kept.
StatusUpdated(j, status, result, error) ==
  [jobs EXCEPT ![j].status = status,
               ![j].age = 0,
               ![j].result = IF result = Undefined THEN @ ELSE result,
               ![j].error = IF error = Undefined THEN @ ELSE error]

\* failStaleJobs: startedAt < NOW() - maxAge, and only rows in processing.
Stale == {j \in Jobs : jobs[j].status = "processing" /\ jobs[j].age > StaleAge}

\* Faulty variant of StaleFailed: stale rows go back to the queue.
StaleRequeued ==
  [j \in Jobs |-> IF j \in Stale
                  THEN [jobs[j] EXCEPT !.status = "pending", !.age = 0]
                  ELSE jobs[j]]

StaleFailed ==
  [j \in Jobs |-> IF j \in Stale
                  THEN [jobs[j] EXCEPT !.status = "failed", !.age = 0, !.error = "timeout"]
                  ELSE jobs[j]]

-----------------------------------------------------------------------------
(* DELETE, and the passing of time                                         *)

Deleted(j) == [jobs EXCEPT ![j].status = "deleted", ![j].age = 0]

Ageing == {j \in Jobs : jobs[j].status = "processing" /\ jobs[j].age <= StaleAge}

Aged == [j \in Jobs |-> IF j \in Ageing THEN [jobs[j] EXCEPT !.age = @ + 1] ELSE jobs[j]]

NoRow ==
  [NewRow(CHOOSE t \in Types : TRUE, CHOOSE u \in Users : TRUE, 0)
     EXCEPT !.status = "absent"]

TableInit == jobs = [j \in Jobs |-> NoRow]
=============================================================================
