------------------------------ MODULE JobQueue ------------------------------
(***************************************************************************)
(* The queue service (packages/queue/src/repository.ts) used by several    *)
(* concurrent callers, one call of each at a time.  A call that runs more  *)
(* than one SQL statement has one action per statement, so that every      *)
(* interleaving of statements is explored; a handler is whatever happens   *)
(* between a caller's claim and the status it writes.                      *)
(***************************************************************************)
EXTENDS JobTable

CONSTANTS
  Callers,      \* concurrent users of the service
  Keys,         \* idempotency keys
  NoJob,        \* a caller that works on no job
  ByIdJobs,     \* the rows that callers also process by identifier
  MaxFaults     \* bound on the statements that report a QueueError

ASSUME QueueAssumption ==
  /\ NoJob \notin Jobs
  /\ ByIdJobs \subseteq Jobs
  /\ MaxFaults \in Nat

VARIABLES
  pc,        \* where each call stands
  cur,       \* the row each call works on
  answered,  \* history: <<type, user, key, row>> of each enqueue with a key; NoJob for an error
  returned,  \* history: <<row, status>> each processNextJob returned
  faults     \* QueueErrors so far

callVars == <<pc, cur>>
vars == <<jobs, pc, cur, answered, returned, faults>>

\* "next" runs the handler of processNextJob, "by_id" the one of processJobById;
\* the *_failing calls still have to write the FAILED status of runHandler.
Phases == {"idle", "checked", "next", "by_id", "next_failing", "by_id_failing"}
Handling == {"next", "by_id", "next_failing", "by_id_failing"}

TypeOK ==
  /\ TableTypeOK
  /\ pc \in [Callers -> Phases]
  /\ cur \in [Callers -> Jobs \union {NoJob}]
  /\ answered \subseteq Types \X Users \X Keys \X (Jobs \union {NoJob})
  /\ returned \subseteq Jobs \X JobStatus
  /\ faults \in 0..MaxFaults

Init ==
  /\ TableInit
  /\ pc = [c \in Callers |-> "idle"]
  /\ cur = [c \in Callers |-> NoJob]
  /\ answered = {}
  /\ returned = {}
  /\ faults = 0

Return(c) ==
  /\ pc' = [pc EXCEPT ![c] = "idle"]
  /\ cur' = [cur EXCEPT ![c] = NoJob]

Goto(c, phase, j) ==
  /\ pc' = [pc EXCEPT ![c] = phase]
  /\ cur' = [cur EXCEPT ![c] = j]

Fault == faults < MaxFaults /\ faults' = faults + 1

-----------------------------------------------------------------------------
(* enqueue                                                                 *)

\* Without a key: a plain INSERT.  When the reply to it is lost the caller is told of
\* an error, and the row is there all the same.
EnqueueInsert(c, t, u) ==
  /\ pc[c] = "idle"
  /\ \E j \in Jobs, s \in 1..MaxStamp :
       /\ jobs[j].status = "absent"
       /\ NextStamp(s)
       /\ jobs' = Inserted(j, t, u, s)
  /\ UNCHANGED <<callVars, answered, returned, faults>>

\* With a key: no unique index matches the ON CONFLICT of the INSERT, so Postgres
\* refuses the statement and the call ends with a QueueError.
EnqueueKeyed(c, t, u, k) ==
  /\ pc[c] = "idle"
  /\ answered' = answered \union {<<t, u, k, NoJob>>}
  /\ UNCHANGED <<jobs, callVars, returned, faults>>

-----------------------------------------------------------------------------
(* processNextJob and processJobById                                       *)

\* claimNextJob; without a pending row the call returns null and changes nothing.
ClaimNextJob(c, t) ==
  /\ pc[c] = "idle"
  /\ \E j \in Oldest(t) :
       /\ jobs' = Claimed(j)
       /\ Goto(c, "next", j)
  /\ UNCHANGED <<answered, returned, faults>>

\* The claim takes effect and its reply is lost: the row is in processing, in nobody's
\* hands, until failStaleJobs.
ClaimFaults(c, t) ==
  /\ pc[c] = "idle"
  /\ \E j \in Oldest(t) : jobs' = Claimed(j)
  /\ Fault
  /\ UNCHANGED <<callVars, answered, returned>>

\* processJobById's getJob; any status but PENDING is returned as it is.
ReadJobById(c, j) ==
  /\ j \in ByIdJobs
  /\ pc[c] = "idle"
  /\ jobs[j].status = "pending"
  /\ Goto(c, "checked", j)
  /\ UNCHANGED <<jobs, answered, returned, faults>>

\* The unconditional UPDATE that follows the check, one statement later.
MarkProcessing(c) ==
  /\ pc[c] = "checked"
  /\ \/ /\ Present(cur[c])
        /\ jobs' = StatusUpdated(cur[c], "processing", Undefined, Undefined)
        /\ Goto(c, "by_id", cur[c])
     \/ /\ ~Present(cur[c])            \* JobNotFoundError
        /\ Return(c)
        /\ UNCHANGED jobs
  /\ UNCHANGED <<answered, returned, faults>>

\* The UPDATE reports an error, whether or not it took effect, and the call ends.
MarkFaults(c) ==
  /\ pc[c] = "checked"
  /\ \/ UNCHANGED jobs
     \/ Present(cur[c]) /\ jobs' = StatusUpdated(cur[c], "processing", Undefined, Undefined)
  /\ Fault
  /\ Return(c)
  /\ UNCHANGED <<answered, returned>>

Returned(c, status) ==
  returned' = IF pc[c] \in {"next", "next_failing"}
              THEN returned \union {<<cur[c], status>>}
              ELSE returned

\* runHandler: the handler succeeded and updateJobStatus(COMPLETED) did too.  (The
\* queue does not look at results: "valid" stands for any.)
Complete(c) ==
  /\ pc[c] \in {"next", "by_id"}
  /\ Present(cur[c])
  /\ jobs' = StatusUpdated(cur[c], "completed", "valid", Undefined)
  /\ Returned(c, "completed")
  /\ Return(c)
  /\ UNCHANGED <<answered, faults>>

\* The COMPLETED write reports an error, whether or not it took effect.
CompleteFaults(c) ==
  /\ pc[c] \in {"next", "by_id"}
  /\ \/ ~Present(cur[c]) /\ UNCHANGED <<jobs, faults>>     \* JobNotFoundError
     \/ Fault /\ UNCHANGED jobs
     \/ Fault /\ Present(cur[c])
              /\ jobs' = StatusUpdated(cur[c], "completed", "valid", Undefined)
  /\ Goto(c, IF pc[c] = "next" THEN "next_failing" ELSE "by_id_failing", cur[c])
  /\ UNCHANGED <<answered, returned>>

\* The handler failed or died, or its result could not be written: FAILED.
\* (catchAll and catchAllDefect differ only in the text of the error.)
Fail(c) ==
  /\ pc[c] \in Handling
  /\ Present(cur[c])
  /\ jobs' = StatusUpdated(cur[c], "failed", Undefined, "handler")
  /\ Returned(c, "failed")
  /\ Return(c)
  /\ UNCHANGED <<answered, faults>>

\* The FAILED write reports an error, whether or not it took effect: that error
\* surfaces, and the call returns no row.
FailFaults(c) ==
  /\ pc[c] \in Handling
  /\ \/ ~Present(cur[c]) /\ UNCHANGED <<jobs, faults>>
     \/ Fault /\ UNCHANGED jobs
     \/ Fault /\ Present(cur[c])
              /\ jobs' = StatusUpdated(cur[c], "failed", Undefined, "handler")
  /\ Return(c)
  /\ UNCHANGED <<answered, returned>>

-----------------------------------------------------------------------------
(* failStaleJobs, deleteJob and the clock                                  *)

FailStaleJobs ==
  /\ Stale # {}
  /\ jobs' = StaleFailed
  /\ UNCHANGED <<callVars, answered, returned, faults>>

DeleteJob(j) ==
  /\ Present(j)
  /\ jobs' = Deleted(j)
  /\ UNCHANGED <<callVars, answered, returned, faults>>

Tick ==
  /\ Ageing # {}
  /\ jobs' = Aged
  /\ UNCHANGED <<callVars, answered, returned, faults>>

Call(c) ==
  \/ \E t \in Types, u \in Users : EnqueueInsert(c, t, u)
  \/ \E t \in Types, u \in Users, k \in Keys : EnqueueKeyed(c, t, u, k)
  \/ \E t \in Types : ClaimNextJob(c, t) \/ ClaimFaults(c, t)
  \/ \E j \in Jobs : ReadJobById(c, j)
  \/ MarkProcessing(c)
  \/ MarkFaults(c)
  \/ Complete(c)
  \/ CompleteFaults(c)
  \/ Fail(c)
  \/ FailFaults(c)

Next ==
  \/ \E c \in Callers : Call(c)
  \/ FailStaleJobs
  \/ \E j \in Jobs : DeleteJob(j)
  \/ Tick

Spec == Init /\ [][Next]_vars

-----------------------------------------------------------------------------
(* What the service promises                                               *)

\* Deduplicates enqueue when an idempotency key is reused: calls that share a user, a
\* type and a key are all answered with one row.
KeyedCallsShareOneRow ==
  \A a, b \in answered :
    <<a[1], a[2], a[3]>> = <<b[1], b[2], b[3]>> => a[4] \in Jobs /\ a[4] = b[4]

\* No row is being handled by two callers at once (the promise of claimNextJob).
\* It covers the rows that are only ever taken by a claim.
ClaimedRowsExclusive ==
  \A c, d \in Callers :
    /\ pc[c] \in Handling /\ pc[d] \in Handling
    /\ cur[c] = cur[d] /\ cur[c] \notin ByIdJobs
    => c = d

\* The status processNextJob returns is final: the row keeps it until it is deleted,
\* in spite of sweeps, lost replies and other callers (runHandler, failStaleJobs).
ReturnedStatusStands ==
  \A r \in returned : r[1] \notin ByIdJobs => jobs[r[1]].status \in {r[2], "deleted"}

\* A row that has left pending never becomes claimable again: no sequence of calls,
\* processJobById's blind UPDATE included, hands a row back to claimNextJob.
NeverClaimableAgain ==
  [][\A j \in Jobs : jobs[j].status \notin {"pending", "absent"} => jobs'[j].status # "pending"]_vars

\* Claim atomically: no row at all is handled by two callers at once, whichever of
\* processNextJob and processJobById they use.
NoDuplicateProcessing ==
  \A c, d \in Callers :
    pc[c] \in Handling /\ pc[d] \in Handling /\ cur[c] = cur[d] => c = d

-----------------------------------------------------------------------------
(* The inductive invariant behind ClaimedRowsExclusive and                 *)
(* ReturnedStatusStands (proved in JobQueue_proofs).                       *)

\* A call that works on a row knows which one, and one processed by identifier is
\* among ByIdJobs.
CallsWellFormed ==
  \A c \in Callers :
    /\ pc[c] \in Handling \union {"checked"} => cur[c] \in Jobs
    /\ pc[c] \in {"checked", "by_id", "by_id_failing"} => cur[c] \in ByIdJobs

\* A row in somebody's hands cannot be claimed.
HandledNotClaimable ==
  \A c \in Callers : pc[c] \in Handling => jobs[cur[c]].status \notin {"pending", "absent"}

\* A row that processNextJob returned is in nobody's hands, and settled.
ReturnedIsOver ==
  \A r \in returned :
    /\ r[2] \in Terminal
    /\ jobs[r[1]].status \notin {"pending", "absent"}
    /\ r[1] \notin ByIdJobs => \A c \in Callers : pc[c] \in Handling => cur[c] # r[1]

IInv ==
  /\ TypeOK
  /\ CallsWellFormed
  /\ HandledNotClaimable
  /\ ClaimedRowsExclusive
  /\ ReturnedIsOver
  /\ ReturnedStatusStands
=============================================================================
