------------------------------- MODULE Worker -------------------------------
(***************************************************************************)
(* The background workers (apps/worker/src/base-worker.ts, with the        *)
(* handlers of unified-worker.ts) on the job table: each worker process    *)
(* runs one poll loop, which claims jobs, forks one fiber per job and runs *)
(* the stale-job reaper every few polls.  Processes stop, crash and start  *)
(* again; statements report errors, with or without having taken effect.   *)
(*                                                                         *)
(* A row that a statement has changed while its caller still waits for the *)
(* reply is a state of its own: being interrupted there (stop, crash) is   *)
(* what leaves jobs claimed but not run, or settled but not announced.     *)
(* Rows are not deleted here.                                              *)
(***************************************************************************)
EXTENDS JobTable, Sequences, FiniteSets

CONSTANTS
  Workers,            \* worker processes
  NoWorker,           \* owner of a job that was never forked
  NoJob,              \* a worker that holds no freshly claimed row
  JobTypes,           \* the types a worker claims, in the order it tries them
  MaxConcurrent,      \* MAX_CONCURRENT_JOBS
  CheckEveryNPolls,   \* STALE_CHECK_EVERY_N_POLLS
  MaxFaults,          \* bound on statements and notifications that go wrong
  MaxExits            \* bound on stops and crashes

ASSUME WorkerAssumption ==
  /\ NoWorker \notin Workers
  /\ NoJob \notin Jobs
  /\ JobTypes \in Seq(Types)
  /\ MaxConcurrent \in Nat
  /\ CheckEveryNPolls \in Nat \ {0}
  /\ MaxFaults \in Nat
  /\ MaxExits \in Nat
  /\ IsFiniteSet(Jobs)

VARIABLES
  pc,           \* where each worker's loop, or its stop(), stands
  slots,        \* pollOnce: capacity - claimed
  todo,         \* pollOnce: the job types not tried yet
  got,          \* the row whose claim has just been answered
  polls,        \* pollCount, modulo CheckEveryNPolls
  activeJobs,   \* the Ref that counts job fibers
  fiber,        \* where the fiber that processes a job stands
  owner,        \* the worker that forked it
  announced,    \* the last terminal event published for a job
  runs,         \* history: how often processJob was started for a job
  disturbed,    \* history: jobs the reaper swept, or that met a fault
  faults, exits

loopVars  == <<pc, slots, todo, got, polls>>
fiberVars == <<activeJobs, fiber, owner, announced, runs>>
vars == <<jobs, loopVars, fiberVars, disturbed, faults, exits>>

LoopStates == {"poll", "claim", "fork", "cycle", "reap"}
StopStates == {"closing", "draining"}

\* "failing" is the catchAll branch, "dying" the catchAllDefect branch; "completed",
\* "failed" and "dead" have written the row and wait for the reply.
LiveStates == {"running", "completed", "failing", "failed", "dying", "dead"}
FiberStates == LiveStates \union {"none", "ended"}
Events == {"none", "run_completed", "run_failed"}

TypeOK ==
  /\ TableTypeOK
  /\ pc \in [Workers -> LoopStates \union StopStates \union {"down"}]
  /\ slots \in [Workers -> 0..MaxConcurrent]
  /\ todo \in [Workers -> Seq(Types)]
  /\ got \in [Workers -> Jobs \union {NoJob}]
  /\ polls \in [Workers -> 0..(CheckEveryNPolls - 1)]
  /\ activeJobs \in [Workers -> Int]
  /\ fiber \in [Jobs -> FiberStates]
  /\ owner \in [Jobs -> Workers \union {NoWorker}]
  /\ announced \in [Jobs -> Events]
  /\ runs \in [Jobs -> Nat]
  /\ disturbed \subseteq Jobs
  /\ faults \in 0..MaxFaults
  /\ exits \in 0..MaxExits

Live(w) == {j \in Jobs : owner[j] = w /\ fiber[j] \in LiveStates}

Init ==
  /\ TableInit
  /\ pc = [w \in Workers |-> "down"]
  /\ slots = [w \in Workers |-> 0]
  /\ todo = [w \in Workers |-> <<>>]
  /\ got = [w \in Workers |-> NoJob]
  /\ polls = [w \in Workers |-> 0]
  /\ activeJobs = [w \in Workers |-> 0]
  /\ fiber = [j \in Jobs |-> "none"]
  /\ owner = [j \in Jobs |-> NoWorker]
  /\ announced = [j \in Jobs |-> "none"]
  /\ runs = [j \in Jobs |-> 0]
  /\ disturbed = {}
  /\ faults = 0
  /\ exits = 0

Fault == faults < MaxFaults /\ faults' = faults + 1
Disturb(S) == disturbed' = disturbed \union S

-----------------------------------------------------------------------------
(* The outside world: the API inserts jobs, time passes                    *)

Enqueue(j) ==
  /\ jobs[j].status = "absent"
  /\ \E t \in Types, u \in Users, s \in 1..MaxStamp :
       NextStamp(s) /\ jobs' = Inserted(j, t, u, s)
  /\ UNCHANGED <<loopVars, fiberVars, disturbed, faults, exits>>

Tick ==
  /\ Ageing # {}
  /\ jobs' = Aged
  /\ UNCHANGED <<loopVars, fiberVars, disturbed, faults, exits>>

-----------------------------------------------------------------------------
(* start: the poll loop                                                    *)

Start(w) ==
  /\ pc[w] = "down"
  /\ pc' = [pc EXCEPT ![w] = "poll"]
  /\ polls' = [polls EXCEPT ![w] = 0]
  /\ activeJobs' = [activeJobs EXCEPT ![w] = 0]
  /\ UNCHANGED <<jobs, slots, todo, got, fiber, owner, announced, runs, disturbed, faults, exits>>

\* Faulty variants of AfterClaim and Poll: the loop does not stop at the capacity, and
\* the last slot is never used.
AfterClaimUncapped(types, left) == IF types = <<>> THEN "cycle" ELSE "claim"

PollSparesOne(w) ==
  /\ pc[w] = "poll"
  /\ LET capacity == MaxConcurrent - activeJobs[w] - 1
     IN IF capacity <= 0
        THEN /\ pc' = [pc EXCEPT ![w] = "cycle"]
             /\ UNCHANGED <<slots, todo>>
        ELSE /\ pc' = [pc EXCEPT ![w] = "claim"]
             /\ slots' = [slots EXCEPT ![w] = capacity]
             /\ todo' = [todo EXCEPT ![w] = JobTypes]
  /\ UNCHANGED <<jobs, got, polls, fiberVars, disturbed, faults, exits>>

\* pollOnce leaves its loop when every type was tried or the capacity is used up.
AfterClaim(types, left) == IF types = <<>> \/ left = 0 THEN "cycle" ELSE "claim"

\* The capacity is read once, before the first claim; at capacity nothing is claimed.
Poll(w) ==
  /\ pc[w] = "poll"
  /\ LET capacity == MaxConcurrent - activeJobs[w]
     IN IF capacity <= 0
        THEN /\ pc' = [pc EXCEPT ![w] = "cycle"]
             /\ UNCHANGED <<slots, todo>>
        ELSE /\ pc' = [pc EXCEPT ![w] = AfterClaim(JobTypes, capacity)]
             /\ slots' = [slots EXCEPT ![w] = capacity]
             /\ todo' = [todo EXCEPT ![w] = JobTypes]
  /\ UNCHANGED <<jobs, got, polls, fiberVars, disturbed, faults, exits>>

\* claimNextJobSafely for the next type.  An error counts as "nothing to claim",
\* even when the UPDATE took effect and only its reply was lost.
Claim(w) ==
  /\ pc[w] = "claim"
  /\ LET t == Head(todo[w])
         skip == pc' = [pc EXCEPT ![w] = AfterClaim(Tail(todo[w]), slots[w])]
     IN \/ \E j \in Oldest(t) : /\ jobs' = Claimed(j)
                                /\ got' = [got EXCEPT ![w] = j]
                                /\ pc' = [pc EXCEPT ![w] = "fork"]
                                /\ UNCHANGED faults
        \/ Pending(t) = {} /\ skip /\ UNCHANGED <<jobs, got, faults>>
        \/ Fault /\ skip /\ UNCHANGED <<jobs, got>>
        \/ Fault /\ skip /\ (\E j \in Oldest(t) : jobs' = Claimed(j)) /\ UNCHANGED got
  /\ todo' = [todo EXCEPT ![w] = Tail(@)]
  /\ UNCHANGED <<slots, polls, fiberVars, disturbed, exits>>

\* The claim is answered: count the job and fork its fiber (forkJobProcessing).
Fork(w) ==
  /\ pc[w] = "fork"
  /\ slots' = [slots EXCEPT ![w] = @ - 1]
  /\ activeJobs' = [activeJobs EXCEPT ![w] = @ + 1]
  /\ fiber' = [fiber EXCEPT ![got[w]] = "running"]
  /\ owner' = [owner EXCEPT ![got[w]] = w]
  /\ runs' = [runs EXCEPT ![got[w]] = @ + 1]
  /\ got' = [got EXCEPT ![w] = NoJob]
  /\ pc' = [pc EXCEPT ![w] = AfterClaim(todo[w], slots[w] - 1)]
  /\ UNCHANGED <<jobs, todo, polls, announced, disturbed, faults, exits>>

\* Faulty variant of Cycle: the poll count does not survive the cycle.
CycleForgetful(w) ==
  /\ pc[w] = "cycle"
  /\ polls' = [polls EXCEPT ![w] = 0]
  /\ pc' = [pc EXCEPT ![w] = IF 1 % CheckEveryNPolls = 0 THEN "reap" ELSE "poll"]
  /\ UNCHANGED <<jobs, slots, todo, got, fiberVars, disturbed, faults, exits>>

\* pollCount + 1 and onPollCycle: is it the reaper's turn?
Cycle(w) ==
  /\ pc[w] = "cycle"
  /\ polls' = [polls EXCEPT ![w] = (@ + 1) % CheckEveryNPolls]
  /\ pc' = [pc EXCEPT ![w] = IF (polls[w] + 1) % CheckEveryNPolls = 0 THEN "reap" ELSE "poll"]
  /\ UNCHANGED <<jobs, slots, todo, got, fiberVars, disturbed, faults, exits>>

\* createStaleJobReaper: errors are swallowed, and nothing is published.
Reap(w) ==
  /\ pc[w] = "reap"
  /\ pc' = [pc EXCEPT ![w] = "poll"]
  /\ \/ /\ jobs' = StaleFailed
        /\ Disturb(Stale)
        /\ UNCHANGED faults \/ Fault
     \/ Fault /\ UNCHANGED <<jobs, disturbed>>
  /\ UNCHANGED <<slots, todo, got, polls, fiberVars, exits>>

-----------------------------------------------------------------------------
(* The fiber of one job (forkJobProcessing)                                *)

Become(j, state) ==
  /\ fiber' = [fiber EXCEPT ![j] = state]
  /\ UNCHANGED activeJobs

\* Faulty variant of End: without Effect.ensuring.
EndUncounted(j) ==
  /\ fiber' = [fiber EXCEPT ![j] = "ended"]
  /\ UNCHANGED activeJobs

\* Effect.ensuring: however the fiber ends, it is taken off the count.
End(j) ==
  /\ fiber' = [fiber EXCEPT ![j] = "ended"]
  /\ activeJobs' = [activeJobs EXCEPT ![owner[j]] = @ - 1]

FiberStep == UNCHANGED <<loopVars, owner, runs, exits>>

\* processJob succeeds and updateJobStatus(COMPLETED) takes effect.
Complete(j) ==
  /\ fiber[j] = "running"
  /\ \E r \in {"valid", "invalid"} : jobs' = StatusUpdated(j, "completed", r, Undefined)
  /\ Become(j, "completed")
  /\ FiberStep
  /\ UNCHANGED <<announced, disturbed, faults>>

\* processJob fails with an error, or dies of a defect.
HandlerFails(j) ==
  /\ fiber[j] = "running"
  /\ Become(j, "failing") \/ Become(j, "dying")
  /\ FiberStep
  /\ UNCHANGED <<jobs, announced, disturbed, faults>>

\* The COMPLETED write reports an error, without or in spite of its effect.
CompleteFaults(j) ==
  /\ fiber[j] = "running"
  /\ Fault
  /\ \/ UNCHANGED <<jobs, disturbed>>
     \/ jobs' = StatusUpdated(j, "completed", "valid", Undefined) /\ Disturb({j})
  /\ Become(j, "failing")
  /\ FiberStep
  /\ UNCHANGED announced

\* notifyJobComplete, which dispatches on the row the UPDATE returned
\* (handleCompletedRun announces a completed run without a result as failed).
Announce(j, event) == announced' = [announced EXCEPT ![j] = event]

\* Faulty variants of NotifyCompleted: the result is not looked at, and a run without a
\* result is marked failed in the table, too.
NotifyCompletedBlindly(j) ==
  /\ fiber[j] = "completed"
  /\ Announce(j, "run_completed")
  /\ End(j)
  /\ FiberStep
  /\ UNCHANGED <<jobs, disturbed, faults>>

NotifyCompletedRewrites(j) ==
  /\ fiber[j] = "completed"
  /\ IF jobs[j].result = "valid"
     THEN Announce(j, "run_completed") /\ UNCHANGED jobs
     ELSE Announce(j, "run_failed") /\ jobs' = StatusUpdated(j, "failed", Undefined, "handler")
  /\ End(j)
  /\ FiberStep
  /\ UNCHANGED <<disturbed, faults>>

NotifyCompleted(j) ==
  /\ fiber[j] = "completed"
  /\ Announce(j, IF jobs[j].result = "valid" THEN "run_completed" ELSE "run_failed")
  /\ End(j)
  /\ FiberStep
  /\ UNCHANGED <<jobs, disturbed, faults>>

\* A defect in the notification is caught like one in the handler.
NotifyCompletedDies(j) ==
  /\ fiber[j] = "completed"
  /\ Fault
  /\ Disturb({j})
  /\ Become(j, "dying")
  /\ FiberStep
  /\ UNCHANGED <<jobs, announced>>

\* handleJobFailure: write FAILED, whatever the row says by now, ...
MarkFailed(j) ==
  /\ \/ /\ fiber[j] = "failing"
        /\ jobs' = StatusUpdated(j, "failed", Undefined, "handler")
        /\ Become(j, "failed")
     \/ /\ fiber[j] = "dying"
        /\ jobs' = StatusUpdated(j, "failed", Undefined, "defect")
        /\ Become(j, "dead")
  /\ FiberStep
  /\ UNCHANGED <<announced, disturbed, faults>>

\* ... or only log that it could not be written, ...
MarkFailedFaults(j) ==
  /\ fiber[j] \in {"failing", "dying"}
  /\ Fault
  /\ UNCHANGED jobs \/ jobs' = StatusUpdated(j, "failed", Undefined, "handler")
  /\ End(j)
  /\ FiberStep
  /\ UNCHANGED <<announced, disturbed>>

\* ... and announce the failure.
NotifyFailed(j) ==
  /\ fiber[j] \in {"failed", "dead"}
  /\ Announce(j, "run_failed")
  /\ End(j)
  /\ FiberStep
  /\ UNCHANGED <<jobs, disturbed, faults>>

\* A defect there is caught once more, but not a second time.
NotifyFailedDies(j) ==
  /\ Fault
  /\ \/ fiber[j] = "failed" /\ Become(j, "dying")
     \/ fiber[j] = "dead" /\ End(j)
  /\ FiberStep
  /\ UNCHANGED <<jobs, announced, disturbed>>

-----------------------------------------------------------------------------
(* stop, crashes                                                           *)

Exit == exits < MaxExits /\ exits' = exits + 1

\* stop: the loop is interrupted wherever it stands; a claim that was not answered
\* yet is forgotten.  The loop's finalizer then closes the job scope.
Stop(w) ==
  /\ pc[w] \in LoopStates
  /\ Exit
  /\ pc' = [pc EXCEPT ![w] = "closing"]
  /\ got' = [got EXCEPT ![w] = NoJob]
  /\ UNCHANGED <<jobs, slots, todo, polls, fiberVars, disturbed, faults>>

\* closeJobScope interrupts the job fibers, one finalizer after the other; no
\* status is written for them.
Interrupt(j) ==
  /\ fiber[j] \in LiveStates
  /\ pc[owner[j]] = "closing"
  /\ End(j)
  /\ FiberStep
  /\ UNCHANGED <<jobs, announced, disturbed, faults>>

ScopeClosed(w) ==
  /\ pc[w] = "closing"
  /\ Live(w) = {}
  /\ pc' = [pc EXCEPT ![w] = "draining"]
  /\ UNCHANGED <<jobs, slots, todo, got, polls, fiberVars, disturbed, faults, exits>>

\* drainActiveJobs waits until nothing is active or its timeout has passed.
Drain(w) ==
  /\ pc[w] = "draining"
  /\ pc' = [pc EXCEPT ![w] = "down"]
  /\ UNCHANGED <<jobs, slots, todo, got, polls, fiberVars, disturbed, faults, exits>>

\* The process dies (or shutdown's force timer exits it): no finalizer runs.
Crash(w) ==
  /\ pc[w] # "down"
  /\ Exit
  /\ pc' = [pc EXCEPT ![w] = "down"]
  /\ got' = [got EXCEPT ![w] = NoJob]
  /\ fiber' = [j \in Jobs |-> IF j \in Live(w) THEN "ended" ELSE fiber[j]]
  /\ UNCHANGED <<jobs, slots, todo, polls, activeJobs, owner, announced, runs, disturbed, faults>>

-----------------------------------------------------------------------------
Loop(w) == Poll(w) \/ Claim(w) \/ Fork(w) \/ Cycle(w) \/ Reap(w)
Shutdown(w) == ScopeClosed(w) \/ Drain(w)

Settle(j) ==
  \/ Complete(j) \/ HandlerFails(j) \/ CompleteFaults(j)
  \/ NotifyCompleted(j) \/ NotifyCompletedDies(j)
  \/ MarkFailed(j) \/ MarkFailedFaults(j)
  \/ NotifyFailed(j) \/ NotifyFailedDies(j)

Next ==
  \/ \E j \in Jobs : Enqueue(j) \/ Settle(j) \/ Interrupt(j)
  \/ \E w \in Workers : Start(w) \/ Loop(w) \/ Stop(w) \/ Shutdown(w) \/ Crash(w)
  \/ Tick

Spec == Init /\ [][Next]_vars

\* A started process keeps running its loop and its shutdown, a supervisor starts it
\* again, and time passes.  Handlers, which call a language model without a timeout,
\* need not come to an end.
Fairness ==
  /\ \A w \in Workers : WF_vars(Start(w)) /\ WF_vars(Loop(w)) /\ WF_vars(Shutdown(w))
  /\ \A j \in Jobs : WF_vars(Interrupt(j))
  /\ WF_vars(Tick)

FairSpec == Spec /\ Fairness

\* What PendingSettles assumes on top: every handler comes to an end.
HandlersEnd == \A j \in Jobs : WF_vars(Settle(j))

-----------------------------------------------------------------------------
(* What the workers promise                                                *)

\* The counter that pollOnce derives its capacity from, and stop() drains, is the
\* number of fibers that are really running (forkJobProcessing, closeJobScope).
ActiveIsFibers ==
  \A w \in Workers : pc[w] # "down" => activeJobs[w] = Cardinality(Live(w))

\* No worker ever runs more than MaxConcurrent jobs, although the capacity is read
\* once per poll and claims and completions interleave with it (pollOnce).
WithinCapacity == \A w \in Workers : Cardinality(Live(w)) <= MaxConcurrent

\* processJob is started at most once for a job, whatever workers crash, sweep or
\* lose replies (claimNextJob, pollOnce): a run is never paid for twice.
HandledOnce == \A j \in Jobs : runs[j] <= 1

\* The last terminal event published for a job tells what its row says, from the
\* moment it is published and for ever (notifyJobComplete, handleJobFailure).
AnnouncementAgrees ==
  \A j \in Jobs :
    CASE announced[j] = "run_completed" -> jobs[j].status = "completed" /\ jobs[j].result = "valid"
      [] announced[j] = "run_failed" -> \/ jobs[j].status = "failed"
                                        \/ jobs[j].status = "completed" /\ jobs[j].result = "invalid"
      [] OTHER -> TRUE

\* A terminal status is overwritten by another one only for jobs that the reaper
\* swept or that met a fault: in their absence completed and failed are final
\* (updateJobStatus has no guard of its own).
OverwriteExplained ==
  [][\A j \in Jobs : jobs[j].status \in Terminal /\ jobs'[j].status # jobs[j].status
                     => j \in disturbed]_vars

\* A job in processing is settled even if its worker died or its handler hangs: the
\* reaper of a worker that is up gets to it (createStaleJobReaper).
StuckJobsSettle ==
  \A j \in Jobs : jobs[j].status = "processing" ~> jobs[j].status \in Terminal

\* If handlers end, every job that was created is taken up and settled: no sequence
\* of faults, stops and crashes uses up the workers' capacity for good (pollOnce).
PendingSettles ==
  HandlersEnd => \A j \in Jobs : jobs[j].status = "pending" ~> jobs[j].status \in Terminal

Lifecycle == INSTANCE JobLifecycle
  WITH status <- [j \in Jobs |-> jobs[j].status],
       type   <- [j \in Jobs |-> jobs[j].type],
       stamp  <- [j \in Jobs |-> jobs[j].stamp]

\* The workers, the reaper and the API together keep the lifecycle that a watcher of
\* the table may rely on, first come first served included.
ImplementsLifecycle == Lifecycle!Spec

\* The lifecycle the documentation draws: completed and failed are final.
DocumentedLifecycle == Lifecycle!DocSpec

-----------------------------------------------------------------------------
(* The inductive invariant behind the safety properties (proved in          *)
(* Worker_proofs), in parts that are each about one thing.                  *)

\* A worker that claims has a type left to try and a slot to fill; one that was
\* answered holds a row, whose job was never started.
LoopWellFormed ==
  \A w \in Workers :
    /\ pc[w] = "claim" => todo[w] # <<>>
    /\ pc[w] \in {"claim", "fork"} => slots[w] >= 1
    /\ pc[w] = "fork" => /\ got[w] \in Jobs
                         /\ fiber[got[w]] = "none"
                         /\ jobs[got[w]].status \notin {"pending", "absent"}

\* Two workers never hold the same freshly claimed row.
GotDistinct ==
  \A v, w \in Workers : pc[v] = "fork" /\ pc[w] = "fork" /\ got[v] = got[w] => v = w

\* A job is untouched as long as it can be claimed, and was started iff it has a fiber.
Untouched ==
  \A j \in Jobs :
    /\ jobs[j].status \in {"pending", "absent"} => fiber[j] = "none"
    /\ runs[j] = IF fiber[j] = "none" THEN 0 ELSE 1
    /\ fiber[j] # "none" => owner[j] \in Workers

\* Job fibers do not outlive their worker's scope.
ScopeHolds == \A w \in Workers : pc[w] \in {"draining", "down"} => Live(w) = {}

\* What a poll has left to claim fits under the limit.
CapacityLeft ==
  \A w \in Workers :
    pc[w] \in {"claim", "fork"} => activeJobs[w] + slots[w] <= MaxConcurrent

\* A fiber that waits for the reply to a status it wrote finds that status in the row,
\* and nothing is announced before the fiber ends.
FiberKnowsRow ==
  \A j \in Jobs :
    /\ fiber[j] = "completed" => jobs[j].status = "completed" /\ jobs[j].result # "none"
    /\ fiber[j] \in {"failed", "dead"} => jobs[j].status = "failed"
    /\ announced[j] # "none" => fiber[j] = "ended" /\ jobs[j].status \in Terminal

\* A row that was settled before its job is over met the reaper or a fault.
SettledEarly ==
  \A j \in Jobs : jobs[j].status \in Terminal =>
    /\ fiber[j] \in {"running", "failing"} => j \in disturbed
    /\ fiber[j] = "dying" => j \in disturbed \/ jobs[j].status = "failed"
    /\ fiber[j] = "none" => j \in disturbed

WInv ==
  /\ TypeOK
  /\ LoopWellFormed
  /\ GotDistinct
  /\ Untouched
  /\ ScopeHolds
  /\ CapacityLeft
  /\ ActiveIsFibers
  /\ WithinCapacity
  /\ FiberKnowsRow
  /\ SettledEarly
  /\ AnnouncementAgrees
=============================================================================
