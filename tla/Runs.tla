-------------------------------- MODULE Runs --------------------------------
(***************************************************************************)
(* A run from the request that creates it to its last event: the requests  *)
(* of CreateRun, the daemons they leave behind, and the workers' handler   *)
(* with the events it publishes (apps/worker/src/unified-worker.ts).       *)
(*                                                                         *)
(* Nothing orders a daemon's event before the worker's.  Redis hands every *)
(* subscriber the events of a user's channel in one order, the wire; there *)
(* is one wire here for all users, and a subscriber skips what is not his. *)
(***************************************************************************)
EXTENDS CreateRun, Sequences

CONSTANT
  MaxFaults   \* bound on lost events, lost replies and abandoned jobs

ASSUME RunsAssumption == MaxFaults \in Nat

VARIABLES
  fiber,      \* the worker fiber of each row
  wire,       \* the events published so far, in the order of the channel
  faults      \* what went wrong so far

workerVars == <<fiber, wire, faults>>
runsVars == <<createVars, workerVars>>

FiberStates == {"none", "taken", "generating", "finalizing", "completed",
                "failing", "failed", "over"}
EventTypes == {"run_queued", "run_started", "run_progress", "run_completed", "run_failed"}
TerminalEvents == {"run_completed", "run_failed"}
Event == [type : EventTypes, run : Jobs]

RunsTypeOK ==
  /\ TypeOK
  /\ fiber \in [Jobs -> FiberStates]
  /\ wire \in Seq(Event)
  /\ faults \in 0..MaxFaults

RunsInit ==
  /\ CreateInit
  /\ fiber = [j \in Jobs |-> "none"]
  /\ wire = <<>>
  /\ faults = 0

-----------------------------------------------------------------------------
(* Publishing.  Nobody waits for an event: one that is lost is only logged. *)

Fault == faults < MaxFaults /\ faults' = faults + 1

Publish(type, j) ==
  \/ wire' = Append(wire, [type |-> type, run |-> j]) /\ UNCHANGED faults
  \/ Fault /\ UNCHANGED wire

\* publishQueuedRunEvent's daemon fiber.
PublishQueued(r) ==
  /\ \E j \in daemon[r] : Publish("run_queued", j)
  /\ daemon' = [daemon EXCEPT ![r] = {}]
  /\ UNCHANGED <<jobs, prompt, expired, req, fiber>>

-----------------------------------------------------------------------------
(* A worker: processAiRunJob, and the status written after it               *)

Become(j, state) == fiber' = [fiber EXCEPT ![j] = state]

Take(j) ==
  /\ j \in Oldest(RunType)
  /\ jobs' = Claimed(j)
  /\ Become(j, "taken")
  /\ UNCHANGED <<apiVars, wire, faults>>

\* run_started and the progress events up to the call of the model, in one go.
Begin(j) ==
  /\ fiber[j] = "taken"
  /\ Become(j, "generating")
  /\ Publish("run_started", j)
  /\ UNCHANGED <<jobs, apiVars>>

Generated(j) ==
  /\ fiber[j] = "generating"
  /\ Become(j, "finalizing")
  /\ Publish("run_progress", j)
  /\ UNCHANGED <<jobs, apiVars>>

\* The call of the model fails, or the COMPLETED write does, without effect.
HandlingFails(j) ==
  /\ \/ fiber[j] = "generating" /\ UNCHANGED faults
     \/ fiber[j] = "finalizing" /\ Fault
  /\ Become(j, "failing")
  /\ UNCHANGED <<jobs, apiVars, wire>>

\* Faulty variant of WriteCompleted: the result is not passed on.
WriteCompletedBare(j) ==
  /\ fiber[j] = "finalizing"
  /\ jobs' = StatusUpdated(j, "completed", Undefined, Undefined)
  /\ Become(j, "completed") /\ UNCHANGED faults
  /\ UNCHANGED <<apiVars, wire>>

\* The write takes effect; when its reply is lost the job is handled as failed.
WriteCompleted(j) ==
  /\ fiber[j] = "finalizing"
  /\ \E result \in {"valid", "invalid"} :
       jobs' = StatusUpdated(j, "completed", result, Undefined)
  /\ \/ Become(j, "completed") /\ UNCHANGED faults
     \/ Become(j, "failing") /\ Fault
  /\ UNCHANGED <<apiVars, wire>>

WriteFailed(j) ==
  /\ fiber[j] = "failing"
  /\ jobs' = StatusUpdated(j, "failed", Undefined, "handler")
  /\ Become(j, "failed")
  /\ UNCHANGED <<apiVars, wire, faults>>

\* Faulty variant of Announce: the result is not looked at.
AnnounceBlindly(j) ==
  /\ fiber[j] \in {"completed", "failed"}
  /\ Become(j, "over")
  /\ Publish(IF fiber[j] = "completed" THEN "run_completed" ELSE "run_failed", j)
  /\ UNCHANGED <<jobs, apiVars>>

\* onJobComplete; a run without a readable result is announced as failed.
Announce(j) ==
  /\ fiber[j] \in {"completed", "failed"}
  /\ Become(j, "over")
  /\ Publish(IF fiber[j] = "completed" /\ jobs[j].result = "valid"
             THEN "run_completed" ELSE "run_failed", j)
  /\ UNCHANGED <<jobs, apiVars>>

\* The worker stops or dies, with this job in whatever state.
Abandon(j) ==
  /\ fiber[j] \notin {"none", "over"}
  /\ Become(j, "over")
  /\ Fault
  /\ UNCHANGED <<jobs, apiVars, wire>>

\* The reaper settles rows but publishes nothing.
Sweep ==
  /\ Stale # {}
  /\ jobs' = StaleFailed
  /\ UNCHANGED <<apiVars, workerVars>>

Tick ==
  /\ Ageing # {}
  /\ jobs' = Aged
  /\ UNCHANGED <<apiVars, workerVars>>

Work(j) ==
  \/ Take(j) \/ Begin(j) \/ Generated(j) \/ HandlingFails(j)
  \/ WriteCompleted(j) \/ WriteFailed(j) \/ Announce(j) \/ Abandon(j)

RunsNext ==
  \/ \E r \in Requests : Create(r) /\ UNCHANGED workerVars
  \/ \E r \in Requests : PublishQueued(r)
  \/ \E j \in Jobs : Expire(j) /\ UNCHANGED workerVars
  \/ \E j \in Jobs : Work(j)
  \/ Sweep
  \/ Tick

Start(r, u, p, keyed) == StartCreate(r, u, p, keyed) /\ UNCHANGED workerVars

-----------------------------------------------------------------------------
(* What the workers promise those who listen                               *)

EventsAt(types, j) == {n \in 1..Len(wire) : wire[n].type \in types /\ wire[n].run = j}

\* The workers tell one story per run: it is started at most once, it ends at most
\* once, and after its end they publish nothing more of it (processAiRunJob,
\* notifyJobComplete).
OneStoryPerRun ==
  \A j \in Jobs :
    /\ Cardinality(EventsAt({"run_started"}, j)) <= 1
    /\ Cardinality(EventsAt(TerminalEvents, j)) <= 1
    /\ \A m \in EventsAt({"run_started", "run_progress"}, j), n \in EventsAt(TerminalEvents, j) :
         m < n

-----------------------------------------------------------------------------
(* The inductive invariant behind it (proved in RunsPage_proofs)           *)

\* How a run that is over is announced.
Verdict(j) ==
  IF jobs[j].status = "completed" /\ jobs[j].result = "invalid" THEN "failed" ELSE jobs[j].status

\* A fiber knows the status it wrote, and a completed row has a result.
RowsSound ==
  \A j \in Jobs :
    /\ jobs[j].status = "completed" => jobs[j].result # "none"
    /\ jobs[j].status = "absent" => jobs[j].result = "none"
    /\ fiber[j] # "none" => jobs[j].status \notin {"absent", "pending"}
    /\ fiber[j] = "completed" => jobs[j].status = "completed"
    /\ fiber[j] = "failed" => jobs[j].status = "failed"

\* What a worker has published tells how far its fiber is, and at the end what the row
\* says for ever.
WireSound ==
  \A n \in 1..Len(wire) :
    LET j == wire[n].run
    IN /\ wire[n].type \in {"run_started", "run_progress"} => fiber[j] \notin {"none", "taken"}
       /\ wire[n].type \in TerminalEvents =>
            /\ fiber[j] = "over"
            /\ jobs[j].status \in Terminal
            /\ wire[n].type = "run_completed" <=> Verdict(j) = "completed"

\* OneStoryPerRun in terms of positions.
StoryOrder ==
  \A m, n \in 1..Len(wire) : wire[m].run = wire[n].run =>
    /\ wire[m].type = "run_started" /\ wire[n].type = "run_started" => m = n
    /\ wire[m].type \in TerminalEvents /\ wire[n].type \in TerminalEvents => m = n
    /\ wire[m].type \in {"run_started", "run_progress"} /\ wire[n].type \in TerminalEvents
         => m < n
=============================================================================
