------------------------------ MODULE RunsPage ------------------------------
(***************************************************************************)
(* The runs page (apps/web/src/pages/jobs.tsx, apps/web/src/lib/           *)
(* run-utils.ts) of one user, on top of the API and the workers of Runs.   *)
(* Its calls can fail, too, within the bound of Runs.                      *)
(*                                                                         *)
(* The page puts its list of runs together from three sources that race    *)
(* with each other: the reply to runs.list, which replaces the whole list, *)
(* the reply to runs.create, and the events it reads from its stream.  Of  *)
(* a run only the status it shows is kept.                                 *)
(***************************************************************************)
EXTENDS Runs

CONSTANTS
  PageUser,      \* who looks at the page
  NoRequest,     \* no call of runs.create is under way
  PageLimit      \* the limit of runs.list

ASSUME PageAssumption ==
  /\ PageUser \in Users
  /\ NoRequest \notin Requests
  /\ PageLimit \in Nat \ {0}

VARIABLES
  session,     \* has useSession told who the user is
  list,        \* the call of runs.list
  snapshot,    \* what it read
  stream,      \* the subscription
  missed,      \* was anything published before the page subscribed
  pos,         \* how much of the wire is behind the page
  view,        \* the status the page shows for each run
  creating,    \* the call of runs.create the page waits for
  heard        \* history: the runs of which the page has read the end, and has not
               \* taken in a reply or a run_queued since

pageVars == <<session, list, snapshot, stream, missed, pos, view, creating, heard>>
vars == <<runsVars, pageVars>>

Shown == JobStatus \union {"none"}

PageTypeOK ==
  /\ RunsTypeOK
  /\ session \in {"pending", "known"}
  /\ list \in {"asked", "read", "applied", "failed"}
  /\ snapshot \in [Jobs -> Shown]
  /\ stream \in {"asked", "open", "broken"}
  /\ pos \in 0..Len(wire)
  /\ missed \in BOOLEAN
  /\ view \in [Jobs -> Shown]
  /\ creating \in Requests \union {NoRequest}
  /\ heard \subseteq Jobs

Init ==
  /\ RunsInit
  /\ session = "pending"
  /\ list = "asked"
  /\ snapshot = [j \in Jobs |-> "none"]
  /\ stream = "asked"
  /\ missed = FALSE
  /\ pos = 0
  /\ view = [j \in Jobs |-> "none"]
  /\ creating = NoRequest
  /\ heard = {}

\* userId changes from '' to the user's: both effects are cleaned up and run again, and
\* the list of runs stays.
SessionKnown ==
  /\ session = "pending"
  /\ session' = "known"
  /\ list' = "asked"
  /\ snapshot' = [j \in Jobs |-> "none"]
  /\ stream' = "asked"
  /\ UNCHANGED <<runsVars, missed, pos, view, creating, heard>>

-----------------------------------------------------------------------------
(* load                                                                    *)

\* listRunsUseCase on the server.
ReadList ==
  /\ list = "asked"
  /\ \/ /\ \E S \in Newest(RunsOf(PageUser), PageLimit) :
             snapshot' = [j \in Jobs |-> IF j \in S THEN jobs[j].status ELSE "none"]
        /\ list' = "read"
        /\ UNCHANGED faults
     \/ /\ Fault
        /\ list' = "failed"
        /\ UNCHANGED snapshot
  /\ UNCHANGED <<createVars, fiber, wire, session, stream, missed, pos, view, creating, heard>>

\* setRuns(result...): whatever the page knew from elsewhere is gone.
ApplyList ==
  /\ list = "read"
  /\ list' = "applied"
  /\ view' = snapshot
  /\ snapshot' = [j \in Jobs |-> "none"]
  /\ heard' = {}
  /\ UNCHANGED <<runsVars, session, stream, missed, pos, creating>>

-----------------------------------------------------------------------------
(* subscribe                                                               *)

\* What was published before the subscription is never read.
Subscribe ==
  /\ stream = "asked"
  /\ stream' = "open"
  /\ missed' = (wire # <<>>)
  /\ pos' = Len(wire)
  /\ UNCHANGED <<runsVars, session, list, snapshot, view, creating, heard>>

\* The stream fails and nobody subscribes again.
StreamBreaks ==
  /\ stream \in {"asked", "open"}
  /\ stream' = "broken"
  /\ Fault
  /\ UNCHANGED <<createVars, fiber, wire, session, list, snapshot, missed, pos, view, creating, heard>>

\* Faulty variant of EventStatus: a queued run keeps the event's name.
EventStatusQueued ==
  [run_queued |-> "queued", run_started |-> "processing", run_progress |-> "processing",
   run_completed |-> "completed", run_failed |-> "failed"]

\* The status applyRunEvent gives a run.
EventStatus ==
  [run_queued |-> "pending", run_started |-> "processing", run_progress |-> "processing",
   run_completed |-> "completed", run_failed |-> "failed"]

\* upsertRun and updateRun: a run the page has not heard of gets a placeholder first;
\* run_queued starts a run all over, whatever is known of it.
Apply(event) == view' = [view EXCEPT ![event.run] = EventStatus[event.type]]

Receive ==
  /\ stream = "open"
  /\ pos < Len(wire)
  /\ pos' = pos + 1
  /\ IF jobs[wire[pos + 1].run].createdBy = PageUser
     THEN /\ Apply(wire[pos + 1])
          /\ heard' = CASE wire[pos + 1].type \in TerminalEvents -> heard \union {wire[pos + 1].run}
                        [] wire[pos + 1].type = "run_queued" -> heard \ {wire[pos + 1].run}
                        [] OTHER -> heard
     ELSE UNCHANGED <<view, heard>>
  /\ UNCHANGED <<runsVars, session, list, snapshot, stream, missed, creating>>

-----------------------------------------------------------------------------
(* onQueueRun                                                              *)

QueueRun(r, p) ==
  /\ creating = NoRequest
  /\ Start(r, PageUser, p, FALSE)
  /\ creating' = r
  /\ UNCHANGED <<session, list, snapshot, stream, missed, pos, view, heard>>

CreateReplied ==
  /\ creating # NoRequest
  /\ req[creating].phase = "answered"
  /\ LET answer == req[creating].answer
     IN /\ view' = [view EXCEPT ![answer.run] = answer.status]
        /\ heard' = heard \ {answer.run}
  /\ creating' = NoRequest
  /\ UNCHANGED <<runsVars, session, list, snapshot, stream, missed, pos>>

\* The call was refused, or the reply is lost, maybe while the server works on it.
CreateFailed ==
  /\ creating # NoRequest
  /\ IF req[creating].phase = "refused" THEN UNCHANGED faults ELSE Fault
  /\ creating' = NoRequest
  /\ UNCHANGED <<createVars, fiber, wire, session, list, snapshot, stream, missed, pos, view, heard>>

PageNext ==
  \/ SessionKnown
  \/ ReadList \/ ApplyList
  \/ Subscribe \/ StreamBreaks \/ Receive
  \/ \E r \in Requests, p \in Prompts : QueueRun(r, p)
  \/ CreateReplied \/ CreateFailed

\* Runs are also created from elsewhere, by the user or by others.
Elsewhere ==
  \E r \in Requests, u \in Users, p \in Prompts, keyed \in BOOLEAN : Start(r, u, p, keyed)

Next ==
  \/ PageNext
  \/ (RunsNext \/ Elsewhere) /\ UNCHANGED pageVars

Spec == Init /\ [][Next]_vars

-----------------------------------------------------------------------------
(* What the page promises                                                  *)

\* Once the page has heard the end of a run it shows how the run ended, until it takes
\* in a reply or a run_queued: these races are the only ones that can set the run back
\* (applyRunEvent, load, onQueueRun, with all that happens on the server).
HeardIsShown ==
  \A j \in heard : view[j] = Verdict(j)

\* A run that the page shows as completed has a result in the table, however old the
\* reply or the event may be that said so, and whatever went wrong since.
CompletedHasResult ==
  \A j \in Jobs : view[j] = "completed" => jobs[j].result # "none"

\* All is said about a run, and the page has missed none of it.
Quiet(j) ==
  /\ list = "applied" /\ stream = "open" /\ creating = NoRequest
  /\ ~missed /\ pos = Len(wire)
  /\ fiber[j] = "over"
  /\ \A r \in Requests : j \notin daemon[r]

\* Events and replies are reconciled so that the page is in sync: a run that is over
\* and of which everything was published and read is shown as the table has it, or as
\* it was announced.
KeptInSync ==
  \A j \in RunsOf(PageUser) :
    Quiet(j) /\ view[j] # "none" => view[j] \in {jobs[j].status, Verdict(j)}

-----------------------------------------------------------------------------
(* The inductive invariant (proved in RunsPage_proofs)                     *)

\* The end of a run that was heard has been read from the wire.
HeardRead ==
  \A j \in heard : \E n \in 1..pos : wire[n].type \in TerminalEvents /\ wire[n].run = j

\* What replies say of completed runs holds while they are under way.
SnapshotSound ==
  \A j \in Jobs : snapshot[j] = "completed" => jobs[j].result # "none"

AnswersSound ==
  \A r \in Requests : req[r].phase = "answered" =>
    /\ req[r].answer \in [run : Jobs, status : JobStatus]
    /\ req[r].answer.status = "completed" => jobs[req[r].answer.run].result # "none"

PInv ==
  /\ PageTypeOK
  /\ RInv
  /\ RowsSound
  /\ WireSound
  /\ StoryOrder
  /\ HeardRead
  /\ HeardIsShown
  /\ SnapshotSound
  /\ AnswersSound
  /\ CompletedHasResult
=============================================================================
