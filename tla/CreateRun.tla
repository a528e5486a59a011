----------------------------- MODULE CreateRun ------------------------------
(***************************************************************************)
(* Requests that create runs (createRunUseCase in                          *)
(* packages/api/src/server/use-cases/runs.ts), any number of them at once. *)
(* A request looks for a run to reuse, enqueues a job if it finds none and *)
(* leaves a daemon behind that will publish run_queued.                    *)
(*                                                                         *)
(* A prompt stands for the normalised pair of prompt and thread by which   *)
(* requests are compared.  A statement of a request fails at most once, as *)
(* the request ends with it, so failures need no bound.                    *)
(***************************************************************************)
EXTENDS JobTable, FiniteSets

CONSTANTS
  Requests,       \* calls of runs.create
  Prompts,        \* normalised prompts, with their threads
  NoPrompt,       \* the prompt of a row that does not exist
  RunType,        \* PROCESS_AI_RUN
  RecentLimit,    \* RUN_CREATE_IDEMPOTENCY_RECENT_LIMIT
  Expiring        \* the rows that may get older than RUN_CREATE_IDEMPOTENCY_WINDOW_MS

ASSUME CreateRunAssumption ==
  /\ RunType \in Types
  /\ NoPrompt \notin Prompts
  /\ RecentLimit \in Nat \ {0}
  /\ Expiring \subseteq Jobs
  /\ IsFiniteSet(Jobs)

VARIABLES
  prompt,     \* the prompt in each row's payload
  expired,    \* rows created longer ago than the idempotency window
  req,        \* the requests
  daemon      \* the row whose run_queued each request still has to publish, if any

apiVars == <<prompt, expired, req, daemon>>
createVars == <<jobs, apiVars>>

Phases == {"new", "listing", "enqueuing", "answered", "refused"}

\* A request is answered with the row as the deciding statement read it.
NoAnswer == <<>>
Answers == {NoAnswer} \union [run : Jobs, status : JobStatus]

Request == [phase : Phases, user : Users, prompt : Prompts \union {NoPrompt},
            keyed : BOOLEAN, old : SUBSET Jobs, answer : Answers,
            known : SUBSET Jobs]     \* history: runs that were answered before it started

TypeOK ==
  /\ TableTypeOK
  /\ prompt \in [Jobs -> Prompts \union {NoPrompt}]
  /\ expired \subseteq Jobs
  /\ req \in [Requests -> Request]
  /\ daemon \in [Requests -> SUBSET Jobs]

NewRequest ==
  [phase |-> "new", user |-> CHOOSE u \in Users : TRUE, prompt |-> NoPrompt, keyed |-> FALSE,
   old |-> {}, answer |-> NoAnswer, known |-> {}]

CreateInit ==
  /\ TableInit
  /\ prompt = [j \in Jobs |-> NoPrompt]
  /\ expired = {}
  /\ req = [r \in Requests |-> NewRequest]
  /\ daemon = [r \in Requests |-> {}]

-----------------------------------------------------------------------------
(* createRunUseCase                                                        *)

RunsOf(u) == {j \in Jobs : Present(j) /\ jobs[j].createdBy = u /\ jobs[j].type = RunType}

AnsweredRuns(u, p) ==
  {req[r].answer.run : r \in {q \in Requests : /\ req[q].phase = "answered"
                                               /\ req[q].user = u
                                               /\ prompt[req[q].answer.run] = p}}

\* nowMs is read before the list is: the window is the one of this moment.  A request
\* may bring an idempotency key (keyed); which one makes no difference.
StartCreate(r, u, p, keyed) ==
  /\ req[r].phase = "new"
  /\ req' = [req EXCEPT ![r] = [phase |-> "listing", user |-> u, prompt |-> p, keyed |-> keyed,
                                old |-> expired, answer |-> NoAnswer,
                                known |-> AnsweredRuns(u, p)]]
  /\ UNCHANGED <<jobs, prompt, expired, daemon>>

\* Faulty variant of Newest: the list is in the wrong order.
Earliest(rows, limit) ==
  {S \in SUBSET rows :
     /\ Cardinality(S) = IF Cardinality(rows) < limit THEN Cardinality(rows) ELSE limit
     /\ \A i \in S, j \in rows \ S : jobs[i].stamp <= jobs[j].stamp}

\* ORDER BY "createdAt" DESC LIMIT limit; ties in any order.
Newest(rows, limit) ==
  {S \in SUBSET rows :
     /\ Cardinality(S) = IF Cardinality(rows) < limit THEN Cardinality(rows) ELSE limit
     /\ \A i \in S, j \in rows \ S : jobs[i].stamp >= jobs[j].stamp}

\* Faulty variant of Reusable: the prompt is not compared.
ReusableAny(r, S) ==
  {j \in S : jobs[j].status \in {"pending", "processing", "completed"} /\ j \notin req[r].old}

\* findIdempotentRun
Reusable(r, S) ==
  {j \in S : /\ jobs[j].status \in {"pending", "processing", "completed"}
             /\ j \notin req[r].old
             /\ prompt[j] = req[r].prompt}

Answer(r, j, status) ==
  req' = [req EXCEPT ![r].phase = "answered", ![r].answer = [run |-> j, status |-> status]]

\* getJobsByUser and findIdempotentRun.  An error of the query counts as no runs.
ListRecent(r) ==
  /\ req[r].phase = "listing"
  /\ \/ \E S \in Newest(RunsOf(req[r].user), RecentLimit) :
          \/ \E j \in Reusable(r, S) :
               /\ \A i \in Reusable(r, S) : jobs[i].stamp <= jobs[j].stamp
               /\ Answer(r, j, jobs[j].status)
          \/ /\ Reusable(r, S) = {}
             /\ req' = [req EXCEPT ![r].phase = "enqueuing"]
     \/ req' = [req EXCEPT ![r].phase = "enqueuing", ![r].known = {}]
  /\ UNCHANGED <<jobs, prompt, expired, daemon>>

\* enqueue inserts the row, but never with a key (JobQueue!EnqueueKeyed); when the reply
\* to the INSERT is lost the request is refused all the same, and nothing is published.
Enqueue(r) ==
  /\ req[r].phase = "enqueuing"
  /\ ~req[r].keyed
  /\ \E j \in Jobs, s \in 1..MaxStamp :
       /\ jobs[j].status = "absent"
       /\ NextStamp(s)
       /\ jobs' = Inserted(j, RunType, req[r].user, s)
       /\ prompt' = [prompt EXCEPT ![j] = req[r].prompt]
       /\ \/ /\ Answer(r, j, "pending")
             /\ daemon' = [daemon EXCEPT ![r] = {j}]
          \/ /\ req' = [req EXCEPT ![r].phase = "refused"]
             /\ UNCHANGED daemon
  /\ UNCHANGED <<expired>>

\* The INSERT fails: with a key always, and without one now and then.
EnqueueFails(r) ==
  /\ req[r].phase = "enqueuing"
  /\ req' = [req EXCEPT ![r].phase = "refused"]
  /\ UNCHANGED <<jobs, prompt, expired, daemon>>

-----------------------------------------------------------------------------
(* Time and the workers, as far as requests see them                       *)

\* The oldest rows leave the idempotency window first.
Expire(j) ==
  /\ j \in Expiring /\ Present(j) /\ j \notin expired
  /\ \A i \in Jobs : Present(i) /\ jobs[i].stamp < jobs[j].stamp => i \in expired
  /\ expired' = expired \union {j}
  /\ UNCHANGED <<jobs, prompt, req, daemon>>

Create(r) ==
  ListRecent(r) \/ Enqueue(r) \/ EnqueueFails(r)

StartAny ==
  \E r \in Requests, u \in Users, p \in Prompts, keyed \in BOOLEAN : StartCreate(r, u, p, keyed)

\* A job is taken up, or its status is settled, maybe more than once, by whomever.
WorkersMove(j) ==
  /\ \/ j \in Oldest(RunType) /\ jobs' = Claimed(j)
     \/ /\ jobs[j].status \in {"processing"} \union Terminal
        /\ \E status \in Terminal : jobs' = StatusUpdated(j, status, Undefined, Undefined)
  /\ UNCHANGED apiVars

CreateNext ==
  \/ StartAny
  \/ \E r \in Requests : Create(r)
  \/ \E j \in Jobs : Expire(j) \/ WorkersMove(j)

CreateSpec == CreateInit /\ [][CreateNext]_createVars

-----------------------------------------------------------------------------
(* What the requests are promised                                          *)

\* Why a request may enqueue although it knows of run i: the run failed, is out of the
\* window, or was not among the newest RecentLimit ones.
NotReusable(r, i) ==
  \/ jobs[i].status = "failed"
  \/ i \in req[r].old
  \/ Cardinality({j \in RunsOf(req[r].user) \ {i} : jobs[j].stamp >= jobs[i].stamp})
       >= RecentLimit

EnqueuesForAReason ==
  \A r \in Requests :
    req[r].phase = "listing" /\ req'[r].phase = "enqueuing" =>
      \A i \in req'[r].known : NotReusable(r, i)

\* A request that starts after another one was answered with a run of the same user
\* and prompt enqueues a job of its own only for one of these reasons, or when the runs
\* could not be listed (createRunUseCase, findIdempotentRun).
RetriesReuse == [][EnqueuesForAReason]_createVars

\* A request is answered with a run of its own user and its own prompt, one it found or
\* one it inserted (createRunUseCase, findIdempotentRun, enqueue).
AnswersBelong ==
  \A r \in Requests : req[r].phase = "answered" =>
    LET j == req[r].answer.run
    IN /\ jobs[j].createdBy = req[r].user
       /\ prompt[j] = req[r].prompt

-----------------------------------------------------------------------------
(* The inductive invariant behind them                                     *)

\* An answered run is a present run of the request's user.
AnswersStand ==
  \A r \in Requests :
    req[r].phase = "answered" => req[r].answer.run \in RunsOf(req[r].user)

\* What a request knows of are runs of its user and prompt.
KnownBelong ==
  \A r \in Requests : \A i \in req[r].known :
    i \in RunsOf(req[r].user) /\ prompt[i] = req[r].prompt

RInv == TypeOK /\ AnswersStand /\ AnswersBelong /\ KnownBelong
=============================================================================
