-------------------------- MODULE CreateRun_proofs --------------------------
(***************************************************************************)
(* Proofs about the requests that create runs, for any number of requests, *)
(* rows, users and prompts, and any list limit.  First what a step         *)
(* does to the rows, then what it does to a request, then the invariant    *)
(* and why a request that enqueues has a reason to.                        *)
(***************************************************************************)
EXTENDS CreateRun, JobTable_proofs, FiniteSetTheorems

-----------------------------------------------------------------------------
(* Rows                                                                    *)

\* No statement of a request or of a worker takes a row away, or changes its type,
\* owner or prompt.
Kept(i) ==
  Present(i) =>
    /\ Present(i)'
    /\ jobs'[i].type = jobs[i].type
    /\ jobs'[i].createdBy = jobs[i].createdBy
    /\ prompt'[i] = prompt[i]

\* The INSERT fills an absent row (Enqueue).
LEMMA InsertStep ==
  ASSUME TypeOK, NEW r \in Requests, NEW j \in Jobs, NEW s \in 1..MaxStamp,
         jobs[j].status = "absent", req[r].prompt \in Prompts \union {NoPrompt},
         jobs' = Inserted(j, RunType, req[r].user, s),
         prompt' = [prompt EXCEPT ![j] = req[r].prompt]
  PROVE  /\ TableTypeOK'
         /\ prompt' \in [Jobs -> Prompts \union {NoPrompt}]
         /\ \A i \in Jobs : Kept(i)
         /\ Present(j)' /\ jobs'[j].createdBy = req[r].user /\ jobs'[j].type = RunType
         /\ prompt'[j] = req[r].prompt
<1>1. req[r].user \in Users
  BY DEF TypeOK, Request
<1>2. TableTypeOK /\ RunType \in Types
  BY CreateRunAssumption DEF TypeOK
<1>3. /\ jobs' \in [Jobs -> Row]
      /\ jobs'[j] = NewRow(RunType, req[r].user, s)
      /\ \A i \in Jobs : i # j => jobs'[i] = jobs[i]
  <2>1. PICK u \in Users : u = req[r].user
    BY <1>1
  <2>2. jobs' = Inserted(j, RunType, u, s)
    BY <2>1
  <2>3. /\ jobs' \in [Jobs -> Row] /\ jobs'[j] = NewRow(RunType, u, s)
        /\ \A i \in Jobs : i # j => jobs'[i] = jobs[i]
    BY <1>2, <2>2, InsertedRow
  <2>. QED  BY <2>1, <2>3
<1>4. prompt' \in [Jobs -> Prompts \union {NoPrompt}]
  BY DEF TypeOK
<1>5. prompt'[j] = req[r].prompt /\ \A i \in Jobs : i # j => prompt'[i] = prompt[i]
  BY DEF TypeOK
<1>6. ~Present(j)
  BY DEF Present, JobStatus, Terminal
<1>7. \A i \in Jobs : Kept(i)
  BY <1>3, <1>5, <1>6 DEF Kept, Present
<1>8. Present(j)' /\ jobs'[j].createdBy = req[r].user /\ jobs'[j].type = RunType
  BY <1>3 DEF Present, NewRow, JobStatus
<1>. QED  BY <1>3, <1>4, <1>5, <1>7, <1>8 DEF TableTypeOK

\* The workers' statements keep what requests rely on (WorkersMove).
LEMMA WorkersStep ==
  ASSUME TypeOK, NEW j \in Jobs, WorkersMove(j)
  PROVE  TableTypeOK' /\ \A i \in Jobs : Kept(i)
<1>. TableTypeOK /\ jobs[j] \in Row
  BY DEF TypeOK, TableTypeOK
<1>0. prompt' = prompt
  BY DEF WorkersMove, apiVars
<1>1. CASE jobs' = Claimed(j)
  <2>1. /\ jobs' \in [Jobs -> Row]
        /\ jobs'[j] = [jobs[j] EXCEPT !.status = "processing", !.age = 0]
        /\ \A i \in Jobs : i # j => jobs'[i] = jobs[i]
    BY <1>1, ClaimedRow
  <2>2. /\ jobs'[j].status = "processing" /\ jobs'[j].type = jobs[j].type
        /\ jobs'[j].createdBy = jobs[j].createdBy
    BY <2>1 DEF Row
  <2>. QED  BY <1>0, <2>1, <2>2 DEF Kept, Present, JobStatus, TableTypeOK
<1>2. CASE \E status \in Terminal : jobs' = StatusUpdated(j, status, Undefined, Undefined)
  <2>1. PICK status \in Terminal : jobs' = StatusUpdated(j, status, Undefined, Undefined)
    BY <1>2
  <2>2. status \in JobStatus
    BY DEF JobStatus
  <2>3. /\ jobs' \in [Jobs -> Row] /\ jobs'[j].status = status
        /\ jobs'[j].type = jobs[j].type /\ jobs'[j].createdBy = jobs[j].createdBy
        /\ \A i \in Jobs : i # j => jobs'[i] = jobs[i]
    <3>1. Undefined \in Results \union {Undefined} /\ Undefined \in Errors \union {Undefined}
      OBVIOUS
    <3>2. LET table == StatusUpdated(j, status, Undefined, Undefined)
          IN /\ table \in [Jobs -> Row] /\ table[j].status = status
             /\ table[j].type = jobs[j].type /\ table[j].createdBy = jobs[j].createdBy
             /\ \A i \in Jobs : i # j => table[i] = jobs[i]
      BY <2>2, <3>1, StatusUpdatedRow
    <3>. QED  BY <2>1, <3>2
  <2>. QED  BY <1>0, <2>2, <2>3 DEF Kept, Present, TableTypeOK
<1>. QED  BY <1>1, <1>2 DEF WorkersMove

-----------------------------------------------------------------------------
(* Requests                                                                *)

\* An answer changes the phase and the answer of one request.
LEMMA AnswerStep ==
  ASSUME TypeOK, NEW r \in Requests, NEW j \in Jobs, NEW status \in JobStatus,
         Answer(r, j, status)
  PROVE  /\ req' \in [Requests -> Request]
         /\ req'[r] = [req[r] EXCEPT !.phase = "answered",
                                     !.answer = [run |-> j, status |-> status]]
         /\ \A q \in Requests : q # r => req'[q] = req[q]
<1>. DEFINE answer == [run |-> j, status |-> status]
            next == [req[r] EXCEPT !.phase = "answered", !.answer = answer]
<1>1. req[r] \in Request
  BY DEF TypeOK
<1>2. answer \in Answers /\ "answered" \in Phases
  BY DEF Answers, Phases
<1>3. next \in Request
  BY <1>1, <1>2, Zenon DEF Request
<1>4. req' = [req EXCEPT ![r] = next]
  BY <1>1 DEF Answer, TypeOK, Request
<1>. HIDE DEF next
<1>5. req' \in [Requests -> Request] /\ req'[r] = next
      /\ \A q \in Requests : q # r => req'[q] = req[q]
  BY <1>3, <1>4 DEF TypeOK
<1>. QED  BY <1>5 DEF next

\* Moving on changes the phase, and forgets what was known or not.
LEMMA PhaseStep ==
  ASSUME TypeOK, NEW r \in Requests, NEW phase \in Phases,
         req' = [req EXCEPT ![r].phase = phase]
  PROVE  /\ req' \in [Requests -> Request]
         /\ req'[r] = [req[r] EXCEPT !.phase = phase]
         /\ \A q \in Requests : q # r => req'[q] = req[q]
<1>1. req[r] \in Request
  BY DEF TypeOK
<1>2. [req[r] EXCEPT !.phase = phase] \in Request
  BY <1>1, Zenon DEF Request
<1>. QED  BY <1>2 DEF TypeOK

LEMMA ForgetStep ==
  ASSUME TypeOK, NEW r \in Requests,
         req' = [req EXCEPT ![r].phase = "enqueuing", ![r].known = {}]
  PROVE  /\ req' \in [Requests -> Request]
         /\ req'[r] = [req[r] EXCEPT !.phase = "enqueuing", !.known = {}]
         /\ \A q \in Requests : q # r => req'[q] = req[q]
<1>. DEFINE next == [req[r] EXCEPT !.phase = "enqueuing", !.known = {}]
<1>1. req[r] \in Request
  BY DEF TypeOK
<1>2. {} \in SUBSET Jobs /\ "enqueuing" \in Phases
  BY DEF Phases
<1>3. next \in Request
  BY <1>1, <1>2, Zenon DEF Request
<1>4. req' = [req EXCEPT ![r] = next]
  BY <1>1 DEF TypeOK, Request
<1>. HIDE DEF next
<1>5. req' \in [Requests -> Request] /\ req'[r] = next
      /\ \A q \in Requests : q # r => req'[q] = req[q]
  BY <1>3, <1>4 DEF TypeOK
<1>. QED  BY <1>5 DEF next

-----------------------------------------------------------------------------
(* Types                                                                   *)

LEMMA InitTyped == CreateInit => TypeOK
<1>. SUFFICES ASSUME CreateInit PROVE TypeOK
  OBVIOUS
<1>1. TableTypeOK
  BY InitialTable DEF CreateInit
<1>2. (CHOOSE u \in Users : TRUE) \in Users
  BY TableAssumption
<1>3. NewRequest \in Request
  BY <1>2 DEF NewRequest, Request, Phases, Answers
<1>. QED  BY <1>1, <1>3 DEF CreateInit, TypeOK

\* One step of createRunUseCase: only the request that takes it changes, and it keeps
\* its input.
RequestMoves(r) ==
  /\ \A q \in Requests : q # r => req'[q] = req[q]
  /\ req'[r].user = req[r].user
  /\ req'[r].prompt = req[r].prompt

LEMMA ListStep ==
  ASSUME TypeOK, NEW r \in Requests, ListRecent(r)
  PROVE  /\ req' \in [Requests -> Request]
         /\ RequestMoves(r)
         /\ req'[r].known \subseteq req[r].known
         /\ \/ /\ req'[r].phase = "answered"
               /\ \E j \in RunsOf(req[r].user), status \in JobStatus :
                    /\ prompt[j] = req[r].prompt
                    /\ req'[r].answer = [run |-> j, status |-> status]
            \/ /\ req'[r].phase = "enqueuing"
               /\ \/ req'[r].known = {}
                  \/ \E S \in Newest(RunsOf(req[r].user), RecentLimit) : Reusable(r, S) = {}
<1>0. req[r] \in Request
  BY DEF TypeOK
<1>1. CASE \E S \in Newest(RunsOf(req[r].user), RecentLimit) :
             \E j \in Reusable(r, S) : Answer(r, j, jobs[j].status)
  <2>1. PICK S \in Newest(RunsOf(req[r].user), RecentLimit) :
          \E j \in Reusable(r, S) : Answer(r, j, jobs[j].status)
    BY <1>1
  <2>2. PICK j \in Reusable(r, S) : Answer(r, j, jobs[j].status)
    BY <2>1
  <2>3. j \in RunsOf(req[r].user) /\ prompt[j] = req[r].prompt
    BY <2>1, <2>2 DEF Newest, Reusable
  <2>4. j \in Jobs /\ jobs[j].status \in JobStatus
    BY <2>3 DEF RunsOf, Present
  <2>5. /\ req' \in [Requests -> Request]
        /\ req'[r] = [req[r] EXCEPT !.phase = "answered",
                                    !.answer = [run |-> j, status |-> jobs[j].status]]
        /\ \A q \in Requests : q # r => req'[q] = req[q]
    BY <2>2, <2>4, AnswerStep
  <2>. QED  BY <1>0, <2>3, <2>4, <2>5 DEF RequestMoves, Request
<1>2. CASE /\ \E S \in Newest(RunsOf(req[r].user), RecentLimit) : Reusable(r, S) = {}
           /\ req' = [req EXCEPT ![r].phase = "enqueuing"]
  <2>1. /\ req' \in [Requests -> Request]
        /\ req'[r] = [req[r] EXCEPT !.phase = "enqueuing"]
        /\ \A q \in Requests : q # r => req'[q] = req[q]
    BY <1>2, PhaseStep DEF Phases
  <2>. QED  BY <1>0, <1>2, <2>1 DEF RequestMoves, Request
<1>3. CASE req' = [req EXCEPT ![r].phase = "enqueuing", ![r].known = {}]
  <2>1. /\ req' \in [Requests -> Request]
        /\ req'[r] = [req[r] EXCEPT !.phase = "enqueuing", !.known = {}]
        /\ \A q \in Requests : q # r => req'[q] = req[q]
    BY <1>3, ForgetStep
  <2>. QED  BY <1>0, <2>1 DEF RequestMoves, Request
<1>. QED  BY <1>1, <1>2, <1>3 DEF ListRecent

\* The other statements answer with a run, refuse, or go on to the next statement.
LEMMA InsertedAnswer ==
  ASSUME TypeOK, NEW r \in Requests, Enqueue(r)
  PROVE  /\ req' \in [Requests -> Request] /\ TableTypeOK'
         /\ prompt' \in [Jobs -> Prompts \union {NoPrompt}]
         /\ daemon' \in [Requests -> SUBSET Jobs]
         /\ RequestMoves(r) /\ req'[r].known = req[r].known
         /\ \A i \in Jobs : Kept(i)
         /\ \/ req'[r].phase = "refused"
            \/ /\ req'[r].phase = "answered"
               /\ \E j \in Jobs :
                    /\ Present(j)' /\ jobs'[j].createdBy = req[r].user /\ jobs'[j].type = RunType
                    /\ prompt'[j] = req[r].prompt
                    /\ req'[r].answer = [run |-> j, status |-> "pending"]
<1>0. req[r] \in Request
  BY DEF TypeOK
<1>1. PICK j \in Jobs, s \in 1..MaxStamp :
        /\ jobs[j].status = "absent"
        /\ jobs' = Inserted(j, RunType, req[r].user, s)
        /\ prompt' = [prompt EXCEPT ![j] = req[r].prompt]
        /\ \/ /\ Answer(r, j, "pending")
              /\ daemon' = [daemon EXCEPT ![r] = {j}]
           \/ /\ req' = [req EXCEPT ![r].phase = "refused"]
              /\ UNCHANGED daemon
  BY DEF Enqueue
<1>2. /\ TableTypeOK'
      /\ prompt' \in [Jobs -> Prompts \union {NoPrompt}]
      /\ \A i \in Jobs : Kept(i)
      /\ Present(j)' /\ jobs'[j].createdBy = req[r].user /\ jobs'[j].type = RunType
      /\ prompt'[j] = req[r].prompt
  BY <1>0, <1>1, InsertStep DEF Request
<1>3. daemon' \in [Requests -> SUBSET Jobs]
  BY <1>1 DEF TypeOK
<1>4. CASE Answer(r, j, "pending")
  <2>1. /\ req' \in [Requests -> Request]
        /\ req'[r] = [req[r] EXCEPT !.phase = "answered",
                                    !.answer = [run |-> j, status |-> "pending"]]
        /\ \A q \in Requests : q # r => req'[q] = req[q]
    BY <1>4, AnswerStep DEF JobStatus
  <2>2. /\ req'[r].phase = "answered" /\ req'[r].answer = [run |-> j, status |-> "pending"]
        /\ RequestMoves(r) /\ req'[r].known = req[r].known
    BY <1>0, <2>1 DEF RequestMoves, Request
  <2>. QED  BY <1>2, <1>3, <2>1, <2>2
<1>5. CASE req' = [req EXCEPT ![r].phase = "refused"]
  <2>1. /\ req' \in [Requests -> Request]
        /\ req'[r] = [req[r] EXCEPT !.phase = "refused"]
        /\ \A q \in Requests : q # r => req'[q] = req[q]
    BY <1>5, PhaseStep DEF Phases
  <2>2. req'[r].phase = "refused" /\ RequestMoves(r) /\ req'[r].known = req[r].known
    BY <1>0, <2>1 DEF RequestMoves, Request
  <2>. QED  BY <1>2, <1>3, <2>1, <2>2
<1>. QED  BY <1>1, <1>4, <1>5

LEMMA RefusedStep ==
  ASSUME TypeOK, NEW r \in Requests, EnqueueFails(r)
  PROVE  /\ req' \in [Requests -> Request]
         /\ RequestMoves(r) /\ req'[r].known = req[r].known
         /\ req'[r].phase = "refused"
         /\ UNCHANGED <<jobs, prompt, expired, daemon>>
<1>0. req[r] \in Request
  BY DEF TypeOK
<1>1. req' = [req EXCEPT ![r].phase = "refused"]
  BY DEF EnqueueFails
<1>2. /\ req' \in [Requests -> Request]
      /\ req'[r] = [req[r] EXCEPT !.phase = "refused"]
      /\ \A q \in Requests : q # r => req'[q] = req[q]
  BY <1>1, PhaseStep DEF Phases
<1>. QED  BY <1>0, <1>1, <1>2 DEF RequestMoves, Request, EnqueueFails

LEMMA StartStep ==
  ASSUME TypeOK, NEW r \in Requests, NEW u \in Users, NEW p \in Prompts,
         NEW keyed \in BOOLEAN, AnswersStand, StartCreate(r, u, p, keyed)
  PROVE  /\ req' \in [Requests -> Request]
         /\ \A q \in Requests : q # r => req'[q] = req[q]
         /\ req'[r].phase = "listing" /\ req'[r].user = u /\ req'[r].prompt = p
         /\ req'[r].known = AnsweredRuns(u, p)
         /\ UNCHANGED <<jobs, prompt, expired, daemon>>
<1>. DEFINE next == [phase |-> "listing", user |-> u, prompt |-> p, keyed |-> keyed,
                     old |-> expired, answer |-> NoAnswer, known |-> AnsweredRuns(u, p)]
<1>1. AnsweredRuns(u, p) \subseteq Jobs
  BY DEF AnsweredRuns, AnswersStand, RunsOf
<1>2. next \in Request
  BY <1>1 DEF Request, TypeOK, Phases, Answers
<1>3. req' = [req EXCEPT ![r] = next]
  BY DEF StartCreate
<1>4. /\ next.phase = "listing" /\ next.user = u /\ next.prompt = p
      /\ next.known = AnsweredRuns(u, p)
  OBVIOUS
<1>. HIDE DEF next
<1>5. UNCHANGED <<jobs, prompt, expired, daemon>>
  BY DEF StartCreate
<1>. QED  BY <1>2, <1>3, <1>4, <1>5 DEF TypeOK

LEMMA TypeStep ==
  ASSUME TypeOK, AnswersStand, [CreateNext]_createVars
  PROVE  TypeOK'
<1>1. ASSUME NEW r \in Requests, NEW u \in Users, NEW p \in Prompts,
             NEW keyed \in BOOLEAN, StartCreate(r, u, p, keyed)
      PROVE  TypeOK'
  BY <1>1, StartStep DEF TypeOK, TableTypeOK
<1>2. ASSUME NEW r \in Requests, ListRecent(r)
      PROVE  TypeOK'
  <2>1. req' \in [Requests -> Request]
    BY <1>2, ListStep
  <2>2. UNCHANGED <<jobs, prompt, expired, daemon>>
    BY <1>2 DEF ListRecent
  <2>. QED  BY <2>1, <2>2 DEF TypeOK, TableTypeOK
<1>3. ASSUME NEW r \in Requests, Enqueue(r)
      PROVE  TypeOK'
  <2>1. expired' = expired
    BY <1>3 DEF Enqueue
  <2>. QED  BY <1>3, <2>1, InsertedAnswer DEF TypeOK
<1>4. ASSUME NEW r \in Requests, EnqueueFails(r)
      PROVE  TypeOK'
  BY <1>4, RefusedStep DEF TypeOK, TableTypeOK
<1>6. ASSUME NEW j \in Jobs, Expire(j)
      PROVE  TypeOK'
  BY <1>6 DEF Expire, TypeOK, TableTypeOK
<1>7. ASSUME NEW j \in Jobs, WorkersMove(j)
      PROVE  TypeOK'
  <2>1. UNCHANGED apiVars
    BY <1>7 DEF WorkersMove
  <2>2. TableTypeOK'
    BY <1>7, WorkersStep
  <2>. QED  BY <2>1, <2>2 DEF TypeOK, apiVars
<1>8. CASE UNCHANGED createVars
  BY <1>8 DEF createVars, apiVars, TypeOK, TableTypeOK
<1>. QED
  BY <1>1, <1>2, <1>3, <1>4, <1>6, <1>7, <1>8 DEF CreateNext, StartAny, Create

-----------------------------------------------------------------------------
(* The invariant                                                           *)

\* The invariant, request by request.
RequestRight(r) ==
  /\ req[r].phase = "answered" =>
       LET j == req[r].answer.run
       IN /\ j \in RunsOf(req[r].user)
          /\ prompt[j] = req[r].prompt
  /\ \A i \in req[r].known : i \in RunsOf(req[r].user) /\ prompt[i] = req[r].prompt

LEMMA InvariantSplit ==
  RInv <=> TypeOK /\ \A r \in Requests : RequestRight(r)
BY DEF RInv, AnswersStand, AnswersBelong, KnownBelong, RequestRight, RunsOf

\* A run that belongs to somebody does so while rows are kept.
LEMMA RunsKept ==
  ASSUME \A i \in Jobs : Kept(i), NEW u
  PROVE  \A i \in RunsOf(u) :
           /\ i \in Jobs /\ Present(i)'
           /\ jobs'[i].createdBy = u /\ jobs'[i].type = RunType
           /\ prompt'[i] = prompt[i]
BY DEF RunsOf, Kept

\* A request that does not move stays right, ...
LEMMA StaysRight ==
  ASSUME \A i \in Jobs : Kept(i), NEW r \in Requests, RequestRight(r), req'[r] = req[r]
  PROVE  RequestRight(r)'
<1>1. \A i \in RunsOf(req[r].user) :
         /\ i \in Jobs /\ Present(i)'
         /\ jobs'[i].createdBy = req[r].user /\ jobs'[i].type = RunType
         /\ prompt'[i] = prompt[i]
  BY RunsKept
<1>2. \A i \in req[r].known : /\ i \in Jobs /\ Present(i)' /\ prompt'[i] = req[r].prompt
                              /\ jobs'[i].createdBy = req[r].user /\ jobs'[i].type = RunType
  BY <1>1 DEF RequestRight
<1>3. ASSUME req[r].phase = "answered"
      PROVE  LET j == req[r].answer.run
             IN /\ j \in Jobs /\ jobs'[j].status \in JobStatus
                /\ jobs'[j].createdBy = req[r].user /\ jobs'[j].type = RunType
                /\ prompt'[j] = req[r].prompt
  BY <1>1, <1>3 DEF RequestRight, Present
<1>. QED  BY <1>2, <1>3 DEF RequestRight, RunsOf, Present

\* ... and so does one that moves without an answer.
LEMMA MovesRight ==
  ASSUME \A i \in Jobs : Kept(i), NEW r \in Requests, RequestRight(r), RequestMoves(r),
         req'[r].known \subseteq req[r].known,
         req'[r].phase = "answered" =>
           \E j \in Jobs, status \in JobStatus :
             /\ Present(j)' /\ jobs'[j].createdBy = req[r].user /\ jobs'[j].type = RunType
             /\ prompt'[j] = req[r].prompt
             /\ req'[r].answer = [run |-> j, status |-> status]
  PROVE  RequestRight(r)'
<1>1. \A i \in RunsOf(req[r].user) :
         /\ i \in Jobs /\ Present(i)'
         /\ jobs'[i].createdBy = req[r].user /\ jobs'[i].type = RunType
         /\ prompt'[i] = prompt[i]
  BY RunsKept
<1>2. \A i \in req'[r].known : /\ i \in Jobs /\ Present(i)' /\ prompt'[i] = req[r].prompt
                               /\ jobs'[i].createdBy = req[r].user /\ jobs'[i].type = RunType
  BY <1>1 DEF RequestRight
<1>3. ASSUME req'[r].phase = "answered"
      PROVE  \E j \in Jobs :
               /\ req'[r].answer.run = j
               /\ Present(j)' /\ jobs'[j].createdBy = req[r].user /\ jobs'[j].type = RunType
               /\ prompt'[j] = req[r].prompt
  <2>1. PICK j \in Jobs, status \in JobStatus :
             /\ Present(j)' /\ jobs'[j].createdBy = req[r].user /\ jobs'[j].type = RunType
             /\ prompt'[j] = req[r].prompt
             /\ req'[r].answer = [run |-> j, status |-> status]
    BY <1>3
  <2>2. req'[r].answer.run = j
    BY <2>1
  <2>. QED  BY <2>1, <2>2
<1>4. req'[r].phase = "answered" =>
        LET j == req'[r].answer.run
        IN /\ j \in Jobs /\ jobs'[j].status \in JobStatus
           /\ jobs'[j].createdBy = req'[r].user /\ jobs'[j].type = RunType
           /\ prompt'[j] = req'[r].prompt
  BY <1>3 DEF RequestMoves, Present
<1>5. \A i \in req'[r].known : /\ i \in Jobs /\ jobs'[i].status \in JobStatus
                               /\ jobs'[i].createdBy = req'[r].user /\ jobs'[i].type = RunType
                               /\ prompt'[i] = req'[r].prompt
  BY <1>2 DEF RequestMoves, Present
<1>. QED  BY <1>4, <1>5 DEF RequestRight, RunsOf, Present

\* A request that starts knows only of runs that were answered to its user.
LEMMA StartsRight ==
  ASSUME RInv, NEW r \in Requests, NEW u \in Users, NEW p \in Prompts,
         NEW keyed \in BOOLEAN, StartCreate(r, u, p, keyed)
  PROVE  RequestRight(r)'
<1>1. /\ req'[r].phase = "listing" /\ req'[r].user = u /\ req'[r].prompt = p
      /\ req'[r].known = AnsweredRuns(u, p)
      /\ jobs' = jobs /\ prompt' = prompt
  BY StartStep DEF RInv
<1>2. \A i \in AnsweredRuns(u, p) : i \in RunsOf(u) /\ prompt[i] = p
  BY DEF AnsweredRuns, RInv, AnswersStand
<1>3. \A i \in req'[r].known : /\ i \in Jobs /\ jobs'[i].status \in JobStatus
                               /\ jobs'[i].createdBy = req'[r].user /\ jobs'[i].type = RunType
                               /\ prompt'[i] = req'[r].prompt
  BY <1>1, <1>2 DEF RunsOf, Present
<1>. QED  BY <1>1, <1>3 DEF RequestRight, RunsOf, Present

\* Every row is kept by a step that leaves jobs and prompts alone.
LEMMA AllKept ==
  ASSUME UNCHANGED <<jobs, prompt>> PROVE \A i \in Jobs : Kept(i)
BY DEF Kept, Present

LEMMA RightStep ==
  ASSUME RInv, [CreateNext]_createVars, NEW q \in Requests
  PROVE  RequestRight(q)'
<1>. USE DEF RequestMoves
<1>0. TypeOK /\ RequestRight(q)
  BY InvariantSplit
<1>1. ASSUME NEW r \in Requests, NEW u \in Users, NEW p \in Prompts,
             NEW keyed \in BOOLEAN, StartCreate(r, u, p, keyed)
      PROVE  RequestRight(q)'
  <2>1. /\ \A i \in Requests : i # r => req'[i] = req[i]
        /\ UNCHANGED <<jobs, prompt>>
    BY <1>1, StartStep DEF RInv
  <2>2. CASE q = r
    BY <1>1, <2>2, StartsRight
  <2>3. CASE q # r
    BY <1>0, <2>1, <2>3, AllKept, StaysRight
  <2>. QED  BY <2>2, <2>3
<1>2. ASSUME NEW r \in Requests, ListRecent(r)
      PROVE  RequestRight(q)'
  <2>1. UNCHANGED <<jobs, prompt>>
    BY <1>2 DEF ListRecent
  <2>2. \A i \in Jobs : Kept(i)
    BY <2>1, AllKept
  <2>3. /\ RequestMoves(r) /\ req'[r].known \subseteq req[r].known
        /\ req'[r].phase = "answered" =>
             \E j \in RunsOf(req[r].user), status \in JobStatus :
               /\ prompt[j] = req[r].prompt
               /\ req'[r].answer = [run |-> j, status |-> status]
    BY <1>0, <1>2, ListStep
  <2>4. CASE q = r
    <3>1. CASE req'[r].phase # "answered"
      BY <1>0, <2>1, <2>2, <2>3, <2>4, <3>1, MovesRight
    <3>2. CASE req'[r].phase = "answered"
      <4>1. PICK j \in RunsOf(req[r].user), status \in JobStatus :
              /\ prompt[j] = req[r].prompt
              /\ req'[r].answer = [run |-> j, status |-> status]
        BY <2>3, <3>2
      <4>2. /\ j \in Jobs /\ Present(j)' /\ prompt'[j] = req[r].prompt
            /\ jobs'[j].createdBy = req[r].user /\ jobs'[j].type = RunType
        BY <2>1, <4>1 DEF RunsOf, Present
      <4>. QED  BY <1>0, <2>2, <2>3, <2>4, <4>1, <4>2, MovesRight
    <3>. QED  BY <3>1, <3>2
  <2>5. CASE q # r
    BY <1>0, <2>2, <2>3, <2>5, StaysRight
  <2>. QED  BY <2>4, <2>5
<1>3. ASSUME NEW r \in Requests, Enqueue(r)
      PROVE  RequestRight(q)'
  <2>1. CASE q = r
    <3>1. /\ RequestMoves(r) /\ req'[r].known = req[r].known
          /\ \A i \in Jobs : Kept(i)
          /\ req'[r].phase = "answered" =>
               \E j \in Jobs :
                 /\ Present(j)' /\ jobs'[j].createdBy = req[r].user /\ jobs'[j].type = RunType
                 /\ prompt'[j] = req[r].prompt
                 /\ req'[r].answer = [run |-> j, status |-> "pending"]
      BY <1>0, <1>3, InsertedAnswer
    <3>2. "pending" \in JobStatus
      BY DEF JobStatus
    <3>. QED  BY <1>0, <2>1, <3>1, <3>2, MovesRight
  <2>2. CASE q # r
    BY <1>0, <1>3, <2>2, InsertedAnswer, StaysRight
  <2>. QED  BY <2>1, <2>2
<1>4. ASSUME NEW r \in Requests, EnqueueFails(r)
      PROVE  RequestRight(q)'
  <2>1. \A i \in Jobs : Kept(i)
    BY <1>0, <1>4, RefusedStep, AllKept
  <2>2. CASE q = r
    BY <1>0, <1>4, <2>1, <2>2, RefusedStep, MovesRight
  <2>3. CASE q # r
    BY <1>0, <1>4, <2>1, <2>3, RefusedStep, StaysRight
  <2>. QED  BY <2>2, <2>3
<1>6. ASSUME NEW j \in Jobs, Expire(j)
      PROVE  RequestRight(q)'
  <2>1. UNCHANGED <<jobs, prompt, req>>
    BY <1>6 DEF Expire
  <2>. QED  BY <1>0, <2>1, AllKept, StaysRight
<1>7. ASSUME NEW j \in Jobs, WorkersMove(j)
      PROVE  RequestRight(q)'
  <2>1. req' = req
    BY <1>7 DEF WorkersMove, apiVars
  <2>. QED  BY <1>0, <1>7, <2>1, WorkersStep, StaysRight
<1>8. CASE UNCHANGED createVars
  BY <1>0, <1>8, AllKept, StaysRight DEF createVars, apiVars
<1>. QED
  BY <1>1, <1>2, <1>3, <1>4, <1>6, <1>7, <1>8 DEF CreateNext, StartAny, Create

LEMMA InitRight == CreateInit => RInv
<1>. SUFFICES ASSUME CreateInit PROVE RInv
  OBVIOUS
<1>1. TypeOK
  BY InitTyped
<1>2. \A r \in Requests : req[r].phase = "new" /\ req[r].known = {}
  BY DEF CreateInit, NewRequest
<1>. QED  BY <1>1, <1>2, InvariantSplit DEF RequestRight

LEMMA StepInvariant == RInv /\ [CreateNext]_createVars => RInv'
<1>. SUFFICES ASSUME RInv, [CreateNext]_createVars PROVE RInv'
  OBVIOUS
<1>1. TypeOK'
  BY TypeStep DEF RInv
<1>2. \A r \in Requests : RequestRight(r)'
  BY RightStep
<1>. QED
  BY <1>1, <1>2 DEF RInv, AnswersStand, AnswersBelong, KnownBelong, RequestRight, RunsOf

-----------------------------------------------------------------------------
(* Why a request enqueues                                                  *)

\* A list of the newest rows that leaves out a row is full, and of rows at least as
\* new (getJobsByUser with a limit).
LEMMA LeftOut ==
  ASSUME TypeOK, NEW rows \in SUBSET Jobs, NEW S \in Newest(rows, RecentLimit),
         NEW i \in rows, i \notin S
  PROVE  Cardinality({j \in rows \ {i} : jobs[j].stamp >= jobs[i].stamp}) >= RecentLimit
<1>. DEFINE newer == {j \in rows \ {i} : jobs[j].stamp >= jobs[i].stamp}
<1>1. IsFiniteSet(rows)
  BY CreateRunAssumption, FS_Subset
<1>2. S \subseteq rows /\ \A k \in S : jobs[k].stamp >= jobs[i].stamp
  BY DEF Newest
<1>3. S \subseteq newer /\ newer \subseteq rows
  BY <1>2
<1>4. IsFiniteSet(newer) /\ IsFiniteSet(S)
  BY <1>1, <1>2, <1>3, FS_Subset
<1>5. /\ Cardinality(S) \in Nat /\ Cardinality(newer) \in Nat /\ Cardinality(rows) \in Nat
      /\ Cardinality(S) <= Cardinality(newer)
  BY <1>1, <1>3, <1>4, FS_CardinalityType, FS_Subset
<1>6. Cardinality(S) # Cardinality(rows)
  BY <1>1, <1>2, FS_Subset
<1>7. Cardinality(S) = RecentLimit
  BY <1>6 DEF Newest
<1>. QED  BY <1>5, <1>7, CreateRunAssumption

LEMMA ReuseStep == RInv /\ [CreateNext]_createVars => EnqueuesForAReason
<1>. SUFFICES ASSUME RInv, [CreateNext]_createVars, NEW r \in Requests,
                     req[r].phase = "listing", req'[r].phase = "enqueuing",
                     NEW i \in req'[r].known
              PROVE  NotReusable(r, i)
  BY DEF EnqueuesForAReason
<1>0. TypeOK /\ RequestRight(r)
  BY InvariantSplit
<1>1. ListRecent(r)
  <2>1. ASSUME NEW q \in Requests, NEW u \in Users, NEW p \in Prompts,
               NEW keyed \in BOOLEAN, StartCreate(q, u, p, keyed)
        PROVE  FALSE
    BY <2>1, StartStep DEF RInv, StartCreate
  <2>2. ASSUME NEW q \in Requests, Create(q)
        PROVE  ListRecent(r)
    <3>1. CASE ListRecent(q)
      BY <1>0, <3>1, ListStep DEF RequestMoves
    <3>2. CASE Enqueue(q)
      BY <1>0, <3>2, InsertedAnswer DEF RequestMoves
    <3>3. CASE EnqueueFails(q)
      BY <1>0, <3>3, RefusedStep DEF RequestMoves
    <3>. QED  BY <2>2, <3>1, <3>2, <3>3 DEF Create
  <2>3. ASSUME NEW j \in Jobs, Expire(j) \/ WorkersMove(j)
        PROVE  FALSE
    BY <2>3 DEF Expire, WorkersMove, apiVars
  <2>4. CASE UNCHANGED createVars
    BY <2>4 DEF createVars, apiVars
  <2>. QED  BY <2>1, <2>2, <2>3, <2>4 DEF CreateNext, StartAny
<1>2. PICK S \in Newest(RunsOf(req[r].user), RecentLimit) : Reusable(r, S) = {}
  BY <1>0, <1>1, ListStep
<1>3. i \in RunsOf(req[r].user) /\ prompt[i] = req[r].prompt
  BY <1>0, <1>1, ListStep DEF RequestRight
<1>4. CASE i \in S
  BY <1>2, <1>3, <1>4 DEF Reusable, NotReusable, RunsOf, Present, JobStatus, Terminal
<1>5. CASE i \notin S
  BY <1>0, <1>2, <1>3, <1>5, LeftOut DEF NotReusable, RunsOf
<1>. QED  BY <1>4, <1>5

-----------------------------------------------------------------------------
(* The theorems                                                            *)

\* The types of the requests' state, for all values of the constants
\* (createRunUseCase).
THEOREM TypeCorrect == CreateSpec => []TypeOK
<1>1. RInv => TypeOK
  BY DEF RInv
<1>. QED  BY <1>1, InitRight, StepInvariant, PTL DEF CreateSpec

\* Nobody is answered with the run of another user or of another prompt
\* (createRunUseCase, findIdempotentRun, enqueue).
THEOREM AnswersAreOnesOwn == CreateSpec => []AnswersBelong
<1>1. RInv => AnswersBelong
  BY DEF RInv
<1>. QED  BY <1>1, InitRight, StepInvariant, PTL DEF CreateSpec

\* A request that starts after an answered one of the same user and prompt enqueues only
\* when that run failed, left the window or fell off the list (createRunUseCase).
THEOREM RetriesAreReused == CreateSpec => RetriesReuse
BY InitRight, StepInvariant, ReuseStep, PTL DEF CreateSpec, RetriesReuse
=============================================================================
