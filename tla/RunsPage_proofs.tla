-------------------------- MODULE RunsPage_proofs ---------------------------
(***************************************************************************)
(* Proofs about runs, their events and the page, for any number of runs,   *)
(* requests and users, and any bound on faults.  First the rows and        *)
(* the wire, which only workers and requests change, then the page, which  *)
(* follows them at its own pace.                                           *)
(***************************************************************************)
EXTENDS RunsPage, CreateRun_proofs, SequenceTheorems

-----------------------------------------------------------------------------
(* What a step of the server leaves to those who follow it                 *)

\* Results stay, and the row of a run that is over and settled does not change.
RowsGrow ==
  \A j \in Jobs :
    /\ jobs[j].result # "none" => jobs'[j].result # "none"
    /\ fiber[j] = "over" /\ jobs[j].status \in Terminal =>
         jobs'[j].status = jobs[j].status /\ jobs'[j].result = jobs[j].result

\* Fibers go forward.
FibersGrow ==
  \A j \in Jobs :
    /\ fiber[j] \notin {"none", "taken"} => fiber'[j] \notin {"none", "taken"}
    /\ fiber[j] = "over" => fiber'[j] = "over"

WireGrows ==
  /\ Len(wire) <= Len(wire')
  /\ \A n \in 1..Len(wire) : wire'[n] = wire[n]

\* An event that a fiber may publish now, given what it has published so far.
Timely(e) ==
  /\ e.type = "run_started" => fiber[e.run] = "taken"
  /\ e.type = "run_progress" => fiber[e.run] # "over"
  /\ e.type \in {"run_started", "run_progress"} => fiber'[e.run] \notin {"none", "taken"}
  /\ e.type \in TerminalEvents =>
       /\ fiber[e.run] # "over"
       /\ fiber'[e.run] = "over"
       /\ jobs'[e.run].status \in Terminal
       /\ e.type = "run_completed" <=> Verdict(e.run)' = "completed"

LEMMA WireTyped ==
  ASSUME RunsTypeOK, NEW n \in 1..Len(wire)
  PROVE  wire[n] \in Event /\ wire[n].run \in Jobs /\ wire[n].type \in EventTypes
<1>1. wire[n] \in Event
  BY ElementOfSeq DEF RunsTypeOK
<1>. QED  BY <1>1 DEF Event

LEMMA WireKept ==
  ASSUME RunsTypeOK, WireSound, StoryOrder, RowsGrow, FibersGrow, wire' = wire
  PROVE  WireSound' /\ StoryOrder'
<1>1. StoryOrder'
  BY DEF StoryOrder
<1>2. ASSUME NEW n \in 1..Len(wire)
      PROVE  LET j == wire[n].run
             IN /\ wire[n].type \in {"run_started", "run_progress"} => fiber'[j] \notin {"none", "taken"}
                /\ wire[n].type \in TerminalEvents =>
                     /\ fiber'[j] = "over"
                     /\ jobs'[j].status \in Terminal
                     /\ wire[n].type = "run_completed" <=> Verdict(j)' = "completed"
  <2>1. wire[n] \in Event /\ wire[n].run \in Jobs
    BY WireTyped
  <2>. QED  BY <2>1 DEF WireSound, RowsGrow, FibersGrow, Verdict
<1>3. WireSound'
  BY <1>2 DEF WireSound, Verdict
<1>. QED  BY <1>1, <1>3

LEMMA WireAppended ==
  ASSUME RunsTypeOK, WireSound, StoryOrder, RowsGrow, FibersGrow,
         NEW e \in Event, wire' = Append(wire, e), Timely(e)
  PROVE  WireSound' /\ StoryOrder'
<1>. DEFINE N == Len(wire)
<1>0. /\ e.run \in Jobs
      /\ wire \in Seq(Event) /\ N \in Nat
      /\ Len(wire') = N + 1 /\ wire'[N + 1] = e
      /\ \A n \in 1..N : wire'[n] = wire[n] /\ wire[n].run \in Jobs
  <2>1. e.run \in Jobs
    BY DEF Event
  <2>2. wire \in Seq(Event)
    BY DEF RunsTypeOK
  <2>3. /\ N \in Nat /\ Len(wire') = N + 1 /\ wire'[N + 1] = e
        /\ \A n \in 1..N : wire'[n] = wire[n]
    BY <2>2, AppendProperties, LenProperties
  <2>4. \A n \in 1..N : wire[n].run \in Jobs
    BY WireTyped
  <2>. QED  BY <2>1, <2>2, <2>3, <2>4
<1>. HIDE DEF N
<1>1. ASSUME NEW n \in 1..N
      PROVE  LET j == wire[n].run
             IN /\ wire[n].type \in {"run_started", "run_progress"} => fiber'[j] \notin {"none", "taken"}
                /\ wire[n].type \in TerminalEvents =>
                     /\ fiber'[j] = "over"
                     /\ jobs'[j].status \in Terminal
                     /\ wire[n].type = "run_completed" <=> Verdict(j)' = "completed"
  BY <1>0 DEF WireSound, RowsGrow, FibersGrow, Verdict, N
<1>2. WireSound'
  <2>1. ASSUME NEW n \in 1..Len(wire')
        PROVE  LET j == wire'[n].run
               IN /\ wire'[n].type \in {"run_started", "run_progress"} => fiber'[j] \notin {"none", "taken"}
                  /\ wire'[n].type \in TerminalEvents =>
                       /\ fiber'[j] = "over"
                       /\ jobs'[j].status \in Terminal
                       /\ wire'[n].type = "run_completed" <=>
                            (IF jobs'[j].status = "completed" /\ jobs'[j].result = "invalid"
                             THEN "failed" ELSE jobs'[j].status) = "completed"
    <3>1. CASE n \in 1..N
      BY <1>0, <1>1, <3>1 DEF Verdict
    <3>2. CASE n = N + 1
      BY <1>0, <3>2 DEF Timely, Verdict
    <3>. QED  BY <1>0, <3>1, <3>2
  <2>. QED  BY <2>1 DEF WireSound, Verdict
<1>3. StoryOrder'
  <2>1. ASSUME NEW m \in 1..Len(wire'), NEW n \in 1..Len(wire'), wire'[m].run = wire'[n].run
        PROVE  /\ wire'[m].type = "run_started" /\ wire'[n].type = "run_started" => m = n
               /\ wire'[m].type \in TerminalEvents /\ wire'[n].type \in TerminalEvents => m = n
               /\ wire'[m].type \in {"run_started", "run_progress"} /\ wire'[n].type \in TerminalEvents
                    => m < n
    <3>1. CASE m \in 1..N /\ n \in 1..N
      BY <1>0, <2>1, <3>1 DEF StoryOrder, N
    <3>2. CASE m \in 1..N /\ n = N + 1
      BY <1>0, <2>1, <3>2 DEF WireSound, Timely, N
    <3>3. CASE m = N + 1 /\ n \in 1..N
      BY <1>0, <2>1, <3>3 DEF WireSound, Timely, TerminalEvents, N
    <3>4. CASE m = N + 1 /\ n = N + 1
      BY <1>0, <3>4 DEF TerminalEvents
    <3>. QED  BY <1>0, <3>1, <3>2, <3>3, <3>4
  <2>. QED  BY <2>1 DEF StoryOrder
<1>. QED  BY <1>2, <1>3

\* Publishing appends a timely event or loses it.
LEMMA Published ==
  ASSUME RunsTypeOK, WireSound, StoryOrder, RowsGrow, FibersGrow,
         NEW type \in EventTypes, NEW j \in Jobs, Publish(type, j),
         Timely([type |-> type, run |-> j])
  PROVE  /\ WireSound' /\ StoryOrder' /\ WireGrows
         /\ wire' \in Seq(Event) /\ faults' \in 0..MaxFaults
<1>. DEFINE e == [type |-> type, run |-> j]
<1>1. e \in Event
  BY DEF Event
<1>2. wire \in Seq(Event) /\ Len(wire) \in Nat /\ faults \in 0..MaxFaults
  BY LenProperties DEF RunsTypeOK
<1>. HIDE DEF e
<1>3. CASE wire' = Append(wire, e) /\ UNCHANGED faults
  <2>1. wire' \in Seq(Event) /\ WireGrows
    BY <1>1, <1>2, <1>3, AppendProperties DEF WireGrows
  <2>. QED  BY <1>1, <1>2, <1>3, <2>1, WireAppended DEF e
<1>4. CASE Fault /\ UNCHANGED wire
  <2>1. faults' \in 0..MaxFaults
    BY <1>2, <1>4, RunsAssumption DEF Fault
  <2>. QED  BY <1>2, <1>4, <2>1, WireKept DEF WireGrows
<1>. QED  BY <1>3, <1>4 DEF Publish, e

\* Whoever publishes nothing leaves the wire sound.
LEMMA Silent ==
  ASSUME RunsTypeOK, WireSound, StoryOrder, RowsGrow, FibersGrow, UNCHANGED wire
  PROVE  WireSound' /\ StoryOrder' /\ WireGrows /\ wire' \in Seq(Event)
<1>1. wire \in Seq(Event) /\ Len(wire) \in Nat
  BY LenProperties DEF RunsTypeOK
<1>. QED  BY <1>1, WireKept DEF WireGrows

LEMMA FaultTyped == ASSUME RunsTypeOK, Fault \/ UNCHANGED faults PROVE faults' \in 0..MaxFaults
BY RunsAssumption DEF RunsTypeOK, Fault

-----------------------------------------------------------------------------
(* Rows and fibers                                                         *)

\* What the page needs to know of rows and fibers after a step.
RowsMoved ==
  /\ TableTypeOK'
  /\ fiber' \in [Jobs -> FiberStates]
  /\ \A i \in Jobs : Kept(i)
  /\ RowsSound'
  /\ RowsGrow
  /\ FibersGrow

LEMMA Unmoved ==
  ASSUME RunsTypeOK, RowsSound, UNCHANGED <<jobs, prompt, fiber>>
  PROVE  RowsMoved
BY AllKept DEF RowsMoved, RunsTypeOK, TypeOK, TableTypeOK, RowsSound, RowsGrow, FibersGrow

\* A fiber moves on, and its row stays.
LEMMA FiberMoves ==
  ASSUME RunsTypeOK, RowsSound, NEW j \in Jobs, NEW state \in FiberStates,
         fiber[j] \notin {"none", "over"}, state \notin {"none", "taken", "completed", "failed"},
         Become(j, state), UNCHANGED <<jobs, prompt>>
  PROVE  RowsMoved
<1>1. /\ fiber' \in [Jobs -> FiberStates] /\ fiber'[j] = state
      /\ \A i \in Jobs : i # j => fiber'[i] = fiber[i]
  BY DEF Become, RunsTypeOK
<1>. QED
  BY <1>1, AllKept DEF RowsMoved, RunsTypeOK, TypeOK, TableTypeOK, RowsSound, RowsGrow, FibersGrow

LEMMA TakeMoves ==
  ASSUME RunsTypeOK, RowsSound, NEW j \in Jobs, Take(j)
  PROVE  RowsMoved
<1>1. jobs[j].status = "pending" /\ jobs' = Claimed(j) /\ prompt' = prompt
  BY DEF Take, Oldest, Pending, apiVars
<1>2. fiber[j] = "none"
  BY <1>1 DEF RowsSound
<1>3. /\ jobs' \in [Jobs -> Row]
      /\ jobs'[j] = [jobs[j] EXCEPT !.status = "processing", !.age = 0]
      /\ \A i \in Jobs : i # j => jobs'[i] = jobs[i]
  BY <1>1, ClaimedRow DEF RunsTypeOK, TypeOK
<1>4. jobs[j] \in Row
  BY DEF RunsTypeOK, TypeOK, TableTypeOK
<1>5. /\ jobs'[j].status = "processing" /\ jobs'[j].type = jobs[j].type
      /\ jobs'[j].createdBy = jobs[j].createdBy
      /\ jobs'[j].result = jobs[j].result
  BY <1>3, <1>4 DEF Row
<1>6. /\ fiber' \in [Jobs -> FiberStates] /\ fiber'[j] = "taken"
      /\ \A i \in Jobs : i # j => fiber'[i] = fiber[i]
  BY DEF Take, Become, RunsTypeOK, FiberStates
<1>7. \A i \in Jobs : Kept(i)
  BY <1>1, <1>3, <1>5 DEF Kept, Present, JobStatus
<1>8. RowsSound'
  <2>1. \A i \in Jobs : i # j => jobs'[i] = jobs[i] /\ fiber'[i] = fiber[i]
    BY <1>3, <1>6
  <2>2. jobs'[j].status = "processing" /\ fiber'[j] = "taken"
    BY <1>5, <1>6
  <2>. QED  BY <2>1, <2>2 DEF RowsSound
<1>9. RowsGrow /\ FibersGrow
  BY <1>2, <1>3, <1>5, <1>6 DEF RowsGrow, FibersGrow
<1>. QED  BY <1>3, <1>6, <1>7, <1>8, <1>9 DEF RowsMoved, TableTypeOK

\* The row of a fiber that is not over is settled.
LEMMA SettleMoves ==
  ASSUME RunsTypeOK, RowsSound, NEW j \in Jobs, NEW status \in Terminal,
         NEW result \in Results \union {Undefined}, NEW error \in Errors \union {Undefined},
         NEW state \in {status, "failing"},
         jobs' = StatusUpdated(j, status, result, error), Become(j, state), UNCHANGED prompt,
         fiber[j] \notin {"none", "over"}, result # "none",
         status = "completed" => result # Undefined
  PROVE  RowsMoved /\ jobs'[j].status = status
<1>1. status \in JobStatus /\ status \notin {"pending", "absent"}
  BY DEF JobStatus, Terminal
<1>2. /\ jobs' \in [Jobs -> Row] /\ jobs'[j].status = status
      /\ jobs'[j].result = IF result = Undefined THEN jobs[j].result ELSE result
      /\ jobs'[j].type = jobs[j].type
      /\ jobs'[j].createdBy = jobs[j].createdBy
      /\ \A i \in Jobs : i # j => jobs'[i] = jobs[i]
  <2>1. TableTypeOK
    BY DEF RunsTypeOK, TypeOK
  <2>2. status \in JobStatus
    BY <1>1
  <2>. QED  BY <2>1, <2>2, StatusUpdatedRow
<1>3. /\ fiber' \in [Jobs -> FiberStates] /\ fiber'[j] = state
      /\ \A i \in Jobs : i # j => fiber'[i] = fiber[i]
  BY DEF Become, RunsTypeOK, FiberStates, Terminal
<1>4. \A i \in Jobs : Kept(i)
  BY <1>1, <1>2 DEF Kept, Present
<1>5. RowsSound'
  BY <1>1, <1>2, <1>3 DEF RowsSound, Terminal
<1>6. RowsGrow /\ FibersGrow
  BY <1>2, <1>3 DEF RowsGrow, FibersGrow, Terminal
<1>. QED  BY <1>2, <1>3, <1>4, <1>5, <1>6 DEF RowsMoved, TableTypeOK

LEMMA SweepMoves ==
  ASSUME RunsTypeOK, RowsSound, Sweep \/ Tick
  PROVE  RowsMoved
<1>1. prompt' = prompt /\ fiber' = fiber
  BY DEF Sweep, Tick, apiVars, workerVars
<1>2. TableTypeOK
  BY DEF RunsTypeOK, TypeOK
<1>3. CASE jobs' = StaleFailed
  <2>1. /\ jobs' \in [Jobs -> Row]
        /\ \A j \in Stale : /\ jobs[j].status = "processing" /\ jobs'[j].status = "failed"
                             /\ jobs'[j].result = jobs[j].result /\ jobs'[j].type = jobs[j].type
                             /\ jobs'[j].createdBy = jobs[j].createdBy
        /\ \A j \in Jobs : j \notin Stale => jobs'[j] = jobs[j]
    BY <1>2, <1>3, StaleFailedRow
  <2>2. \A i \in Jobs : Kept(i)
    BY <1>1, <2>1 DEF Kept, Present, JobStatus, Terminal
  <2>3. RowsSound'
    BY <1>1, <2>1 DEF RowsSound
  <2>4. RowsGrow /\ FibersGrow
    BY <1>1, <2>1 DEF RowsGrow, FibersGrow, Terminal
  <2>. QED  BY <1>1, <2>1, <2>2, <2>3, <2>4 DEF RowsMoved, TableTypeOK, RunsTypeOK
<1>4. CASE jobs' = Aged
  <2>1. /\ jobs' \in [Jobs -> Row]
        /\ \A j \in Jobs : /\ jobs'[j].status = jobs[j].status
                            /\ jobs'[j].result = jobs[j].result /\ jobs'[j].type = jobs[j].type
                            /\ jobs'[j].createdBy = jobs[j].createdBy
    BY <1>2, <1>4, AgedRow
  <2>2. \A i \in Jobs : Kept(i)
    BY <1>1, <2>1 DEF Kept, Present
  <2>3. RowsSound' /\ RowsGrow /\ FibersGrow
    BY <1>1, <2>1 DEF RowsSound, RowsGrow, FibersGrow
  <2>. QED  BY <1>1, <2>1, <2>2, <2>3 DEF RowsMoved, TableTypeOK, RunsTypeOK
<1>. QED  BY <1>3, <1>4 DEF Sweep, Tick

\* Requests insert rows and do nothing else to the table.
LEMMA RequestMovesRows ==
  ASSUME RunsTypeOK, RowsSound, NEW r \in Requests, Enqueue(r), UNCHANGED fiber
  PROVE  RowsMoved
<1>1. PICK j \in Jobs, s \in 1..MaxStamp :
        /\ jobs[j].status = "absent"
        /\ jobs' = Inserted(j, RunType, req[r].user, s)
  BY DEF Enqueue
<1>2. /\ req[r].user \in Users
      /\ RunType \in Types /\ TableTypeOK
  BY CreateRunAssumption DEF RunsTypeOK, TypeOK, Request
<1>3. /\ jobs' \in [Jobs -> Row]
      /\ jobs'[j] = NewRow(RunType, req[r].user, s)
      /\ \A i \in Jobs : i # j => jobs'[i] = jobs[i]
  <2>1. PICK u \in Users : u = req[r].user
    BY <1>2
  <2>2. jobs' = Inserted(j, RunType, u, s)
    BY <1>1, <2>1
  <2>3. /\ jobs' \in [Jobs -> Row] /\ jobs'[j] = NewRow(RunType, u, s)
        /\ \A i \in Jobs : i # j => jobs'[i] = jobs[i]
    BY <1>2, <2>2, InsertedRow
  <2>. QED  BY <2>1, <2>3
<1>4. jobs'[j].status = "pending" /\ jobs'[j].result = "none"
  BY <1>3 DEF NewRow
<1>5. jobs[j].result = "none" /\ fiber[j] = "none"
  BY <1>1 DEF RowsSound
<1>6. RowsSound' /\ RowsGrow /\ FibersGrow
  BY <1>1, <1>3, <1>4, <1>5 DEF RowsSound, RowsGrow, FibersGrow, Terminal
<1>7. TableTypeOK' /\ \A i \in Jobs : Kept(i)
  BY InsertedAnswer DEF RunsTypeOK
<1>. QED  BY <1>6, <1>7 DEF RowsMoved, RunsTypeOK

-----------------------------------------------------------------------------
(* One step of the server                                                  *)

ServerInv == RunsTypeOK /\ RInv /\ RowsSound /\ WireSound /\ StoryOrder

\* ServerInv afterwards, and what the page relies on.
ServerMoved == ServerInv' /\ RowsGrow /\ WireGrows

\* The requests' invariant holds on when rows are kept and no request moves.
LEMMA RequestsStay ==
  ASSUME RInv, TableTypeOK', \A i \in Jobs : Kept(i), UNCHANGED <<prompt, expired, req>>,
         daemon' \in [Requests -> SUBSET Jobs]
  PROVE  RInv'
<1>1. TypeOK'
  BY DEF RInv, TypeOK
<1>2. \A r \in Requests : RequestRight(r)'
  BY InvariantSplit, StaysRight
<1>. QED
  BY <1>1, <1>2 DEF RInv, AnswersStand, AnswersBelong, KnownBelong, RequestRight, RunsOf

LEMMA WorkStep ==
  ASSUME ServerInv, NEW j \in Jobs, Work(j)
  PROVE  ServerMoved
<1>0. RunsTypeOK /\ RInv /\ RowsSound /\ WireSound /\ StoryOrder
  BY DEF ServerInv
<1>1. UNCHANGED apiVars
  BY DEF Work, Take, Begin, Generated, HandlingFails, WriteCompleted, WriteFailed, Announce, Abandon
<1>2. ASSUME RowsMoved, WireSound', StoryOrder', WireGrows, wire' \in Seq(Event),
             faults' \in 0..MaxFaults
      PROVE  ServerMoved
  <2>1. daemon' \in [Requests -> SUBSET Jobs] /\ UNCHANGED <<prompt, expired, req>>
    BY <1>0, <1>1 DEF apiVars, RunsTypeOK, TypeOK
  <2>2. RInv'
    BY <1>0, <1>2, <2>1, RequestsStay DEF RowsMoved
  <2>3. RunsTypeOK'
    BY <1>2, <2>2 DEF RunsTypeOK, RowsMoved, RInv
  <2>. QED  BY <1>2, <2>2, <2>3 DEF ServerMoved, ServerInv, RowsMoved
<1>3. ASSUME RowsMoved, UNCHANGED wire, Fault \/ UNCHANGED faults
      PROVE  ServerMoved
  BY <1>0, <1>2, <1>3, Silent, FaultTyped DEF RowsMoved
<1>4. ASSUME RowsMoved, NEW type \in EventTypes, Publish(type, j),
             Timely([type |-> type, run |-> j])
      PROVE  ServerMoved
  BY <1>0, <1>2, <1>4, Published DEF RowsMoved
<1>5. prompt' = prompt
  BY <1>1 DEF apiVars
<1>6. CASE Take(j)
  BY <1>0, <1>3, <1>6, TakeMoves DEF Take
<1>7. CASE Begin(j)
  <2>1. RowsMoved
    BY <1>0, <1>5, <1>7, FiberMoves DEF Begin, FiberStates
  <2>2. Timely([type |-> "run_started", run |-> j])
    BY <1>0, <1>7 DEF Begin, Become, Timely, TerminalEvents, RunsTypeOK
  <2>. QED  BY <1>4, <1>7, <2>1, <2>2 DEF Begin, EventTypes
<1>8. CASE Generated(j)
  <2>1. RowsMoved
    BY <1>0, <1>5, <1>8, FiberMoves DEF Generated, FiberStates
  <2>2. Timely([type |-> "run_progress", run |-> j])
    BY <1>0, <1>8 DEF Generated, Become, Timely, TerminalEvents, RunsTypeOK
  <2>. QED  BY <1>4, <1>8, <2>1, <2>2 DEF Generated, EventTypes
<1>9. CASE HandlingFails(j)
  <2>1. RowsMoved
    BY <1>0, <1>5, <1>9, FiberMoves DEF HandlingFails, FiberStates
  <2>. QED  BY <1>3, <1>9, <2>1 DEF HandlingFails
<1>10. CASE WriteCompleted(j)
  <2>1. PICK result \in {"valid", "invalid"} :
          jobs' = StatusUpdated(j, "completed", result, Undefined)
    BY <1>10 DEF WriteCompleted
  <2>2. PICK state \in {"completed", "failing"} : Become(j, state)
    BY <1>10 DEF WriteCompleted
  <2>3. /\ "completed" \in Terminal /\ result \in Results /\ result # Undefined /\ result # "none"
        /\ fiber[j] = "finalizing"
    BY <1>10 DEF WriteCompleted, Terminal, Results, Undefined
  <2>4. RowsMoved
    BY <1>0, <1>5, <2>1, <2>2, <2>3, SettleMoves
  <2>. QED  BY <1>3, <1>10, <2>4 DEF WriteCompleted
<1>11. CASE WriteFailed(j)
  <2>1. /\ "failed" \in Terminal /\ "handler" \in Errors /\ Undefined # "none"
        /\ fiber[j] = "failing" /\ Become(j, "failed")
        /\ jobs' = StatusUpdated(j, "failed", Undefined, "handler")
    BY <1>11 DEF WriteFailed, Terminal, Errors, Undefined
  <2>2. RowsMoved
    BY <1>0, <1>5, <2>1, SettleMoves
  <2>. QED  BY <1>3, <1>11, <2>2 DEF WriteFailed
<1>12. CASE Announce(j)
  <2>. DEFINE type == IF fiber[j] = "completed" /\ jobs[j].result = "valid"
                      THEN "run_completed" ELSE "run_failed"
  <2>1. RowsMoved
    BY <1>0, <1>5, <1>12, FiberMoves DEF Announce, FiberStates
  <2>2. jobs[j].result \in Results /\ fiber'[j] = "over" /\ jobs' = jobs
    BY <1>0, <1>12 DEF Announce, Become, RunsTypeOK, TypeOK, TableTypeOK, Row
  <2>3. /\ jobs[j].status \in Terminal
        /\ type = "run_completed" <=> Verdict(j) = "completed"
    BY <1>0, <1>12, <2>2 DEF Announce, RowsSound, Verdict, Results, Terminal
  <2>4. type \in TerminalEvents /\ type \in EventTypes
    BY DEF TerminalEvents, EventTypes
  <2>5. Timely([type |-> type, run |-> j])
    BY <1>12, <2>2, <2>3, <2>4 DEF Announce, Timely, TerminalEvents, Verdict
  <2>6. Publish(type, j)
    BY <1>12 DEF Announce
  <2>. HIDE DEF type
  <2>. QED  BY <1>4, <2>1, <2>4, <2>5, <2>6
<1>13. CASE Abandon(j)
  <2>1. RowsMoved
    BY <1>0, <1>5, <1>13, FiberMoves DEF Abandon, FiberStates
  <2>. QED  BY <1>3, <1>13, <2>1 DEF Abandon
<1>. QED
  BY <1>6, <1>7, <1>8, <1>9, <1>10, <1>11, <1>12, <1>13 DEF Work

\* Requests and the clock of their window leave workers alone.
LEMMA RequestStep ==
  ASSUME ServerInv, CreateNext, UNCHANGED workerVars, RowsMoved
  PROVE  ServerMoved
<1>0. RunsTypeOK /\ RInv /\ RowsSound /\ WireSound /\ StoryOrder
  BY DEF ServerInv
<1>1. UNCHANGED <<fiber, wire, faults>>
  BY DEF workerVars
<1>2. RInv'
  BY <1>0, StepInvariant
<1>3. WireSound' /\ StoryOrder' /\ WireGrows /\ wire' \in Seq(Event)
  BY <1>0, <1>1, Silent DEF RowsMoved
<1>4. faults' \in 0..MaxFaults
  BY <1>0, <1>1, FaultTyped
<1>5. RunsTypeOK'
  BY <1>2, <1>3, <1>4 DEF RInv, RunsTypeOK, RowsMoved
<1>. QED  BY <1>2, <1>3, <1>5 DEF ServerMoved, ServerInv, RowsMoved

LEMMA ServerStep ==
  ASSUME ServerInv,
         RunsNext \/ (\E r \in Requests, u \in Users, p \in Prompts, keyed \in BOOLEAN :
                        Start(r, u, p, keyed))
  PROVE  ServerMoved
<1>0. RunsTypeOK /\ RInv /\ RowsSound /\ WireSound /\ StoryOrder
  BY DEF ServerInv
<1>1. ASSUME NEW r \in Requests, Create(r), UNCHANGED workerVars
      PROVE  ServerMoved
  <2>1. CreateNext
    BY <1>1 DEF CreateNext
  <2>2. fiber' = fiber
    BY <1>1 DEF workerVars
  <2>3. CASE Enqueue(r)
    BY <1>0, <1>1, <2>1, <2>2, <2>3, RequestMovesRows, RequestStep
  <2>4. CASE ListRecent(r) \/ EnqueueFails(r)
    <3>1. UNCHANGED <<jobs, prompt>>
      BY <2>4 DEF ListRecent, EnqueueFails
    <3>. QED  BY <1>0, <1>1, <2>1, <2>2, <3>1, Unmoved, RequestStep
  <2>. QED  BY <1>1, <2>3, <2>4 DEF Create
<1>2. ASSUME NEW r \in Requests, PublishQueued(r)
      PROVE  ServerMoved
  <2>1. UNCHANGED <<jobs, prompt, expired, req, fiber>>
    BY <1>2 DEF PublishQueued
  <2>2. RowsMoved
    BY <1>0, <2>1, Unmoved
  <2>3. PICK j \in daemon[r] : Publish("run_queued", j)
    BY <1>2 DEF PublishQueued
  <2>4. j \in Jobs /\ daemon' \in [Requests -> SUBSET Jobs]
    BY <1>0, <1>2 DEF PublishQueued, RunsTypeOK, TypeOK
  <2>5. Timely([type |-> "run_queued", run |-> j]) /\ "run_queued" \in EventTypes
    BY DEF Timely, TerminalEvents, EventTypes
  <2>6. /\ WireSound' /\ StoryOrder' /\ WireGrows
        /\ wire' \in Seq(Event) /\ faults' \in 0..MaxFaults
    BY <1>0, <2>2, <2>3, <2>4, <2>5, Published DEF RowsMoved
  <2>7. RInv'
    BY <1>0, <2>1, <2>2, <2>4, RequestsStay DEF RowsMoved
  <2>8. RunsTypeOK'
    BY <2>2, <2>6, <2>7 DEF RInv, RunsTypeOK, RowsMoved
  <2>. QED  BY <2>2, <2>6, <2>7, <2>8 DEF ServerMoved, ServerInv, RowsMoved
<1>3. ASSUME NEW j \in Jobs, Expire(j), UNCHANGED workerVars
      PROVE  ServerMoved
  <2>1. CreateNext
    BY <1>3 DEF CreateNext
  <2>2. UNCHANGED <<jobs, prompt, fiber>>
    BY <1>3 DEF Expire, workerVars
  <2>. QED  BY <1>0, <1>3, <2>1, <2>2, Unmoved, RequestStep
<1>4. ASSUME NEW j \in Jobs, Work(j)
      PROVE  ServerMoved
  BY <1>4, WorkStep
<1>5. CASE Sweep \/ Tick
  <2>1. RowsMoved
    BY <1>0, <1>5, SweepMoves
  <2>2. UNCHANGED <<apiVars, wire, faults>>
    BY <1>5 DEF Sweep, Tick, workerVars
  <2>3. WireSound' /\ StoryOrder' /\ WireGrows /\ wire' \in Seq(Event)
    BY <1>0, <2>1, <2>2, Silent DEF RowsMoved
  <2>4. RInv'
    BY <1>0, <2>1, <2>2, RequestsStay DEF RowsMoved, apiVars, RunsTypeOK, TypeOK
  <2>5. RunsTypeOK'
    BY <1>0, <2>1, <2>2, <2>3, <2>4, FaultTyped DEF RInv, RunsTypeOK, RowsMoved
  <2>. QED  BY <2>1, <2>3, <2>4, <2>5 DEF ServerMoved, ServerInv, RowsMoved
<1>6. ASSUME NEW r \in Requests, NEW u \in Users, NEW p \in Prompts,
             NEW keyed \in BOOLEAN, Start(r, u, p, keyed)
      PROVE  ServerMoved
  <2>1. CreateNext /\ UNCHANGED workerVars
    BY <1>6 DEF CreateNext, StartAny, Start
  <2>2. UNCHANGED <<jobs, prompt, fiber>>
    BY <1>6 DEF Start, StartCreate, workerVars
  <2>. QED  BY <1>0, <2>1, <2>2, Unmoved, RequestStep
<1>. QED  BY <1>1, <1>2, <1>3, <1>4, <1>5, <1>6 DEF RunsNext

\* A fault on the page's side leaves the server as it is.
LEMMA ServerIdle ==
  ASSUME ServerInv, UNCHANGED <<createVars, fiber, wire>>, Fault \/ UNCHANGED faults
  PROVE  ServerMoved
<1>0. RunsTypeOK /\ RInv /\ RowsSound /\ WireSound /\ StoryOrder
  BY DEF ServerInv
<1>1. UNCHANGED <<jobs, prompt, expired, req, daemon>>
  BY DEF createVars, apiVars
<1>2. RowsMoved
  BY <1>0, <1>1, Unmoved
<1>3. WireSound' /\ StoryOrder' /\ WireGrows /\ wire' \in Seq(Event)
  BY <1>0, <1>2, Silent DEF RowsMoved
<1>4. RInv'
  BY <1>0, <1>1, <1>2, RequestsStay DEF RowsMoved, RunsTypeOK, TypeOK
<1>5. RunsTypeOK'
  BY <1>0, <1>2, <1>3, <1>4, FaultTyped DEF RInv, RunsTypeOK, RowsMoved
<1>. QED  BY <1>2, <1>3, <1>4, <1>5 DEF ServerMoved, ServerInv, RowsMoved

-----------------------------------------------------------------------------
(* Answers                                                                 *)

\* What an answer says is so when it is given: AnswersSound of one answer.
SoundAnswer(answer) ==
  /\ answer \in [run : Jobs, status : JobStatus]
  /\ answer.status = "completed" => jobs[answer.run].result # "none"

\* A step that only gives sound answers leaves all of them sound.
LEMMA AnswersLast ==
  ASSUME AnswersSound, RowsGrow,
         \A r \in Requests : req'[r].phase = "answered" =>
           \/ req[r].phase = "answered" /\ req'[r].answer = req[r].answer
           \/ SoundAnswer(req'[r].answer)
  PROVE  AnswersSound'
<1>1. ASSUME NEW r \in Requests, req'[r].phase = "answered"
      PROVE  /\ req'[r].answer \in [run : Jobs, status : JobStatus]
             /\ req'[r].answer.status = "completed" => jobs'[req'[r].answer.run].result # "none"
  <2>1. SoundAnswer(req'[r].answer)
    BY <1>1 DEF AnswersSound, SoundAnswer
  <2>2. req'[r].answer.run \in Jobs
    BY <2>1 DEF SoundAnswer
  <2>. QED  BY <2>1, <2>2 DEF SoundAnswer, RowsGrow
<1>. QED  BY <1>1 DEF AnswersSound

\* A row that is read and answered.
LEMMA RowAnswered ==
  ASSUME RunsTypeOK, RowsSound, NEW r \in Requests, NEW j \in Jobs, Present(j),
         Answer(r, j, jobs[j].status)
  PROVE  \A q \in Requests : req'[q].phase = "answered" =>
           \/ req[q].phase = "answered" /\ req'[q].answer = req[q].answer
           \/ SoundAnswer(req'[q].answer)
<1>1. req \in [Requests -> Request]
  BY DEF RunsTypeOK, TypeOK
<1>2. /\ req'[r].answer = [run |-> j, status |-> jobs[j].status]
      /\ \A q \in Requests : q # r => req'[q] = req[q]
  BY <1>1 DEF Answer, Request
<1>3. SoundAnswer([run |-> j, status |-> jobs[j].status])
  BY DEF SoundAnswer, Present, RowsSound
<1>. QED  BY <1>2, <1>3

LEMMA AnswersStep ==
  ASSUME ServerInv, AnswersSound, RowsGrow,
         \/ RunsNext
         \/ \E r \in Requests, u \in Users, p \in Prompts, keyed \in BOOLEAN :
              Start(r, u, p, keyed)
  PROVE  AnswersSound'
<1>0. RunsTypeOK /\ RowsSound /\ req \in [Requests -> Request]
  BY DEF ServerInv, RunsTypeOK, TypeOK
<1>1. ASSUME UNCHANGED req
      PROVE  AnswersSound'
  BY <1>1, AnswersLast
<1>2. ASSUME NEW r \in Requests, NEW new, new.phase # "answered",
             req' = [req EXCEPT ![r] = new]
      PROVE  AnswersSound'
  <2>1. /\ req'[r].phase # "answered"
        /\ \A q \in Requests : q # r => req'[q] = req[q]
    BY <1>0, <1>2
  <2>. QED  BY <2>1, AnswersLast
<1>3. ASSUME NEW r \in Requests, NEW j \in Jobs, Present(j), Answer(r, j, jobs[j].status)
      PROVE  AnswersSound'
  BY <1>0, <1>3, RowAnswered, AnswersLast
<1>4. ASSUME NEW r \in Requests, Create(r)
      PROVE  AnswersSound'
  <2>1. CASE ListRecent(r)
    <3>1. CASE \E S \in Newest(RunsOf(req[r].user), RecentLimit) : \E j \in Reusable(r, S) :
                 Answer(r, j, jobs[j].status)
      <4>1. PICK S \in SUBSET RunsOf(req[r].user) : \E j \in Reusable(r, S) :
              Answer(r, j, jobs[j].status)
        BY <3>1 DEF Newest
      <4>2. PICK j \in Reusable(r, S) : Answer(r, j, jobs[j].status)
        BY <4>1
      <4>3. j \in Jobs /\ Present(j)
        BY <4>1, <4>2 DEF Reusable, RunsOf
      <4>. QED  BY <1>3, <4>2, <4>3
    <3>2. CASE req' = [req EXCEPT ![r].phase = "enqueuing"]
      <4>1. req' = [req EXCEPT ![r] = [req[r] EXCEPT !.phase = "enqueuing"]]
        BY <3>2
      <4>2. [req[r] EXCEPT !.phase = "enqueuing"].phase # "answered"
        BY <1>0 DEF Request
      <4>. QED  BY <1>2, <4>1, <4>2
    <3>3. CASE req' = [req EXCEPT ![r].phase = "enqueuing", ![r].known = {}]
      <4>1. /\ req'[r].phase = "enqueuing"
            /\ \A q \in Requests : q # r => req'[q] = req[q]
        BY <1>0, <3>3 DEF Request
      <4>. QED  BY <4>1, AnswersLast
    <3>. QED  BY <2>1, <3>1, <3>2, <3>3 DEF ListRecent
  <2>2. CASE Enqueue(r)
    <3>1. PICK j \in Jobs : \/ Answer(r, j, "pending")
                            \/ req' = [req EXCEPT ![r].phase = "refused"]
      BY <2>2 DEF Enqueue
    <3>2. CASE Answer(r, j, "pending")
      <4>1. /\ req'[r].answer = [run |-> j, status |-> "pending"]
            /\ \A q \in Requests : q # r => req'[q] = req[q]
        BY <1>0, <3>2 DEF Answer, Request
      <4>2. SoundAnswer([run |-> j, status |-> "pending"])
        BY DEF SoundAnswer, JobStatus
      <4>. QED  BY <4>1, <4>2, AnswersLast
    <3>3. CASE req' = [req EXCEPT ![r].phase = "refused"]
      <4>1. /\ req'[r].phase = "refused"
            /\ \A q \in Requests : q # r => req'[q] = req[q]
        BY <1>0, <3>3 DEF Request
      <4>. QED  BY <4>1, AnswersLast
    <3>. QED  BY <3>1, <3>2, <3>3
  <2>3. CASE EnqueueFails(r)
    <3>1. /\ req'[r].phase # "answered"
          /\ \A q \in Requests : q # r => req'[q] = req[q]
      BY <1>0, <2>3 DEF EnqueueFails, Request
    <3>. QED  BY <3>1, AnswersLast
  <2>. QED  BY <1>4, <2>1, <2>2, <2>3 DEF Create
<1>5. ASSUME NEW r \in Requests, NEW u \in Users, NEW p \in Prompts,
             NEW keyed \in BOOLEAN, Start(r, u, p, keyed)
      PROVE  AnswersSound'
  BY <1>2, <1>5 DEF Start, StartCreate
<1>6. ASSUME NEW r \in Requests, PublishQueued(r)
      PROVE  AnswersSound'
  BY <1>1, <1>6 DEF PublishQueued
<1>7. ASSUME NEW j \in Jobs, Expire(j) \/ Work(j)
      PROVE  AnswersSound'
  <2>1. UNCHANGED req
    BY <1>7 DEF Expire, Work, Take, Begin, Generated, HandlingFails, WriteCompleted,
                WriteFailed, Announce, Abandon, apiVars
  <2>. QED  BY <1>1, <2>1
<1>8. CASE Sweep \/ Tick
  BY <1>1, <1>8 DEF Sweep, Tick, apiVars
<1>. QED  BY <1>4, <1>5, <1>6, <1>7, <1>8 DEF RunsNext

-----------------------------------------------------------------------------
(* The page                                                                *)

\* The page's part of PInv.
PagePart == PageTypeOK /\ HeardRead /\ HeardIsShown /\ SnapshotSound /\ CompletedHasResult

LEMMA PInvSplit == PInv <=> ServerInv /\ AnswersSound /\ PagePart
BY DEF PInv, ServerInv, PagePart, PageTypeOK

LEMMA PInvPrimed == ServerInv' /\ AnswersSound' /\ PagePart' => PInv'
BY DEF PInv, ServerInv, PagePart, PageTypeOK

\* The run of a heard end is over, and its row is settled.
LEMMA HeardAreOver ==
  ASSUME ServerInv, PagePart, NEW j \in heard
  PROVE  j \in Jobs /\ fiber[j] = "over" /\ jobs[j].status \in Terminal
<1>1. PICK n \in 1..pos : wire[n].type \in TerminalEvents /\ wire[n].run = j
  BY DEF PagePart, HeardRead
<1>2. pos \in 0..Len(wire) /\ Len(wire) \in Nat /\ j \in Jobs
  BY LenProperties DEF PagePart, PageTypeOK, ServerInv, RunsTypeOK
<1>3. n \in 1..Len(wire)
  BY <1>1, <1>2
<1>. QED  BY <1>1, <1>2, <1>3 DEF ServerInv, WireSound

\* The server moves on while the page does nothing.
LEMMA PageWaits ==
  ASSUME ServerInv, PagePart, ServerMoved, UNCHANGED pageVars
  PROVE  PagePart'
<1>1. /\ UNCHANGED <<session, list, snapshot, stream, missed, pos, view, creating, heard>>
      /\ RowsGrow /\ WireGrows /\ RunsTypeOK'
  BY DEF pageVars, ServerMoved, ServerInv
<1>2. pos \in 0..Len(wire) /\ Len(wire) \in Nat /\ Len(wire') \in Nat
  BY <1>1, LenProperties DEF PagePart, PageTypeOK, ServerInv, RunsTypeOK
<1>3. PageTypeOK'
  BY <1>1, <1>2 DEF PagePart, PageTypeOK, WireGrows
<1>4. HeardRead'
  BY <1>1, <1>2 DEF PagePart, HeardRead, WireGrows
<1>5. HeardIsShown'
  <2>1. ASSUME NEW j \in heard
        PROVE  view[j] = (IF jobs'[j].status = "completed" /\ jobs'[j].result = "invalid"
                          THEN "failed" ELSE jobs'[j].status)
    BY HeardAreOver, <1>1 DEF PagePart, HeardIsShown, Verdict, RowsGrow
  <2>. QED  BY <1>1, <2>1 DEF HeardIsShown, Verdict
<1>6. SnapshotSound' /\ CompletedHasResult'
  BY <1>1 DEF PagePart, SnapshotSound, CompletedHasResult, RowsGrow
<1>. QED  BY <1>3, <1>4, <1>5, <1>6 DEF PagePart

\* The page does something, and no row and no event changes.
PageOnly == ServerInv /\ PagePart /\ RunsTypeOK' /\ UNCHANGED <<jobs, fiber, wire>>

\* A page step that shows nothing new.
LEMMA PageKeepsView ==
  ASSUME PageOnly, UNCHANGED <<view, heard, snapshot>>,
         pos' \in pos..Len(wire), missed' \in BOOLEAN,
         session' \in {"pending", "known"},
         list' \in {"asked", "read", "applied", "failed"},
         stream' \in {"asked", "open", "broken"},
         creating' \in Requests \union {NoRequest}
  PROVE  PagePart'
<1>1. /\ pos \in 0..Len(wire) /\ Len(wire) \in Nat
      /\ UNCHANGED <<jobs, fiber, wire>>
  BY LenProperties DEF PageOnly, PagePart, PageTypeOK, ServerInv, RunsTypeOK
<1>2. PageTypeOK'
  BY <1>1 DEF PageOnly, PagePart, PageTypeOK
<1>3. HeardRead'
  BY <1>1 DEF PageOnly, PagePart, HeardRead
<1>4. HeardIsShown' /\ SnapshotSound' /\ CompletedHasResult'
  BY <1>1 DEF PageOnly, PagePart, HeardIsShown, SnapshotSound, CompletedHasResult, Verdict
<1>. QED  BY <1>2, <1>3, <1>4 DEF PagePart

LEMMA ReceiveShows ==
  ASSUME PageOnly, Receive
  PROVE  PagePart'
<1>0. /\ ServerInv /\ PagePart /\ RunsTypeOK /\ PageTypeOK /\ WireSound /\ RowsSound
      /\ UNCHANGED <<jobs, fiber, wire, session, list, snapshot, stream, missed, creating>>
  BY DEF PageOnly, ServerInv, PagePart, Receive
<1>. DEFINE e == wire[pos + 1]
<1>1. /\ pos \in Nat /\ pos + 1 \in 1..Len(wire) /\ Len(wire) \in Nat /\ pos' = pos + 1
  BY <1>0, LenProperties DEF PageTypeOK, RunsTypeOK, Receive
<1>2. e \in Event /\ e.run \in Jobs /\ e.type \in EventTypes
  BY <1>0, <1>1, WireTyped
<1>3. CASE jobs[e.run].createdBy # PageUser
  <2>1. UNCHANGED <<view, heard>>
    BY <1>3 DEF Receive
  <2>. QED  BY <1>0, <1>1, <2>1, PageKeepsView DEF PageTypeOK
<1>4. CASE jobs[e.run].createdBy = PageUser
  <2>1. /\ view' = [view EXCEPT ![e.run] = EventStatus[e.type]]
        /\ heard' = CASE e.type \in TerminalEvents -> heard \union {e.run}
                      [] e.type = "run_queued" -> heard \ {e.run}
                      [] OTHER -> heard
    BY <1>4 DEF Receive, Apply
  <2>2. EventStatus[e.type] \in Shown
    BY <1>2 DEF EventStatus, EventTypes, Shown, JobStatus, Terminal
  <2>3. /\ view \in [Jobs -> Shown] /\ heard \subseteq Jobs
    BY <1>0 DEF PageTypeOK
  <2>4. /\ view' \in [Jobs -> Shown] /\ view'[e.run] = EventStatus[e.type]
        /\ \A j \in Jobs : j # e.run => view'[j] = view[j]
    BY <1>2, <2>1, <2>2, <2>3
  <2>5. heard' \subseteq heard \union {e.run}
    BY <2>1
  <2>6. e.run \in heard' => e.type \in TerminalEvents
    <3>1. CASE e.type \in TerminalEvents
      BY <3>1
    <3>2. CASE e.type = "run_queued"
      BY <2>1, <3>2 DEF TerminalEvents
    <3>3. CASE e.type \in {"run_started", "run_progress"}
      <4>1. e.run \notin heard
        <5>1. SUFFICES ASSUME e.run \in heard PROVE FALSE
          OBVIOUS
        <5>2. PICK n \in 1..pos : wire[n].type \in TerminalEvents /\ wire[n].run = e.run
          BY <1>0, <5>1 DEF PagePart, HeardRead
        <5>3. n \in 1..Len(wire) /\ n < pos + 1
          BY <1>1, <5>2
        <5>4. pos + 1 < n
          BY <1>0, <1>1, <3>3, <5>2, <5>3 DEF ServerInv, StoryOrder
        <5>. QED  BY <1>1, <5>3, <5>4
      <4>2. heard' = heard
        BY <2>1, <3>3 DEF TerminalEvents
      <4>. QED  BY <4>1, <4>2
    <3>. QED  BY <1>2, <3>1, <3>2, <3>3 DEF EventTypes, TerminalEvents
  <2>7. PageTypeOK'
    BY <1>0, <1>1, <1>2, <2>3, <2>4, <2>5 DEF PageOnly, PageTypeOK
  <2>8. HeardRead'
    <3>1. ASSUME NEW j \in heard'
          PROVE  \E n \in 1..(pos + 1) : wire[n].type \in TerminalEvents /\ wire[n].run = j
      <4>1. CASE j = e.run
        BY <1>1, <2>6, <3>1, <4>1
      <4>2. CASE j \in heard
        BY <1>0, <1>1, <4>2 DEF PagePart, HeardRead
      <4>. QED  BY <2>5, <3>1, <4>1, <4>2
    <3>. QED  BY <1>0, <1>1, <3>1 DEF HeardRead
  <2>9. HeardIsShown'
    <3>1. ASSUME NEW j \in heard'
          PROVE  view'[j] = Verdict(j)
      <4>1. CASE j = e.run
        <5>1. e.type \in TerminalEvents
          BY <2>6, <4>1
        <5>2. /\ jobs[j].status \in Terminal
              /\ e.type = "run_completed" <=> Verdict(j) = "completed"
          BY <1>0, <1>1, <4>1, <5>1 DEF WireSound
        <5>3. view'[j] = IF e.type = "run_completed" THEN "completed" ELSE "failed"
          BY <2>4, <4>1, <5>1 DEF TerminalEvents, EventStatus
        <5>. QED  BY <5>2, <5>3 DEF Verdict, Terminal
      <4>2. CASE j # e.run
        BY <1>0, <2>3, <2>4, <2>5, <3>1, <4>2 DEF PagePart, HeardIsShown
      <4>. QED  BY <4>1, <4>2
    <3>. QED  BY <1>0, <3>1 DEF HeardIsShown, Verdict
  <2>10. CompletedHasResult'
    <3>1. ASSUME NEW j \in Jobs, view'[j] = "completed"
          PROVE  jobs[j].result # "none"
      <4>1. CASE j = e.run
        <5>1. e.type = "run_completed"
          BY <1>2, <2>4, <3>1, <4>1 DEF EventStatus, EventTypes
        <5>2. Verdict(j) = "completed"
          BY <1>0, <1>1, <4>1, <5>1 DEF WireSound, TerminalEvents
        <5>. QED  BY <1>0, <5>2 DEF Verdict, RowsSound
      <4>2. CASE j # e.run
        BY <1>0, <2>4, <3>1, <4>2 DEF PagePart, CompletedHasResult
      <4>. QED  BY <4>1, <4>2
    <3>. QED  BY <1>0, <3>1 DEF CompletedHasResult
  <2>11. SnapshotSound'
    BY <1>0 DEF PagePart, SnapshotSound
  <2>. QED  BY <2>7, <2>8, <2>9, <2>10, <2>11 DEF PagePart
<1>. QED  BY <1>3, <1>4

\* A reply is taken in: the list's, or that of runs.create.
LEMMA ReplyShows ==
  ASSUME PageOnly, AnswersSound, ApplyList \/ CreateReplied
  PROVE  PagePart'
<1>0. /\ PagePart /\ PageTypeOK /\ RunsTypeOK'
      /\ UNCHANGED <<jobs, fiber, wire, session, stream, missed, pos>>
  BY DEF PageOnly, PagePart, ApplyList, CreateReplied
<1>1. CASE ApplyList
  <2>1. /\ list' = "applied" /\ view' = snapshot /\ heard' = {} /\ UNCHANGED creating
        /\ snapshot' = [j \in Jobs |-> "none"]
    BY <1>1 DEF ApplyList
  <2>2. PageTypeOK'
    BY <1>0, <2>1 DEF PageTypeOK, Shown
  <2>3. SnapshotSound' /\ CompletedHasResult'
    BY <1>0, <2>1 DEF PagePart, SnapshotSound, CompletedHasResult
  <2>4. HeardRead' /\ HeardIsShown'
    BY <2>1 DEF HeardRead, HeardIsShown
  <2>. QED  BY <2>2, <2>3, <2>4 DEF PagePart
<1>2. CASE CreateReplied
  <2>. DEFINE answer == req[creating].answer
  <2>1. /\ creating \in Requests /\ req[creating].phase = "answered" /\ creating' = NoRequest
        /\ view' = [view EXCEPT ![answer.run] = answer.status]
        /\ heard' = heard \ {answer.run}
        /\ UNCHANGED <<list, snapshot>>
    BY <1>0, <1>2 DEF CreateReplied, PageTypeOK
  <2>2. /\ answer \in [run : Jobs, status : JobStatus]
        /\ answer.status = "completed" => jobs[answer.run].result # "none"
    BY <2>1 DEF AnswersSound
  <2>. HIDE DEF answer
  <2>3. /\ view' \in [Jobs -> Shown] /\ view'[answer.run] = answer.status
        /\ \A j \in Jobs : j # answer.run => view'[j] = view[j]
    BY <1>0, <2>1, <2>2 DEF PageTypeOK, Shown
  <2>4. PageTypeOK'
    BY <1>0, <2>1, <2>3 DEF PageTypeOK
  <2>5. HeardRead'
    BY <1>0, <2>1 DEF PagePart, HeardRead
  <2>6. HeardIsShown'
    BY <1>0, <2>1, <2>3 DEF PagePart, PageTypeOK, HeardIsShown, Verdict
  <2>7. SnapshotSound'
    BY <1>0, <2>1 DEF PagePart, SnapshotSound
  <2>8. CompletedHasResult'
    BY <1>0, <2>2, <2>3 DEF PagePart, CompletedHasResult
  <2>. QED  BY <2>4, <2>5, <2>6, <2>7, <2>8 DEF PagePart
<1>. QED  BY <1>1, <1>2

\* A new reply of the list is on its way, or the old one is dropped.
LEMMA ListMoves ==
  ASSUME PageOnly, ReadList \/ SessionKnown
  PROVE  PagePart'
<1>0. /\ PagePart /\ PageTypeOK /\ RunsTypeOK' /\ RowsSound /\ RunsTypeOK
      /\ UNCHANGED <<jobs, fiber, wire, missed, pos, view, creating, heard>>
  BY DEF PageOnly, PagePart, ServerInv, ReadList, SessionKnown, runsVars, workerVars, createVars
<1>1. /\ snapshot' \in [Jobs -> Shown]
      /\ \A j \in Jobs : snapshot'[j] = "completed" => jobs[j].result # "none"
  <2>1. CASE snapshot' = [j \in Jobs |-> "none"]
    BY <2>1 DEF Shown
  <2>2. CASE \E S \in Newest(RunsOf(PageUser), PageLimit) :
               snapshot' = [j \in Jobs |-> IF j \in S THEN jobs[j].status ELSE "none"]
    <3>1. PICK S \in SUBSET RunsOf(PageUser) :
            snapshot' = [j \in Jobs |-> IF j \in S THEN jobs[j].status ELSE "none"]
      BY <2>2 DEF Newest
    <3>2. \A j \in S : jobs[j].status \in JobStatus
      BY DEF RunsOf, Present
    <3>. QED  BY <1>0, <3>1, <3>2 DEF Shown, RowsSound
  <2>3. CASE UNCHANGED snapshot
    BY <1>0, <2>3 DEF PagePart, PageTypeOK, SnapshotSound
  <2>. QED  BY <2>1, <2>2, <2>3 DEF ReadList, SessionKnown
<1>2. /\ session' \in {"pending", "known"} /\ stream' \in {"asked", "open", "broken"}
      /\ list' \in {"asked", "read", "applied", "failed"}
  BY <1>0 DEF PageTypeOK, ReadList, SessionKnown
<1>3. PageTypeOK'
  BY <1>0, <1>1, <1>2 DEF PageTypeOK
<1>4. SnapshotSound'
  BY <1>0, <1>1 DEF SnapshotSound
<1>5. HeardRead' /\ HeardIsShown' /\ CompletedHasResult'
  BY <1>0 DEF PagePart, HeardRead, HeardIsShown, CompletedHasResult, Verdict
<1>. QED  BY <1>3, <1>4, <1>5 DEF PagePart

LEMMA PageStep ==
  ASSUME PInv, PageNext
  PROVE  PInv'
<1>0. ServerInv /\ AnswersSound /\ PagePart /\ PageTypeOK
  BY PInvSplit DEF PagePart
<1>1. CASE \E r \in Requests, p \in Prompts : QueueRun(r, p)
  <2>1. PICK r \in Requests, p \in Prompts : QueueRun(r, p)
    BY <1>1
  <2>2. Start(r, PageUser, p, FALSE) /\ UNCHANGED <<jobs, fiber, wire>>
    BY <2>1 DEF QueueRun, Start, StartCreate, workerVars
  <2>3. ServerMoved
    BY <1>0, <2>2, ServerStep, PageAssumption
  <2>4. AnswersSound'
    BY <1>0, <2>2, <2>3, AnswersStep, PageAssumption DEF ServerMoved
  <2>5. PageOnly
    BY <1>0, <2>2, <2>3 DEF PageOnly, ServerMoved, ServerInv
  <2>6. pos' \in pos..Len(wire)
    BY <1>0, <2>1, LenProperties DEF QueueRun, PageTypeOK, RunsTypeOK
  <2>7. PagePart'
    BY <1>0, <2>1, <2>5, <2>6, PageKeepsView DEF QueueRun, PageTypeOK
  <2>. QED  BY <2>3, <2>4, <2>7, PInvPrimed DEF ServerMoved
<1>2. CASE \/ SessionKnown \/ ReadList \/ ApplyList \/ Subscribe \/ StreamBreaks
           \/ Receive \/ CreateReplied \/ CreateFailed
  <2>1. UNCHANGED <<createVars, fiber, wire>> /\ (Fault \/ UNCHANGED faults)
    BY <1>2 DEF SessionKnown, ReadList, ApplyList, Subscribe, StreamBreaks, Receive,
                CreateReplied, CreateFailed, runsVars, workerVars
  <2>2. ServerMoved
    BY <1>0, <2>1, ServerIdle
  <2>3. UNCHANGED <<jobs, req, fiber, wire>>
    BY <2>1 DEF createVars, apiVars
  <2>4. AnswersSound'
    BY <1>0, <2>3 DEF AnswersSound
  <2>5. PageOnly
    BY <1>0, <2>2, <2>3 DEF PageOnly, ServerMoved, ServerInv
  <2>6. CASE ReadList \/ SessionKnown
    <3>1. PagePart'
      BY <2>5, <2>6, ListMoves
    <3>. QED  BY <2>2, <2>4, <3>1, PInvPrimed DEF ServerMoved
  <2>7. CASE ApplyList \/ CreateReplied
    <3>1. PagePart'
      BY <1>0, <2>5, <2>7, ReplyShows
    <3>. QED  BY <2>2, <2>4, <3>1, PInvPrimed DEF ServerMoved
  <2>8. CASE Receive
    <3>1. PagePart'
      BY <2>5, <2>8, ReceiveShows
    <3>. QED  BY <2>2, <2>4, <3>1, PInvPrimed DEF ServerMoved
  <2>9. CASE Subscribe \/ StreamBreaks \/ CreateFailed
    <3>1. pos' \in pos..Len(wire)
      BY <1>0, <2>9, LenProperties DEF Subscribe, StreamBreaks, CreateFailed, runsVars,
                                       PageTypeOK, RunsTypeOK
    <3>2. UNCHANGED <<view, heard, snapshot>>
      BY <2>9 DEF Subscribe, StreamBreaks, CreateFailed
    <3>3. /\ missed' \in BOOLEAN /\ session' \in {"pending", "known"}
          /\ list' \in {"asked", "read", "applied", "failed"}
          /\ stream' \in {"asked", "open", "broken"}
          /\ creating' \in Requests \union {NoRequest}
      BY <1>0, <2>9 DEF Subscribe, StreamBreaks, CreateFailed, PageTypeOK
    <3>4. PagePart'
      BY <2>5, <3>1, <3>2, <3>3, PageKeepsView
    <3>. QED  BY <2>2, <2>4, <3>4, PInvPrimed DEF ServerMoved
  <2>. QED  BY <1>2, <2>6, <2>7, <2>8, <2>9
<1>. QED  BY <1>1, <1>2 DEF PageNext

LEMMA InitPage == Init => PInv
<1>. SUFFICES ASSUME Init PROVE PInv
  OBVIOUS
<1>0. /\ RunsInit /\ CreateInit /\ TableInit
  BY DEF Init, RunsInit, CreateInit
<1>1. RInv
  BY <1>0, InitRight
<1>2. RunsTypeOK
  BY <1>0, <1>1, RunsAssumption DEF RunsInit, RunsTypeOK, RInv, FiberStates
<1>3. \A j \in Jobs : jobs[j].status = "absent" /\ jobs[j].result = "none"
  <2>1. NoRow.result = "none"
    BY DEF NoRow, NewRow
  <2>. QED  BY <1>0, <2>1, InitialTable DEF TableInit
<1>4. RowsSound
  BY <1>0, <1>3 DEF RowsSound, RunsInit
<1>5. WireSound /\ StoryOrder /\ Len(wire) = 0
  BY <1>0 DEF WireSound, StoryOrder, RunsInit
<1>6. PageTypeOK
  <2>1. [j \in Jobs |-> "none"] \in [Jobs -> Shown]
    BY DEF Shown
  <2>2. 0 \in 0..Len(wire)
    BY <1>5
  <2>. QED  BY <1>2, <2>1, <2>2 DEF Init, PageTypeOK
<1>7. HeardRead /\ HeardIsShown /\ SnapshotSound /\ CompletedHasResult
  BY DEF Init, HeardRead, HeardIsShown, SnapshotSound, CompletedHasResult
<1>8. AnswersSound
  BY <1>0 DEF AnswersSound, CreateInit, NewRequest
<1>. QED  BY <1>1, <1>2, <1>4, <1>5, <1>6, <1>7, <1>8 DEF PInv

LEMMA StepPage == PInv /\ [Next]_vars => PInv'
<1>. SUFFICES ASSUME PInv, [Next]_vars PROVE PInv'
  OBVIOUS
<1>0. ServerInv /\ AnswersSound /\ PagePart
  BY PInvSplit
<1>1. CASE PageNext
  BY <1>1, PageStep
<1>2. CASE (RunsNext \/ Elsewhere) /\ UNCHANGED pageVars
  <2>1. ServerMoved
    BY <1>0, <1>2, ServerStep DEF Elsewhere
  <2>2. AnswersSound'
    BY <1>0, <1>2, <2>1, AnswersStep DEF Elsewhere, ServerMoved
  <2>3. PagePart'
    BY <1>0, <1>2, <2>1, PageWaits
  <2>. QED  BY <2>1, <2>2, <2>3, PInvPrimed DEF ServerMoved
<1>3. CASE UNCHANGED vars
  <2>1. UNCHANGED <<createVars, fiber, wire, faults, req, pageVars>>
    BY <1>3 DEF vars, runsVars, workerVars, createVars, apiVars
  <2>2. ServerMoved
    BY <1>0, <2>1, ServerIdle
  <2>3. AnswersSound'
    BY <1>0, <2>1, <2>2, AnswersLast DEF ServerMoved
  <2>4. PagePart'
    BY <1>0, <2>1, <2>2, PageWaits
  <2>. QED  BY <2>2, <2>3, <2>4, PInvPrimed DEF ServerMoved
<1>. QED
  BY <1>1, <1>2, <1>3 DEF Next

-----------------------------------------------------------------------------
(* The theorems                                                            *)

\* The story is told once: two ends, or two starts, have the same position.
LEMMA StoryOnce ==
  ASSUME RunsTypeOK, StoryOrder
  PROVE  OneStoryPerRun
<1>0. Len(wire) \in Nat
  BY LenProperties DEF RunsTypeOK
<1>. SUFFICES ASSUME NEW j \in Jobs
              PROVE  /\ Cardinality(EventsAt({"run_started"}, j)) <= 1
                     /\ Cardinality(EventsAt(TerminalEvents, j)) <= 1
                     /\ \A m \in EventsAt({"run_started", "run_progress"}, j),
                          n \in EventsAt(TerminalEvents, j) : m < n
  BY DEF OneStoryPerRun
<1>1. ASSUME NEW S, \A m, n \in S : m = n
      PROVE  Cardinality(S) <= 1
  <2>1. CASE S = {}
    BY <2>1, FS_EmptySet
  <2>2. CASE S # {}
    <3>1. PICK m : m \in S
      BY <2>2
    <3>2. S = {m}
      BY <1>1, <3>1
    <3>3. Cardinality({m}) = 1
      BY FS_Singleton
    <3>. QED  BY <3>2, <3>3
  <2>. QED  BY <2>1, <2>2
<1>2. \A m, n \in EventsAt({"run_started"}, j) : m = n
  BY DEF EventsAt, StoryOrder
<1>3. \A m, n \in EventsAt(TerminalEvents, j) : m = n
  BY DEF EventsAt, StoryOrder
<1>4. \A m \in EventsAt({"run_started", "run_progress"}, j), n \in EventsAt(TerminalEvents, j) :
        m < n
  BY DEF EventsAt, StoryOrder
<1>. QED  BY <1>1, <1>2, <1>3, <1>4

\* Every reachable state satisfies the inductive invariant.
THEOREM PageInvariant == Spec => []PInv
BY InitPage, StepPage, PTL DEF Spec

\* The variables of the API, the workers and the page always have their types.
THEOREM PageTypeCorrect == Spec => []PageTypeOK
<1>1. PInv => PageTypeOK
  BY DEF PInv
<1>. QED  BY <1>1, PageInvariant, PTL

\* The workers tell one story per run, for any number of faults (processAiRunJob,
\* notifyJobComplete).
THEOREM StoriesAreOne == Spec => []OneStoryPerRun
<1>1. PInv => OneStoryPerRun
  BY StoryOnce DEF PInv, PageTypeOK
<1>. QED  BY <1>1, PageInvariant, PTL

\* A run whose end the page has heard is shown as it ended, until a reply or a
\* run_queued sets it back (applyRunEvent).
THEOREM EndsHeardAreShown == Spec => []HeardIsShown
<1>1. PInv => HeardIsShown
  BY DEF PInv
<1>. QED  BY <1>1, PageInvariant, PTL

\* A run shown as completed has a result in the table, whichever source said so.
THEOREM CompletedRunsHaveResults == Spec => []CompletedHasResult
<1>1. PInv => CompletedHasResult
  BY DEF PInv
<1>. QED  BY <1>1, PageInvariant, PTL
=============================================================================
