# A verification project for the agent engine template

TLA+ modules of the parts of this repository where order, concurrency and failure
matter, the TLC runs that check them on small instances, and TLAPS proofs of their
safety properties for instances of every size. `PROJECT.json` is the index: it maps
every definition to the lines it stands for, and lists runs, hazards and theorems.

    tlc -workers 2 -config MCWorker.cfg MCWorker     # one of the runs
    tlapm Worker_proofs.tla                          # one of the proof modules

Contents: 1 the system, 2 the modules, 3 the runs, 4 fairness, 5 the proofs,
6 what the models leave out, 7 what disagrees with the documentation, 8 the plan.

## 1. The system

A user asks for a *run* in the browser. The API server inserts a row into the
Postgres table `job` and publishes an event; a worker process polls the table, claims
the row, calls a language model, writes the outcome to the row and publishes events on
the way. Redis hands the events to the browsers that are subscribed. The same browser
chats with a language model, through the same API, its rate limiter and its sessions,
and may call a weather tool, as may the model. Beside the program, the repository holds
automation: loops that run coding agents in checkouts of their own and publish what
they learn, the workflow memory, to one branch. The rest is wiring, stateless adapters
of external services, and checks of the repository's files.

| Component | Source | State | Operations | Hard behaviour | Correct means |
| --- | --- | --- | --- | --- | --- |
| Job table | `packages/db/src/schemas/jobs.ts` | rows: status, key, createdAt, startedAt, result, error | SQL statements of the repository | statements of many processes interleave; a conflict target that fits no index | FIFO; a settled row is never claimable again |
| Queue service | `packages/queue/src/repository.ts` | none of its own | enqueue, claim, process next / by id, update, sweep, delete | several statements per call, lost replies, defects in handlers; every keyed INSERT refused | a claimed row is in one pair of hands; what a call returned stays true |
| Background worker | `apps/worker/src/base-worker.ts`, `unified-worker.ts` | loop position, poll count, active count, job fibers | poll, fork, notify, reap, stop, drain | fibers end while claims are awaited; crashes; a slow handler races the reaper | capacity kept, no slot leaked, a job runs at most once, nothing stays stuck |
| Worker process | `apps/worker/src/worker.ts` | the shutdown flag, force timer | start, shutdown | the force timer equals the drain timeout | ends in bounded time |
| Runs use cases | `packages/api/src/server/use-cases/runs.ts` | a daemon fiber per request | create, list | look-up and insert are two statements; daemon outlives the request | retries find the first run; nobody is answered with a stranger's run |
| SSE publisher | `packages/api/src/server/publisher.ts`, `router/events.ts` | shared publishing connection; queue and wake-up per subscriber | publish, subscribe, reconfigure, shut down | events lost or published before a subscription; an abort while waiting | order kept, no wake-up lost, nothing after shutdown |
| Runs page | `apps/web/src/pages/jobs.tsx`, `lib/run-utils.ts` | the list of runs | load, subscribe, create | three sources race for one list | the end of a run, once heard, is shown |
| Rate limiter | `apps/server/src/middleware/rate-limit.ts` | window per client in Redis, and per server in memory | consume, fall back, clean up | late answers, fallback before and after the script ran, expiry at the boundary; who is the client behind proxies | no more than the limit per window; Retry-After suffices; nobody chooses whom he is counted as |
| Weather tool | `packages/ai/src/tools`, `packages/ai/src/chat/tools` | slots in use | call, time out, retry | runs end, time out and try again together; bodies that never end | slots in use are the requests on their way |
| API protocol | `packages/api/src/server/effect-handler.ts`, `orpc.ts` | none | map a class to a code, throw it | a code the contract lacks; Effect's own error around everything that is thrown | the error thrown is of its class's kind (the caller is told less, section 7) |
| Authentication and roles | `packages/auth/src` | role, sessions | sign in, sync the role | overlapping sign-ins, groups that change meanwhile, lost replies | a late sync brings no old role back |
| Chat | `apps/web/src/pages/chat.tsx`, `lib/chat-utils.ts`, `router/chat.ts` | threads, messages, stream; localStorage | send, receive, switch, create, queue | switching while an answer streams; several tabs; sessions that end | what was stored stays |
| Weather panel | `apps/web/src/components/weather-tool-panel.tsx` | status, error tag, the call it can abort | invoke, retry, cancel | a cancel or an unmount with a call on its way | it tells what became of the call |
| Prompts | `packages/ai/src/chat/prompts/resolver.ts` | none | resolve | blocked versions, fallback | what is resolved exists and is not blocked |
| Model providers, database errors | `packages/ai/src`, `packages/db/src/effect.ts` | none | class a failure, try again | messages with several of the words | a rate limit is thrown as one |
| Server and worker processes | `apps/server/src/server.ts`, `apps/worker/src/worker.ts`, `packages/api/src/server/fatal-error-handler.ts` | what is still to be awaited, timers | signal, fatal error, exit | both at once; streams and jobs still open; a daemon that outlives its request | exit 0 means that no request, no stream and no event from before was cut off, and only the worker's own jobs were; the exit comes |
| Workflow memory | `agent-engine/scripts/workflow-memory/*.ts` | event logs, archives, index and summaries in git | add, seed, compact, sync | clones that commit, rebase, resolve and push concurrently; writes and rebases that fail half-way; seeds dated in another month | no event is lost, the index agrees with the logs |
| Automation runners | `scripts/*-loop.sh` | a lock directory with a pid | acquire, run a cycle, release | stale locks, two starts at once, signals | one runner of a lane at a time |
| Storage, web shell, guardrails, generators, CLI | see `PROJECT.json` | none, or an external library's | | | |

How they interact: the API and the workers share only the table and the event channel.
Nothing orders the daemon's `run_queued` before the worker's events. The page calls the
API (`runs.list`, `runs.create`) and reads the channel; nothing orders replies and
events either. The reaper, in every worker, settles rows behind the back of whoever
works on them. A page's calls all go through the limiter and the making of a context,
whichever tab they come from; the tabs of one browser share the session's cookie and
the storage of threads and tell each other nothing. The server and the worker use the
same publisher. The automation lanes share nothing but `origin/main`, and the runners
of one lane a state directory.

The places where this can go wrong are listed, each with its line and the
properties that watch it, under `hazards` in `PROJECT.json`.

## 2. The modules

    JobTable <-- JobQueue                     the queue service and its callers
        ^------- Worker ---(implements)---> JobLifecycle
        ^------- CreateRun <-- Runs <-- RunsPage

    Publisher <-- Processes                   events, streams, shutdown
    MemoryStore <-- MemorySync <-- Runners    workflow memory and its lanes
    Api <-- Providers <--.
    Prompts, Identity <--+-- Chat             the chat page and the API behind it
    RateLimit, WeatherTool, Roles <--'

**JobTable** is the table and its statements. Every operator is one SQL statement of
`repository.ts`, so one atomic step; the modules above decide who executes which
statement next. A row that was never inserted is `absent`. Payloads are left out;
`result` is none, valid or invalid (does `parseRunResult` decode it) and `error` tells
who wrote it. `createdAt` is an order with ties (`stamp`), `startedAt` an age that
saturates one tick past the stale limit, so the clock needs no bound.

**JobQueue** is `makeQueueService` used by concurrent callers. `pc`, `cur` and `wanted`
are the position and the locals of each call. A call with several statements has an
action for each: `ReadJobById` then `MarkProcessing`; a claim, then the handler, then
`Complete` or `Fail`. `EnqueueInsert` is an enqueue without a key. One with a key,
`EnqueueKeyed`, inserts nothing: `repository.ts:131` names the columns of a partial unique
index without its predicate, and Postgres refuses the statement (section 7). The
`...Faults` actions are statements that report a `QueueError`, with or without having
taken effect: the claim, the three status writes and, in `EnqueueInsert`, the reply
to the INSERT. `ByIdJobs` says which rows are processed by identifier, because the
promise of `claimNextJob` does not extend to `processJobById`. `answered` and
`returned` are histories of what callers were told.

**Worker** is `createWorker` with the handlers of `unified-worker.ts`, any number of
processes of it. `pc` is the position of the loop or of `stop()`; `slots`, `todo` and
`got` are `pollOnce`'s locals; `activeJobs` is the `Ref`, `polls` the poll count modulo
the reaper's period. A job's `fiber` is `running` while its handler runs, `failing` and
`dying` in the two catch branches, and `completed`, `failed`, `dead` between the write
of a status and its notification. `Crash` is a kill, or the force timer of
`worker.ts`: no finalizer runs. `runs` and `disturbed` are histories.

**JobLifecycle** is the promise to whoever watches the table: jobs are taken up in
the order of their creation, once, and end `completed` or `failed`. `Spec` lets one
terminal status replace another, `DocSpec` does not. Worker implements `Spec` by
mapping `status`, `type` and `stamp` to the columns.

**CreateRun** is `createRunUseCase`: `StartCreate` fixes prompt, window and whether there
is a key, `ListRecent` is the query and `findIdempotentRun`, and `Enqueue` and
`EnqueueFails` are the INSERT of `enqueue`, which succeeds only without a key. `WorkersMove` lets
rows change behind it in every way the workers have.

**Runs** composes CreateRun with the workers' handling of a run and with the event
channel. `daemon` is the fiber that will publish `run_queued`, `wire` the sequence of
events on the channel, `Fault` an event, a reply or a worker that is lost.

**RunsPage** puts the page on top: `ReadList`/`ApplyList` are the two ends of
`runs.list`, `Subscribe`/`Receive`/`StreamBreaks` the stream, `QueueRun`,
`CreateReplied`, `CreateFailed` the form. `view` is the status shown per run. `heard` is
the history its main property is about.

**Publisher** is `publisher.ts` with the generator of `events.subscribe`. `client`,
`awaiting`, `outbox` and `quitting` are the shared connection of a process, from the
first event to the reply to QUIT, over connections that break and are made again; `stream` is a generator, whose code between two awaits
is one step (`Loop`, `Resume`, `Yield`), with the callbacks `OnMessage` and `OnAbort` in
between. Redis hands what it takes to who is subscribed then (`Taken`). `taken` and `lost`
are histories of what Redis took and of what was given up with an error in the log.

**Processes** stops one of the two processes: `todo` is what `shutdown()` has still to
await, `fatal` where `handleFatalError` is; both may run, and `taker` says which of them
took the client. `Exit` drops whatever the process holds and notes in `left` whether
work or a stream was among it. Requests, jobs and streams are `busy` and the streams of
Publisher. `InterruptJobs` is `closeJobScope`, which interrupts the worker's jobs where
they are (`cut` remembers it); `daemon` is the fiber that announces a new run after its
request, and perhaps after the shutdown of the publisher. `owed` are the events that were
published when the work was over.

**MemoryStore** has what the scripts compute from the files of one checkout (a `tree`),
as operators: adding, indexing, refreshing, seeding, compacting, merging in a rebase.
An event has the `month` of its date and the `file` it is first written to, which differ
only for a seed whose `--month` and `--date` do: such a seed is a stray (`Strays`). It is
indexed under its file's month (`FirstRow`) until a compaction moves the event and its
row, or a rebase its row alone, to the month of the date (`Rewritten`, `IndexRow`).
**MemorySync** has the checkouts and `origin/main`: a script's writes come one after the
other and may stop after any (`Writes`); `SyncCommit`, `Push`, `PushRejected`, `Rebase`
are the loop of `sync-git.ts`; a rebase that fails is aborted (`RebaseAborted`) or stays
in progress, where every later sync refuses to work (`RebaseStops`). **Runners** has the loops: each command that touches the
lock directory is a step, a cycle opens a checkout, lets an agent work and removes it.

**RateLimit** is the limiter for one client: `Ask` is what happens before Redis is
awaited, `Eval` the script, `Replied` and `RedisFails` the two continuations. **Identity**
is who the client is: `ResolveRateLimitIdentity` as a function of the connection, the
headers and the configuration, with assumptions that TLC evaluates for every combination
of a small alphabet of addresses. **WeatherTool** has both copies of the tool. **Roles** is
the role sync of one user's sign-ins. **Api** maps every error class to what a
procedure throws (`HandleCause`) and that to what its caller is told: `runPromise` and
the interceptor's `runSync` wrap whatever is thrown in a `FiberFailure`, which oRPC sends
as INTERNAL_SERVER_ERROR 500 without data (`ToldOfError`). **Providers** has what the adapters and `withDb` make of failures, **Prompts** the
artifacts and their resolution; these three are operators with assumptions that TLC
evaluates.

**Chat** composes them. `tab` is the state of `ChatPage` and `useChat` in each tab,
`storage` localStorage, `panel` the weather panel, `req` what became of each call. A call
is one of RateLimit's: `Sends` asks, `Handle` makes the context and runs the procedure
once it has passed, `ReplyTo` is what the browser reads. A step of the page includes the
renders and effects it causes (`Renders`), as React batches them. `budget` chooses at
the start what may happen in a behaviour, see section 3.

`MC*.tla` add symmetry and constants for TLC. Operators whose comment begins with
"Faulty variant" are plausible bugs; each property has one that breaks it, which shows
that the property depends on the code being as it is.

## 3. The runs

| Run | Instance | What it shows |
| --- | --- | --- |
| `queue` | 2 callers, 2 rows (one also processed by id), 2 users, 1 key, 1 fault | ClaimedRowsExclusive, ReturnedStatusStands, NeverClaimableAgain |
| `queue_by_id` | same | *violation*: NoDuplicateProcessing (section 7) |
| `queue_keyed` | same | *violation*: KeyedCallsShareOneRow (section 7) |
| `worker` | 2 workers of capacity 1, 2 jobs, reaper at every poll, 1 fault, 2 exits | HandledOnce, AnnouncementAgrees, OverwriteExplained, ImplementsLifecycle |
| `worker_live` | 1 worker, two job types, capacity 1, reaper at every second poll, 1 fault, 1 exit | ActiveIsFibers, WithinCapacity; liveness: StuckJobsSettle, PendingSettles |
| `worker_doc_lifecycle` | 2 workers, 2 jobs, no fault, no exit | *violation*: DocumentedLifecycle (section 7) |
| `create_run` | 3 requests with or without a key, 2 users, 2 prompts, 2 rows, list limit 1 | AnswersBelong, RetriesReuse |
| `runs_page` | 1 row; 2 requests without faults, or 1 request of either of 2 users with 2 faults | OneStoryPerRun, HeardIsShown, CompletedHasResult |
| `runs_page_sync` | 1 request, 1 row, no fault | *violation*: KeptInSync (section 7) |
| `automation` | 2 runners, of two lanes or of one, 5 events (one a seed filed under one month and dated in the other), 2 months, 0 to 2 faults | IndexAgrees, SummaryFresh, OneRunner, SyncPublishes, MemoryOnlyGrows, LockRecoverable |
| `processes` | 2 processes, either is stopped, 2 events, 1 stream, 1 fault | FeedExact, NoLostWakeup, InOrder, CleanExit; liveness: ShutdownEnds, AbortEnds |
| `chat` | 11 setups: up to 2 tabs, 2 users, 3 threads, 3 calls, 2 servers, limit 2, window 3, cap 2, 3 tool runs, 2 sign-ins | LimitHolds, PanelTells, RoleFollows, Kept |

Each run also checks the type invariant of its module, unless another run of the same
module does.

Why these bounds are enough. Two rows are what FIFO order, a capacity of one and the
list limit of one need to bite; no property relates more than two rows. Two callers
or workers are the least for a claim to race a claim, and three requests the least for
two overlapping ones followed by a retry. One fault puts each statement that the module
lets fault (in the queue: the claim and the status writes; in the worker: those, the sweep
and the announcements) once into "effect, but error" and, where that differs from a call that was never made, into "error, no effect",
at every point of every interleaving; the INSERT's reply may always be lost; two
in `runs_page` add a lost event to a dead worker or a broken stream. A stale limit
of zero or one tick lets a sweep happen at any moment after a claim, as the real limit
of an hour does for a handler without a timeout. Two stops or crashes let a worker die,
restart and die again, or both die. The reaper's period is 1 where sweeps should be
frequent and 2 where the count itself matters (`worker_live`). The named bounds are
`MaxStamp`, `MaxFaults`, `MaxExits`, `Jobs`, `Requests` and `Expiring` (the rows that
may leave the idempotency window); nothing else is cut off. The safety properties are
proved for every value of all of them (section 5).

In `automation`, two months let a rebase touch a file that did not conflict beside one that
did, and one identifier in each, an old closed event and a seed are one of every kind the
scripts treat apart. The setups give the faults where they matter: none where two lanes
write, one where a script, a command or a shell may stop, two where a lane is started
twice (a crash, and something else while it is taken over). `BeforeTorn` stops exploring
behind a tree that is torn (a script stopped between two writes and the result was
published), for which the properties say nothing. The seed of
another month's date is made in setups of its own (`SeedsApart`), because seeding and
compacting it in turn could go on for ever: there a checkout with two commits is not
followed further (`FewCommits`). `OneOrFaultless` of `runs_page` likewise keeps two requests
and faults apart; their combinations are what the proofs are for.

In `chat`, the setups are what the users, the clock and the faults do, because the parts
only meet in calls: three calls against a limit of two with a window of three units and
seconds of two, so that windows end between an answer and its use and Retry-After is
rounded; then pages, tabs, the panel, the tool and the sign-ins, each with the calls,
threads and parts of text that two overlapping operations need. Three runs against a cap
of two make one be refused; two sign-ins and groups on two pages let one sync read while
the groups change and another is over. Where the limiter is not what a setup is about
its clock stands still (`ticks`); its limit then refuses the third call.

In `processes`, one fault is a connection that fails or breaks, or a fatal error, at any
point of any interleaving, and two events are what an order needs.

Deadlock is checked in the worker runs and in `automation`. The others may stop: all rows
are used, all requests are answered, and nobody polls.

## 4. Fairness

`worker_live` and `processes` need some. `Fairness` in Worker assumes weak fairness of

- `Start(w)`: a supervisor restarts a worker that went down;
- `Loop(w)`: `Effect.forever` with a fixed poll interval, whose statements return or
  report an error, so the loop goes on in either case;
- `Shutdown(w)` and `Interrupt(j)`: `stop()` runs to its end, `closeJobScope` and the
  drain have timeouts;
- `Tick`: time passes.

It does **not** assume that handlers end: the language model is called without a
timeout. `StuckJobsSettle` holds without that, thanks to the reaper. `PendingSettles`
needs it, because hanging handlers fill the capacity for good, and says so by its
antecedent `HandlersEnd`. Faults and exits are bounded, so "eventually" means after the
last of them. A worker that is restarted for ever before it reaches its sixtieth poll
would never reap; the bound on exits excludes that, as the liveness claim must.

`Spec` of Processes assumes weak fairness of each process's client (a connection is made
or fails, Redis takes what was sent and replies to QUIT), of each stream's generator and
callbacks (the event loop runs what is ready), and of the two shutdown sequences (an
awaited step that is done goes on). It assumes no fairness of `ForceExit`, of aborts, of
requests and jobs, and of signals: `ShutdownEnds` is about a shutdown that needs no
force timer, and says by its antecedent that work and streams are over. One weak
fairness for a sequence is enough since its steps exclude each other. The handler of
fatal errors always comes to its exit: its cleanup races its own timer, so `FatalExit` is
one of the steps that `WF_vars(FatalStep)` is about, and never disabled before the exit.

`automation` and `chat` check safety only. The loops are started by hand and run agents
for hours; a page waits for a model, whose answer nothing bounds (section 7).

## 5. The proofs

The proofs hold for any sets of rows, users, keys, callers, workers, requests, tabs,
threads, agents, events and months and any bounds, under the named assumptions of the
modules: `TableAssumption` (there are a type and a user),
`QueueAssumption`, `WorkerAssumption`, `CreateRunAssumption`, `RunsAssumption`,
`PageAssumption` (null values are distinct from real ones, bounds are naturals, the set of
rows is finite where rows are counted), `LimitAssumption` (finitely many calls, a window
and a second are positive), `CapAssumption`, `RolesAssumption` (there is a page of
groups), `SetupsAssumption`, `NamesAssumption` (there is a user; "none" is no user and no
call), `RunnersAssumption` ("none" and "dead" are no agents), `SyncAssumption` (the events
that main starts with have distinct identifiers, a sync tries at least once) and
`StoreAssumption`: finitely many events, those that are no seeds filed under the month of
their date, and of two events with one identifier the same date's month, file and workflow.
The identifiers that the scripts make begin with the date and name the workflow, and a
seed's names its file. Nothing enforces this for an identifier given by hand: `add-entry`
asks only the file of the month whether an `--id` is taken. Two events of different months
under one `--id` leave the assumption, and the theorems say nothing of them.

| Module | Theorems |
| --- | --- |
| JobTable_proofs | lemmas: what each statement does to a row and leaves alone |
| JobQueue_proofs | TypeCorrect, ClaimsAreExclusive, ReturnsAreFinal, NeverBackToPending |
| Worker_proofs | TypeCorrect, JobsAreHandledOnce, CounterIsExact, CapacityIsKept, AnnouncementsAgree, OverwritesAreExplained, WorkersImplementLifecycle |
| CreateRun_proofs | TypeCorrect, AnswersAreOnesOwn, RetriesAreReused |
| RunsPage_proofs | PageTypeCorrect, StoriesAreOne, EndsHeardAreShown, CompletedRunsHaveResults |
| Chat_proofs | LimiterHolds, RoleHolds, ChatKeepsLimits, ChatKeepsRole, ChatImplementsParts, ChatTyped, PanelIsTold, ThreadsAreKept |
| Processes_proofs | ProcessesTyped, StreamsFeedExactly, NoWakeupIsLost, ZeroMeansClean, EventsComeInOrder |
| Runners_proofs | RunnersTyped, OneRunnerWorks, LockIsRecoverable, IndexStaysRight, SummariesStayFresh, MainOnlyGrows, SyncedIsPublished |

Each rests on an inductive invariant in named parts.

- `IInv` of JobQueue. That two callers never handle one row follows from: a row in
  somebody's hands is not pending (so no claim returns it), and only claims and
  `processJobById` put rows into hands. A returned status stands because the row is in
  nobody's hands any more and a sweep takes only rows in processing.
- `WInv` of Worker. The counter is exact because a fiber is counted where it is forked
  and discounted by `Effect.ensuring`, and because no fiber outlives its scope
  (`ScopeHolds`). The capacity is kept although it is read once per poll because
  `activeJobs + slots` stays under the limit while fibers only end (`CapacityLeft`).
  A job is handled once because a pending row has no fiber (`Untouched`), freshly
  claimed rows are held by one worker (`GotDistinct`) and nothing makes a row pending
  again. Announcements agree with the row because a fiber that waits to announce finds
  in the row what it wrote (`FiberKnowsRow`).
- `WorkersImplementLifecycle` maps every action of Worker to a step of JobLifecycle or
  to a stutter; terminal overwrites are what `Overwrite` is for.
- `RInv` of CreateRun. That a retry finds the run it knows of needs that answered runs
  are present runs of the asker (`AnswersStand`, `KnownBelong`), and a counting argument
  (`LeftOut`): a run that is missing from the `RecentLimit` newest has that many others
  at or after it.
- `PInv` of RunsPage. First the server's part: what a fiber has published tells how far
  it is, and once it is over and the row terminal, the row stays (`WireSound`,
  `RowsSound`, `StoryOrder`). Then what a step leaves to those who follow it: the wire
  only grows, results are never taken away (`RowsGrow`, `WireGrows`). The page, which
  reads a prefix of the wire at its own pace, then keeps `HeardIsShown` by `HeardRead`:
  an end that was heard is on the wire behind it, so nothing the worker published for
  that run is still ahead except `run_queued`, which comes from a daemon.
- `LInv` of RateLimit. A window's count is at least the number of calls it counted that
  were let in, or still may be (`CountsHold`); a call is let in only with a count up to the
  limit, so no window lets more in. That needs windows to be told apart by a number
  (`life`), since a call may learn its count long after its window ended, and `Placed`:
  what a call remembers of its window is what the window had then.
- `CInv` of Chat is the conjunction of the invariants of its parts: `LInv`, `RInv` of the
  role (a sync that has its groups still sees as over what was over when it read them) and
  `TInv` of the tool (the slots are the runs that hold one). Every step of Chat is a
  step of one of these parts or leaves all of them as they are, which is also why Chat
  implements them (`ChatImplementsParts`). No part needs to know of another one.
- `QInv`, `PanelInv` and `TabInv` of Chat are about the pages. `QInv` follows a call: what
  came of it stays, and before the limiter let it pass nothing but a failing network can have
  come of it (`ReqSound`). So what the panel was told of its last call is still true of it
  when the limiter refuses the call later (`ToldStays`). That whatever a procedure throws is
  told as one and the same error without a class is `ToldAsOne`, which rests on the
  `FiberFailure` around it, and what the panel makes of each reply is `Hears`. `TabInv`
  says that a page whose user nobody else saved for shows what the storage holds (`Fresh`),
  that a message belongs to a call that was sent, and that no part of an answer is longer than
  what has come of it (`Short`), wherever in the page's threads it stands by now. With these a
  part of an answer can only lengthen what it replaces (`PageWrites`), selecting or making a
  thread changes no message (`PageShows`), and a page that is opened shows what it loaded;
  each step of a page then saves no less than what was there (`Turns`).
- `LockInv` of Runners is what can be said of the lock whatever happens: the pid file is in
  the directory, and a runner it names is up and has not given the lock back (`PidFile`).
  While no two runners of a lane were changing the lock at once and none was signalled,
  what each runner believes of the lock is so (`Fits`), and a runner that works holds it.
- `MemInv` of Runners follows the workflow memory from checkout to checkout. A tree is `Sound`
  if its events lie in the logs of their months, identifiers are distinct, and, unless a
  script stopped over it, the index agrees with the logs month by month and summaries are
  renderings, strays excepted (`FiledIn`, `Proper`); every script keeps that. A tree `Follows` another if identifiers left its logs
  only for the archive: `main` follows the base of every checkout and what every clone
  fetched. The core is a lemma about one commit, whose files are merged three
  ways with what was pushed meanwhile (`ReplayedKeeps`): if none conflicts, the result is
  sound and follows both sides. The rebased commits are the values of a
  recursive function that `Replays` chooses; that there is one is proved by taking the
  least commit without one, since induction cannot be used here. That a summary counts what
  the index has is a bijection between rows and events by identifier, in the months in which
  no stray is filed. That nothing is lost needs no such exception: whatever an event's date,
  it is in some log or archive of the tree (`Below`).
- `Shut` of Processes. `StreamsSound` says for each stream what it yielded, its queue and
  its inbox make up together; an event moves from one to the next, and associativity of
  concatenation is all there is to it. That a generator does not wait with something to
  do is part of it, because `OnMessage` and `OnAbort` move it out of the wait in the same
  step. `ClientsSound` says that only a client being made is waited for and only an open
  one has something to send. `Suffix` and `Orderly` then follow the sequence of
  `shutdown()`: behind its first step nothing works and publishes any more, and what became of its events is `Accounted`: as long as the process
  runs, every event it published was taken, was given up, or is held by its client; those
  that were published before its work was done (`owed`) are, behind "quit", taken, given up
  or in the client that is being closed, and behind "flushed" that one is gone. This fails
  when the handler of fatal errors has taken the client, which is why `CleanExit` excepts it. `Ordered` is about the order across processes:
  what a process sent and what waits for its connection follow each other as they were
  asked for (`InLine`), everything Redis took comes before them (`Ahead`), and an event
  that another process published changes neither, as no event is published by two.

Only model-checked:

- the liveness properties of `worker_live` and `processes` (fairness and ENABLED are out
  of the prover's reach), and what the violation runs show;
- the assumptions of Api, Identity, Prompts and Providers, which TLC evaluates for the
  alphabets they name.

Every other property of a passing run is stated by a theorem.

## 6. What the models leave out

- A database statement is atomic, and `createdAt` follows the order of commits (ties
  allowed). `FOR UPDATE SKIP LOCKED` then amounts to claims that take turns. A query
  that is in flight when its fiber is interrupted counts as having landed before the
  interruption or not at all.
- Worker: rows are not deleted and carry no keys (both are in JobQueue);
  `processJobById` of the worker runs a handler and writes nothing; the retry schedule
  around the loop is left out because no typed error reaches it; the idle-poll log
  counter is left out. `stop()` interrupts the job fibers before it drains, so the drain
  finds none.
- CreateRun: prompts stand for the normalised pair of prompt and thread by which runs
  are compared; that two different pairs could be joined to the same string is ignored.
  Every statement of a request can fail. The role check passes for each role there is.
- Runs: the payload always decodes, since `createRunUseCase` wrote it.
  `ssePublisher.publish` never fails, so the daemon's retry never happens. The events
  of one process keep their order (one Redis connection); those of different processes
  interleave freely. All users share one wire and skip what is not theirs. `run_started`
  and the progress events before the generation are one event.
- RunsPage: the list is reduced to the status per run; the page sends no key; the effects
  run again when the session becomes known, and what the first ones asked for is
  dropped. After a break nobody subscribes again, as in the code.
- Publisher and Processes: Redis keeps its promises (one connection is FIFO, a subscriber
  gets what is taken after its subscription). A call of `publishSSEEvent` that comes while
  the shutdown waits for the connection goes on before the shutdown does; in the code QUIT
  may come first, and the event is then refused with a line in the log, as if it were
  `lost`. Left out are the in-memory publisher that stands in when there is no Redis, and
  `configureSSEPublisher`, which is called once at the start. Requests and jobs are `busy`,
  in the detail that stopping needs.
- RateLimit: one client's windows; that clients have windows of their own is Identity's.
  Redis' clock and the servers' are one. The connection's own retries come before the
  fallback and change nothing about it.
- Chat: one user's role, which syncs only in the setup about roles. Titles, drafts, the
  markdown and the tool parts of messages are left out, and so is what a model answers.
- MemorySync, Runners: git, `gh` and Codex are external; a file that both sides of a
  rebase changed is taken to conflict, and commits of code may conflict or not.
  A tree that was written half-way and published (`torn`) is not followed further.
  When an event was written (`createdAt`) is not kept, though git tells two versions of a
  file apart by it; for strays that decides which month a row ends up in, so `IndexAgrees`
  leaves them out, and `SummaryFresh` the months in which one is filed. What an agent
  writes while a rebase is in progress reaches no branch and is left out.
- Providers, Prompts, Api: bodies, prompts' texts, audio and usage are left out; what
  matters is which class a failure becomes, and what the caller is told.
- Not modelled: Storage (one file or S3 request per operation, no state of its own),
  guardrails, generators and CLI (sequential text analysis over the files of a checkout),
  the presentation part of the web app, and wiring: routes, CORS, static files,
  environment, telemetry.

## 7. Where code and documentation part

- `docs/patterns/job-queue.md:13` has jobs claimed atomically. `processJobById` reads the
  status in one statement and takes the row with an unconditional UPDATE in the next:
  two calls, or a call and a claim, can run the handler for one row (`queue_by_id`).
- `docs/patterns/job-queue.md:7` draws `pending -> processing -> completed|failed`.
  `updateJobStatus` has no condition on the status: a job that the reaper failed while
  its handler was running becomes completed when the handler ends
  (`worker_doc_lifecycle`). `OverwriteExplained` says that this needs a sweep or a fault.
- `docs/frontend/real-time.md:11` says that the page keeps in sync. A reply to `runs.list`
  that was read before and applied after a run's last event puts an old status over it,
  for good (`runs_page_sync`). `HeardIsShown` says that only a reply or a `run_queued`
  can do that.

- `jobs.ts:62-64` makes the unique index of the idempotency key partial, and
  `repository.ts:131-133` names its columns as the conflict target without the predicate.
  Postgres finds no such index and refuses the statement (42P10): every enqueue with a key
  fails, where `claim-job.integration.test.ts:99` expects the first call's row. A request of
  `runs.create` that brings a key ends in an error unless it finds a recent run to reuse
  (`queue_keyed`; `EnqueueKeyed`, `EnqueueFails`).

Some more were found while modelling that have no run of their own: some contradict the
documentation as the ones above do, some are limits rather than faults.

Chat and its API:

- A thread that was answered cannot be continued: `decodeChatContractMessages` refuses the
  `step-start` parts of the answer, and the contract texts with surrounding blanks.
- Switching threads while an answer streams puts the answer into the other thread; two
  tabs overwrite each other's stored threads. `Kept` says what is kept all the same.
- No class of an error reaches the browser. `handleEffectWithProtocol` throws the contract's
  error inside an Effect, so `runPromise` rejects with a `FiberFailure`
  (`effect-handler.ts:321-343`; `effect-handler.behavior.test.ts:51-62` digs the error out of
  it); the interceptor's `runSync` (`index.ts:80-82`) wraps even oRPC's own errors. All of them
  are sent as INTERNAL_SERVER_ERROR 500 without data, although
  `docs/architecture/ai-sdk-tooling-standard.md:63-64` wants stable `errorTag` values for the
  remediation texts of `weather-tool-panel.tsx:18-43`. `PanelTells` says what the panel tells
  all the same: that, not why, a call failed.
- The panel never shows `cancelled`, which `ai-sdk-tooling-standard.md:38-49` lists among the
  canonical states: `onCancelWeatherTool` sets it, and the catch branch of the call it
  aborted replaces it at once, by `timed_out`, or by `failed` when the body was being read.
  `PanelTells` states this as it is.
- A timeout covers the head of a weather response and not its body: a body that hangs
  keeps its slot.
- A constraint violation (409) is thrown as INTERNAL_ERROR, for want of a code in the contract;
  failures of the research model are thrown as INPUT_VALIDATION_FAILED (`Unmapped`,
  `MappingKeepsKind`: every other class keeps its kind up to there). An error while the context is
  made bypasses the protocol and becomes a plain 500.
- The limiter admits up to twice its limit across the end of a window, or when Redis
  fails half-way through one. Its cleanup may forget a window that a late call opened.
- A failed sync leaves the old role, also that of an administrator; the groups, read page by
  page, may be those of no single moment.

Processes: an event stream that stays open keeps `server.close` waiting, so a server with
an open page stops by its force timer and with code 1; `connected` is yielded before Redis
has the subscription; an event published after the shutdown of the publisher opens a new
connection. Exit code 0 does not mean that the work was finished. The worker interrupts its
jobs, writes no status for them and leaves their rows to the reaper; events that Redis never
got because a connection failed or QUIT was rejected are a line in the log; and what a
request's daemon publishes after the shutdown of the publisher may get lost. `CleanExit`
claims the rest.

Workflow memory:

- `add-entry` writes a `scan` column to the index that `compact-memory` and `sync` drop.
- `sync` pushes to the current branch unless told otherwise, so what a loop's cycle records
  does not reach main by it; commits that were not pushed are not pushed later when
  nothing is staged.
- `compact-memory` truncates the logs before it writes them anew; after a rebase, events
  that were archived can be back in a log.
- A rebase that merges without conflict over a month whose base summary was not the
  rendering of its log, and a compaction that empties a month, leave a summary that does not
  count the rows of the index, so that `scripts:lint` fails on main until the month is
  written again; `SummaryFresh` excepts these months (`composed`).
- `bootstrap-coverage` takes `--month` and `--date` apart, and the date is today's by default.
  A month that is seeded later, or with another date, has events that the next compaction
  moves to the month of the date, with their rows, and the next rebuilt index moves the
  rows alone: index, logs and summaries of these months part (`Strays`, `Strayed`). No event is lost.
- A command that fails in the middle of a rebase leaves it in progress, and every later sync
  of that checkout refuses to start (`RebaseStops`).
- Two runners that meet at a stale lock, and a `TERM` trap that gives the lock back while
  the loop goes on, can make two runners work; `OneRunner` excepts these (`raced`).

## 8. The plan

In the order of importance; all of it is done but the last items.

1. JobTable, JobQueue (`queue`, `queue_by_id`, `queue_keyed`); proofs of exclusiveness and
   finality.
2. Worker, JobLifecycle (`worker`, `worker_live`, `worker_doc_lifecycle`); proofs of the
   counter, the capacity, handling once, the refinement.
3. CreateRun (`create_run`); proofs of AnswersBelong and RetriesReuse.
4. Runs, composed of CreateRun and the handlers.
5. RunsPage, composed of Runs and the page; proofs about what it shows.
6. Publisher and Processes (`processes`); proofs about the streams and exit code 0.
7. RateLimit, WeatherTool, Roles, composed with the pages in Chat (`chat`), and the tables
   of Api, Providers, Prompts, Identity; proofs of the limiter, the tool and the role, and
   that Chat implements them.
8. MemoryStore, MemorySync, Runners (`automation`); proofs of the lock and of the memory
   on main.
9. Proofs about the pages of Chat: the panel and the stored threads.
10. To do: the in-memory publisher; safety lemmas under the liveness properties.

Each composition has one run rather than one per part, to keep the number of runs
manageable.
