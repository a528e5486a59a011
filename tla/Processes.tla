----------------------------- MODULE Processes -----------------------------
(***************************************************************************)
(* The server and the worker as processes (apps/server/src/server.ts,      *)
(* apps/worker/src/worker.ts, fatal-error-handler.ts) on top of the        *)
(* publisher they share the code of: a signal starts a sequence of awaited *)
(* steps with a timer beside it, and an error that nobody caught starts a  *)
(* shorter sequence with a timer of its own; both may run.  Only one of    *)
(* the two processes is stopped.                                           *)
(***************************************************************************)
EXTENDS Publisher

CONSTANTS Server, Worker

ASSUME ProcessAssumption == Processes = {Server, Worker} /\ Server # Worker

VARIABLES
  target,    \* the process that is stopped, constant
  busy,      \* of target: is a request or a job at work
  daemon,    \* of target: has a request left a fiber that has still to publish
  stopping,  \* of target: isShuttingDown
  todo,      \* of target: what shutdown() has still to await
  fatal,     \* of target: where handleFatalError is
  taker,     \* of target: which of the two took the client and waits for it
  exit,      \* of target: its exit code
  owed,      \* history: the target's events when its work was done
  cut,       \* history: have jobs been interrupted
  left       \* history: was work or a stream left when the target exited

procVars == <<target, busy, daemon, stopping, todo, fatal, taker, exit, owed, cut, left>>
vars == <<busVars, procVars>>

\* What shutdown() awaits, one after the other.  "quit" is the beginning of
\* shutdownSSEPublisher and "flushed" its end.
ServerSteps == <<"work", "quit", "flushed", "limiters", "runtime", "database", "telemetry">>
WorkerSteps == <<"work", "runtime", "database", "quit", "flushed", "telemetry">>

Awaits(step) == stopping /\ exit = "none" /\ todo # <<>> /\ Head(todo) = step
Done        == todo' = Tail(todo)
Accepts(p)  == p = target => exit = "none" /\ ~stopping
NoStreams   == \A s \in Streams : stream[s].at \in {"idle", "closed"}

ProcTypeOK ==
  /\ target \in Processes
  /\ busy \in BOOLEAN
  /\ stopping \in BOOLEAN
  /\ todo \in Seq({ServerSteps[i] : i \in 1..Len(ServerSteps)})
  /\ fatal \in {"none", "quit", "flushed", "rest"}
  /\ taker \in {"none", "shutdown", "fatal"}
  /\ exit \in {"none", "0", "1"}
  /\ daemon \in BOOLEAN
  /\ owed \subseteq Events
  /\ cut \in BOOLEAN
  /\ left \in BOOLEAN

Init ==
  /\ BusInit
  /\ target \in Processes
  /\ busy = FALSE
  /\ stopping = FALSE
  /\ todo = <<>>
  /\ fatal = "none"
  /\ taker = "none"
  /\ exit = "none"
  /\ daemon = FALSE
  /\ owed = {}
  /\ cut = FALSE
  /\ left = FALSE

-----------------------------------------------------------------------------
(* Requests and jobs, which publish events without waiting for them; the   *)
(* other process always has some.  A request that creates a run forks a    *)
(* daemon to publish, which outlives the request and the runtime.          *)

BeginWork ==
  /\ Accepts(target)
  /\ ~busy
  /\ busy' = TRUE
  /\ UNCHANGED <<busVars, target, daemon, stopping, todo, fatal, taker, exit, owed, cut, left>>

EndWork ==
  /\ busy
  /\ busy' = FALSE
  /\ UNCHANGED <<busVars, target, daemon, stopping, todo, fatal, taker, exit, owed, cut, left>>

ForkDaemon ==
  /\ target = Server
  /\ busy
  /\ daemon' = TRUE
  /\ UNCHANGED <<busVars, target, busy, stopping, todo, fatal, taker, exit, owed, cut, left>>

New(e) == \A q \in Processes : e \notin Published(q)

Announce(p, e) ==
  /\ p = target => busy
  /\ New(e)
  /\ Publish(p, e)
  /\ UNCHANGED procVars

\* Even while shutdown() goes on, or after it has shut the publisher down.
DaemonPublishes(e) ==
  /\ daemon
  /\ New(e)
  /\ Publish(target, e)
  /\ daemon' = FALSE
  /\ UNCHANGED <<target, busy, stopping, todo, fatal, taker, exit, owed, cut, left>>

OpenStream(s) == Accepts(Server) /\ Greet(s) /\ UNCHANGED procVars

-----------------------------------------------------------------------------
(* exit: whatever the process still holds is gone                          *)

Exit(code) ==
  /\ exit = "none"
  /\ exit' = code
  /\ left' = (busy \/ (target = Server /\ ~NoStreams))
  /\ busy' = FALSE
  /\ daemon' = FALSE
  /\ client' = [client EXCEPT ![target] = "none"]
  /\ awaiting' = [awaiting EXCEPT ![target] = <<>>]
  /\ outbox' = [outbox EXCEPT ![target] = <<>>]
  /\ quitting' = [quitting EXCEPT ![target] = Gone]
  /\ stream' = IF target = Server
               THEN [s \in Streams |-> [NoStream EXCEPT !.at = "closed"]]
               ELSE stream
  /\ UNCHANGED <<asked, got, due, fateVars, target, stopping, todo, fatal, taker, owed, cut>>

-----------------------------------------------------------------------------
(* shutdown()                                                              *)

StepsOf(p) == IF p = Server THEN ServerSteps ELSE WorkerSteps

\* A second signal finds isShuttingDown set.
Signal ==
  /\ exit = "none"
  /\ ~stopping
  /\ stopping' = TRUE
  /\ todo' = StepsOf(target)
  /\ UNCHANGED <<busVars, target, busy, daemon, fatal, taker, exit, owed, cut, left>>

\* worker.stop does not wait for the jobs: it closes their scope, which
\* interrupts them wherever they are, and nothing is written for them.
InterruptJobs ==
  /\ Awaits("work")
  /\ target = Worker
  /\ busy
  /\ busy' = FALSE
  /\ cut' = TRUE
  /\ UNCHANGED <<busVars, target, daemon, stopping, todo, fatal, taker, exit, owed, left>>

\* server.close waits for every response, a stream that stays open included.
WorkDone ==
  /\ Awaits("work")
  /\ ~busy
  /\ target = Server => NoStreams
  /\ owed' = Published(target)
  /\ Done
  /\ UNCHANGED <<busVars, target, busy, daemon, stopping, fatal, taker, exit, cut, left>>

CallQuit ==
  /\ Awaits("quit")
  /\ Quit(target)
  /\ taker' = IF client[target] = "open" THEN "shutdown" ELSE taker
  /\ Done
  /\ UNCHANGED <<target, busy, daemon, stopping, fatal, exit, owed, cut, left>>

\* Faulty variant: nobody waits for the end of QUIT.
FlushedUnawaited(who) == TRUE

\* Who found no client does not wait for the one that the other took.
Flushed(who) == taker = who => ~quitting[target].open

QuitReturns ==
  /\ Awaits("flushed")
  /\ Flushed("shutdown")
  /\ Done
  /\ UNCHANGED <<busVars, target, busy, daemon, stopping, fatal, taker, exit, owed, cut, left>>

Closes == Awaits("limiters") \/ Awaits("runtime") \/ Awaits("database") \/ Awaits("telemetry")

CloseResource ==
  /\ Closes
  /\ Done
  /\ UNCHANGED <<busVars, target, busy, daemon, stopping, fatal, taker, exit, owed, cut, left>>

\* An error skips the steps that are left; so does one that the disconnect after
\* a rejected QUIT throws.
CloseFails ==
  /\ Closes \/ (Awaits("flushed") /\ ~Flushed("shutdown"))
  /\ Fault
  /\ Exit("1")

Finish == stopping /\ todo = <<>> /\ Exit("0") /\ UNCHANGED faults

\* forceTimer
ForceExit == stopping /\ Exit("1") /\ UNCHANGED faults

-----------------------------------------------------------------------------
(* handleFatalError                                                        *)

FatalError ==
  /\ exit = "none"
  /\ fatal = "none"
  /\ Fault
  /\ fatal' = "quit"
  /\ UNCHANGED <<clientVars, streamVars, fateVars, target, busy, daemon, stopping, todo, taker,
                 exit, owed, cut, left>>

FatalQuit ==
  /\ exit = "none"
  /\ fatal = "quit"
  /\ Quit(target)
  /\ taker' = IF client[target] = "open" THEN "fatal" ELSE taker
  /\ fatal' = "flushed"
  /\ UNCHANGED <<target, busy, daemon, stopping, todo, exit, owed, cut, left>>

FatalFlushed ==
  /\ exit = "none"
  /\ fatal = "flushed"
  /\ Flushed("fatal")
  /\ fatal' = "rest"
  /\ UNCHANGED <<busVars, target, busy, daemon, stopping, todo, taker, exit, owed, cut, left>>

\* The cleanup is done, or failed, or took longer than its timer.
FatalExit == fatal # "none" /\ Exit("1") /\ UNCHANGED faults

-----------------------------------------------------------------------------
ShutdownStep == InterruptJobs \/ WorkDone \/ CallQuit \/ QuitReturns \/ CloseResource \/ Finish
FatalStep    == FatalQuit \/ FatalFlushed \/ FatalExit

Next ==
  \/ BeginWork \/ EndWork \/ ForkDaemon
  \/ \E e \in Events : DaemonPublishes(e)
  \/ \E p \in Processes : \/ \E e \in Events : Announce(p, e)
                          \/ ClientStep(p) /\ UNCHANGED procVars
                          \/ (ConnectFails(p) \/ ConnectionLost(p) \/ QuitFails(p))
                               /\ UNCHANGED procVars
  \/ \E s \in Streams : \/ OpenStream(s)
                        \/ StreamStep(s) /\ UNCHANGED procVars
                        \/ (OnAbort(s) \/ SubscriberFails(s)) /\ UNCHANGED procVars
  \/ Signal \/ ShutdownStep \/ CloseFails \/ ForceExit
  \/ FatalError \/ FatalStep

\* Redis answers, callbacks are called and an awaited step that is done goes on;
\* the force timer is not needed.
Spec ==
  /\ Init /\ [][Next]_vars
  /\ \A p \in Processes : WF_vars(ClientStep(p) /\ UNCHANGED procVars)
  /\ \A s \in Streams : WF_vars(StreamStep(s) /\ UNCHANGED procVars)
  /\ WF_vars(ShutdownStep)
  /\ WF_vars(FatalStep)

-----------------------------------------------------------------------------
TypeOK == BusTypeOK /\ ProcTypeOK

\* While its page listens, a stream has yielded, in the order in which Redis took
\* them and each once, the events since its subscription that are not in its
\* queue or on the way to it; none is dropped at a wake-up or an await.
FeedExact ==
  \A s \in Streams : stream[s].at \notin {"closing", "closed"} =>
    due[s] = got[s] \o stream[s].queue \o stream[s].inbox

\* A generator that waits has nothing to do: an event or an abort that comes
\* between its look at the queue and its wait is not lost.
NoLostWakeup ==
  \A s \in Streams : stream[s].at = "waiting" => stream[s].queue = <<>> /\ ~stream[s].isClosed

\* The events of one process reach a stream in the order in which they were
\* published, those included that had to wait for the connection; unless the
\* process went on after its publisher was shut down.
Before(q, d, e) == \E i, j \in 1..Len(q) : i < j /\ q[i] = d /\ q[j] = e

InOrder ==
  \A p \in Processes, s \in Streams : \A d, e \in Published(p) :
    (p = target => taker = "none") /\ Before(due[s], d, e) => Before(asked[p], d, e)

\* What exit code 0 means, unless a fatal error was handled at the same time: no
\* request and no stream was cut off, and of the jobs only those that the worker
\* itself interrupted; and every event that was published before the work was
\* done reached Redis, or was given up with an error in the log.  It says
\* nothing of what a daemon published later.
CleanExit ==
  exit = "0" /\ fatal = "none" =>
    /\ ~left
    /\ target = Server => ~cut
    /\ owed \subseteq taken \cup lost

\* Once the server has no request and no stream left, and the worker in any case,
\* the shutdown comes to its end without the force timer, whichever of shutdown()
\* and the handler of fatal errors took the publisher.
Quiet == target = Server => ~busy /\ NoStreams
ShutdownEnds == <>[](stopping /\ Quiet) => <>(exit # "none")

\* A stream whose request was aborted gives its subscriber back.
AbortEnds == \A s \in Streams : stream[s].isClosed ~> stream[s].at = "closed"
=============================================================================
