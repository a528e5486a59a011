----------------------------- MODULE Publisher -----------------------------
(***************************************************************************)
(* The event publisher with Redis (packages/api/src/server/publisher.ts)   *)
(* and the stream that a page reads (router/events.ts), for one user.      *)
(*                                                                         *)
(* A process publishes over a client that it makes at the first event; the *)
(* calls that come while it connects wait for it.  Redis hands an event to *)
(* the streams that have subscribed when it arrives.  A stream is an async *)
(* generator: a callback fills its queue and wakes it, another one aborts  *)
(* it, and what comes between two awaits of its loop is one step.  Redis   *)
(* and the order in which one connection delivers are external.            *)
(***************************************************************************)
EXTENDS Naturals, Sequences

CONSTANTS
  Processes,   \* that publish
  Events,      \* published once each
  Streams,     \* calls of events.subscribe
  MaxFaults    \* bound on failing and broken connections, and on fatal errors

ASSUME PublisherAssumption == MaxFaults \in Nat

VARIABLES
  client,    \* per process: redisPublisher and redisPublisherConnect
  awaiting,  \* per process: calls of publishSSEEvent that wait for the client
  outbox,    \* per process: what the client has sent and Redis has not taken
  quitting,  \* per process: the same, of a client that is being closed
  asked,     \* history: per process, the events in the order of their calls
  stream,    \* per stream: where its generator is, its queue, is it closed,
             \* has Redis its subscription, what is on the way to it
  got, due,  \* history: per stream, the events it yielded, and those that
             \* Redis took while it was subscribed
  taken,     \* history: the events that Redis took
  lost,      \* history: the events whose publication was given up with an error
  faults

busVars == <<client, awaiting, outbox, quitting, asked, stream, got, due, taken, lost, faults>>

Gone     == [open |-> FALSE, box |-> <<>>]
Spots    == {"idle", "greeted", "connecting", "subscribing", "top", "waiting",
             "woken", "draining", "closing", "closed"}
Stream   == [at : Spots, queue : Seq(Events), isClosed : BOOLEAN,
             subscribed : BOOLEAN, inbox : Seq(Events)]
Listening == {"top", "waiting", "woken", "draining", "closing"}
NoStream == [at |-> "idle", queue |-> <<>>, isClosed |-> FALSE,
             subscribed |-> FALSE, inbox |-> <<>>]

BusTypeOK ==
  /\ client \in [Processes -> {"none", "connecting", "open"}]
  /\ awaiting \in [Processes -> Seq(Events)]
  /\ outbox \in [Processes -> Seq(Events)]
  /\ quitting \in [Processes -> [open : BOOLEAN, box : Seq(Events)]]
  /\ asked \in [Processes -> Seq(Events)]
  /\ stream \in [Streams -> Stream]
  /\ \A s \in Streams : stream[s].subscribed => stream[s].at \in Listening
  /\ got \in [Streams -> Seq(Events)]
  /\ due \in [Streams -> Seq(Events)]
  /\ taken \subseteq Events
  /\ lost \subseteq Events
  /\ faults \in 0..MaxFaults

BusInit ==
  /\ client = [p \in Processes |-> "none"]
  /\ awaiting = [p \in Processes |-> <<>>]
  /\ outbox = [p \in Processes |-> <<>>]
  /\ quitting = [p \in Processes |-> Gone]
  /\ asked = [p \in Processes |-> <<>>]
  /\ stream = [s \in Streams |-> NoStream]
  /\ got = [s \in Streams |-> <<>>]
  /\ due = [s \in Streams |-> <<>>]
  /\ taken = {}
  /\ lost = {}
  /\ faults = 0

Fault == faults < MaxFaults /\ faults' = faults + 1

clientVars == <<client, awaiting, outbox, quitting, asked>>
streamVars == <<stream, got, due>>
fateVars   == <<taken, lost>>

-----------------------------------------------------------------------------
(* publishSSEEvent and ensureRedisPublisher                                *)

Elems(q) == {q[i] : i \in 1..Len(q)}

Published(p) == Elems(asked[p])

\* Faulty variant: who comes while the client connects does not wait for it.
PublishUnawaited(p, e) ==
  /\ asked' = [asked EXCEPT ![p] = Append(@, e)]
  /\ client' = [client EXCEPT ![p] = IF @ = "none" THEN "connecting" ELSE @]
  /\ outbox' = [outbox EXCEPT ![p] = IF client[p] # "none" THEN Append(@, e) ELSE @]
  /\ awaiting' = [awaiting EXCEPT ![p] = IF client[p] # "none" THEN @ ELSE Append(@, e)]
  /\ UNCHANGED <<quitting, streamVars, fateVars, faults>>

Publish(p, e) ==
  /\ asked' = [asked EXCEPT ![p] = Append(@, e)]
  /\ client' = [client EXCEPT ![p] = IF @ = "none" THEN "connecting" ELSE @]
  /\ outbox' = [outbox EXCEPT ![p] = IF client[p] = "open" THEN Append(@, e) ELSE @]
  /\ awaiting' = [awaiting EXCEPT ![p] = IF client[p] = "open" THEN @ ELSE Append(@, e)]
  /\ UNCHANGED <<quitting, streamVars, fateVars, faults>>

\* The callers go on in the order in which they came.
Connected(p) ==
  /\ client[p] = "connecting"
  /\ client' = [client EXCEPT ![p] = "open"]
  /\ outbox' = [outbox EXCEPT ![p] = @ \o awaiting[p]]
  /\ awaiting' = [awaiting EXCEPT ![p] = <<>>]
  /\ UNCHANGED <<quitting, asked, streamVars, fateVars, faults>>

\* Every caller gets the error, and ssePublisher.publish logs it.
ConnectFails(p) ==
  /\ client[p] = "connecting"
  /\ Fault
  /\ client' = [client EXCEPT ![p] = "none"]
  /\ awaiting' = [awaiting EXCEPT ![p] = <<>>]
  /\ lost' = lost \cup Elems(awaiting[p])
  /\ UNCHANGED <<outbox, quitting, asked, streamVars, taken>>

\* The connection breaks: what was on the way is rejected, and logged.  The
\* client stays open, keeps what it has not sent and connects again by itself.
ConnectionLost(p) ==
  /\ client[p] = "open"
  /\ Fault
  /\ \E n \in 0..Len(outbox[p]) :
       /\ outbox' = [outbox EXCEPT ![p] = SubSeq(@, n + 1, Len(@))]
       /\ lost' = lost \cup Elems(SubSeq(outbox[p], 1, n))
  /\ UNCHANGED <<client, awaiting, quitting, asked, streamVars, taken>>

-----------------------------------------------------------------------------
(* Redis                                                                   *)

Spread(e) ==
  /\ stream' = [s \in Streams |-> IF stream[s].subscribed
                                  THEN [stream[s] EXCEPT !.inbox = Append(@, e)]
                                  ELSE stream[s]]
  /\ due' = [s \in Streams |-> IF stream[s].subscribed THEN Append(due[s], e) ELSE due[s]]
  /\ taken' = taken \cup {e}

Taken(p) ==
  /\ outbox[p] # <<>>
  /\ Spread(Head(outbox[p]))
  /\ outbox' = [outbox EXCEPT ![p] = Tail(@)]
  /\ UNCHANGED <<client, awaiting, quitting, asked, got, lost, faults>>

TakenLast(p) ==
  /\ quitting[p].box # <<>>
  /\ Spread(Head(quitting[p].box))
  /\ quitting' = [quitting EXCEPT ![p].box = Tail(@)]
  /\ UNCHANGED <<client, awaiting, outbox, asked, got, lost, faults>>

-----------------------------------------------------------------------------
(* shutdownSSEPublisher: wait for the client, take it, and quit, which ends *)
(* when Redis has taken what was sent before.                               *)

\* Faulty variant: it waits for a client that nobody has asked for.
MayQuitOpen(p) == client[p] = "open"

MayQuit(p) == client[p] # "connecting"

Quit(p) ==
  /\ MayQuit(p)
  /\ IF client[p] = "open"
     THEN /\ quitting' = [quitting EXCEPT ![p] =
                            [open |-> TRUE, box |-> quitting[p].box \o outbox[p]]]
          /\ outbox' = [outbox EXCEPT ![p] = <<>>]
          /\ client' = [client EXCEPT ![p] = "none"]
     ELSE UNCHANGED <<quitting, outbox, client>>
  /\ UNCHANGED <<awaiting, asked, streamVars, fateVars, faults>>

\* The reply to QUIT.
QuitDone(p) ==
  /\ quitting[p].open
  /\ quitting[p].box = <<>>
  /\ quitting' = [quitting EXCEPT ![p] = Gone]
  /\ UNCHANGED <<client, awaiting, outbox, asked, streamVars, fateVars, faults>>

\* closeRedisClient: QUIT is rejected and the client disconnected, which rejects
\* what it had not handed over; nobody is told but the log.
QuitFails(p) ==
  /\ quitting[p].open
  /\ Fault
  /\ quitting' = [quitting EXCEPT ![p] = Gone]
  /\ lost' = lost \cup Elems(quitting[p].box)
  /\ UNCHANGED <<client, awaiting, outbox, asked, streamVars, taken>>

-----------------------------------------------------------------------------
(* events.subscribe and subscribeViaRedis                                  *)

At(s, spot)       == stream[s].at = spot
Set(s, value)     == stream' = [stream EXCEPT ![s] = value]
OnlyStream        == UNCHANGED <<clientVars, got, due, fateVars, faults>>
Moved(s, spot)    == [stream[s] EXCEPT !.at = spot]

\* `connected` is yielded before the subscription is asked for.
Greet(s)      == At(s, "idle") /\ Set(s, Moved(s, "greeted")) /\ OnlyStream

Begin(s) ==
  /\ At(s, "greeted")
  /\ Set(s, Moved(s, IF stream[s].isClosed THEN "closing" ELSE "connecting"))
  /\ OnlyStream

SubscriberConnected(s) ==
  At(s, "connecting") /\ Set(s, Moved(s, "subscribing")) /\ OnlyStream

Subscribed(s) ==
  /\ At(s, "subscribing")
  /\ Set(s, [Moved(s, "top") EXCEPT !.subscribed = TRUE])
  /\ OnlyStream

\* The generator throws; its finally block runs.
SubscriberFails(s) ==
  /\ At(s, "connecting") \/ At(s, "subscribing")
  /\ Fault
  /\ Set(s, Moved(s, "closing"))
  /\ UNCHANGED <<clientVars, got, due, fateVars>>

Loop(s) ==
  /\ At(s, "top")
  /\ Set(s, Moved(s, IF stream[s].isClosed THEN "closing"
                     ELSE IF stream[s].queue = <<>> THEN "waiting" ELSE "draining"))
  /\ OnlyStream

\* wake: only a generator that waits is woken.
Woken(s) == IF At(s, "waiting") THEN "woken" ELSE stream[s].at

\* Faulty variant: wake is called before the event is in the queue, so that only
\* the next one wakes.
OnMessageLate(s) ==
  /\ stream[s].inbox # <<>>
  /\ Set(s, [stream[s] EXCEPT !.at = IF stream[s].queue = <<>> THEN @ ELSE Woken(s),
                              !.queue = Append(@, Head(stream[s].inbox)),
                              !.inbox = Tail(@)])
  /\ OnlyStream

OnMessage(s) ==
  /\ stream[s].inbox # <<>>
  /\ Set(s, [stream[s] EXCEPT !.at = Woken(s),
                              !.queue = Append(@, Head(stream[s].inbox)),
                              !.inbox = Tail(@)])
  /\ OnlyStream

\* Faulty variant: the abort does not wake the generator.
OnAbortUnwoken(s) ==
  /\ stream[s].at \notin {"idle", "closing", "closed"}
  /\ ~stream[s].isClosed
  /\ Set(s, [stream[s] EXCEPT !.isClosed = TRUE])
  /\ OnlyStream

\* The page is gone or the request was cancelled.
OnAbort(s) ==
  /\ stream[s].at \notin {"idle", "closing", "closed"}
  /\ ~stream[s].isClosed
  /\ Set(s, [stream[s] EXCEPT !.at = Woken(s), !.isClosed = TRUE])
  /\ OnlyStream

Resume(s) ==
  /\ At(s, "woken")
  /\ Set(s, Moved(s, IF stream[s].isClosed THEN "closing" ELSE "draining"))
  /\ OnlyStream

\* Faulty variant: the newest event first.
YieldNewest(s) ==
  LET q == stream[s].queue IN
  /\ At(s, "draining")
  /\ q # <<>>
  /\ got' = [got EXCEPT ![s] = Append(@, q[Len(q)])]
  /\ Set(s, [stream[s] EXCEPT !.queue = SubSeq(q, 1, Len(q) - 1)])
  /\ UNCHANGED <<clientVars, due, fateVars, faults>>

Yield(s) ==
  LET q == stream[s].queue IN
  /\ At(s, "draining")
  /\ q # <<>>
  /\ got' = [got EXCEPT ![s] = Append(@, Head(q))]
  /\ Set(s, [stream[s] EXCEPT !.queue = Tail(q)])
  /\ UNCHANGED <<clientVars, due, fateVars, faults>>

Drained(s) ==
  /\ At(s, "draining")
  /\ stream[s].queue = <<>>
  /\ Set(s, Moved(s, "top"))
  /\ OnlyStream

\* The consumer asks for nothing more after it took an event.
Return(s) ==
  /\ stream[s].isClosed
  /\ At(s, "draining") \/ At(s, "greeted")
  /\ Set(s, Moved(s, "closing"))
  /\ OnlyStream

\* Faulty variant: the subscription is kept.
FinallyKept(s) ==
  /\ At(s, "closing")
  /\ Set(s, Moved(s, "closed"))
  /\ OnlyStream

\* The finally block: no error keeps the client from being closed.
Finally(s) ==
  /\ At(s, "closing")
  /\ Set(s, [NoStream EXCEPT !.at = "closed", !.isClosed = stream[s].isClosed])
  /\ OnlyStream

StreamStep(s) ==
  \/ Begin(s) \/ SubscriberConnected(s) \/ Subscribed(s) \/ Loop(s) \/ OnMessage(s)
  \/ Resume(s) \/ Yield(s) \/ Drained(s) \/ Return(s) \/ Finally(s)

ClientStep(p) == Connected(p) \/ Taken(p) \/ TakenLast(p) \/ QuitDone(p)
=============================================================================
