-------------------------- MODULE Processes_proofs --------------------------
(***************************************************************************)
(* What Processes keeps for any number of events and streams and any       *)
(* number of faults: a stream yields what Redis took, in that order and    *)
(* each once; a generator that waits has nothing to do; the events of one  *)
(* process come in order; and what exit code 0 says of the work and the    *)
(* events of the process.                                                  *)
(***************************************************************************)
EXTENDS Processes, SequenceTheorems, TLAPS

-----------------------------------------------------------------------------
(* Sequences: an event moves from one part of a stream to the next         *)

LEMMA Arrives ==
  ASSUME NEW g \in Seq(Events), NEW q \in Seq(Events), NEW i \in Seq(Events), NEW e \in Events
  PROVE  Append(g \o q \o i, e) = g \o q \o Append(i, e)
<1> DEFINE x == g \o q
<1>1. x \in Seq(Events) /\ <<e>> \in Seq(Events)
  OBVIOUS
<1> HIDE DEF x
<1>2. x \o i \in Seq(Events)
  BY <1>1
<1>3. Append(x \o i, e) = (x \o i) \o <<e>> /\ Append(i, e) = i \o <<e>>
  BY <1>2, AppendIsConcat
<1>4. (x \o i) \o <<e>> = x \o (i \o <<e>>)
  BY <1>1, ConcatAssociative
<1>. QED
  BY <1>3, <1>4 DEF x

LEMMA Queued ==
  ASSUME NEW g \in Seq(Events), NEW q \in Seq(Events), NEW i \in Seq(Events), i # <<>>
  PROVE  /\ g \o q \o i = g \o Append(q, Head(i)) \o Tail(i)
         /\ Append(q, Head(i)) \in Seq(Events) /\ Tail(i) \in Seq(Events)
  OBVIOUS

LEMMA Yielded ==
  ASSUME NEW g \in Seq(Events), NEW q \in Seq(Events), NEW i \in Seq(Events), q # <<>>
  PROVE  /\ g \o q \o i = Append(g, Head(q)) \o Tail(q) \o i
         /\ Append(g, Head(q)) \in Seq(Events) /\ Tail(q) \in Seq(Events)
  OBVIOUS

-----------------------------------------------------------------------------
(* A stream                                                                *)

\* One stream, what it yielded and what it was due.
Sound(r, g, d) ==
  /\ r.subscribed => r.at \in Listening
  /\ r.at \notin {"closing", "closed"} => d = g \o r.queue \o r.inbox
  /\ r.at = "waiting" => r.queue = <<>> /\ ~r.isClosed

StreamsSound ==
  /\ stream \in [Streams -> Stream]
  /\ got \in [Streams -> Seq(Events)]
  /\ due \in [Streams -> Seq(Events)]
  /\ \A s \in Streams : Sound(stream[s], got[s], due[s])

\* Only stream s takes a step.
LEMMA OneStream ==
  ASSUME StreamsSound, NEW s \in Streams, NEW r \in Stream, NEW g \in Seq(Events),
         stream' = [stream EXCEPT ![s] = r], got' = [got EXCEPT ![s] = g], UNCHANGED due,
         Sound(r, g, due[s])
  PROVE  StreamsSound'
<1>1. /\ stream' \in [Streams -> Stream] /\ stream'[s] = r
      /\ got' \in [Streams -> Seq(Events)] /\ got'[s] = g
      /\ \A t \in Streams : t # s => stream'[t] = stream[t] /\ got'[t] = got[t]
  BY DEF StreamsSound
<1>2. \A t \in Streams : Sound(stream'[t], got'[t], due'[t])
  BY <1>1 DEF StreamsSound
<1>. QED
  BY <1>1, <1>2 DEF StreamsSound, Sound

\* It only goes to another spot.
LEMMA SpotMoves ==
  ASSUME StreamsSound, NEW s \in Streams, NEW spot \in Spots, Set(s, Moved(s, spot)),
         UNCHANGED <<got, due>>,
         stream[s].subscribed => spot \in Listening,
         stream[s].at \notin {"closing", "closed"} \/ spot \in {"closing", "closed"},
         spot = "waiting" => stream[s].queue = <<>> /\ ~stream[s].isClosed
  PROVE  StreamsSound'
<1> DEFINE o == stream[s]
           r == [o EXCEPT !.at = spot]
<1>1. o \in Stream /\ got[s] \in Seq(Events) /\ Sound(o, got[s], due[s])
  BY DEF StreamsSound
<1>2. r \in Stream
  BY <1>1, Zenon DEF Stream
<1>3. r.at = spot
  BY <1>1, Zenon DEF Stream
<1>4. r.queue = o.queue
  BY <1>1, Zenon DEF Stream
<1>5. r.inbox = o.inbox
  BY <1>1, Zenon DEF Stream
<1>6. r.isClosed = o.isClosed
  BY <1>1, Zenon DEF Stream
<1>7. r.subscribed = o.subscribed
  BY <1>1, Zenon DEF Stream
<1>8. stream' = [stream EXCEPT ![s] = r] /\ got' = [got EXCEPT ![s] = got[s]]
  BY DEF Set, Moved, StreamsSound
<1> HIDE DEF r
<1>9. Sound(r, got[s], due[s])
  BY <1>1, <1>3, <1>4, <1>5, <1>6, <1>7, Zenon DEF Sound
<1> HIDE DEF o
<1>. QED
  BY <1>1, <1>2, <1>8, <1>9, OneStream

LEMMA SpotSteps ==
  ASSUME StreamsSound, NEW s \in Streams,
         \/ Greet(s) \/ Begin(s) \/ SubscriberConnected(s) \/ SubscriberFails(s)
         \/ Loop(s) \/ Resume(s) \/ Drained(s) \/ Return(s)
  PROVE  StreamsSound'
<1>1. stream[s] \in Stream /\ Sound(stream[s], got[s], due[s])
  BY DEF StreamsSound
<1>2. \A spot \in Spots : /\ Set(s, Moved(s, spot)) /\ UNCHANGED <<got, due>>
                          /\ stream[s].subscribed => spot \in Listening
                          /\ stream[s].at \notin {"closing", "closed"}
                          /\ spot = "waiting" => stream[s].queue = <<>> /\ ~stream[s].isClosed
                          => StreamsSound'
  BY SpotMoves
<1>3. stream[s].subscribed => stream[s].at \in Listening
  BY <1>1 DEF Sound
<1>4. CASE Greet(s)
  BY <1>2, <1>3, <1>4 DEF Greet, At, OnlyStream, Spots, Listening
<1>5. CASE Begin(s)
  BY <1>2, <1>3, <1>5 DEF Begin, At, OnlyStream, Spots, Listening
<1>6. CASE SubscriberConnected(s)
  BY <1>2, <1>3, <1>6 DEF SubscriberConnected, At, OnlyStream, Spots, Listening
<1>7. CASE SubscriberFails(s)
  BY <1>2, <1>3, <1>7 DEF SubscriberFails, At, Spots, Listening
<1>8. CASE Loop(s)
  <2> DEFINE spot == IF stream[s].isClosed THEN "closing"
                     ELSE IF stream[s].queue = <<>> THEN "waiting" ELSE "draining"
  <2>1. At(s, "top") /\ Set(s, Moved(s, spot)) /\ UNCHANGED <<got, due>>
    BY <1>8 DEF Loop, OnlyStream
  <2>2. stream[s].isClosed \in BOOLEAN
    BY <1>1, Zenon DEF Stream
  <2>3. spot \in {"closing", "waiting", "draining"}
    OBVIOUS
  <2>4. spot = "waiting" => stream[s].queue = <<>> /\ ~stream[s].isClosed
    BY <2>2
  <2> HIDE DEF spot
  <2>. QED
    BY <1>2, <2>1, <2>3, <2>4 DEF At, Spots, Listening
<1>9. CASE Resume(s)
  BY <1>2, <1>9 DEF Resume, At, OnlyStream, Spots, Listening
<1>10. CASE Drained(s)
  BY <1>2, <1>10 DEF Drained, At, OnlyStream, Spots, Listening
<1>11. CASE Return(s)
  BY <1>2, <1>11 DEF Return, At, OnlyStream, Spots, Listening
<1>. QED
  BY <1>4, <1>5, <1>6, <1>7, <1>8, <1>9, <1>10, <1>11

\* The callbacks, the yields and the ends.
LEMMA SubscribedKeeps ==
  ASSUME StreamsSound, NEW s \in Streams, Subscribed(s)
  PROVE  StreamsSound'
<1> DEFINE o == stream[s]
           m == [o EXCEPT !.at = "top"]
           r == [m EXCEPT !.subscribed = TRUE]
<1>1. o \in Stream /\ got[s] \in Seq(Events) /\ Sound(o, got[s], due[s]) /\ o.at = "subscribing"
  BY DEF StreamsSound, Subscribed, At
<1>2. "top" \in Spots
  BY DEF Spots
<1>3. m \in Stream
  BY <1>1, <1>2, Zenon DEF Stream
<1>4. r \in Stream
  BY <1>3, Zenon DEF Stream
<1>5. r.at = "top"
  BY <1>1, Zenon DEF Stream
<1>6. r.queue = o.queue
  BY <1>1, Zenon DEF Stream
<1>7. r.inbox = o.inbox
  BY <1>1, Zenon DEF Stream
<1>8. stream' = [stream EXCEPT ![s] = r] /\ got' = [got EXCEPT ![s] = got[s]] /\ UNCHANGED due
  BY DEF Subscribed, Set, Moved, StreamsSound, OnlyStream
<1> HIDE DEF m, r
<1>9. o.at \notin {"closing", "closed"} /\ "top" \in Listening
  BY <1>1 DEF Listening
<1>10. Sound(r, got[s], due[s])
  BY <1>1, <1>5, <1>6, <1>7, <1>9 DEF Sound
<1> HIDE DEF o
<1>. QED
  BY <1>1, <1>4, <1>8, <1>10, OneStream

LEMMA WokenAt ==
  ASSUME NEW s \in Streams, stream[s] \in Stream, Sound(stream[s], got[s], due[s])
  PROVE  /\ Woken(s) \in Spots /\ Woken(s) # "waiting"
         /\ stream[s].subscribed => Woken(s) \in Listening
         /\ Woken(s) \in {"closing", "closed"} <=> stream[s].at \in {"closing", "closed"}
  BY DEF Woken, At, Sound, Listening, Spots, Stream

LEMMA OnMessageKeeps ==
  ASSUME StreamsSound, NEW s \in Streams, OnMessage(s)
  PROVE  StreamsSound'
<1> DEFINE o == stream[s]
           q == Append(o.queue, Head(o.inbox))
           m == [[o EXCEPT !.at = Woken(s)] EXCEPT !.queue = q]
           r == [m EXCEPT !.inbox = Tail(o.inbox)]
<1>1. /\ o \in Stream /\ got[s] \in Seq(Events) /\ Sound(o, got[s], due[s])
      /\ o.inbox # <<>>
  BY DEF StreamsSound, OnMessage
<1>2. o.queue \in Seq(Events) /\ o.inbox \in Seq(Events)
  BY <1>1 DEF Stream
<1>3. q \in Seq(Events) /\ Tail(o.inbox) \in Seq(Events)
      /\ got[s] \o o.queue \o o.inbox = got[s] \o q \o Tail(o.inbox)
  BY <1>1, <1>2, Queued
<1>4. /\ Woken(s) \in Spots /\ Woken(s) # "waiting"
      /\ o.subscribed => Woken(s) \in Listening
      /\ Woken(s) \in {"closing", "closed"} <=> o.at \in {"closing", "closed"}
  BY <1>1, WokenAt
<1>5. stream' = [stream EXCEPT ![s] = r] /\ got' = [got EXCEPT ![s] = got[s]] /\ UNCHANGED due
  BY DEF OnMessage, Set, StreamsSound, OnlyStream
<1> HIDE DEF q
<1>6. m \in Stream
  <2>1. [o EXCEPT !.at = Woken(s)] \in Stream
    BY <1>1, <1>4, Zenon DEF Stream
  <2>. QED
    BY <1>3, <2>1, Zenon DEF Stream
<1>7. r \in Stream
  BY <1>3, <1>6, Zenon DEF Stream
<1>8. r.at = Woken(s)
  BY <1>1, Zenon DEF Stream
<1>9. r.queue = q
  BY <1>1, Zenon DEF Stream
<1>10. r.inbox = Tail(o.inbox)
  BY <1>1, Zenon DEF Stream
<1>11. r.subscribed = o.subscribed
  BY <1>1, Zenon DEF Stream
<1> HIDE DEF m, r
<1>12. Sound(r, got[s], due[s])
  <2>1. r.subscribed => r.at \in Listening
    BY <1>4, <1>8, <1>11, Zenon
  <2>. QED
    BY <1>1, <1>3, <1>4, <1>8, <1>9, <1>10, <2>1 DEF Sound
<1> HIDE DEF o
<1>. QED
  BY <1>1, <1>5, <1>7, <1>12, OneStream

LEMMA OnAbortKeeps ==
  ASSUME StreamsSound, NEW s \in Streams, OnAbort(s)
  PROVE  StreamsSound'
<1> DEFINE o == stream[s]
           m == [o EXCEPT !.at = Woken(s)]
           r == [m EXCEPT !.isClosed = TRUE]
<1>1. o \in Stream /\ got[s] \in Seq(Events) /\ Sound(o, got[s], due[s])
  BY DEF StreamsSound
<1>2. /\ Woken(s) \in Spots /\ Woken(s) # "waiting"
      /\ o.subscribed => Woken(s) \in Listening
      /\ Woken(s) \in {"closing", "closed"} <=> o.at \in {"closing", "closed"}
  BY <1>1, WokenAt
<1>3. stream' = [stream EXCEPT ![s] = r] /\ got' = [got EXCEPT ![s] = got[s]] /\ UNCHANGED due
  BY DEF OnAbort, Set, StreamsSound, OnlyStream
<1>4. m \in Stream
  BY <1>1, <1>2, Zenon DEF Stream
<1>5. r \in Stream
  BY <1>4, Zenon DEF Stream
<1>6. r.at = Woken(s)
  BY <1>1, Zenon DEF Stream
<1>7. r.queue = o.queue
  BY <1>1, Zenon DEF Stream
<1>8. r.inbox = o.inbox
  BY <1>1, Zenon DEF Stream
<1>9. r.subscribed = o.subscribed
  BY <1>1, Zenon DEF Stream
<1> HIDE DEF m, r
<1>10. Sound(r, got[s], due[s])
  <2>1. r.subscribed => r.at \in Listening
    BY <1>2, <1>6, <1>9, Zenon
  <2>. QED
    BY <1>1, <1>2, <1>6, <1>7, <1>8, <2>1 DEF Sound
<1> HIDE DEF o
<1>. QED
  BY <1>1, <1>3, <1>5, <1>10, OneStream

LEMMA YieldKeeps ==
  ASSUME StreamsSound, NEW s \in Streams, Yield(s)
  PROVE  StreamsSound'
<1> DEFINE o == stream[s]
           g == Append(got[s], Head(o.queue))
           r == [o EXCEPT !.queue = Tail(o.queue)]
<1>1. /\ o \in Stream /\ got[s] \in Seq(Events) /\ Sound(o, got[s], due[s])
      /\ o.queue # <<>> /\ o.at = "draining"
  BY DEF StreamsSound, Yield, At
<1>2. o.queue \in Seq(Events) /\ o.inbox \in Seq(Events)
  BY <1>1 DEF Stream
<1>3. g \in Seq(Events) /\ Tail(o.queue) \in Seq(Events)
      /\ got[s] \o o.queue \o o.inbox = g \o Tail(o.queue) \o o.inbox
  BY <1>1, <1>2, Yielded
<1>4. stream' = [stream EXCEPT ![s] = r] /\ got' = [got EXCEPT ![s] = g] /\ UNCHANGED due
  BY DEF Yield, Set, StreamsSound
<1> HIDE DEF g
<1>5. r \in Stream
  BY <1>1, <1>3, Zenon DEF Stream
<1>6. r.at = o.at
  BY <1>1, Zenon DEF Stream
<1>7. r.queue = Tail(o.queue)
  BY <1>1, Zenon DEF Stream
<1>8. r.inbox = o.inbox
  BY <1>1, Zenon DEF Stream
<1>9. r.subscribed = o.subscribed
  BY <1>1, Zenon DEF Stream
<1> HIDE DEF r
<1>10. Sound(r, g, due[s])
  <2>1. r.subscribed => r.at \in Listening
    BY <1>1, <1>6, <1>9, Zenon DEF Sound
  <2>. QED
    BY <1>1, <1>3, <1>6, <1>7, <1>8, <2>1 DEF Sound
<1> HIDE DEF o
<1>. QED
  BY <1>3, <1>4, <1>5, <1>10, OneStream

LEMMA ClosedIsSound ==
  ASSUME NEW b \in BOOLEAN, NEW g, NEW d
  PROVE  LET r == [[NoStream EXCEPT !.at = "closed"] EXCEPT !.isClosed = b] IN
           r \in Stream /\ Sound(r, g, d) /\ r.at = "closed"
<1> DEFINE m == [NoStream EXCEPT !.at = "closed"]
           r == [m EXCEPT !.isClosed = b]
<1>1. NoStream \in Stream /\ "closed" \in Spots /\ ~NoStream.subscribed
  BY DEF NoStream, Stream, Spots
<1>2. m \in Stream
  BY <1>1, Zenon DEF Stream
<1>3. r \in Stream
  BY <1>2, Zenon DEF Stream
<1>4. r.at = "closed"
  BY <1>1, Zenon DEF Stream
<1>5. r.subscribed = NoStream.subscribed
  BY <1>1, Zenon DEF Stream
<1> HIDE DEF m, r
<1>6. Sound(r, g, d)
  BY <1>1, <1>4, <1>5 DEF Sound
<1>. QED
  BY <1>3, <1>4, <1>6 DEF m, r

LEMMA FinallyKeeps ==
  ASSUME StreamsSound, NEW s \in Streams, Finally(s)
  PROVE  StreamsSound'
<1> DEFINE r == [[NoStream EXCEPT !.at = "closed"] EXCEPT !.isClosed = stream[s].isClosed]
<1>1. stream[s] \in Stream /\ got[s] \in Seq(Events)
  BY DEF StreamsSound
<1>2. stream[s].isClosed \in BOOLEAN
  BY <1>1, Zenon DEF Stream
<1>3. r \in Stream /\ Sound(r, got[s], due[s])
  BY <1>1, <1>2, ClosedIsSound
<1>4. stream' = [stream EXCEPT ![s] = r] /\ got' = [got EXCEPT ![s] = got[s]] /\ UNCHANGED due
  BY DEF Finally, Set, StreamsSound, OnlyStream
<1> HIDE DEF r
<1>. QED
  BY <1>1, <1>3, <1>4, OneStream

LEMMA StreamStepKeeps ==
  ASSUME StreamsSound, NEW s \in Streams,
         StreamStep(s) \/ Greet(s) \/ OnAbort(s) \/ SubscriberFails(s)
  PROVE  StreamsSound'
  BY SpotSteps, SubscribedKeeps, OnMessageKeeps, OnAbortKeeps, YieldKeeps, FinallyKeeps
     DEF StreamStep

\* Redis hands an event to those who are subscribed.
LEMMA SpreadKeeps ==
  ASSUME StreamsSound, NEW e \in Events, Spread(e), UNCHANGED got
  PROVE  StreamsSound'
<1> SUFFICES ASSUME NEW s \in Streams
             PROVE  /\ stream'[s] \in Stream /\ due'[s] \in Seq(Events)
                    /\ Sound(stream'[s], got[s], due'[s])
  <2>1. /\ DOMAIN stream' = Streams /\ stream' = [t \in Streams |-> stream'[t]]
        /\ DOMAIN due' = Streams /\ due' = [t \in Streams |-> due'[t]]
    BY DEF Spread
  <2>. QED
    BY <2>1 DEF StreamsSound
<1> DEFINE o == stream[s]
           r == [o EXCEPT !.inbox = Append(o.inbox, e)]
<1>1. /\ o \in Stream /\ got[s] \in Seq(Events) /\ due[s] \in Seq(Events)
      /\ Sound(o, got[s], due[s])
  BY DEF StreamsSound
<1>2. CASE ~o.subscribed
  <2>1. stream'[s] = o /\ due'[s] = due[s]
    BY <1>2 DEF Spread
  <2>. QED
    BY <1>1, <2>1
<1>3. CASE o.subscribed
  <2>1. stream'[s] = r /\ due'[s] = Append(due[s], e)
    BY <1>3 DEF Spread
  <2>2. o.queue \in Seq(Events) /\ o.inbox \in Seq(Events)
    BY <1>1 DEF Stream
  <2>3. /\ Append(o.inbox, e) \in Seq(Events) /\ due'[s] \in Seq(Events)
        /\ Append(got[s] \o o.queue \o o.inbox, e) = got[s] \o o.queue \o Append(o.inbox, e)
    <3>1. Append(o.inbox, e) \in Seq(Events) /\ Append(due[s], e) \in Seq(Events)
      BY <1>1, <2>2
    <3>2. Append(got[s] \o o.queue \o o.inbox, e) = got[s] \o o.queue \o Append(o.inbox, e)
      BY <1>1, <2>2, Arrives
    <3>. QED
      BY <2>1, <3>1, <3>2
  <2>4. r \in Stream
    BY <1>1, <2>3, Zenon DEF Stream
  <2>5. r.at = o.at
    BY <1>1, Zenon DEF Stream
  <2>6. r.queue = o.queue
    BY <1>1, Zenon DEF Stream
  <2>7. r.inbox = Append(o.inbox, e)
    BY <1>1, Zenon DEF Stream
  <2>8. r.subscribed = o.subscribed
    BY <1>1, Zenon DEF Stream
  <2>9. r.isClosed = o.isClosed
    BY <1>1, Zenon DEF Stream
  <2> HIDE DEF r
  <2>10. /\ r.subscribed => r.at \in Listening
         /\ r.at = "waiting" => r.queue = <<>> /\ ~r.isClosed
    BY <1>1, <2>5, <2>6, <2>8, <2>9, Zenon DEF Sound
  <2>11. r.at \notin {"closing", "closed"} => due'[s] = got[s] \o r.queue \o r.inbox
    BY <1>1, <2>1, <2>3, <2>5, <2>6, <2>7 DEF Sound
  <2>. QED
    BY <2>1, <2>3, <2>4, <2>10, <2>11 DEF Sound
<1>. QED
  BY <1>2, <1>3

-----------------------------------------------------------------------------
(* The client of a process                                                 *)

Clients == {"none", "connecting", "open"}
Closing == [open : BOOLEAN, box : Seq(Events)]

\* One process: a call waits only for a client that is being made, and only an
\* open one has something to send.
Kept(c, w, o, q) ==
  /\ c # "connecting" => w = <<>>
  /\ c # "open" => o = <<>>
  /\ ~q.open => q.box = <<>>

ClientsSound ==
  /\ client \in [Processes -> Clients]
  /\ awaiting \in [Processes -> Seq(Events)]
  /\ outbox \in [Processes -> Seq(Events)]
  /\ quitting \in [Processes -> Closing]
  /\ asked \in [Processes -> Seq(Events)]
  /\ \A p \in Processes : Kept(client[p], awaiting[p], outbox[p], quitting[p])

LEMMA OneClient ==
  ASSUME ClientsSound, NEW p \in Processes,
         NEW c \in Clients, NEW w \in Seq(Events), NEW o \in Seq(Events), NEW q \in Closing,
         NEW a \in Seq(Events),
         client' = [client EXCEPT ![p] = c], awaiting' = [awaiting EXCEPT ![p] = w],
         outbox' = [outbox EXCEPT ![p] = o], quitting' = [quitting EXCEPT ![p] = q],
         asked' = [asked EXCEPT ![p] = a],
         Kept(c, w, o, q)
  PROVE  ClientsSound'
<1>1. /\ client' \in [Processes -> Clients] /\ client'[p] = c
      /\ awaiting' \in [Processes -> Seq(Events)] /\ awaiting'[p] = w
      /\ outbox' \in [Processes -> Seq(Events)] /\ outbox'[p] = o
      /\ quitting' \in [Processes -> Closing] /\ quitting'[p] = q
      /\ asked' \in [Processes -> Seq(Events)]
  BY DEF ClientsSound
<1>2. \A r \in Processes : r # p => /\ client'[r] = client[r] /\ awaiting'[r] = awaiting[r]
                                    /\ outbox'[r] = outbox[r] /\ quitting'[r] = quitting[r]
  BY DEF ClientsSound
<1>3. \A r \in Processes : Kept(client'[r], awaiting'[r], outbox'[r], quitting'[r])
  <2> SUFFICES ASSUME NEW r \in Processes
               PROVE  Kept(client'[r], awaiting'[r], outbox'[r], quitting'[r])
    OBVIOUS
  <2>1. Kept(client[r], awaiting[r], outbox[r], quitting[r])
    BY DEF ClientsSound
  <2>2. CASE r = p
    BY <1>1, <2>2, Zenon
  <2>3. CASE r # p
    BY <1>2, <2>1, <2>3, Zenon
  <2>. QED
    BY <2>2, <2>3
<1>. QED
  BY <1>1, <1>3 DEF ClientsSound, Kept

\* The same for a process of which only some parts change.
LEMMA AsItWas ==
  ASSUME ClientsSound, NEW p \in Processes
  PROVE  /\ client[p] \in Clients /\ client = [client EXCEPT ![p] = client[p]]
         /\ awaiting[p] \in Seq(Events) /\ awaiting = [awaiting EXCEPT ![p] = awaiting[p]]
         /\ outbox[p] \in Seq(Events) /\ outbox = [outbox EXCEPT ![p] = outbox[p]]
         /\ quitting[p] \in Closing /\ quitting = [quitting EXCEPT ![p] = quitting[p]]
         /\ asked[p] \in Seq(Events) /\ asked = [asked EXCEPT ![p] = asked[p]]
         /\ Kept(client[p], awaiting[p], outbox[p], quitting[p])
  BY DEF ClientsSound

LEMMA PublishKeeps ==
  ASSUME ClientsSound, NEW p \in Processes, NEW e \in Events, Publish(p, e)
  PROVE  ClientsSound'
<1> DEFINE c == IF client[p] = "none" THEN "connecting" ELSE client[p]
           o == IF client[p] = "open" THEN Append(outbox[p], e) ELSE outbox[p]
           w == IF client[p] = "open" THEN awaiting[p] ELSE Append(awaiting[p], e)
           a == Append(asked[p], e)
<1>1. /\ client[p] \in Clients /\ awaiting[p] \in Seq(Events) /\ outbox[p] \in Seq(Events)
      /\ quitting[p] \in Closing /\ asked[p] \in Seq(Events)
      /\ quitting = [quitting EXCEPT ![p] = quitting[p]]
      /\ Kept(client[p], awaiting[p], outbox[p], quitting[p])
  BY AsItWas
<1>2. c \in Clients /\ o \in Seq(Events) /\ w \in Seq(Events) /\ a \in Seq(Events)
  BY <1>1 DEF Clients
<1>3. /\ c # "connecting" => w = <<>>
      /\ c # "open" => o = <<>>
  BY <1>1 DEF Clients, Kept
<1>4. /\ client' = [client EXCEPT ![p] = c] /\ outbox' = [outbox EXCEPT ![p] = o]
      /\ awaiting' = [awaiting EXCEPT ![p] = w] /\ asked' = [asked EXCEPT ![p] = a]
      /\ quitting' = quitting
  BY DEF Publish
<1> HIDE DEF c, o, w, a
<1>5. Kept(c, w, o, quitting[p])
  BY <1>1, <1>3, Zenon DEF Kept
<1>. QED
  BY <1>1, <1>2, <1>4, <1>5, OneClient

LEMMA GoneIsClosing == Gone \in Closing /\ Gone.box = <<>> /\ ~Gone.open
  BY DEF Gone, Closing

LEMMA ConnectionSteps ==
  ASSUME ClientsSound, NEW p \in Processes,
         Connected(p) \/ ConnectFails(p) \/ ConnectionLost(p)
  PROVE  ClientsSound'
<1>1. /\ client[p] \in Clients /\ awaiting[p] \in Seq(Events) /\ outbox[p] \in Seq(Events)
      /\ quitting[p] \in Closing /\ asked[p] \in Seq(Events)
      /\ awaiting = [awaiting EXCEPT ![p] = awaiting[p]]
      /\ outbox = [outbox EXCEPT ![p] = outbox[p]]
      /\ quitting = [quitting EXCEPT ![p] = quitting[p]]
      /\ asked = [asked EXCEPT ![p] = asked[p]]
      /\ Kept(client[p], awaiting[p], outbox[p], quitting[p])
  BY AsItWas
<1>2. "none" \in Clients /\ "open" \in Clients /\ <<>> \in Seq(Events)
  BY DEF Clients
<1>3. CASE Connected(p)
  <2> DEFINE o == outbox[p] \o awaiting[p]
  <2>1. o \in Seq(Events)
    BY <1>1
  <2>2. /\ client' = [client EXCEPT ![p] = "open"] /\ outbox' = [outbox EXCEPT ![p] = o]
        /\ awaiting' = [awaiting EXCEPT ![p] = <<>>] /\ UNCHANGED <<quitting, asked>>
    BY <1>3 DEF Connected
  <2> HIDE DEF o
  <2>3. Kept("open", <<>>, o, quitting[p])
    BY <1>1, Zenon DEF Kept
  <2>. QED
    BY <1>1, <1>2, <2>1, <2>2, <2>3, OneClient
<1>4. CASE ConnectFails(p)
  <2>1. /\ client' = [client EXCEPT ![p] = "none"] /\ awaiting' = [awaiting EXCEPT ![p] = <<>>]
        /\ UNCHANGED <<outbox, quitting, asked>> /\ client[p] = "connecting"
    BY <1>4 DEF ConnectFails
  <2>2. client[p] # "open"
    BY <2>1
  <2>3. Kept("none", <<>>, outbox[p], quitting[p])
    BY <1>1, <2>2, Zenon DEF Kept
  <2>. QED
    BY <1>1, <1>2, <2>1, <2>3, OneClient
<1>5. CASE ConnectionLost(p)
  <2>1. PICK n \in 0..Len(outbox[p]) :
          outbox' = [outbox EXCEPT ![p] = SubSeq(outbox[p], n + 1, Len(outbox[p]))]
    BY <1>5 DEF ConnectionLost
  <2> DEFINE o == SubSeq(outbox[p], n + 1, Len(outbox[p]))
  <2>2. o \in Seq(Events)
    BY <1>1
  <2>3. UNCHANGED <<client, awaiting, quitting, asked>> /\ client[p] = "open"
    BY <1>5 DEF ConnectionLost
  <2>4. outbox' = [outbox EXCEPT ![p] = o]
    BY <2>1
  <2> HIDE DEF o
  <2>5. Kept(client[p], awaiting[p], o, quitting[p])
    BY <1>1, <2>3, Zenon DEF Kept
  <2>6. /\ client' = [client EXCEPT ![p] = client[p]]
        /\ awaiting' = [awaiting EXCEPT ![p] = awaiting[p]]
        /\ quitting' = [quitting EXCEPT ![p] = quitting[p]]
        /\ asked' = [asked EXCEPT ![p] = asked[p]]
    BY <2>3, AsItWas
  <2>7. /\ client[p] \in Clients /\ awaiting[p] \in Seq(Events)
        /\ quitting[p] \in Closing /\ asked[p] \in Seq(Events)
    BY <1>1
  <2>. QED
    BY <2>2, <2>4, <2>5, <2>6, <2>7, OneClient
<1>. QED
  BY <1>3, <1>4, <1>5

LEMMA SendingSteps ==
  ASSUME ClientsSound, NEW p \in Processes,
         Taken(p) \/ TakenLast(p) \/ QuitDone(p) \/ QuitFails(p)
  PROVE  ClientsSound'
<1>1. /\ client[p] \in Clients /\ awaiting[p] \in Seq(Events) /\ outbox[p] \in Seq(Events)
      /\ quitting[p] \in Closing /\ asked[p] \in Seq(Events)
      /\ client = [client EXCEPT ![p] = client[p]]
      /\ awaiting = [awaiting EXCEPT ![p] = awaiting[p]]
      /\ outbox = [outbox EXCEPT ![p] = outbox[p]]
      /\ quitting = [quitting EXCEPT ![p] = quitting[p]]
      /\ asked = [asked EXCEPT ![p] = asked[p]]
      /\ Kept(client[p], awaiting[p], outbox[p], quitting[p])
  BY AsItWas
<1>2. CASE Taken(p)
  <2> DEFINE o == Tail(outbox[p])
  <2>1. /\ outbox[p] # <<>> /\ outbox' = [outbox EXCEPT ![p] = o]
        /\ UNCHANGED <<client, awaiting, quitting, asked>>
    BY <1>2 DEF Taken
  <2>2. o \in Seq(Events)
    BY <1>1, <2>1
  <2>3. client[p] = "open"
    BY <1>1, <2>1, Zenon DEF Kept
  <2> HIDE DEF o
  <2>4. Kept(client[p], awaiting[p], o, quitting[p])
    BY <1>1, <2>3, Zenon DEF Kept
  <2>5. /\ client' = [client EXCEPT ![p] = client[p]]
        /\ awaiting' = [awaiting EXCEPT ![p] = awaiting[p]]
        /\ quitting' = [quitting EXCEPT ![p] = quitting[p]]
        /\ asked' = [asked EXCEPT ![p] = asked[p]]
    BY <1>1, <2>1, Zenon
  <2>6. outbox' = [outbox EXCEPT ![p] = o]
    BY <2>1
  <2>7. /\ client[p] \in Clients /\ awaiting[p] \in Seq(Events)
        /\ quitting[p] \in Closing /\ asked[p] \in Seq(Events)
    BY <1>1
  <2>. QED
    BY <2>2, <2>4, <2>5, <2>6, <2>7, OneClient
<1>3. CASE TakenLast(p)
  <2> DEFINE q == [quitting[p] EXCEPT !.box = Tail(quitting[p].box)]
  <2>1. /\ quitting[p].box # <<>> /\ quitting' = [quitting EXCEPT ![p] = q]
        /\ UNCHANGED <<client, awaiting, outbox, asked>>
    BY <1>3 DEF TakenLast
  <2>2. quitting[p].box \in Seq(Events)
    BY <1>1 DEF Closing
  <2>3. Tail(quitting[p].box) \in Seq(Events)
    BY <2>1, <2>2
  <2>4. q \in Closing
    BY <1>1, <2>3, Zenon DEF Closing
  <2>5. q.open = quitting[p].open
    BY <1>1, Zenon DEF Closing
  <2> HIDE DEF q
  <2>6. Kept(client[p], awaiting[p], outbox[p], q)
    BY <1>1, <2>1, <2>5, Zenon DEF Kept
  <2>. QED
    BY <1>1, <2>1, <2>4, <2>6, OneClient
<1>4. CASE QuitDone(p) \/ QuitFails(p)
  <2>1. /\ quitting' = [quitting EXCEPT ![p] = Gone]
        /\ UNCHANGED <<client, awaiting, outbox, asked>>
    BY <1>4 DEF QuitDone, QuitFails
  <2>2. Kept(client[p], awaiting[p], outbox[p], Gone)
    BY <1>1, GoneIsClosing, Zenon DEF Kept
  <2>. QED
    BY <1>1, <2>1, <2>2, GoneIsClosing, OneClient
<1>. QED
  BY <1>2, <1>3, <1>4

LEMMA QuitKeeps ==
  ASSUME ClientsSound, NEW p \in Processes, Quit(p)
  PROVE  /\ ClientsSound'
         /\ client'[p] = "none"
         /\ client[p] # "open" => UNCHANGED quitting
<1>1. /\ client[p] \in Clients /\ awaiting[p] \in Seq(Events) /\ outbox[p] \in Seq(Events)
      /\ quitting[p] \in Closing /\ asked[p] \in Seq(Events)
      /\ awaiting = [awaiting EXCEPT ![p] = awaiting[p]]
      /\ asked = [asked EXCEPT ![p] = asked[p]]
      /\ Kept(client[p], awaiting[p], outbox[p], quitting[p])
      /\ client \in [Processes -> Clients]
  BY AsItWas DEF ClientsSound
<1>2. client[p] # "connecting" /\ UNCHANGED <<awaiting, asked>>
  BY DEF Quit, MayQuit
<1>3. CASE client[p] = "open"
  <2> DEFINE b == quitting[p].box \o outbox[p]
             q == [open |-> TRUE, box |-> b]
  <2>1. /\ quitting' = [quitting EXCEPT ![p] = q]
        /\ outbox' = [outbox EXCEPT ![p] = <<>>]
        /\ client' = [client EXCEPT ![p] = "none"]
    BY <1>3 DEF Quit
  <2>2. quitting[p].box \in Seq(Events)
    BY <1>1 DEF Closing
  <2>3. b \in Seq(Events)
    BY <1>1, <2>2
  <2> HIDE DEF b
  <2>4. q \in Closing /\ q.open
    BY <2>3 DEF Closing
  <2> HIDE DEF q
  <2>5. Kept("none", awaiting[p], <<>>, q)
    BY <1>1, <1>2, <2>4, Zenon DEF Kept
  <2>6. "none" \in Clients /\ <<>> \in Seq(Events)
    BY DEF Clients
  <2>7. ClientsSound'
    BY <1>1, <1>2, <2>1, <2>4, <2>5, <2>6, OneClient
  <2>. QED
    BY <1>1, <1>3, <2>1, <2>7
<1>4. CASE client[p] = "none"
  <2>1. UNCHANGED <<quitting, outbox, client>>
    BY <1>4 DEF Quit
  <2>2. ClientsSound'
    BY <1>2, <2>1 DEF ClientsSound, Kept
  <2>. QED
    BY <1>4, <2>1, <2>2
<1>. QED
  BY <1>1, <1>2, <1>3, <1>4 DEF Clients

-----------------------------------------------------------------------------
(* What the streams yield                                                  *)

BusSound == target \in Processes /\ StreamsSound /\ ClientsSound

LEMMA Untouched ==
  ASSUME BusSound, UNCHANGED target
  PROVE  /\ UNCHANGED streamVars => StreamsSound'
         /\ UNCHANGED clientVars => ClientsSound'
<1>1. ASSUME UNCHANGED streamVars PROVE StreamsSound'
  BY <1>1 DEF BusSound, StreamsSound, Sound, streamVars
<1>2. ASSUME UNCHANGED clientVars PROVE ClientsSound'
  BY <1>2 DEF BusSound, ClientsSound, Kept, clientVars
<1>. QED
  BY <1>1, <1>2

LEMMA BeginsSound ==
  ASSUME Init
  PROVE  BusSound
<1>1. NoStream \in Stream /\ Gone \in Closing /\ "none" \in Clients
  BY DEF NoStream, Stream, Spots, Gone, Closing, Clients
<1>2. Sound(NoStream, <<>>, <<>>)
  BY DEF Sound, NoStream
<1>3. Kept("none", <<>>, <<>>, Gone)
  BY DEF Kept, Gone
<1>4. StreamsSound
  BY <1>1, <1>2 DEF Init, BusInit, StreamsSound
<1>5. ClientsSound
  BY <1>1, <1>3 DEF Init, BusInit, ClientsSound
<1>. QED
  BY <1>4, <1>5 DEF BusSound, Init

LEMMA ExitKeeps ==
  ASSUME BusSound, NEW code, Exit(code)
  PROVE  BusSound'
<1>1. target \in Processes /\ target' = target /\ UNCHANGED <<asked, got, due>>
  BY DEF BusSound, Exit
<1>2. ClientsSound'
  <2>1. "none" \in Clients /\ Gone \in Closing /\ Kept("none", <<>>, <<>>, Gone)
    BY GoneIsClosing DEF Clients, Kept
  <2>2. asked[target] \in Seq(Events) /\ asked' = [asked EXCEPT ![target] = asked[target]]
    BY <1>1, AsItWas DEF BusSound
  <2>3. /\ client' = [client EXCEPT ![target] = "none"]
        /\ awaiting' = [awaiting EXCEPT ![target] = <<>>]
        /\ outbox' = [outbox EXCEPT ![target] = <<>>]
        /\ quitting' = [quitting EXCEPT ![target] = Gone]
    BY DEF Exit
  <2>4. ClientsSound /\ <<>> \in Seq(Events)
    BY DEF BusSound
  <2>. QED
    BY <1>1, <2>1, <2>2, <2>3, <2>4, OneClient
<1>3. StreamsSound'
  <2> DEFINE r == [NoStream EXCEPT !.at = "closed"]
  <2>1. NoStream \in Stream /\ "closed" \in Spots /\ ~NoStream.subscribed
    BY DEF NoStream, Stream, Spots
  <2>2. r \in Stream
    BY <2>1, Zenon DEF Stream
  <2>3. r.at = "closed"
    BY <2>1, Zenon DEF Stream
  <2>4. r.subscribed = NoStream.subscribed
    BY <2>1, Zenon DEF Stream
  <2>5. stream' = [s \in Streams |-> r] \/ stream' = stream
    BY DEF Exit
  <2> HIDE DEF r
  <2>6. \A g, d : Sound(r, g, d)
    BY <2>1, <2>3, <2>4 DEF Sound
  <2>7. CASE stream' = [s \in Streams |-> r]
    BY <1>1, <2>2, <2>6, <2>7 DEF BusSound, StreamsSound
  <2>8. CASE stream' = stream
    BY <1>1, <2>8 DEF BusSound, StreamsSound, Sound
  <2>. QED
    BY <2>5, <2>7, <2>8
<1>. QED
  BY <1>1, <1>2, <1>3 DEF BusSound

\* A step of a client hands at most one event to Redis.
LEMMA ClientStepKeeps ==
  ASSUME BusSound, NEW p \in Processes, UNCHANGED target,
         ClientStep(p) \/ ConnectFails(p) \/ ConnectionLost(p) \/ QuitFails(p)
  PROVE  BusSound'
<1>1. ClientsSound'
  BY ConnectionSteps, SendingSteps DEF ClientStep, BusSound
<1>2. CASE Taken(p)
  <2>1. outbox[p] \in Seq(Events) /\ outbox[p] # <<>>
    BY <1>2 DEF BusSound, ClientsSound, Taken
  <2>2. Head(outbox[p]) \in Events
    BY <2>1
  <2>. QED
    BY <1>1, <1>2, <2>2, SpreadKeeps DEF BusSound, Taken
<1>3. CASE TakenLast(p)
  <2>1. quitting[p] \in Closing /\ quitting[p].box # <<>>
    BY <1>3 DEF BusSound, ClientsSound, TakenLast
  <2>2. quitting[p].box \in Seq(Events)
    BY <2>1 DEF Closing
  <2>3. Head(quitting[p].box) \in Events
    BY <2>1, <2>2
  <2>. QED
    BY <1>1, <1>3, <2>3, SpreadKeeps DEF BusSound, TakenLast
<1>4. CASE Connected(p) \/ QuitDone(p) \/ ConnectFails(p) \/ ConnectionLost(p) \/ QuitFails(p)
  <2>1. UNCHANGED streamVars
    BY <1>4 DEF Connected, QuitDone, ConnectFails, ConnectionLost, QuitFails
  <2>. QED
    BY <1>1, <2>1, Untouched DEF BusSound
<1>. QED
  BY <1>2, <1>3, <1>4 DEF ClientStep

LEMMA StreamStepLeaves ==
  ASSUME BusSound, NEW s \in Streams, UNCHANGED target,
         StreamStep(s) \/ Greet(s) \/ OnAbort(s) \/ SubscriberFails(s)
  PROVE  BusSound'
<1>1. UNCHANGED clientVars
  BY DEF StreamStep, Greet, OnAbort, SubscriberFails, Begin, SubscriberConnected, Subscribed,
         Loop, OnMessage, Resume, Yield, Drained, Return, Finally, OnlyStream
<1>2. StreamsSound'
  BY StreamStepKeeps DEF BusSound
<1>. QED
  BY <1>1, <1>2, Untouched DEF BusSound

LEMMA BusKeeps ==
  ASSUME BusSound, [Next]_vars
  PROVE  BusSound'
<1>1. CASE \/ UNCHANGED vars
           \/ BeginWork \/ EndWork \/ ForkDaemon \/ Signal \/ InterruptJobs \/ WorkDone
           \/ QuitReturns \/ CloseResource \/ FatalError \/ FatalFlushed
  <2>1. UNCHANGED <<target, clientVars, streamVars>>
    BY <1>1 DEF vars, procVars, busVars, clientVars, streamVars, BeginWork, EndWork, ForkDaemon,
                Signal, InterruptJobs, WorkDone, QuitReturns, CloseResource, FatalError, FatalFlushed
  <2>. QED
    BY <2>1, Untouched DEF BusSound
<1>2. CASE \/ \E p \in Processes, e \in Events : Announce(p, e)
           \/ \E e \in Events : DaemonPublishes(e)
  <2>1. PICK p \in Processes, e \in Events : Publish(p, e) /\ UNCHANGED target
    BY <1>2 DEF Announce, DaemonPublishes, procVars, BusSound
  <2>2. UNCHANGED streamVars
    BY <2>1 DEF Publish
  <2>. QED
    BY <2>1, <2>2, PublishKeeps, Untouched DEF BusSound
<1>3. CASE \E p \in Processes :
             \/ ClientStep(p) /\ UNCHANGED procVars
             \/ (ConnectFails(p) \/ ConnectionLost(p) \/ QuitFails(p)) /\ UNCHANGED procVars
  BY <1>3, ClientStepKeeps DEF procVars
<1>4. CASE \E s \in Streams : \/ OpenStream(s)
                              \/ StreamStep(s) /\ UNCHANGED procVars
                              \/ (OnAbort(s) \/ SubscriberFails(s)) /\ UNCHANGED procVars
  BY <1>4, StreamStepLeaves DEF procVars, OpenStream
<1>5. CASE CallQuit \/ FatalQuit
  <2>1. Quit(target) /\ UNCHANGED <<target, streamVars>>
    BY <1>5 DEF CallQuit, FatalQuit, Quit
  <2>. QED
    BY <2>1, QuitKeeps, Untouched DEF BusSound
<1>6. CASE CloseFails \/ Finish \/ ForceExit \/ FatalExit
  BY <1>6, ExitKeeps DEF CloseFails, Finish, ForceExit, FatalExit
<1>. QED
  BY <1>1, <1>2, <1>3, <1>4, <1>5, <1>6 DEF Next, ShutdownStep, FatalStep

LEMMA BusIsSound == Spec => []BusSound
<1>1. Init => BusSound
  BY BeginsSound
<1>2. BusSound /\ [Next]_vars => BusSound'
  BY BusKeeps
<1>. QED
  BY <1>1, <1>2, PTL DEF Spec

\* subscribeViaRedis: while its page listens, a stream has yielded what Redis
\* took since the subscription, in that order and each event once, but for what
\* is in its queue or on the way to it; for any number of streams and events.
THEOREM StreamsFeedExactly == Spec => []FeedExact
<1>1. BusSound => FeedExact
  BY DEF BusSound, StreamsSound, Sound, FeedExact
<1>. QED
  BY <1>1, BusIsSound, PTL

\* subscribeViaRedis: a generator waits only while its queue is empty and its
\* request is not aborted, whatever comes between its look and its wait.
THEOREM NoWakeupIsLost == Spec => []NoLostWakeup
<1>1. BusSound => NoLostWakeup
  BY DEF BusSound, StreamsSound, Sound, NoLostWakeup
<1>. QED
  BY <1>1, BusIsSound, PTL

-----------------------------------------------------------------------------
(* How far shutdown() is                                                   *)

Steps == StepsOf(target)
Names == {ServerSteps[i] : i \in 1..Len(ServerSteps)}

\* What is left to await is the end of the sequence.
Suffix ==
  /\ todo \in Seq(Names)
  /\ stopping => /\ Len(todo) <= Len(Steps)
                 /\ \A i \in 1..Len(todo) : todo[i] = Steps[Len(Steps) - Len(todo) + i]

\* How many steps are left after an awaited one.
After(step) ==
  CASE step = "work"    -> IF target = Server THEN 6 ELSE 5
    [] step = "quit"    -> IF target = Server THEN 5 ELSE 2
    [] step = "flushed" -> IF target = Server THEN 4 ELSE 1

Behind(step) == stopping /\ Len(todo) <= After(step)

LEMMA NamesAre ==
  Names = {"work", "quit", "flushed", "limiters", "runtime", "database", "telemetry"}
<1>1. Len(ServerSteps) = 7
  BY DEF ServerSteps
<1>2. 1..7 = {1, 2, 3, 4, 5, 6, 7}
  OBVIOUS
<1>. QED
  BY <1>1, <1>2 DEF Names, ServerSteps

LEMMA HeadIs ==
  ASSUME Suffix, stopping, todo # <<>>, target \in Processes
  PROVE  /\ Head(todo) = "work" => Len(todo) = After("work") + 1
         /\ Head(todo) = "quit" => Len(todo) = After("quit") + 1
         /\ Head(todo) = "flushed" => Len(todo) = After("flushed") + 1
         /\ Head(todo) \notin {"work", "quit", "flushed"} =>
              /\ Len(todo) <= After("work")
              /\ Len(todo) # After("quit") + 1
              /\ Len(todo) # After("flushed") + 1
<1>1. Len(todo) \in 1..Len(Steps) /\ Head(todo) = Steps[Len(Steps) - Len(todo) + 1]
  <2>1. Len(todo) \in Nat \ {0} /\ Head(todo) = todo[1] /\ 1 \in 1..Len(todo)
    BY DEF Suffix
  <2>2. Len(todo) <= Len(Steps) /\ todo[1] = Steps[Len(Steps) - Len(todo) + 1]
    BY <2>1 DEF Suffix
  <2>3. Len(Steps) \in Nat
    BY DEF Steps, StepsOf, ServerSteps, WorkerSteps
  <2>. QED
    BY <2>1, <2>2, <2>3
<1>2. CASE target = Server
  <2>1. Steps = ServerSteps /\ Len(Steps) = 7
    BY <1>2 DEF Steps, StepsOf, ServerSteps
  <2>2. /\ Steps[1] = "work" /\ Steps[2] = "quit" /\ Steps[3] = "flushed"
        /\ Steps[4] = "limiters" /\ Steps[5] = "runtime" /\ Steps[6] = "database"
        /\ Steps[7] = "telemetry"
    BY <2>1 DEF ServerSteps
  <2> DEFINE n == Len(todo)
             k == 8 - n
  <2>7. n \in 1..7
    BY <1>1, <2>1, Zenon
  <2>8. Len(Steps) - Len(todo) + 1 = 7 - n + 1
    BY <2>1, Zenon
  <2> HIDE DEF n
  <2>3. k \in 1..7 /\ n = 8 - k /\ Len(Steps) - Len(todo) + 1 = k
    BY <2>7, <2>8
  <2> HIDE DEF k
  <2>6. Head(todo) = Steps[k]
    BY <1>1, <2>3
  <2> HIDE DEF n
  <2>4. k = 1 \/ k = 2 \/ k = 3 \/ k = 4 \/ k = 5 \/ k = 6 \/ k = 7
    BY <2>3
  <2>5. After("work") = 6 /\ After("quit") = 5 /\ After("flushed") = 4
    BY <1>2 DEF After
  <2>. QED
    BY <2>2, <2>3, <2>4, <2>5, <2>6, <2>7 DEF n
<1>3. CASE target # Server
  <2>1. Steps = WorkerSteps /\ Len(Steps) = 6
    BY <1>3 DEF Steps, StepsOf, WorkerSteps
  <2>2. /\ Steps[1] = "work" /\ Steps[2] = "runtime" /\ Steps[3] = "database"
        /\ Steps[4] = "quit" /\ Steps[5] = "flushed" /\ Steps[6] = "telemetry"
    BY <2>1 DEF WorkerSteps
  <2> DEFINE n == Len(todo)
             k == 7 - n
  <2>7. n \in 1..6
    BY <1>1, <2>1, Zenon
  <2>8. Len(Steps) - Len(todo) + 1 = 6 - n + 1
    BY <2>1, Zenon
  <2> HIDE DEF n
  <2>3. k \in 1..6 /\ n = 7 - k /\ Len(Steps) - Len(todo) + 1 = k
    BY <2>7, <2>8
  <2> HIDE DEF k
  <2>6. Head(todo) = Steps[k]
    BY <1>1, <2>3
  <2> HIDE DEF n
  <2>4. k = 1 \/ k = 2 \/ k = 3 \/ k = 4 \/ k = 5 \/ k = 6
    BY <2>3
  <2>5. After("work") = 5 /\ After("quit") = 2 /\ After("flushed") = 1
    BY <1>3 DEF After
  <2>. QED
    BY <2>2, <2>3, <2>4, <2>5, <2>6, <2>7 DEF n
<1>. QED
  BY <1>2, <1>3

\* The type invariant of the variables of a process, and Suffix.
Plain ==
  /\ target \in Processes
  /\ busy \in BOOLEAN /\ stopping \in BOOLEAN
  /\ fatal \in {"none", "quit", "flushed", "rest"}
  /\ taker \in {"none", "shutdown", "fatal"}
  /\ exit \in {"none", "0", "1"}
  /\ daemon \in BOOLEAN /\ cut \in BOOLEAN /\ left \in BOOLEAN
  /\ faults \in 0..MaxFaults
  /\ Suffix

\* A process works on nothing behind "work", and only a worker interrupts jobs.
\* One that is left alone by the handler of fatal errors has a client that is
\* being closed only behind "quit", where shutdown() took it, and no longer behind
\* "flushed", which is where it exits with 0.
Orderly ==
  /\ Behind("work") => ~busy /\ (target = Server => NoStreams)
  /\ target = Server => ~cut
  /\ fatal = "none" =>
       /\ quitting[target].open => Behind("quit") /\ taker = "shutdown" /\ ~Behind("flushed")
       /\ exit = "0" => ~left /\ Behind("flushed")

Shut == BusSound /\ Plain /\ Orderly

LEMMA ShutsInit ==
  ASSUME Init
  PROVE  Shut
<1>1. Plain
  <2>1. Suffix
    BY DEF Init, Suffix
  <2>2. faults \in 0..MaxFaults
    BY PublisherAssumption DEF Init, BusInit
  <2>3. daemon \in BOOLEAN /\ cut \in BOOLEAN /\ left \in BOOLEAN
    BY DEF Init
  <2>4. busy \in BOOLEAN /\ stopping \in BOOLEAN
    BY DEF Init
  <2>. QED
    BY <2>1, <2>2, <2>3, <2>4 DEF Init, Plain
<1>2. Orderly
  BY DEF Init, BusInit, Orderly, Behind, Gone
<1>. QED
  BY <1>1, <1>2, BeginsSound DEF Shut

\* One awaited step is done.
LEMMA DoneShortens ==
  ASSUME Plain, stopping, todo # <<>>, Done, UNCHANGED <<target, stopping>>
  PROVE  Suffix' /\ Len(todo') = Len(todo) - 1
<1>1. /\ todo \in Seq(Names) /\ Len(todo) \in Nat \ {0} /\ Len(todo) <= Len(Steps)
      /\ todo' = Tail(todo) /\ Steps' = Steps
  BY DEF Plain, Suffix, Done, Steps
<1>2. todo' \in Seq(Names) /\ Len(todo') = Len(todo) - 1
  BY <1>1
<1>3. \A i \in 1..Len(todo') : todo'[i] = todo[i + 1]
  BY <1>1
<1>4. Len(Steps) \in Nat
  BY DEF Steps, StepsOf, ServerSteps, WorkerSteps
<1>5. \A i \in 1..Len(todo') : todo'[i] = Steps[Len(Steps) - Len(todo') + i]
  <2> SUFFICES ASSUME NEW i \in 1..Len(todo')
               PROVE  todo'[i] = Steps[Len(Steps) - Len(todo') + i]
    OBVIOUS
  <2>1. i + 1 \in 1..Len(todo)
    BY <1>1, <1>2
  <2>2. todo[i + 1] = Steps[Len(Steps) - Len(todo) + (i + 1)]
    BY <2>1 DEF Plain, Suffix
  <2>3. Len(Steps) - Len(todo) + (i + 1) = Len(Steps) - Len(todo') + i
    BY <1>1, <1>2, <1>4
  <2>. QED
    BY <1>3, <2>2, <2>3
<1>. QED
  BY <1>1, <1>2, <1>4, <1>5 DEF Suffix, Names

LEMMA AfterOrder ==
  ASSUME target \in Processes
  PROVE  /\ After("work") \in Nat /\ After("quit") \in Nat /\ After("flushed") \in Nat
         /\ After("flushed") < After("quit") /\ After("quit") < After("work")
         /\ Len(Steps) = After("work") + 1
  BY DEF After, Steps, StepsOf, ServerSteps, WorkerSteps

LEMMA BehindOrder ==
  ASSUME Shut
  PROVE  /\ Behind("flushed") => Behind("quit")
         /\ Behind("quit") => Behind("work")
         /\ todo = <<>> /\ stopping => Behind("flushed")
<1>1. Len(todo) \in Nat /\ (todo = <<>> => Len(todo) = 0)
  BY DEF Shut, Plain, Suffix
<1>. QED
  BY <1>1, AfterOrder DEF Shut, Plain, Behind

\* Nothing of shutdown() itself changes.
LEMMA Standing ==
  ASSUME Shut, UNCHANGED <<target, stopping, todo>>
  PROVE  /\ Suffix'
         /\ Behind("work")' <=> Behind("work")
         /\ Behind("quit")' <=> Behind("quit")
         /\ Behind("flushed")' <=> Behind("flushed")
<1>1. Suffix'
  BY DEF Shut, Plain, Suffix, Steps, StepsOf
<1>. QED
  BY <1>1 DEF Behind, After

LEMMA FaultCounts ==
  ASSUME Plain, Fault \/ UNCHANGED faults
  PROVE  faults' \in 0..MaxFaults
  BY PublisherAssumption DEF Plain, Fault

\* Requests, jobs and the handler of fatal errors.
LEMMA WorkKeeps ==
  ASSUME Shut,
         BeginWork \/ EndWork \/ ForkDaemon \/ InterruptJobs \/ FatalError \/ FatalFlushed
  PROVE  Plain' /\ Orderly'
<1>1. /\ UNCHANGED <<target, stopping, todo, taker, exit, left, stream, client, quitting>>
      /\ Fault \/ UNCHANGED faults
  BY DEF BeginWork, EndWork, ForkDaemon, InterruptJobs, FatalError, FatalFlushed, busVars,
         clientVars, streamVars
<1>2. /\ busy' \in BOOLEAN /\ daemon' \in BOOLEAN /\ cut' \in BOOLEAN
      /\ fatal' \in {"none", "quit", "flushed", "rest"}
      /\ fatal' = "none" => fatal = "none"
      /\ target = Server => cut' = cut
  BY ProcessAssumption
     DEF BeginWork, EndWork, ForkDaemon, InterruptJobs, FatalError, FatalFlushed, Shut, Plain
<1>3. Plain'
  BY <1>1, <1>2, Standing, FaultCounts DEF Shut, Plain
<1>4. Behind("work") => ~busy'
  BY DEF BeginWork, EndWork, ForkDaemon, InterruptJobs, FatalError, FatalFlushed, Shut, Orderly,
         Behind, Accepts
<1>5. Orderly'
  BY <1>1, <1>2, <1>4, Standing DEF Shut, Orderly, NoStreams
<1>. QED
  BY <1>3, <1>5

\* NoStreams holds on.
LEMMA SpreadLeaves ==
  ASSUME StreamsSound, NEW e, Spread(e), NoStreams
  PROVE  NoStreams'
<1> SUFFICES ASSUME NEW s \in Streams PROVE stream'[s].at \in {"idle", "closed"}
  BY DEF NoStreams
<1>1. stream[s] \in Stream /\ stream[s].at \in {"idle", "closed"}
  BY DEF StreamsSound, NoStreams
<1>2. [stream[s] EXCEPT !.inbox = Append(stream[s].inbox, e)].at = stream[s].at
  BY <1>1, Zenon DEF Stream
<1>3. stream'[s] = stream[s] \/ stream'[s] = [stream[s] EXCEPT !.inbox = Append(stream[s].inbox, e)]
  BY DEF Spread
<1>. QED
  BY <1>1, <1>2, <1>3

LEMMA StreamsStayClosed ==
  ASSUME StreamsSound, NEW s \in Streams, NoStreams,
         StreamStep(s) \/ OnAbort(s) \/ SubscriberFails(s)
  PROVE  NoStreams'
<1>1. stream[s] \in Stream /\ stream[s].at \in {"idle", "closed"}
  BY DEF StreamsSound, NoStreams
<1>2. OnMessage(s) \/ ~stream[s].at \in {"idle", "closed"}
  BY DEF StreamStep, OnAbort, SubscriberFails, Begin, SubscriberConnected, Subscribed, Loop,
         Resume, Yield, Drained, Return, Finally, At
<1> DEFINE q == Append(stream[s].queue, Head(stream[s].inbox))
           m == [[stream[s] EXCEPT !.at = Woken(s)] EXCEPT !.queue = q]
           r == [m EXCEPT !.inbox = Tail(stream[s].inbox)]
<1>3. stream' = [stream EXCEPT ![s] = r]
  BY <1>1, <1>2 DEF OnMessage, Set
<1>4. Woken(s) = stream[s].at
  BY <1>1 DEF Woken, At
<1>5. r.at = Woken(s)
  BY <1>1, Zenon DEF Stream
<1> HIDE DEF r
<1>. QED
  BY <1>1, <1>3, <1>4, <1>5 DEF NoStreams, StreamsSound

\* The bus takes a step of its own.
LEMMA BusLeaves ==
  ASSUME Shut, UNCHANGED <<target, busy, stopping, todo, fatal, taker, exit, cut, left>>,
         daemon' \in BOOLEAN, Fault \/ UNCHANGED faults,
         Behind("work") /\ target = Server /\ NoStreams => NoStreams',
         quitting'[target].open => quitting[target].open
  PROVE  Plain' /\ Orderly'
<1>2. Plain'
  BY Standing, FaultCounts DEF Shut, Plain
<1>3. /\ Behind("work")' => ~busy' /\ (target' = Server => NoStreams')
      /\ target' = Server => ~cut'
  BY Standing DEF Shut, Orderly
<1>4. fatal' = "none" =>
        /\ quitting'[target'].open => Behind("quit")' /\ taker' = "shutdown" /\ ~Behind("flushed")'
        /\ exit' = "0" => ~left' /\ Behind("flushed")'
  BY Standing DEF Shut, Orderly
<1>. QED
  BY <1>2, <1>3, <1>4 DEF Orderly

LEMMA AnnounceKeeps ==
  ASSUME Shut, NEW p \in Processes, NEW e \in Events, Announce(p, e) \/ DaemonPublishes(e)
  PROVE  Plain' /\ Orderly'
<1>1. /\ UNCHANGED <<quitting, stream, faults>>
      /\ UNCHANGED <<target, busy, stopping, todo, fatal, taker, exit, cut, left>>
  BY DEF Announce, DaemonPublishes, Publish, streamVars, procVars
<1>2. daemon' \in BOOLEAN
  BY DEF Announce, DaemonPublishes, procVars, Shut, Plain
<1>3. NoStreams => NoStreams'
  BY <1>1 DEF NoStreams
<1>. QED
  BY <1>1, <1>2, <1>3, BusLeaves

LEMMA ClientStepLeaves ==
  ASSUME Shut, NEW p \in Processes, UNCHANGED procVars,
         ClientStep(p) \/ ConnectFails(p) \/ ConnectionLost(p) \/ QuitFails(p)
  PROVE  Plain' /\ Orderly'
<1>1. /\ target \in Processes /\ client \in [Processes -> Clients]
      /\ quitting \in [Processes -> Closing] /\ StreamsSound
  BY DEF Shut, BusSound, ClientsSound
<1>2. Fault \/ UNCHANGED faults
  BY DEF ClientStep, Connected, Taken, TakenLast, QuitDone, ConnectFails, ConnectionLost, QuitFails
<1>3. /\ UNCHANGED <<target, busy, stopping, todo, fatal, taker, exit, cut, left>>
      /\ daemon' \in BOOLEAN
  BY DEF procVars, Shut, Plain
<1>4. quitting'[target].open => quitting[target].open
  <2>1. CASE TakenLast(p)
    <3> DEFINE q == [quitting[p] EXCEPT !.box = Tail(quitting[p].box)]
    <3>1. quitting[p] \in Closing
      BY <1>1
    <3>2. q.open = quitting[p].open
      BY <3>1, Zenon DEF Closing
    <3>3. quitting' = [quitting EXCEPT ![p] = q]
      BY <2>1 DEF TakenLast
    <3> HIDE DEF q
    <3>. QED
      BY <1>1, <3>2, <3>3
  <2>2. CASE QuitDone(p) \/ QuitFails(p)
    BY <1>1, <2>2, GoneIsClosing DEF QuitDone, QuitFails
  <2>3. CASE Connected(p) \/ Taken(p) \/ ConnectFails(p) \/ ConnectionLost(p)
    BY <2>3 DEF Connected, Taken, ConnectFails, ConnectionLost
  <2>. QED
    BY <2>1, <2>2, <2>3 DEF ClientStep
<1>5. NoStreams => NoStreams'
  <2>1. CASE Taken(p) \/ TakenLast(p)
    <3>1. \E e : Spread(e)
      BY <2>1 DEF Taken, TakenLast
    <3>. QED
      BY <1>1, <3>1, SpreadLeaves
  <2>2. CASE ~(Taken(p) \/ TakenLast(p))
    <3>1. UNCHANGED stream
      BY <2>2 DEF ClientStep, Connected, QuitDone, ConnectFails, ConnectionLost, QuitFails, streamVars
    <3>. QED
      BY <3>1 DEF NoStreams
  <2>. QED
    BY <2>1, <2>2
<1>. QED
  BY <1>2, <1>3, <1>4, <1>5, BusLeaves

LEMMA StreamStepsLeave ==
  ASSUME Shut, NEW s \in Streams, UNCHANGED procVars,
         OpenStream(s) \/ StreamStep(s) \/ OnAbort(s) \/ SubscriberFails(s)
  PROVE  Plain' /\ Orderly'
<1>4. /\ UNCHANGED <<target, busy, stopping, todo, fatal, taker, exit, cut, left>>
      /\ daemon' \in BOOLEAN
  BY DEF procVars, Shut, Plain
<1>1. UNCHANGED <<client, quitting>> /\ (Fault \/ UNCHANGED faults)
  BY DEF OpenStream, StreamStep, Greet, OnAbort, SubscriberFails, Begin, SubscriberConnected,
         Subscribed, Loop, OnMessage, Resume, Yield, Drained, Return, Finally, OnlyStream, clientVars
<1>2. OpenStream(s) /\ target = Server => ~Behind("work")
  BY DEF OpenStream, Accepts, Behind
<1>3. ~OpenStream(s) /\ NoStreams => NoStreams'
  BY StreamsStayClosed DEF Shut, BusSound
<1>. QED
  BY <1>1, <1>2, <1>3, <1>4, BusLeaves

LEMMA SignalKeeps ==
  ASSUME Shut, Signal
  PROVE  Plain' /\ Orderly'
<1>1. /\ ~stopping /\ stopping' = TRUE /\ todo' = StepsOf(target)
      /\ UNCHANGED <<target, busy, daemon, fatal, taker, exit, cut, left>>
      /\ UNCHANGED <<client, quitting, stream, faults>> /\ exit = "none"
  BY DEF Signal, busVars
<1>2. StepsOf(target) \in Seq(Names) /\ Len(StepsOf(target)) \in Nat
  <2>1. /\ "work" \in Names /\ "quit" \in Names /\ "flushed" \in Names /\ "limiters" \in Names
        /\ "runtime" \in Names /\ "database" \in Names /\ "telemetry" \in Names
    BY NamesAre
  <2>2. ServerSteps \in Seq(Names)
    BY <2>1 DEF ServerSteps
  <2>3. WorkerSteps \in Seq(Names)
    BY <2>1 DEF WorkerSteps
  <2>4. StepsOf(target) \in Seq(Names)
    BY <2>2, <2>3 DEF StepsOf
  <2>. QED
    BY <2>4
<1>3. Suffix'
  BY <1>1, <1>2 DEF Suffix, Steps, Names
<1>4. Plain'
  BY <1>1, <1>3 DEF Shut, Plain
<1>5. ~Behind("work")' /\ ~Behind("quit")' /\ ~Behind("flushed")'
  <2>1. Len(todo') = After("work") + 1
    BY <1>1, AfterOrder DEF Shut, Plain, Steps
  <2>2. target' = target
    BY <1>1
  <2>3. After("work")' = After("work") /\ After("quit")' = After("quit")
        /\ After("flushed")' = After("flushed")
    BY <2>2 DEF After
  <2>. QED
    BY <2>1, <2>3, AfterOrder DEF Behind, Shut, Plain
<1>6. ~Behind("work") /\ ~Behind("quit") /\ ~Behind("flushed")
  BY <1>1 DEF Behind
<1>7. Orderly'
  BY <1>1, <1>5, <1>6 DEF Orderly, Shut
<1>. QED
  BY <1>4, <1>7

\* What one more awaited step puts behind shutdown().
LEMMA StepBehind ==
  ASSUME Shut, stopping, todo # <<>>, Done, UNCHANGED <<target, stopping>>
  PROVE  /\ Behind("work")' <=> Behind("work") \/ Len(todo) = After("work") + 1
         /\ Behind("quit")' <=> Behind("quit") \/ Len(todo) = After("quit") + 1
         /\ Behind("flushed")' <=> Behind("flushed") \/ Len(todo) = After("flushed") + 1
<1>1. Len(todo') = Len(todo) - 1 /\ Len(todo) \in Nat
  BY DoneShortens DEF Shut, Plain, Suffix
<1>2. /\ After("work")' = After("work") /\ After("quit")' = After("quit")
      /\ After("flushed")' = After("flushed")
  BY DEF After
<1>3. After("work") \in Nat /\ After("quit") \in Nat /\ After("flushed") \in Nat
  BY AfterOrder DEF Shut, Plain
<1>. QED
  BY <1>1, <1>2, <1>3 DEF Behind

LEMMA AwaitedKeeps ==
  ASSUME Shut, WorkDone \/ CallQuit \/ QuitReturns \/ CloseResource
  PROVE  Plain' /\ Orderly'
<1>1. /\ stopping /\ todo # <<>> /\ Done /\ target \in Processes
      /\ UNCHANGED <<target, busy, daemon, stopping, fatal, exit, cut, left, stream, faults>>
      /\ exit = "none"
  BY DEF WorkDone, CallQuit, QuitReturns, CloseResource, Closes, Awaits, busVars, Quit, streamVars,
         Shut, Plain
<1>2. taker' \in {"none", "shutdown", "fatal"}
  BY DEF WorkDone, CallQuit, QuitReturns, CloseResource, Shut, Plain
<1>3. Plain'
  BY <1>1, <1>2, DoneShortens DEF Shut, Plain
<1>4. /\ Behind("work")' <=> Behind("work") \/ Len(todo) = After("work") + 1
      /\ Behind("quit")' <=> Behind("quit") \/ Len(todo) = After("quit") + 1
      /\ Behind("flushed")' <=> Behind("flushed") \/ Len(todo) = After("flushed") + 1
  BY <1>1, StepBehind
<1>5. /\ After("work") \in Nat /\ After("quit") \in Nat /\ After("flushed") \in Nat
      /\ After("flushed") < After("quit") /\ After("quit") < After("work")
      /\ Len(todo) \in Nat
  BY <1>1, AfterOrder DEF Shut, Plain, Suffix
<1>6. /\ Head(todo) = "work" => Len(todo) = After("work") + 1
      /\ Head(todo) = "quit" => Len(todo) = After("quit") + 1
      /\ Head(todo) = "flushed" => Len(todo) = After("flushed") + 1
      /\ Head(todo) \notin {"work", "quit", "flushed"} =>
           /\ Len(todo) <= After("work")
           /\ Len(todo) # After("quit") + 1
           /\ Len(todo) # After("flushed") + 1
  BY <1>1, HeadIs DEF Shut, Plain
<1>7. CASE WorkDone
  <2>1. /\ Head(todo) = "work" /\ ~busy /\ (target = Server => NoStreams)
        /\ UNCHANGED <<client, quitting, taker>>
    BY <1>7 DEF WorkDone, Awaits, busVars
  <2>2. Len(todo) = After("work") + 1
    BY <1>6, <2>1
  <2>3. (Behind("quit")' <=> Behind("quit")) /\ (Behind("flushed")' <=> Behind("flushed"))
    BY <1>4, <1>5, <2>2
  <2>4. Orderly'
    BY <1>1, <2>1, <2>3 DEF Orderly, Shut, NoStreams
  <2>. QED
    BY <1>3, <2>4
<1>8. CASE CallQuit
  <2>1. Quit(target) /\ Head(todo) = "quit"
        /\ taker' = IF client[target] = "open" THEN "shutdown" ELSE taker
    BY <1>8 DEF CallQuit, Awaits
  <2>2. Len(todo) = After("quit") + 1
    BY <1>6, <2>1
  <2>3. /\ Behind("work")' <=> Behind("work")
        /\ Behind("quit")' /\ ~Behind("flushed")' /\ ~Behind("quit")
    BY <1>1, <1>4, <1>5, <2>2 DEF Behind
  <2>4. client[target] # "open" => UNCHANGED quitting
    BY <1>1, <2>1, QuitKeeps DEF Shut, BusSound
  <2>5. fatal = "none" => ~quitting[target].open
    BY <2>3 DEF Shut, Orderly
  <2>6. quitting'[target].open /\ fatal = "none" => taker' = "shutdown"
    BY <2>1, <2>4, <2>5
  <2>7. Orderly'
    <3>1. Behind("work")' => ~busy' /\ (target' = Server => NoStreams')
      BY <1>1, <2>3 DEF Orderly, Shut, NoStreams
    <3>2. (target' = Server => ~cut') /\ exit' # "0"
      BY <1>1 DEF Orderly, Shut
    <3>. QED
      BY <1>1, <2>3, <2>4, <2>6, <3>1, <3>2 DEF Orderly
  <2>. QED
    BY <1>3, <2>7
<1>9. CASE QuitReturns
  <2>1. /\ Head(todo) = "flushed" /\ (taker = "shutdown" => ~quitting[target].open)
        /\ UNCHANGED <<client, quitting, taker>>
    BY <1>9 DEF QuitReturns, Awaits, busVars, Flushed
  <2>2. Len(todo) = After("flushed") + 1
    BY <1>6, <2>1
  <2>3. (Behind("work")' <=> Behind("work")) /\ (Behind("quit")' <=> Behind("quit"))
    BY <1>1, <1>4, <1>5, <2>2 DEF Behind
  <2>4. Orderly'
    BY <1>1, <2>1, <2>3 DEF Orderly, Shut, NoStreams
  <2>. QED
    BY <1>3, <2>4
<1>10. CASE CloseResource
  <2>1. /\ Head(todo) \notin {"work", "quit", "flushed"}
        /\ UNCHANGED <<client, quitting, taker>>
    BY <1>10 DEF CloseResource, Closes, Awaits, busVars
  <2>2. /\ Behind("work")' <=> Behind("work")
        /\ Behind("quit")' <=> Behind("quit")
        /\ Behind("flushed")' <=> Behind("flushed")
    BY <1>1, <1>4, <1>5, <1>6, <2>1 DEF Behind
  <2>3. Orderly'
    BY <1>1, <2>1, <2>2 DEF Orderly, Shut, NoStreams
  <2>. QED
    BY <1>3, <2>3
<1>. QED
  BY <1>7, <1>8, <1>9, <1>10

LEMMA FatalQuitKeeps ==
  ASSUME Shut, FatalQuit
  PROVE  Plain' /\ Orderly'
<1>1. /\ fatal' = "flushed"
      /\ UNCHANGED <<target, busy, daemon, stopping, todo, exit, cut, left, stream, faults>>
  BY DEF FatalQuit, Quit, streamVars
<1>2. taker' \in {"none", "shutdown", "fatal"}
  BY DEF FatalQuit, Shut, Plain
<1>3. Plain'
  BY <1>1, <1>2, Standing DEF Shut, Plain
<1>4. Orderly'
  BY <1>1, Standing DEF Shut, Orderly, NoStreams
<1>. QED
  BY <1>3, <1>4

\* Exit code 0 is the end of shutdown().
LEMMA ExitLeaves ==
  ASSUME Shut, NEW code \in {"0", "1"}, Exit(code), code = "0" => stopping /\ todo = <<>>,
         UNCHANGED faults \/ Fault
  PROVE  Plain' /\ Orderly'
<1>1. target \in Processes /\ quitting \in [Processes -> Closing]
  BY DEF Shut, BusSound, ClientsSound
<1>2. /\ UNCHANGED <<target, stopping, todo, fatal, taker, cut>>
      /\ exit' = code /\ busy' = FALSE /\ daemon' = FALSE
      /\ quitting' = [quitting EXCEPT ![target] = Gone]
      /\ left' = (busy \/ (target = Server /\ ~NoStreams))
  BY DEF Exit
<1>3. left' \in BOOLEAN
  BY <1>2, Zenon
<1>4. Plain'
  BY <1>2, <1>3, Standing, FaultCounts DEF Shut, Plain
<1>5. ~quitting'[target'].open
  BY <1>1, <1>2, GoneIsClosing
<1>6. target' = Server => NoStreams' /\ ~cut'
  <2>1. NoStream.at = "idle" /\ [NoStream EXCEPT !.at = "closed"].at = "closed"
    BY DEF NoStream
  <2>2. target = Server => stream' = [s \in Streams |-> [NoStream EXCEPT !.at = "closed"]]
    BY DEF Exit
  <2>. QED
    BY <1>2, <2>1, <2>2 DEF NoStreams, Shut, Orderly
<1>7. exit' = "0" => ~left' /\ Behind("flushed")'
  <2> SUFFICES ASSUME code = "0"
               PROVE  ~left' /\ Behind("flushed")'
    BY <1>2
  <2>1. Behind("flushed") /\ Behind("work")
    BY BehindOrder
  <2>2. ~busy /\ (target = Server => NoStreams)
    BY <2>1 DEF Shut, Orderly
  <2>. QED
    BY <1>2, <2>1, <2>2, Standing
<1>. QED
  BY <1>2, <1>4, <1>5, <1>6, <1>7 DEF Orderly

LEMMA ShutKeeps ==
  ASSUME Shut, [Next]_vars
  PROVE  Shut'
<1>1. BusSound'
  BY BusKeeps DEF Shut
<1>2. CASE UNCHANGED vars
  <2>1. /\ UNCHANGED <<target, busy, daemon, stopping, todo, fatal, taker, exit, cut, left>>
        /\ UNCHANGED <<client, quitting, stream, faults>>
    BY <1>2 DEF vars, procVars, busVars
  <2>2. Plain'
    BY <2>1, Standing DEF Shut, Plain
  <2>3. Orderly'
    BY <2>1, Standing DEF Shut, Orderly, NoStreams
  <2>. QED
    BY <1>1, <2>2, <2>3 DEF Shut
<1>3. CASE Next
  <2> SUFFICES Plain' /\ Orderly'
    BY <1>1 DEF Shut
  <2>1. CASE BeginWork \/ EndWork \/ ForkDaemon \/ InterruptJobs \/ FatalError \/ FatalFlushed
    BY <2>1, WorkKeeps
  <2>2. CASE \/ \E p \in Processes, e \in Events : Announce(p, e)
             \/ \E e \in Events : DaemonPublishes(e)
    BY <2>2, AnnounceKeeps DEF Shut, Plain
  <2>3. CASE \E p \in Processes :
               \/ ClientStep(p) /\ UNCHANGED procVars
               \/ (ConnectFails(p) \/ ConnectionLost(p) \/ QuitFails(p)) /\ UNCHANGED procVars
    BY <2>3, ClientStepLeaves
  <2>4. CASE \E s \in Streams : \/ OpenStream(s)
                                \/ StreamStep(s) /\ UNCHANGED procVars
                                \/ (OnAbort(s) \/ SubscriberFails(s)) /\ UNCHANGED procVars
    BY <2>4, StreamStepsLeave DEF OpenStream
  <2>5. CASE Signal
    BY <2>5, SignalKeeps
  <2>6. CASE WorkDone \/ CallQuit \/ QuitReturns \/ CloseResource
    BY <2>6, AwaitedKeeps
  <2>7. CASE FatalQuit
    BY <2>7, FatalQuitKeeps
  <2>8. CASE CloseFails \/ Finish \/ ForceExit \/ FatalExit
    BY <2>8, ExitLeaves DEF CloseFails, Finish, ForceExit, FatalExit
  <2>. QED
    BY <1>3, <2>1, <2>2, <2>3, <2>4, <2>5, <2>6, <2>7, <2>8 DEF Next, ShutdownStep, FatalStep
<1>. QED
  BY <1>2, <1>3

LEMMA ShutHolds == Spec => []Shut
<1>1. Init => Shut
  BY ShutsInit
<1>2. Shut /\ [Next]_vars => Shut'
  BY ShutKeeps
<1>. QED
  BY <1>1, <1>2, PTL DEF Spec

-----------------------------------------------------------------------------
(* The order of one process's events at one stream: a is what was asked    *)
(* for, o what was sent, w what waits for the connection, d what Redis     *)
(* took.                                                                   *)

InLine(a, q)   == \A i, j \in 1..Len(q) : i < j => Before(a, q[i], q[j])
Ahead(a, d, q) == \A x \in Elems(d) \cap Elems(a), y \in Elems(q) : Before(a, x, y)
Agree(a, d)    == \A x, y \in Elems(a) : Before(d, x, y) => Before(a, x, y)

Line(a, o, w, d) ==
  InLine(a, o) /\ InLine(a, w) /\ Ahead(a, d, o) /\ Ahead(a, d, w) /\ Agree(a, d)

LEMMA BeforeIn ==
  ASSUME NEW q, NEW x, NEW y, Before(q, x, y)
  PROVE  x \in Elems(q) /\ y \in Elems(q)
  BY DEF Before, Elems

LEMMA Appended ==
  ASSUME NEW q \in Seq(Events), NEW e \in Events
  PROVE  /\ Elems(Append(q, e)) = Elems(q) \cup {e}
         /\ \A x, y : Before(q, x, y) => Before(Append(q, e), x, y)
         /\ \A x \in Elems(q) : Before(Append(q, e), x, e)
         /\ \A x, y : Before(Append(q, e), x, y) => Before(q, x, y) \/ (y = e /\ x \in Elems(q))
<1> DEFINE r == Append(q, e)
           n == Len(q)
<1>1. /\ n \in Nat /\ Len(r) = n + 1 /\ r[n + 1] = e
      /\ \A i \in 1..n : r[i] = q[i]
  OBVIOUS
<1> HIDE DEF r
<1>2. Elems(r) = Elems(q) \cup {e}
  BY <1>1 DEF Elems
<1>3. \A x, y : Before(q, x, y) => Before(r, x, y)
  BY <1>1 DEF Before
<1>4. \A x \in Elems(q) : Before(r, x, e)
  <2> SUFFICES ASSUME NEW i \in 1..n PROVE Before(r, q[i], e)
    BY DEF Elems
  <2>. QED
    BY <1>1 DEF Before
<1>5. ASSUME NEW x, NEW y, Before(r, x, y)
      PROVE  Before(q, x, y) \/ (y = e /\ x \in Elems(q))
  <2>1. PICK i, j \in 1..Len(r) : i < j /\ r[i] = x /\ r[j] = y
    BY <1>5 DEF Before
  <2>2. i \in 1..n /\ r[i] = q[i]
    BY <1>1, <2>1
  <2>3. CASE j = n + 1
    BY <1>1, <2>1, <2>2, <2>3 DEF Elems
  <2>4. CASE j # n + 1
    BY <1>1, <2>1, <2>2, <2>4 DEF Before
  <2>. QED
    BY <2>3, <2>4
<1>. QED
  BY <1>2, <1>3, <1>4, <1>5 DEF r

LEMMA Headed ==
  ASSUME NEW q \in Seq(Events), q # <<>>
  PROVE  /\ Tail(q) \in Seq(Events) /\ Head(q) \in Elems(q)
         /\ Elems(Tail(q)) \subseteq Elems(q)
         /\ \A a : InLine(a, q) => /\ InLine(a, Tail(q))
                                   /\ \A y \in Elems(Tail(q)) : Before(a, Head(q), y)
<1> DEFINE t == Tail(q)
           n == Len(q)
<1>1. /\ n \in Nat \ {0} /\ t \in Seq(Events) /\ Len(t) = n - 1 /\ Head(q) = q[1]
      /\ \A i \in 1..Len(t) : t[i] = q[i + 1]
  OBVIOUS
<1>2. \A i \in 1..Len(t) : i + 1 \in 1..n /\ i + 1 > 1
  BY <1>1
<1>3. 1 \in 1..n
  BY <1>1
<1> HIDE DEF t
<1>4. Head(q) \in Elems(q) /\ Elems(t) \subseteq Elems(q)
  BY <1>1, <1>2, <1>3 DEF Elems
<1>5. ASSUME NEW a, InLine(a, q)
      PROVE  InLine(a, t) /\ \A y \in Elems(t) : Before(a, Head(q), y)
  <2>1. ASSUME NEW i \in 1..Len(t), NEW j \in 1..Len(t), i < j
        PROVE  Before(a, t[i], t[j])
    BY <1>1, <1>2, <1>5, <2>1 DEF InLine
  <2>2. ASSUME NEW j \in 1..Len(t)
        PROVE  Before(a, Head(q), t[j])
    BY <1>1, <1>2, <1>3, <1>5, <2>2 DEF InLine
  <2>. QED
    BY <2>1, <2>2 DEF InLine, Elems
<1>. QED
  BY <1>1, <1>4, <1>5 DEF t

LEMMA NothingInLine ==
  ASSUME NEW a, NEW d
  PROVE  Elems(<<>>) = {} /\ InLine(a, <<>>) /\ Ahead(a, d, <<>>)
<1>1. Len(<<>>) = 0 /\ 1..0 = {}
  OBVIOUS
<1>2. Elems(<<>>) = {}
  BY <1>1 DEF Elems
<1>. QED
  BY <1>1, <1>2 DEF InLine, Ahead

\* An event nobody has published is asked for.
LEMMA LineAsked ==
  ASSUME NEW a \in Seq(Events), NEW o \in Seq(Events), NEW w \in Seq(Events),
         NEW d \in Seq(Events), NEW e \in Events, Line(a, o, w, d),
         Elems(o) \subseteq Elems(a), Elems(w) \subseteq Elems(a), e \notin Elems(d)
  PROVE  /\ Line(Append(a, e), Append(o, e), w, d)
         /\ Line(Append(a, e), o, Append(w, e), d)
<1> DEFINE b == Append(a, e)
<1>1. /\ Elems(b) = Elems(a) \cup {e}
      /\ \A x, y : Before(a, x, y) => Before(b, x, y)
      /\ \A x \in Elems(a) : Before(b, x, e)
  BY Appended
<1> HIDE DEF b
<1>2. ASSUME NEW q \in Seq(Events), Elems(q) \subseteq Elems(a), InLine(a, q), Ahead(a, d, q)
      PROVE  /\ InLine(b, q) /\ Ahead(b, d, q)
             /\ InLine(b, Append(q, e)) /\ Ahead(b, d, Append(q, e))
  <2> DEFINE r == Append(q, e)
             n == Len(q)
  <2>1. /\ n \in Nat /\ Len(r) = n + 1 /\ r[n + 1] = e
        /\ \A i \in 1..n : r[i] = q[i]
    OBVIOUS
  <2>2. Elems(r) = Elems(q) \cup {e}
    BY Appended
  <2> HIDE DEF r
  <2>3. InLine(b, q)
    BY <1>1, <1>2 DEF InLine
  <2>4. Ahead(b, d, q) /\ Ahead(b, d, r)
    BY <1>1, <1>2, <2>2 DEF Ahead
  <2>5. ASSUME NEW i \in 1..Len(r), NEW j \in 1..Len(r), i < j
        PROVE  Before(b, r[i], r[j])
    <3>4. i \in 1..n /\ r[i] = q[i]
      BY <2>1, <2>5
    <3>5. q[i] \in Elems(q)
      BY <3>4 DEF Elems
    <3>1. i \in 1..n /\ r[i] = q[i] /\ q[i] \in Elems(a)
      BY <1>2, <3>4, <3>5
    <3>2. CASE j = n + 1
      BY <1>1, <2>1, <3>1, <3>2
    <3>3. CASE j # n + 1
      <4>1. j \in 1..n /\ r[j] = q[j]
        BY <2>1, <3>3
      <4>. QED
        BY <2>3, <2>5, <3>1, <4>1 DEF InLine
    <3>. QED
      BY <3>2, <3>3
  <2>. QED
    BY <2>3, <2>4, <2>5 DEF InLine, r
<1>3. Agree(b, d)
  BY <1>1, BeforeIn DEF Line, Agree
<1>. QED
  BY <1>2, <1>3 DEF Line, b

\* Redis takes the first of the events that were sent.
LEMMA LineTaken ==
  ASSUME NEW a \in Seq(Events), NEW o \in Seq(Events), NEW d \in Seq(Events),
         Line(a, o, <<>>, d), o # <<>>, Elems(o) \subseteq Elems(a)
  PROVE  Line(a, Tail(o), <<>>, d) /\ Line(a, Tail(o), <<>>, Append(d, Head(o)))
<1> DEFINE h == Head(o)
           c == Append(d, h)
<1>1. /\ Tail(o) \in Seq(Events) /\ h \in Elems(o) /\ Elems(Tail(o)) \subseteq Elems(o)
      /\ InLine(a, Tail(o)) /\ \A y \in Elems(Tail(o)) : Before(a, h, y)
  BY Headed DEF Line
<1>2. h \in Events
  OBVIOUS
<1>3. /\ Elems(c) = Elems(d) \cup {h}
      /\ \A x, y : Before(c, x, y) => Before(d, x, y) \/ (y = h /\ x \in Elems(d))
  BY <1>2, Appended
<1> HIDE DEF c, h
<1>4. Ahead(a, d, Tail(o)) /\ Ahead(a, c, Tail(o))
  BY <1>1, <1>3 DEF Line, Ahead
<1>5. Agree(a, c)
  BY <1>1, <1>3 DEF Line, Agree, Ahead
<1>6. InLine(a, <<>>) /\ Ahead(a, d, <<>>) /\ Ahead(a, c, <<>>)
  BY NothingInLine
<1>. QED
  BY <1>1, <1>4, <1>5, <1>6 DEF Line, c, h

\* Redis takes an event of somebody else.
LEMMA LineElse ==
  ASSUME NEW a, NEW o, NEW w, NEW d \in Seq(Events), NEW h \in Events,
         Line(a, o, w, d), h \notin Elems(a)
  PROVE  Line(a, o, w, Append(d, h))
<1>1. /\ Elems(Append(d, h)) = Elems(d) \cup {h}
      /\ \A x, y : Before(Append(d, h), x, y) => Before(d, x, y) \/ (y = h /\ x \in Elems(d))
  BY Appended
<1>. QED
  BY <1>1 DEF Line, Ahead, Agree

\* What is dropped leaves the order of the rest.
LEMMA LineLess ==
  ASSUME NEW a, NEW o, NEW w, NEW d, Line(a, o, w, d)
  PROVE  Line(a, <<>>, w, d) /\ Line(a, o, <<>>, d) /\ Line(a, <<>>, <<>>, d)
         /\ Line(a, w, <<>>, d)
  BY NothingInLine DEF Line

\* r is what is left of q.
Rest(q, r) == Elems(r) \subseteq Elems(q) /\ \A a : InLine(a, q) => InLine(a, r)

LEMMA LineRest ==
  ASSUME NEW a, NEW o, NEW w, NEW d, NEW r, Line(a, o, w, d), Rest(o, r)
  PROVE  Line(a, r, w, d)
  BY DEF Line, Ahead, Rest

LEMMA Dropped ==
  ASSUME NEW q \in Seq(Events), NEW n \in 0..Len(q)
  PROVE  /\ Rest(q, SubSeq(q, n + 1, Len(q)))
         /\ Elems(q) \subseteq Elems(SubSeq(q, 1, n)) \cup Elems(SubSeq(q, n + 1, Len(q)))
         /\ Elems(SubSeq(q, 1, n)) \subseteq Events
<1> DEFINE f == SubSeq(q, 1, n)
           r == SubSeq(q, n + 1, Len(q))
           k == Len(q)
<1>1. k \in Nat /\ n \in 0..k
  OBVIOUS
<1>2. Len(f) = n /\ \A i \in 1..n : f[i] = q[i]
  OBVIOUS
<1>3. Len(r) = k - n /\ \A i \in 1..(k - n) : r[i] = q[n + i]
  OBVIOUS
<1> HIDE DEF f, r
<1>4. \A i \in 1..(k - n) : n + i \in 1..k
  BY <1>1
<1>5. Elems(r) \subseteq Elems(q)
  BY <1>3, <1>4 DEF Elems
<1>6. ASSUME NEW a, InLine(a, q)
      PROVE  InLine(a, r)
  <2> SUFFICES ASSUME NEW i \in 1..Len(r), NEW j \in 1..Len(r), i < j
               PROVE  Before(a, r[i], r[j])
    BY DEF InLine
  <2>1. n + i \in 1..k /\ n + j \in 1..k /\ n + i < n + j
    BY <1>1, <1>3, <1>4
  <2>. QED
    BY <1>3, <1>6, <2>1 DEF InLine
<1>7. ASSUME NEW i \in 1..k
      PROVE  q[i] \in Elems(f) \cup Elems(r)
  <2>1. CASE i <= n
    BY <1>1, <1>2, <2>1 DEF Elems
  <2>2. CASE ~(i <= n)
    <3>1. i - n \in 1..(k - n) /\ r[i - n] = q[i]
      BY <1>1, <1>3, <2>2
    <3>. QED
      BY <1>3, <3>1 DEF Elems
  <2>. QED
    BY <2>1, <2>2
<1>8. Elems(q) \subseteq Elems(f) \cup Elems(r)
  BY <1>7 DEF Elems
<1>9. Elems(f) \subseteq Events
  <2>1. \A i \in 1..n : i \in 1..k /\ q[i] \in Events
    BY <1>1
  <2>. QED
    BY <1>2, <2>1 DEF Elems
<1>. QED
  BY <1>5, <1>6, <1>8, <1>9 DEF Rest, f, r

-----------------------------------------------------------------------------
(* The order of the events                                                 *)

\* Everything on its way was published, by one process only.
Known ==
  /\ \A p \in Processes : Elems(outbox[p]) \cup Elems(awaiting[p]) \cup Elems(quitting[p].box)
                             \subseteq Elems(asked[p])
  /\ \A s \in Streams : \A x \in Elems(due[s]) : \E p \in Processes : x \in Elems(asked[p])
  /\ \A p, r \in Processes : p # r => Elems(asked[p]) \cap Elems(asked[r]) = {}

\* A client is closed only once one of the two sequences took it.
Counted(p) == p = target => taker = "none"
OnlyTaken  == \A p \in Processes : Counted(p) => ~quitting[p].open

Lined ==
  \A p \in Processes : Counted(p) =>
    \A s \in Streams : Line(asked[p], outbox[p], awaiting[p], due[s])

Ordered == Known /\ OnlyTaken /\ Lined

LEMMA OrderStarts ==
  ASSUME Init
  PROVE  Ordered
<1>1. /\ \A p \in Processes : /\ outbox[p] = <<>> /\ awaiting[p] = <<>> /\ asked[p] = <<>>
                              /\ quitting[p].box = <<>> /\ ~quitting[p].open
      /\ \A s \in Streams : due[s] = <<>>
  BY DEF Init, BusInit, Gone
<1>2. Elems(<<>>) = {}
  BY NothingInLine
<1>3. Line(<<>>, <<>>, <<>>, <<>>)
  BY NothingInLine DEF Line, Agree
<1>. QED
  BY <1>1, <1>2, <1>3 DEF Ordered, Known, OnlyTaken, Lined

\* Nothing is sent or taken, but something may be dropped.
LEMMA OrderLeaves ==
  ASSUME Ordered, UNCHANGED <<asked, due, target>>, taker' = "none" => taker = "none",
         \A p \in Processes :
           /\ outbox'[p] \in {outbox[p], <<>>} \/ Rest(outbox[p], outbox'[p])
           /\ awaiting'[p] \in {awaiting[p], <<>>}
           /\ quitting'[p].box \in {quitting[p].box, <<>>}
           /\ quitting'[p].open => quitting[p].open
  PROVE  Ordered'
<1>1. Elems(<<>>) = {}
  BY NothingInLine
<1>2. Known'
  <2>1. ASSUME NEW p \in Processes
        PROVE  Elems(outbox'[p]) \cup Elems(awaiting'[p]) \cup Elems(quitting'[p].box)
                 \subseteq Elems(asked[p])
    <3>1. /\ Elems(outbox'[p]) \subseteq Elems(asked[p])
          /\ Elems(awaiting'[p]) \subseteq Elems(asked[p])
          /\ Elems(quitting'[p].box) \subseteq Elems(asked[p])
      BY <1>1 DEF Ordered, Known, Rest
    <3>. QED
      BY <3>1
  <2>. QED
    BY <2>1 DEF Ordered, Known
<1>3. \A p \in Processes : Counted(p)' => Counted(p)
  BY DEF Counted
<1>4. OnlyTaken'
  BY <1>3 DEF Ordered, OnlyTaken
<1>5. Lined'
  <2> SUFFICES ASSUME NEW p \in Processes, Counted(p)', NEW s \in Streams
               PROVE  Line(asked[p], outbox'[p], awaiting'[p], due[s])
    BY DEF Lined
  <2>1. Line(asked[p], outbox[p], awaiting[p], due[s])
    BY <1>3 DEF Ordered, Lined
  <2>2. CASE Rest(outbox[p], outbox'[p])
    BY <2>1, <2>2, LineRest, LineLess
  <2>3. CASE outbox'[p] \in {outbox[p], <<>>}
    BY <2>1, <2>3, LineLess
  <2>. QED
    BY <2>2, <2>3
<1>. QED
  BY <1>2, <1>4, <1>5 DEF Ordered

LEMMA AnnounceOrders ==
  ASSUME BusSound, Ordered, NEW p \in Processes, NEW e \in Events, New(e), Publish(p, e),
         UNCHANGED <<target, taker>>
  PROVE  Ordered'
<1> DEFINE a == Append(asked[p], e)
           o == Append(outbox[p], e)
           w == Append(awaiting[p], e)
<1>1. /\ asked \in [Processes -> Seq(Events)] /\ outbox \in [Processes -> Seq(Events)]
      /\ awaiting \in [Processes -> Seq(Events)] /\ due \in [Streams -> Seq(Events)]
  BY DEF BusSound, ClientsSound, StreamsSound
<1>2. /\ asked[p] \in Seq(Events) /\ outbox[p] \in Seq(Events) /\ awaiting[p] \in Seq(Events)
  BY <1>1
<1>3. /\ UNCHANGED <<quitting, due, target, taker>>
      /\ asked'[p] = a
      /\ \/ outbox'[p] = o /\ awaiting'[p] = awaiting[p]
         \/ outbox'[p] = outbox[p] /\ awaiting'[p] = w
      /\ \A r \in Processes : r # p => /\ asked'[r] = asked[r] /\ outbox'[r] = outbox[r]
                                       /\ awaiting'[r] = awaiting[r]
  BY <1>1 DEF Publish, streamVars
<1>4. \A r \in Processes : e \notin Elems(asked[r])
  BY DEF New, Published
<1>5. /\ Elems(a) = Elems(asked[p]) \cup {e} /\ Elems(o) = Elems(outbox[p]) \cup {e}
      /\ Elems(w) = Elems(awaiting[p]) \cup {e}
  BY <1>2, Appended
<1>6. Elems(outbox[p]) \subseteq Elems(asked[p]) /\ Elems(awaiting[p]) \subseteq Elems(asked[p])
  BY DEF Ordered, Known
<1>7. \A s \in Streams : e \notin Elems(due[s])
  BY <1>4 DEF Ordered, Known
<1>8. ASSUME NEW s \in Streams, Line(asked[p], outbox[p], awaiting[p], due[s])
      PROVE  Line(a, o, awaiting[p], due[s]) /\ Line(a, outbox[p], w, due[s])
  <2>1. due[s] \in Seq(Events) /\ e \notin Elems(due[s])
    BY <1>1, <1>7
  <2>. QED
    BY <1>2, <1>6, <1>8, <2>1, LineAsked
<1> HIDE DEF a, o, w
<1>9. Known'
  <2>1. ASSUME NEW r \in Processes
        PROVE  Elems(outbox'[r]) \cup Elems(awaiting'[r]) \cup Elems(quitting'[r].box)
                 \subseteq Elems(asked'[r])
    <3>1. Elems(outbox[r]) \cup Elems(awaiting[r]) \cup Elems(quitting[r].box)
                 \subseteq Elems(asked[r])
      BY DEF Ordered, Known
    <3>2. CASE r = p
      BY <1>3, <1>5, <3>1, <3>2
    <3>3. CASE r # p
      BY <1>3, <3>1, <3>3
    <3>. QED
      BY <3>2, <3>3
  <2>3. ASSUME NEW s \in Streams, NEW x \in Elems(due'[s])
        PROVE  \E r \in Processes : x \in Elems(asked'[r])
    <3>1. x \in Elems(due[s])
      BY <1>3
    <3>2. PICK r \in Processes : x \in Elems(asked[r])
      BY <3>1 DEF Ordered, Known
    <3>3. CASE r = p
      BY <1>3, <1>5, <3>2, <3>3
    <3>4. CASE r # p
      BY <1>3, <3>2, <3>4
    <3>. QED
      BY <3>3, <3>4
  <2>4. \A q, r \in Processes : q # r => Elems(asked'[q]) \cap Elems(asked'[r]) = {}
    <3> SUFFICES ASSUME NEW q \in Processes, NEW r \in Processes, q # r,
                        NEW x \in Elems(asked'[q]) \cap Elems(asked'[r])
                 PROVE  FALSE
      OBVIOUS
    <3>1. x \in Elems(asked[q]) \/ (q = p /\ x = e)
      BY <1>3, <1>5
    <3>2. x \in Elems(asked[r]) \/ (r = p /\ x = e)
      BY <1>3, <1>5
    <3>. QED
      BY <1>4, <3>1, <3>2 DEF Ordered, Known
  <2>. QED
    BY <2>1, <2>3, <2>4 DEF Known
<1>10. OnlyTaken' /\ (\A r \in Processes : Counted(r)' <=> Counted(r))
  BY <1>3 DEF Ordered, OnlyTaken, Counted
<1>11. Lined'
  <2> SUFFICES ASSUME NEW r \in Processes, Counted(r), NEW s \in Streams
               PROVE  Line(asked'[r], outbox'[r], awaiting'[r], due[s])
    BY <1>3, <1>10 DEF Lined
  <2>1. Line(asked[r], outbox[r], awaiting[r], due[s])
    BY DEF Ordered, Lined
  <2>2. CASE r = p
    BY <1>3, <1>8, <2>1, <2>2
  <2>3. CASE r # p
    BY <1>3, <2>1, <2>3
  <2>. QED
    BY <2>2, <2>3
<1>. QED
  BY <1>9, <1>10, <1>11 DEF Ordered

LEMMA ConnectedOrders ==
  ASSUME BusSound, Ordered, NEW p \in Processes, Connected(p), UNCHANGED <<target, taker>>
  PROVE  Ordered'
<1>1. /\ awaiting[p] \in Seq(Events) /\ outbox[p] = <<>> /\ outbox \in [Processes -> Seq(Events)]
      /\ awaiting \in [Processes -> Seq(Events)]
  BY DEF BusSound, ClientsSound, Kept, Connected
<1>2. outbox[p] \o awaiting[p] = awaiting[p]
  BY <1>1
<1>3. /\ UNCHANGED <<quitting, asked, due>> /\ outbox'[p] = awaiting[p] /\ awaiting'[p] = <<>>
      /\ \A r \in Processes : r # p => outbox'[r] = outbox[r] /\ awaiting'[r] = awaiting[r]
  BY <1>1, <1>2 DEF Connected, streamVars
<1>4. Elems(<<>>) = {}
  BY NothingInLine
<1>5. Known'
  <2>1. ASSUME NEW r \in Processes
        PROVE  Elems(outbox'[r]) \cup Elems(awaiting'[r]) \cup Elems(quitting'[r].box)
                 \subseteq Elems(asked'[r])
    <3>1. Elems(outbox[r]) \cup Elems(awaiting[r]) \cup Elems(quitting[r].box)
                 \subseteq Elems(asked[r])
      BY DEF Ordered, Known
    <3>2. CASE r = p
      BY <1>3, <1>4, <3>1, <3>2
    <3>3. CASE r # p
      BY <1>3, <3>1, <3>3
    <3>. QED
      BY <3>2, <3>3
  <2>. QED
    BY <1>3, <2>1 DEF Ordered, Known
<1>6. OnlyTaken'
  BY <1>3 DEF Ordered, OnlyTaken, Counted
<1>7. Lined'
  <2> SUFFICES ASSUME NEW r \in Processes, Counted(r), NEW s \in Streams
               PROVE  Line(asked[r], outbox'[r], awaiting'[r], due[s])
    BY <1>3 DEF Lined, Counted
  <2>1. Line(asked[r], outbox[r], awaiting[r], due[s])
    BY DEF Ordered, Lined
  <2>2. CASE r = p
    BY <1>3, <2>1, <2>2, LineLess
  <2>3. CASE r # p
    BY <1>3, <2>1, <2>3
  <2>. QED
    BY <2>2, <2>3
<1>. QED
  BY <1>5, <1>6, <1>7 DEF Ordered

\* Redis takes event h of process p, which is the first that p sent, or one of
\* the client that p's shutdown took.
LEMMA TakenOrders ==
  ASSUME BusSound, Ordered, NEW p \in Processes, Taken(p) \/ TakenLast(p),
         UNCHANGED <<target, taker>>
  PROVE  Ordered'
<1>1. /\ asked \in [Processes -> Seq(Events)] /\ outbox \in [Processes -> Seq(Events)]
      /\ awaiting \in [Processes -> Seq(Events)] /\ due \in [Streams -> Seq(Events)]
      /\ quitting \in [Processes -> Closing]
  BY DEF BusSound, ClientsSound, StreamsSound
<1>2. /\ asked[p] \in Seq(Events) /\ outbox[p] \in Seq(Events) /\ quitting[p].box \in Seq(Events)
  BY <1>1 DEF Closing
<1>3. PICK h : /\ Spread(h) /\ UNCHANGED <<asked, awaiting>>
               /\ \/ /\ Taken(p) /\ h = Head(outbox[p]) /\ outbox[p] # <<>>
                  \/ /\ TakenLast(p) /\ h = Head(quitting[p].box) /\ quitting[p].box # <<>>
  BY DEF Taken, TakenLast
<1>4. /\ \/ outbox'[p] = Tail(outbox[p]) /\ h = Head(outbox[p]) /\ outbox[p] # <<>>
         \/ outbox'[p] = outbox[p] /\ ~Counted(p)
      /\ Elems(outbox'[p]) \subseteq Elems(outbox[p])
      /\ Elems(quitting'[p].box) \subseteq Elems(quitting[p].box)
      /\ quitting'[p].open = quitting[p].open
      /\ h \in Elems(asked[p])
      /\ \A r \in Processes : r # p => outbox'[r] = outbox[r] /\ quitting'[r] = quitting[r]
  <2>1. /\ Elems(outbox[p]) \subseteq Elems(asked[p])
        /\ Elems(quitting[p].box) \subseteq Elems(asked[p])
    BY DEF Ordered, Known
  <2>2. CASE Taken(p) /\ h = Head(outbox[p])
    <3>1. /\ outbox[p] # <<>> /\ outbox'[p] = Tail(outbox[p]) /\ UNCHANGED quitting
          /\ \A r \in Processes : r # p => outbox'[r] = outbox[r]
      BY <1>1, <2>2 DEF Taken
    <3>2. h = Head(outbox[p])
      BY <2>2
    <3>3. Head(outbox[p]) \in Elems(outbox[p]) /\ Elems(Tail(outbox[p])) \subseteq Elems(outbox[p])
      BY <1>2, <3>1, Headed
    <3>. QED
      BY <2>1, <3>1, <3>2, <3>3
  <2>3. CASE TakenLast(p) /\ h = Head(quitting[p].box)
    <3> DEFINE q == [quitting[p] EXCEPT !.box = Tail(quitting[p].box)]
    <3>1. /\ quitting[p].box # <<>> /\ UNCHANGED outbox /\ h = Head(quitting[p].box)
          /\ quitting' = [quitting EXCEPT ![p] = q]
      BY <2>3 DEF TakenLast
    <3>2. quitting[p] \in Closing
      BY <1>1
    <3>3. q.open = quitting[p].open
      BY <3>2, Zenon DEF Closing
    <3>4. q.box = Tail(quitting[p].box)
      BY <3>2, Zenon DEF Closing
    <3> HIDE DEF q
    <3>5. quitting'[p] = q /\ \A r \in Processes : r # p => quitting'[r] = quitting[r]
      BY <1>1, <3>1
    <3>6. quitting[p].open
      BY <3>1 DEF BusSound, ClientsSound, Kept
    <3>7. ~Counted(p)
      BY <3>6 DEF Ordered, OnlyTaken
    <3>8. /\ Head(quitting[p].box) \in Elems(quitting[p].box)
          /\ Elems(Tail(quitting[p].box)) \subseteq Elems(quitting[p].box)
      BY <1>2, <3>1, Headed
    <3>. QED
      BY <2>1, <3>1, <3>3, <3>4, <3>5, <3>7, <3>8
  <2>. QED
    BY <1>3, <2>2, <2>3
<1>5. h \in Events
  BY <1>2, <1>4 DEF Elems
<1>6. \A s \in Streams : due'[s] = due[s] \/ due'[s] = Append(due[s], h)
  BY <1>3 DEF Spread
<1>7. Known'
  <2>1. ASSUME NEW r \in Processes
        PROVE  Elems(outbox'[r]) \cup Elems(awaiting'[r]) \cup Elems(quitting'[r].box)
                 \subseteq Elems(asked'[r])
    <3>1. Elems(outbox[r]) \cup Elems(awaiting[r]) \cup Elems(quitting[r].box)
                 \subseteq Elems(asked[r])
      BY DEF Ordered, Known
    <3>2. CASE r = p
      BY <1>3, <1>4, <3>1, <3>2
    <3>3. CASE r # p
      BY <1>3, <1>4, <3>1, <3>3
    <3>. QED
      BY <3>2, <3>3
  <2>2. ASSUME NEW s \in Streams, NEW x \in Elems(due'[s])
        PROVE  \E r \in Processes : x \in Elems(asked'[r])
    <3>1. due[s] \in Seq(Events)
      BY <1>1
    <3>3. Elems(Append(due[s], h)) = Elems(due[s]) \cup {h}
      BY <1>5, <3>1, Appended
    <3>2. x \in Elems(due[s]) \/ x = h
      BY <1>6, <3>3
    <3>. QED
      BY <1>3, <1>4, <3>2 DEF Ordered, Known
  <2>. QED
    BY <1>3, <2>1, <2>2 DEF Ordered, Known
<1>8. \A r \in Processes : Counted(r)' <=> Counted(r)
  BY DEF Counted
<1>9. OnlyTaken'
  BY <1>4, <1>8 DEF Ordered, OnlyTaken
<1>10. Lined'
  <2> SUFFICES ASSUME NEW r \in Processes, Counted(r), NEW s \in Streams
               PROVE  Line(asked[r], outbox'[r], awaiting[r], due'[s])
    BY <1>3, <1>8 DEF Lined
  <2>1. Line(asked[r], outbox[r], awaiting[r], due[s]) /\ due[s] \in Seq(Events)
    BY <1>1 DEF Ordered, Lined
  <2>2. CASE r = p
    <3>1. outbox[p] # <<>> /\ outbox'[p] = Tail(outbox[p]) /\ h = Head(outbox[p])
      BY <1>4, <2>2
    <3>2. Kept(client[p], awaiting[p], outbox[p], quitting[p])
      BY DEF BusSound, ClientsSound
    <3>3. awaiting[p] = <<>>
      BY <3>1, <3>2 DEF Kept
    <3>4. Elems(outbox[p]) \subseteq Elems(asked[p])
      BY DEF Ordered, Known
    <3>5. /\ Line(asked[p], Tail(outbox[p]), <<>>, due[s])
          /\ Line(asked[p], Tail(outbox[p]), <<>>, Append(due[s], Head(outbox[p])))
      BY <1>2, <2>1, <2>2, <3>1, <3>3, <3>4, LineTaken
    <3>. QED
      BY <1>6, <2>2, <3>1, <3>3, <3>5
  <2>3. CASE r # p
    <3>1. h \notin Elems(asked[r])
      BY <1>4, <2>3 DEF Ordered, Known
    <3>2. Line(asked[r], outbox[r], awaiting[r], Append(due[s], h))
      BY <1>5, <2>1, <3>1, LineElse
    <3>. QED
      BY <1>4, <1>6, <2>1, <2>3, <3>2
  <2>. QED
    BY <2>2, <2>3
<1>. QED
  BY <1>7, <1>9, <1>10 DEF Ordered

LEMMA Joined ==
  ASSUME NEW q \in Seq(Events), NEW r \in Seq(Events), NEW S,
         Elems(q) \subseteq S, Elems(r) \subseteq S
  PROVE  Elems(q \o r) \subseteq S
<1> DEFINE z == q \o r
           n == Len(q)
           k == Len(r)
<1>1. /\ n \in Nat /\ k \in Nat /\ Len(z) = n + k
      /\ \A i \in 1..Len(z) : z[i] = IF i <= n THEN q[i] ELSE r[i - n]
  OBVIOUS
<1> HIDE DEF z
<1>2. ASSUME NEW i \in 1..Len(z)
      PROVE  z[i] \in S
  <2>1. CASE i <= n
    BY <1>1, <2>1 DEF Elems
  <2>2. CASE ~(i <= n)
    <3>1. i - n \in 1..k /\ z[i] = r[i - n]
      BY <1>1, <2>2
    <3>. QED
      BY <3>1 DEF Elems
  <2>. QED
    BY <2>1, <2>2
<1>. QED
  BY <1>2 DEF Elems, z

\* Who quits takes the client, and with it what was sent.
LEMMA QuitOrders ==
  ASSUME BusSound, Ordered, CallQuit \/ FatalQuit
  PROVE  Ordered'
<1>1. /\ target \in Processes /\ quitting \in [Processes -> Closing]
      /\ outbox \in [Processes -> Seq(Events)]
  BY DEF BusSound, ClientsSound
<1>2. /\ UNCHANGED <<asked, due, target, awaiting>> /\ Quit(target)
      /\ taker' = "none" => taker = "none" /\ client[target] # "open"
  BY DEF CallQuit, FatalQuit, Quit, streamVars
<1>3. CASE client[target] # "open"
  <2>1. UNCHANGED <<quitting, outbox>>
    BY <1>2, <1>3 DEF Quit
  <2>. QED
    BY <1>2, <2>1, OrderLeaves
<1>4. CASE client[target] = "open"
  <2> DEFINE b == quitting[target].box \o outbox[target]
             q == [open |-> TRUE, box |-> b]
  <2>1. /\ quitting' = [quitting EXCEPT ![target] = q]
        /\ outbox' = [outbox EXCEPT ![target] = <<>>]
    BY <1>2, <1>4 DEF Quit
  <2>2. quitting[target].box \in Seq(Events) /\ outbox[target] \in Seq(Events)
    BY <1>1 DEF Closing
  <2>3. Elems(b) \subseteq Elems(asked[target])
    <3>1. /\ Elems(quitting[target].box) \subseteq Elems(asked[target])
          /\ Elems(outbox[target]) \subseteq Elems(asked[target])
      BY <1>1 DEF Ordered, Known
    <3>. QED
      BY <2>2, <3>1, Joined
  <2>4. quitting'[target] = q /\ q.box = b /\ outbox'[target] = <<>>
        /\ \A r \in Processes : r # target => quitting'[r] = quitting[r] /\ outbox'[r] = outbox[r]
    BY <1>1, <2>1
  <2> HIDE DEF b, q
  <2>5. Known'
    <3>1. ASSUME NEW r \in Processes
          PROVE  Elems(outbox'[r]) \cup Elems(awaiting[r]) \cup Elems(quitting'[r].box)
                   \subseteq Elems(asked[r])
      <4>1. Elems(outbox[r]) \cup Elems(awaiting[r]) \cup Elems(quitting[r].box)
                   \subseteq Elems(asked[r])
        BY DEF Ordered, Known
      <4>2. Elems(<<>>) = {}
        BY NothingInLine
      <4>3. CASE r = target
        BY <2>3, <2>4, <4>1, <4>2, <4>3
      <4>4. CASE r # target
        BY <2>4, <4>1, <4>4
      <4>. QED
        BY <4>3, <4>4
    <3>. QED
      BY <1>2, <3>1 DEF Ordered, Known
  <2>6. ~Counted(target)' /\ \A r \in Processes : Counted(r)' => Counted(r) /\ r # target
    BY <1>2, <1>4 DEF Counted
  <2>7. OnlyTaken'
    BY <2>4, <2>6 DEF Ordered, OnlyTaken
  <2>8. Lined'
    BY <1>2, <2>4, <2>6 DEF Ordered, Lined
  <2>. QED
    BY <2>5, <2>7, <2>8 DEF Ordered
<1>. QED
  BY <1>3, <1>4

LEMMA ExitOrders ==
  ASSUME BusSound, Ordered, NEW code, Exit(code)
  PROVE  Ordered'
<1>1. /\ quitting \in [Processes -> Closing]
      /\ outbox \in [Processes -> Seq(Events)] /\ awaiting \in [Processes -> Seq(Events)]
  BY DEF BusSound, ClientsSound
<1>2. /\ UNCHANGED <<asked, due, target, taker>>
      /\ outbox' = [outbox EXCEPT ![target] = <<>>]
      /\ awaiting' = [awaiting EXCEPT ![target] = <<>>]
      /\ quitting' = [quitting EXCEPT ![target] = Gone]
  BY DEF Exit
<1>3. ASSUME NEW r \in Processes
      PROVE  /\ outbox'[r] \in {outbox[r], <<>>}
             /\ awaiting'[r] \in {awaiting[r], <<>>}
             /\ quitting'[r].box \in {quitting[r].box, <<>>}
             /\ quitting'[r].open => quitting[r].open
  BY <1>1, <1>2, GoneIsClosing
<1>. QED
  BY <1>2, <1>3, OrderLeaves

LEMMA OrderKeeps ==
  ASSUME BusSound, Ordered, [Next]_vars
  PROVE  Ordered'
<1>0. /\ client \in [Processes -> Clients] /\ quitting \in [Processes -> Closing]
      /\ outbox \in [Processes -> Seq(Events)] /\ awaiting \in [Processes -> Seq(Events)]
      /\ target \in Processes
  BY DEF BusSound, ClientsSound
<1>1. CASE \/ UNCHANGED vars
           \/ BeginWork \/ EndWork \/ ForkDaemon \/ Signal \/ InterruptJobs \/ WorkDone
           \/ QuitReturns \/ CloseResource \/ FatalError \/ FatalFlushed
  <2>1. UNCHANGED <<asked, due, target, taker, outbox, awaiting, quitting>>
    BY <1>1 DEF vars, procVars, busVars, clientVars, streamVars, BeginWork, EndWork, ForkDaemon,
                Signal, InterruptJobs, WorkDone, QuitReturns, CloseResource, FatalError, FatalFlushed
  <2>. QED
    BY <2>1, OrderLeaves
<1>2. CASE \/ \E p \in Processes, e \in Events : Announce(p, e)
           \/ \E e \in Events : DaemonPublishes(e)
  <2>1. PICK p \in Processes, e \in Events : New(e) /\ Publish(p, e) /\ UNCHANGED <<target, taker>>
    BY <1>0, <1>2 DEF Announce, DaemonPublishes, procVars
  <2>. QED
    BY <2>1, AnnounceOrders
<1>3. CASE \E p \in Processes :
             \/ ClientStep(p) /\ UNCHANGED procVars
             \/ (ConnectFails(p) \/ ConnectionLost(p) \/ QuitFails(p)) /\ UNCHANGED procVars
  <2>1. PICK p \in Processes :
               /\ ClientStep(p) \/ ConnectFails(p) \/ ConnectionLost(p) \/ QuitFails(p)
               /\ UNCHANGED <<target, taker>>
    BY <1>3 DEF procVars
  <2>2. CASE Connected(p)
    BY <2>1, <2>2, ConnectedOrders
  <2>3. CASE Taken(p) \/ TakenLast(p)
    BY <2>1, <2>3, TakenOrders
  <2>4. CASE ConnectFails(p) \/ ConnectionLost(p)
    <3>1. /\ UNCHANGED <<asked, due, quitting>>
          /\ \A r \in Processes : awaiting'[r] \in {awaiting[r], <<>>}
      BY <1>0, <2>4 DEF ConnectFails, ConnectionLost, streamVars
    <3>2. ASSUME NEW r \in Processes
          PROVE  outbox'[r] = outbox[r] \/ Rest(outbox[r], outbox'[r])
      <4>1. CASE ConnectFails(p) \/ r # p
        BY <1>0, <2>4, <4>1 DEF ConnectFails, ConnectionLost
      <4>2. CASE ConnectionLost(p) /\ r = p
        <5>1. PICK n \in 0..Len(outbox[r]) :
                outbox'[r] = SubSeq(outbox[r], n + 1, Len(outbox[r]))
          BY <1>0, <4>2 DEF ConnectionLost
        <5>. QED
          BY <1>0, <5>1, Dropped
      <4>. QED
        BY <2>4, <4>1, <4>2
    <3>. QED
      BY <2>1, <3>1, <3>2, OrderLeaves
  <2>5. CASE QuitDone(p) \/ QuitFails(p)
    <3>1. /\ UNCHANGED <<asked, due, outbox, awaiting>>
          /\ \A r \in Processes : quitting'[r] = quitting[r] \/ quitting'[r] = Gone
      BY <1>0, <2>5 DEF QuitDone, QuitFails, streamVars
    <3>. QED
      BY <2>1, <3>1, GoneIsClosing, OrderLeaves
  <2>. QED
    BY <2>1, <2>2, <2>3, <2>4, <2>5 DEF ClientStep
<1>4. CASE \E s \in Streams : \/ OpenStream(s)
                              \/ StreamStep(s) /\ UNCHANGED procVars
                              \/ (OnAbort(s) \/ SubscriberFails(s)) /\ UNCHANGED procVars
  <2>1. UNCHANGED <<asked, due, target, taker, outbox, awaiting, quitting>>
    BY <1>4 DEF OpenStream, StreamStep, Greet, OnAbort, SubscriberFails, Begin,
                SubscriberConnected, Subscribed, Loop, OnMessage, Resume, Yield, Drained, Return,
                Finally, OnlyStream, clientVars, procVars
  <2>. QED
    BY <2>1, OrderLeaves
<1>5. CASE CallQuit \/ FatalQuit
  BY <1>5, QuitOrders
<1>6. CASE CloseFails \/ Finish \/ ForceExit \/ FatalExit
  BY <1>6, ExitOrders DEF CloseFails, Finish, ForceExit, FatalExit
<1>. QED
  BY <1>1, <1>2, <1>3, <1>4, <1>5, <1>6 DEF Next, ShutdownStep, FatalStep

\* publishSSEEvent and ensureRedisPublisher: the events of one process reach every
\* stream in the order in which they were published, those that waited for the
\* connection included; for any number of processes' events, streams and faults.
THEOREM EventsComeInOrder == Spec => []InOrder
<1>1. Init => BusSound /\ Ordered
  BY BeginsSound, OrderStarts
<1>2. BusSound /\ Ordered /\ [Next]_vars => BusSound' /\ Ordered'
  BY BusKeeps, OrderKeeps
<1>3. Ordered => InOrder
  BY DEF Ordered, Lined, Line, Agree, Counted, InOrder, Published
<1>. QED
  BY <1>1, <1>2, <1>3, PTL DEF Spec

-----------------------------------------------------------------------------
(* What becomes of the events                                              *)

\* Whatever a process still has to hand over.
Held(p) == Elems(awaiting[p]) \cup Elems(outbox[p]) \cup Elems(quitting[p].box)
Over    == taken \cup lost

\* A running target has lost sight of none of its events; and those it had when
\* its work was done are handed over, or are so before the end of QUIT.
Accounted ==
  /\ taken \subseteq Events /\ lost \subseteq Events
  /\ owed \subseteq Elems(asked[target])
  /\ exit = "none" => Elems(asked[target]) \subseteq Over \cup Held(target)
  /\ fatal = "none" /\ exit # "1" /\ Behind("quit") =>
       owed \subseteq Over \cup Elems(quitting[target].box)

LEMMA ElemsIn ==
  ASSUME NEW q \in Seq(Events)
  PROVE  Elems(q) \subseteq Events
  BY DEF Elems

\* The first event is handed over and the rest stays.
LEMMA Handed ==
  ASSUME NEW q \in Seq(Events), q # <<>>
  PROVE  Elems(q) \subseteq {Head(q)} \cup Elems(Tail(q)) /\ Head(q) \in Events
<1> DEFINE t == Tail(q)
           n == Len(q)
<1>1. /\ n \in Nat \ {0} /\ Len(t) = n - 1 /\ Head(q) = q[1] /\ Head(q) \in Events
      /\ \A i \in 1..(n - 1) : t[i] = q[i + 1]
  OBVIOUS
<1> HIDE DEF t
<1>2. ASSUME NEW i \in 1..n
      PROVE  q[i] \in {Head(q)} \cup Elems(t)
  <2>1. CASE i = 1
    BY <1>1, <2>1
  <2>2. CASE i # 1
    <3>1. i - 1 \in 1..(n - 1) /\ t[i - 1] = q[i]
      BY <1>1, <2>2
    <3>. QED
      BY <1>1, <3>1 DEF Elems
  <2>. QED
    BY <2>1, <2>2
<1>. QED
  BY <1>1, <1>2 DEF Elems, t

LEMMA BothIn ==
  ASSUME NEW q \in Seq(Events), NEW r \in Seq(Events)
  PROVE  Elems(q) \subseteq Elems(q \o r) /\ Elems(r) \subseteq Elems(q \o r)
<1> DEFINE z == q \o r
           n == Len(q)
           k == Len(r)
<1>1. /\ n \in Nat /\ k \in Nat /\ Len(z) = n + k
      /\ \A i \in 1..n : z[i] = q[i]
      /\ \A i \in 1..k : z[n + i] = r[i]
  OBVIOUS
<1> HIDE DEF z
<1>2. \A i \in 1..n : i \in 1..Len(z)
  BY <1>1
<1>3. \A i \in 1..k : n + i \in 1..Len(z)
  BY <1>1
<1>. QED
  BY <1>1, <1>2, <1>3 DEF Elems, z

\* A step of a client loses sight of no event of its process.
LEMMA ClientHolds ==
  ASSUME BusSound, taken \subseteq Events, lost \subseteq Events, NEW p \in Processes,
         ClientStep(p) \/ ConnectFails(p) \/ ConnectionLost(p) \/ QuitFails(p)
  PROVE  /\ taken' \subseteq Events /\ lost' \subseteq Events /\ Over \subseteq Over'
         /\ Over \cup Held(p) \subseteq Over' \cup Held(p)'
         /\ Over \cup Elems(quitting[p].box) \subseteq Over' \cup Elems(quitting'[p].box)
         /\ \A r \in Processes : r # p => /\ awaiting'[r] = awaiting[r] /\ outbox'[r] = outbox[r]
                                          /\ quitting'[r] = quitting[r]
<1>0. /\ awaiting \in [Processes -> Seq(Events)] /\ outbox \in [Processes -> Seq(Events)]
      /\ quitting \in [Processes -> Closing]
      /\ awaiting[p] \in Seq(Events) /\ outbox[p] \in Seq(Events) /\ quitting[p] \in Closing
      /\ quitting[p].box \in Seq(Events)
      /\ Kept(client[p], awaiting[p], outbox[p], quitting[p])
  BY DEF BusSound, ClientsSound, Closing
<1>1. CASE Connected(p)
  <2>1. /\ UNCHANGED <<taken, lost, quitting>> /\ outbox'[p] = outbox[p] \o awaiting[p]
        /\ \A r \in Processes : r # p => awaiting'[r] = awaiting[r] /\ outbox'[r] = outbox[r]
    BY <1>0, <1>1 DEF Connected, fateVars
  <2>2. /\ Elems(outbox[p]) \subseteq Elems(outbox'[p])
        /\ Elems(awaiting[p]) \subseteq Elems(outbox'[p])
    BY <1>0, <2>1, BothIn
  <2>. QED
    BY <2>1, <2>2 DEF Over, Held
<1>2. CASE ConnectFails(p)
  <2>1. /\ UNCHANGED <<taken, quitting, outbox>> /\ lost' = lost \cup Elems(awaiting[p])
        /\ \A r \in Processes : r # p => awaiting'[r] = awaiting[r]
    BY <1>0, <1>2 DEF ConnectFails
  <2>2. Elems(awaiting[p]) \subseteq Events
    BY <1>0, ElemsIn
  <2>. QED
    BY <2>1, <2>2 DEF Over, Held
<1>3. CASE ConnectionLost(p)
  <2>1. PICK n \in 0..Len(outbox[p]) :
          /\ outbox' = [outbox EXCEPT ![p] = SubSeq(outbox[p], n + 1, Len(outbox[p]))]
          /\ lost' = lost \cup Elems(SubSeq(outbox[p], 1, n))
    BY <1>3 DEF ConnectionLost
  <2>2. /\ UNCHANGED <<taken, quitting, awaiting>>
        /\ outbox'[p] = SubSeq(outbox[p], n + 1, Len(outbox[p]))
        /\ \A r \in Processes : r # p => outbox'[r] = outbox[r]
    BY <1>0, <1>3, <2>1 DEF ConnectionLost
  <2>3. /\ Elems(outbox[p]) \subseteq Elems(SubSeq(outbox[p], 1, n)) \cup Elems(outbox'[p])
        /\ Elems(SubSeq(outbox[p], 1, n)) \subseteq Events
    BY <1>0, <2>2, Dropped
  <2>. QED
    BY <2>1, <2>2, <2>3 DEF Over, Held
<1>4. CASE Taken(p)
  <2>1. /\ UNCHANGED <<lost, quitting, awaiting>> /\ outbox[p] # <<>>
        /\ taken' = taken \cup {Head(outbox[p])} /\ outbox'[p] = Tail(outbox[p])
        /\ \A r \in Processes : r # p => outbox'[r] = outbox[r]
    BY <1>0, <1>4 DEF Taken, Spread
  <2>2. /\ Elems(outbox[p]) \subseteq {Head(outbox[p])} \cup Elems(outbox'[p])
        /\ Head(outbox[p]) \in Events
    BY <1>0, <2>1, Handed
  <2>. QED
    BY <2>1, <2>2 DEF Over, Held
<1>5. CASE TakenLast(p)
  <2> DEFINE q == [quitting[p] EXCEPT !.box = Tail(quitting[p].box)]
  <2>1. /\ UNCHANGED <<lost, outbox, awaiting>> /\ quitting[p].box # <<>>
        /\ taken' = taken \cup {Head(quitting[p].box)} /\ quitting'[p] = q
        /\ \A r \in Processes : r # p => quitting'[r] = quitting[r]
    BY <1>0, <1>5 DEF TakenLast, Spread
  <2>2. q.box = Tail(quitting[p].box)
    BY <1>0, Zenon DEF Closing
  <2> HIDE DEF q
  <2>3. /\ Elems(quitting[p].box) \subseteq {Head(quitting[p].box)} \cup Elems(quitting'[p].box)
        /\ Head(quitting[p].box) \in Events
    BY <1>0, <2>1, <2>2, Handed
  <2>. QED
    BY <2>1, <2>3 DEF Over, Held
<1>6. CASE QuitDone(p)
  <2>1. /\ UNCHANGED <<taken, lost, outbox, awaiting>> /\ quitting[p].box = <<>>
        /\ quitting'[p] = Gone /\ \A r \in Processes : r # p => quitting'[r] = quitting[r]
    BY <1>0, <1>6 DEF QuitDone, fateVars
  <2>2. quitting'[p].box = quitting[p].box
    BY <2>1, GoneIsClosing
  <2>. QED
    BY <2>1, <2>2 DEF Over, Held
<1>7. CASE QuitFails(p)
  <2>1. /\ UNCHANGED <<taken, outbox, awaiting>> /\ lost' = lost \cup Elems(quitting[p].box)
        /\ \A r \in Processes : r # p => quitting'[r] = quitting[r]
    BY <1>0, <1>7 DEF QuitFails
  <2>2. Elems(quitting[p].box) \subseteq Events
    BY <1>0, ElemsIn
  <2>. QED
    BY <2>1, <2>2 DEF Over, Held
<1>. QED
  BY <1>1, <1>2, <1>3, <1>4, <1>5, <1>6, <1>7 DEF ClientStep

LEMMA StartsAccounted ==
  ASSUME Init
  PROVE  Accounted
<1>1. /\ taken = {} /\ lost = {} /\ owed = {} /\ target \in Processes /\ ~stopping
      /\ asked[target] = <<>>
  BY DEF Init, BusInit
<1>2. Elems(<<>>) = {}
  BY NothingInLine
<1>. QED
  BY <1>1, <1>2 DEF Accounted, Behind

\* Nothing is published, and what is given up is counted.
LEMMA AccountStays ==
  ASSUME Shut, Accounted, UNCHANGED <<asked, owed, target, stopping, todo>>,
         fatal' = "none" => fatal = "none", exit' = "none" => exit = "none",
         exit' # "1" => exit # "1",
         taken' \subseteq Events, lost' \subseteq Events,
         exit' = "none" => Over \cup Held(target) \subseteq Over' \cup Held(target)',
         exit' # "1" => Over \cup Elems(quitting[target].box)
                          \subseteq Over' \cup Elems(quitting'[target].box)
  PROVE  Accounted'
<1>1. Behind("quit")' <=> Behind("quit")
  BY Standing
<1>2. exit' = "none" => Elems(asked'[target']) \subseteq Over' \cup Held(target)'
  BY DEF Accounted
<1>3. fatal' = "none" /\ exit' # "1" /\ Behind("quit")' =>
        owed' \subseteq Over' \cup Elems(quitting'[target'].box)
  BY <1>1 DEF Accounted
<1>. QED
  BY <1>2, <1>3 DEF Accounted, Held

LEMMA PublishAccounted ==
  ASSUME Shut, Accounted, NEW p \in Processes, NEW e \in Events, Publish(p, e),
         UNCHANGED <<owed, target, stopping, todo, fatal, exit>>
  PROVE  Accounted'
<1>0. /\ asked \in [Processes -> Seq(Events)] /\ outbox \in [Processes -> Seq(Events)]
      /\ awaiting \in [Processes -> Seq(Events)] /\ target \in Processes
      /\ asked[target] \in Seq(Events) /\ outbox[target] \in Seq(Events)
      /\ awaiting[target] \in Seq(Events)
  BY DEF Shut, BusSound, ClientsSound
<1>1. UNCHANGED <<taken, lost, quitting>> /\ Over' = Over
  BY DEF Publish, fateVars, Over
<1>2. /\ Elems(asked[target]) \subseteq Elems(asked'[target])
      /\ exit = "none" => Elems(asked'[target]) \subseteq Over' \cup Held(target)'
  <2>1. CASE p # target
    <3>1. asked'[target] = asked[target] /\ outbox'[target] = outbox[target]
          /\ awaiting'[target] = awaiting[target]
      BY <1>0, <2>1 DEF Publish
    <3>. QED
      BY <1>1, <3>1 DEF Accounted, Held
  <2>2. CASE p = target
    <3>1. /\ asked'[target] = Append(asked[target], e)
          /\ \/ outbox'[target] = Append(outbox[target], e) /\ awaiting'[target] = awaiting[target]
             \/ outbox'[target] = outbox[target] /\ awaiting'[target] = Append(awaiting[target], e)
      BY <1>0, <2>2 DEF Publish
    <3>2. /\ Elems(Append(asked[target], e)) = Elems(asked[target]) \cup {e}
          /\ Elems(Append(outbox[target], e)) = Elems(outbox[target]) \cup {e}
          /\ Elems(Append(awaiting[target], e)) = Elems(awaiting[target]) \cup {e}
      BY <1>0, Appended
    <3>3. Held(target)' = Held(target) \cup {e}
      BY <1>1, <3>1, <3>2 DEF Held
    <3>. QED
      BY <1>1, <3>1, <3>2, <3>3 DEF Accounted
  <2>. QED
    BY <2>1, <2>2
<1>3. Behind("quit")' <=> Behind("quit")
  BY Standing
<1>4. owed' \subseteq Elems(asked'[target']) /\ taken' \subseteq Events /\ lost' \subseteq Events
  BY <1>1, <1>2 DEF Accounted
<1>5. fatal' = "none" /\ exit' # "1" /\ Behind("quit")' =>
        owed' \subseteq Over' \cup Elems(quitting'[target'].box)
  BY <1>1, <1>3 DEF Accounted
<1>6. exit' = "none" => Elems(asked'[target']) \subseteq Over' \cup Held(target)'
  BY <1>2
<1>. QED
  BY <1>4, <1>5, <1>6 DEF Accounted, Held

\* The sequence of shutdown(): what it owes is fixed once its work is done, and
\* it takes the client when nobody waits for it any more.
LEMMA AwaitedAccounted ==
  ASSUME Shut, Accounted, WorkDone \/ CallQuit \/ QuitReturns \/ CloseResource
  PROVE  Accounted'
<1>1. /\ stopping /\ todo # <<>> /\ Done /\ target \in Processes
      /\ UNCHANGED <<target, stopping, fatal, exit, asked, taken, lost, awaiting>>
      /\ exit = "none" /\ Over' = Over
  BY DEF WorkDone, CallQuit, QuitReturns, CloseResource, Closes, Awaits, busVars, Quit, streamVars,
         fateVars, Shut, Plain, Over
<1>2. Behind("quit")' <=> Behind("quit") \/ Len(todo) = After("quit") + 1
  BY <1>1, StepBehind
<1>3. /\ After("work") \in Nat /\ After("quit") \in Nat /\ After("flushed") \in Nat
      /\ After("flushed") < After("quit") /\ After("quit") < After("work")
      /\ Len(todo) \in Nat
  BY <1>1, AfterOrder DEF Shut, Plain, Suffix
<1>4. /\ Head(todo) = "work" => Len(todo) = After("work") + 1
      /\ Head(todo) = "flushed" => Len(todo) = After("flushed") + 1
      /\ Head(todo) \notin {"work", "quit", "flushed"} => Len(todo) # After("quit") + 1
  BY <1>1, HeadIs DEF Shut, Plain
<1>5. CASE WorkDone
  <2>1. Head(todo) = "work" /\ owed' = Elems(asked[target]) /\ UNCHANGED <<outbox, quitting>>
    BY <1>5 DEF WorkDone, Awaits, Published, busVars
  <2>2. ~Behind("quit")'
    BY <1>2, <1>3, <1>4, <2>1 DEF Behind
  <2>3. Held(target)' = Held(target)
    BY <1>1, <2>1 DEF Held
  <2>. QED
    BY <1>1, <2>1, <2>2, <2>3 DEF Accounted, Held
<1>6. CASE CallQuit
  <2>1. Quit(target) /\ UNCHANGED owed
    BY <1>6 DEF CallQuit
  <2>2. /\ awaiting[target] = <<>> /\ Elems(awaiting[target]) = {}
        /\ client[target] # "open" => outbox[target] = <<>>
    <3>1. Kept(client[target], awaiting[target], outbox[target], quitting[target])
      BY <1>1 DEF Shut, BusSound, ClientsSound
    <3>. QED
      BY <2>1, <3>1, NothingInLine DEF Kept, Quit, MayQuit
  <2>3. /\ Elems(outbox[target]) \subseteq Elems(quitting'[target].box)
        /\ Elems(quitting[target].box) \subseteq Elems(quitting'[target].box)
    <3>1. /\ quitting \in [Processes -> Closing] /\ outbox[target] \in Seq(Events)
          /\ quitting[target].box \in Seq(Events)
      BY <1>1 DEF Shut, BusSound, ClientsSound, Closing
    <3>2. CASE client[target] = "open"
      <4> DEFINE b == quitting[target].box \o outbox[target]
      <4>1. quitting' = [quitting EXCEPT ![target] = [open |-> TRUE, box |-> b]]
        BY <2>1, <3>2 DEF Quit
      <4>2. quitting'[target].box = b
        BY <1>1, <3>1, <4>1
      <4>. QED
        BY <3>1, <4>2, BothIn
    <3>3. CASE client[target] # "open"
      <4>1. UNCHANGED quitting /\ Elems(outbox[target]) = {}
        BY <2>1, <2>2, <3>3, NothingInLine DEF Quit
      <4>. QED
        BY <4>1
    <3>. QED
      BY <3>2, <3>3
  <2>4. Elems(asked[target]) \subseteq Over' \cup Elems(quitting'[target].box)
    BY <1>1, <2>2, <2>3 DEF Accounted, Held
  <2>. QED
    BY <1>1, <2>1, <2>4 DEF Accounted, Held
<1>7. CASE QuitReturns \/ CloseResource
  <2>1. UNCHANGED <<owed, outbox, quitting>>
    BY <1>7 DEF QuitReturns, CloseResource, busVars
  <2>2. Behind("quit")' <=> Behind("quit")
    <3>1. CASE QuitReturns
      <4>1. Len(todo) = After("flushed") + 1
        BY <1>4, <3>1 DEF QuitReturns, Awaits
      <4>. QED
        BY <1>1, <1>2, <1>3, <4>1 DEF Behind
    <3>2. CASE CloseResource
      <4>1. Len(todo) # After("quit") + 1
        BY <1>4, <3>2 DEF CloseResource, Closes, Awaits
      <4>. QED
        BY <1>2, <4>1
    <3>. QED
      BY <1>7, <3>1, <3>2
  <2>3. Held(target)' = Held(target)
    BY <1>1, <2>1 DEF Held
  <2>. QED
    BY <1>1, <2>1, <2>2, <2>3 DEF Accounted, Held
<1>. QED
  BY <1>5, <1>6, <1>7

\* Exit code 0 comes behind the end of QUIT.
LEMMA ExitAccounted ==
  ASSUME Shut, Accounted, NEW code \in {"0", "1"}, Exit(code),
         code = "0" => stopping /\ todo = <<>>
  PROVE  Accounted'
<1>1. /\ UNCHANGED <<asked, owed, target, stopping, todo, fatal, taken, lost>>
      /\ exit' = code /\ exit' # "none" /\ Over' = Over
      /\ quitting' = [quitting EXCEPT ![target] = Gone]
  BY DEF Exit, fateVars, Over
<1>2. Behind("quit")' <=> Behind("quit")
  BY <1>1, Standing
<1>3. ASSUME fatal = "none", code = "0"
      PROVE  owed \subseteq Over'
  <2>1. Behind("flushed") /\ Behind("quit")
    BY <1>3, BehindOrder
  <2>2. ~quitting[target].open /\ exit = "none"
    BY <1>3, <2>1 DEF Shut, Orderly, Exit
  <2>3. quitting[target].box = <<>>
    BY <2>2 DEF Shut, BusSound, ClientsSound, Kept
  <2>4. Elems(quitting[target].box) = {}
    BY <2>3, NothingInLine
  <2>. QED
    BY <1>1, <1>3, <2>1, <2>2, <2>4 DEF Accounted
<1>4. exit' # "1" => code = "0"
  BY <1>1
<1>. QED
  BY <1>1, <1>2, <1>3, <1>4 DEF Accounted

LEMMA AccountKeeps ==
  ASSUME Shut, Accounted, [Next]_vars
  PROVE  Accounted'
<1>0. target \in Processes
  BY DEF Shut, BusSound
<1>1. CASE \/ UNCHANGED vars
           \/ BeginWork \/ EndWork \/ ForkDaemon \/ InterruptJobs \/ FatalError \/ FatalFlushed
  <2>1. /\ UNCHANGED <<asked, owed, target, stopping, todo, exit, taken, lost>>
        /\ UNCHANGED <<awaiting, outbox, quitting>>
        /\ fatal' = "none" => fatal = "none"
    BY <1>1 DEF vars, procVars, busVars, clientVars, streamVars, fateVars, BeginWork, EndWork,
                ForkDaemon, InterruptJobs, FatalError, FatalFlushed
  <2>2. Over' = Over /\ Held(target)' = Held(target) /\ taken' \subseteq Events /\ lost' \subseteq Events
    BY <2>1 DEF Over, Held, Accounted
  <2>. QED
    BY <2>1, <2>2, AccountStays
<1>2. CASE \/ \E p \in Processes, e \in Events : Announce(p, e)
           \/ \E e \in Events : DaemonPublishes(e)
  <2>1. PICK p \in Processes, e \in Events :
               Publish(p, e) /\ UNCHANGED <<owed, target, stopping, todo, fatal, exit>>
    BY <1>0, <1>2 DEF Announce, DaemonPublishes, procVars
  <2>. QED
    BY <2>1, PublishAccounted
<1>3. CASE \E p \in Processes :
             \/ ClientStep(p) /\ UNCHANGED procVars
             \/ (ConnectFails(p) \/ ConnectionLost(p) \/ QuitFails(p)) /\ UNCHANGED procVars
  <2>1. PICK p \in Processes :
               /\ ClientStep(p) \/ ConnectFails(p) \/ ConnectionLost(p) \/ QuitFails(p)
               /\ UNCHANGED <<owed, target, stopping, todo, fatal, exit>>
    BY <1>3 DEF procVars
  <2>2. UNCHANGED asked
    BY <2>1 DEF ClientStep, Connected, Taken, TakenLast, QuitDone, ConnectFails, ConnectionLost,
                QuitFails
  <2>3. /\ taken' \subseteq Events /\ lost' \subseteq Events /\ Over \subseteq Over'
        /\ Over \cup Held(p) \subseteq Over' \cup Held(p)'
        /\ Over \cup Elems(quitting[p].box) \subseteq Over' \cup Elems(quitting'[p].box)
        /\ \A r \in Processes : r # p => /\ awaiting'[r] = awaiting[r] /\ outbox'[r] = outbox[r]
                                         /\ quitting'[r] = quitting[r]
    BY <2>1, ClientHolds DEF Shut, Accounted
  <2>4. /\ Over \cup Held(target) \subseteq Over' \cup Held(target)'
        /\ Over \cup Elems(quitting[target].box) \subseteq Over' \cup Elems(quitting'[target].box)
    <3>1. CASE p = target
      BY <2>1, <2>3, <3>1 DEF Held
    <3>2. CASE p # target
      <4>1. /\ awaiting'[target] = awaiting[target] /\ outbox'[target] = outbox[target]
            /\ quitting'[target] = quitting[target]
        BY <1>0, <2>3, <3>2
      <4>2. Held(target)' = Held(target)
        BY <2>1, <4>1 DEF Held
      <4>. QED
        BY <2>3, <4>1, <4>2
    <3>. QED
      BY <3>1, <3>2
  <2>. QED
    BY <2>1, <2>2, <2>3, <2>4, AccountStays
<1>4. CASE \E s \in Streams : \/ OpenStream(s)
                              \/ StreamStep(s) /\ UNCHANGED procVars
                              \/ (OnAbort(s) \/ SubscriberFails(s)) /\ UNCHANGED procVars
  <2>1. /\ UNCHANGED <<asked, owed, target, stopping, todo, fatal, exit, taken, lost>>
        /\ UNCHANGED <<awaiting, outbox, quitting>>
    BY <1>4 DEF OpenStream, StreamStep, Greet, OnAbort, SubscriberFails, Begin,
                SubscriberConnected, Subscribed, Loop, OnMessage, Resume, Yield, Drained, Return,
                Finally, OnlyStream, clientVars, fateVars, procVars
  <2>2. Over' = Over /\ Held(target)' = Held(target) /\ taken' \subseteq Events /\ lost' \subseteq Events
    BY <2>1 DEF Over, Held, Accounted
  <2>. QED
    BY <2>1, <2>2, AccountStays
<1>5. CASE Signal
  <2>1. /\ UNCHANGED <<asked, owed, target, fatal, exit, taken, lost, awaiting, outbox, quitting>>
        /\ todo' = Steps /\ stopping'
    BY <1>5 DEF Signal, busVars, Steps
  <2>2. ~Behind("quit")'
    <3>1. After("quit")' = After("quit")
      BY <2>1 DEF After
    <3>. QED
      BY <1>0, <2>1, <3>1, AfterOrder DEF Behind
  <2>3. Over' = Over /\ Held(target)' = Held(target)
    BY <2>1 DEF Over, Held
  <2>. QED
    BY <2>1, <2>2, <2>3 DEF Accounted, Held
<1>6. CASE WorkDone \/ CallQuit \/ QuitReturns \/ CloseResource
  BY <1>6, AwaitedAccounted
<1>7. CASE FatalQuit
  <2>1. /\ UNCHANGED <<asked, owed, target, exit, taken, lost, awaiting>> /\ fatal' # "none"
        /\ Over' = Over /\ Quit(target) /\ quitting \in [Processes -> Closing]
    BY <1>7 DEF FatalQuit, Quit, streamVars, fateVars, Over, Shut, BusSound, ClientsSound
  <2>2. Held(target) \subseteq Held(target)'
    <3>1. /\ outbox[target] \in Seq(Events) /\ quitting[target].box \in Seq(Events)
      BY <1>0 DEF Shut, BusSound, ClientsSound, Closing
    <3>2. CASE client[target] = "open"
      <4> DEFINE b == quitting[target].box \o outbox[target]
      <4>1. quitting' = [quitting EXCEPT ![target] = [open |-> TRUE, box |-> b]]
        BY <2>1, <3>2 DEF Quit
      <4>2. quitting'[target].box = b
        BY <1>0, <2>1, <4>1
      <4>3. Elems(outbox[target]) \subseteq Elems(b) /\ Elems(quitting[target].box) \subseteq Elems(b)
        BY <3>1, BothIn
      <4> HIDE DEF b
      <4>. QED
        BY <2>1, <4>2, <4>3 DEF Held
    <3>3. CASE client[target] # "open"
      BY <2>1, <3>3 DEF Quit, Held
    <3>. QED
      BY <3>2, <3>3
  <2>. QED
    BY <2>1, <2>2 DEF Accounted, Held
<1>8. CASE CloseFails \/ Finish \/ ForceExit \/ FatalExit
  BY <1>8, ExitAccounted DEF CloseFails, Finish, ForceExit, FatalExit
<1>. QED
  BY <1>1, <1>2, <1>3, <1>4, <1>5, <1>6, <1>7, <1>8 DEF Next, ShutdownStep, FatalStep

LEMMA AccountHolds == Spec => [](Shut /\ Accounted)
<1>1. Init => Shut /\ Accounted
  BY ShutsInit, StartsAccounted
<1>2. Shut /\ Accounted /\ [Next]_vars => Shut' /\ Accounted'
  BY ShutKeeps, AccountKeeps
<1>. QED
  BY <1>1, <1>2, PTL DEF Spec

\* Type correctness of the publisher, the streams and the process that is stopped.
THEOREM ProcessesTyped == Spec => []TypeOK
<1>1. Shut /\ Accounted => TypeOK
  <2>1. Shut /\ Accounted => BusTypeOK
    BY DEF Shut, Plain, BusSound, ClientsSound, StreamsSound, Sound, Clients, Closing, Accounted,
           BusTypeOK
  <2>2. Shut /\ Accounted => owed \subseteq Events
    BY ElemsIn DEF Shut, BusSound, ClientsSound, Accounted
  <2>3. Shut /\ Accounted => ProcTypeOK
    BY <2>2 DEF Shut, Plain, Suffix, Names, ProcTypeOK
  <2>. QED
    BY <2>1, <2>3 DEF TypeOK
<1>. QED
  BY <1>1, AccountHolds, PTL

\* shutdown() of server.ts and worker.ts, beside worker.stop and shutdownSSEPublisher:
\* unless a fatal error was handled at the same time, a process that exits with 0
\* had no request and no stream left, interrupted no job if it was the server, and
\* every event published before its work was done reached Redis or was given up
\* with an error; for any number of events, streams and faults.
THEOREM ZeroMeansClean == Spec => []CleanExit
<1>1. Shut /\ Accounted => CleanExit
  <2> SUFFICES ASSUME Shut, Accounted, exit = "0", fatal = "none"
               PROVE  ~left /\ (target = Server => ~cut) /\ owed \subseteq taken \cup lost
    BY DEF CleanExit
  <2>1. ~left /\ Behind("flushed") /\ (target = Server => ~cut)
    BY DEF Shut, Orderly
  <2>2. Behind("quit") /\ ~quitting[target].open
    BY <2>1, BehindOrder DEF Shut, Orderly
  <2>3. Elems(quitting[target].box) = {}
    BY <2>2, NothingInLine DEF Shut, BusSound, ClientsSound, Kept
  <2>. QED
    BY <2>1, <2>2, <2>3 DEF Accounted, Over
<1>. QED
  BY <1>1, AccountHolds, PTL
=============================================================================
