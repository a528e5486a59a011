----------------------------- MODULE RateLimit -----------------------------
(***************************************************************************)
(* The rate limiter in front of the API (apps/server/src/middleware/       *)
(* rate-limit.ts) as one client sees it: its window in Redis, which all    *)
(* servers count in, and the window each server keeps in memory for when   *)
(* Redis fails.  A call reads the clock once, waits for Redis and is then  *)
(* judged; calls overlap, and the clock goes on while they wait.           *)
(*                                                                         *)
(* Time is in units of which Second make a second; a window is any number  *)
(* of units, because what is left of one is not a whole number of seconds. *)
(***************************************************************************)
EXTENDS Naturals, FiniteSets

CONSTANTS
  Calls,     \* the client's calls, each made once
  Servers,   \* the instances of the server
  Limit,     \* limit
  Window,    \* windowMs
  Second     \* a second

ASSUME LimitAssumption ==
  /\ IsFiniteSet(Calls)
  /\ "redis" \notin Servers
  /\ Limit \in Nat
  /\ Window \in Nat \ {0}
  /\ Second \in Nat \ {0}

VARIABLES
  clock,   \* the time, the same for Redis and all servers
  redis,   \* the client's key: its count, when it expires, and which life it is in
  entry,   \* per server: the client's WindowEntry, with the same fields
  call     \* per call: where it is

limitVars == <<clock, redis, entry, call>>

\* A window is named by its store and by how many there were before.
Stores == Servers \cup {"redis"}
WindowOf(s) == IF s = "redis" THEN redis ELSE entry[s]
NoWindow == [count |-> 0, until |-> 0, life |-> 0]
Over(w) == WindowOf(w.store).life # w.life \/ clock >= WindowOf(w.store).until

NoCall == [phase |-> "idle", server |-> "none", at |-> 0, count |-> 0, resetAt |-> 0,
           window |-> [store |-> "none", life |-> 0], again |-> 0]

CallsAt(phase) == {c \in Calls : call[c].phase = phase}

LimitTypeOK ==
  /\ clock \in Nat
  /\ redis \in [count : Nat, until : Nat, life : Nat]
  /\ entry \in [Servers -> [count : Nat, until : Nat, life : Nat]]
  /\ call \in [Calls -> [phase : {"idle", "asking", "counted", "passed", "refused"},
                         server : Servers \cup {"none"}, at : 0..clock, count : Nat,
                         resetAt : Nat, again : Nat,
                         window : [store : Stores \cup {"none"}, life : Nat]]]

LimitInit ==
  /\ clock = 0
  /\ redis = NoWindow
  /\ entry = [s \in Servers |-> NoWindow]
  /\ call = [c \in Calls |-> NoCall]

-----------------------------------------------------------------------------
(* The two stores                                                          *)

\* One more call counted in window w: in a new one if w ended before `now`.
Counted(w, now) ==
  IF w.count = 0 \/ now >= w.until
    THEN [count |-> 1, until |-> now + Window, life |-> w.life + 1]
    ELSE [w EXCEPT !.count = @ + 1]

\* The answer of a store, as of the time the call came.
Snapshot(c, count, resetAt, store, life) ==
  [call[c] EXCEPT !.count = count, !.resetAt = resetAt,
                  !.window = [store |-> store, life |-> life]]

\* Seconds(t) is t in whole seconds, up, and one at least.
Seconds(t) == IF t > Second THEN (t + Second - 1) \div Second ELSE 1

\* What is left of the window, counted from when the call is answered.
RetryAfterNow(snapshot) ==
  Second * Seconds(IF snapshot.resetAt > clock THEN snapshot.resetAt - clock ELSE 0)

\* The time a refused caller is to wait: counted from when the call came.
RetryAfter(snapshot) ==
  Second * Seconds(IF snapshot.resetAt > snapshot.at THEN snapshot.resetAt - snapshot.at ELSE 0)

\* What rateLimiter does with the answer; times that have served are dropped.
Judge(c, snapshot) ==
  call' = [call EXCEPT ![c] =
    IF snapshot.count > Limit
      THEN [NoCall EXCEPT !.phase = "refused", !.server = snapshot.server,
                          !.window = snapshot.window, !.again = clock + RetryAfter(snapshot)]
      ELSE [NoCall EXCEPT !.phase = "passed", !.server = snapshot.server,
                          !.window = snapshot.window]]

-----------------------------------------------------------------------------
(* A call, from the middleware's first line to its verdict                 *)

Ask(c, s) ==
  /\ call[c].phase = "idle"
  /\ call' = [call EXCEPT ![c] = [NoCall EXCEPT !.phase = "asking", !.server = s, !.at = clock]]
  /\ UNCHANGED <<clock, redis, entry>>

\* REDIS_WINDOW_SCRIPT runs.  Of a window in its last unit PTTL may be 0.
Eval(c) ==
  /\ call[c].phase = "asking"
  /\ redis' = Counted(redis, clock)
  /\ \E ttl \in {redis'.until - clock} \cup {x \in {0} : redis'.until = clock + 1} :
       call' = [call EXCEPT ![c] =
         [Snapshot(c, redis'.count, call[c].at + (IF ttl > 0 THEN ttl ELSE Window),
                   "redis", redis'.life) EXCEPT !.phase = "counted"]]
  /\ UNCHANGED <<clock, entry>>

Replied(c) ==
  /\ call[c].phase = "counted"
  /\ Judge(c, call[c])
  /\ UNCHANGED <<clock, redis, entry>>

\* Redis cannot be reached, before the script ran or after it: the call is
\* counted in the memory of its server, as of the time it came.
RedisFails(c) ==
  /\ call[c].phase \in {"asking", "counted"}
  /\ LET s == call[c].server IN
       /\ entry' = [entry EXCEPT ![s] = Counted(@, call[c].at)]
       /\ Judge(c, Snapshot(c, entry'[s].count, entry'[s].until, s, entry'[s].life))
  /\ UNCHANGED <<clock, redis>>

\* The cleanup timer of a server forgets a window that is over.
Cleanup(s) ==
  /\ entry[s].count > 0
  /\ clock >= entry[s].until
  /\ entry' = [entry EXCEPT ![s].count = 0, ![s].until = 0]
  /\ UNCHANGED <<clock, redis, call>>

Tick ==
  /\ clock' = clock + 1
  /\ UNCHANGED <<redis, entry, call>>

LimitNext ==
  \/ \E c \in Calls : (\E s \in Servers : Ask(c, s)) \/ Eval(c) \/ Replied(c) \/ RedisFails(c)
  \/ \E s \in Servers : Cleanup(s)
  \/ Tick

LimitSpec == LimitInit /\ [][LimitNext]_limitVars

-----------------------------------------------------------------------------
(* What the limiter promises                                               *)

\* However calls overlap and wherever they are counted, a window lets at most
\* Limit of them through (`snapshot.count > limit`).
WindowHolds ==
  \A w \in {call[c].window : c \in CallsAt("passed")} :
    Cardinality({c \in CallsAt("passed") : call[c].window = w}) <= Limit

\* A refused caller who waits for Retry-After, from when it is told, does not
\* meet the window that refused it again.
RetryHolds ==
  \A c \in CallsAt("refused") : clock >= call[c].again => Over(call[c].window)
=============================================================================
