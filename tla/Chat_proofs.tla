---------------------------- MODULE Chat_proofs ----------------------------
(***************************************************************************)
(* What the parts of Chat keep, for any number of calls, servers, tools'   *)
(* runs, sign-ins, tabs, users and threads.  Every step of Chat is a step  *)
(* of the limiter, of the role and of the chat's tool, or leaves them as   *)
(* they are: the pages neither undo a count nor hold a slot.  So Chat      *)
(* implements the limiter and the role, and what each keeps on its own it  *)
(* keeps here.  Then the pages themselves: what the weather panel tells,   *)
(* and that no tab takes a message out of the storage.                     *)
(***************************************************************************)
EXTENDS Chat, FiniteSetTheorems, SequenceTheorems, TLAPS

-----------------------------------------------------------------------------
(* The limiter.  A call that has passed cannot tell how many passed before *)
(* it, so the invariant compares sets with counts: the calls that a window *)
(* has let in, or will, are no more than the window has counted            *)
(* (CountsHold).  And a call on its way back from Redis knows an end of    *)
(* its window that is, reckoned from now, no earlier than the real one     *)
(* (Placed).                                                               *)

\* WindowOf as a function.
Windows == [s \in Stores |-> IF s = "redis" THEN redis ELSE entry[s]]

\* The calls that window l of store s has let through, or will.
In == [s \in Stores |-> [l \in Nat |->
  {c \in Calls : /\ call[c].window = [store |-> s, life |-> l]
                 /\ \/ call[c].phase = "passed"
                    \/ call[c].phase = "counted" /\ call[c].count <= Limit}]]

CountsHold ==
  \A s \in Stores :
    /\ \A l \in Nat : Cardinality(In[s][l]) <= Limit
    /\ Windows[s].count > 0 => Cardinality(In[s][Windows[s].life]) <= Windows[s].count

\* The window of a call is, or was, one of its store; in the second case it is
\* not the current one.
Placed(c) ==
  LET r == call[c]  w == Windows[r.window.store]  current == r.window.life = w.life IN
  /\ r.phase \in {"asking", "counted"} => r.server \in Servers
  /\ r.phase \in {"counted", "passed", "refused"} =>
       r.window.store \in Stores /\ r.window.life <= w.life
  /\ r.phase = "counted" =>
       /\ r.window.store = "redis"
       /\ current => w.until <= clock + (r.resetAt - r.at)
  /\ r.phase = "refused" => (current => w.until <= r.again)

LInv == LimitTypeOK /\ (\A c \in Calls : Placed(c)) /\ CountsHold

Phases == {"idle", "asking", "counted", "passed", "refused"}
WindowEntry == [count : Nat, until : Nat, life : Nat]
CallAt(t) ==
  [phase : Phases,
   server : Servers \cup {"none"}, at : 0..t, count : Nat, resetAt : Nat, again : Nat,
   window : [store : Stores \cup {"none"}, life : Nat]]

-----------------------------------------------------------------------------
(* The operators                                                           *)

\* Rounding up to whole seconds never shortens the wait (Math.ceil).
LEMMA RoundsUp ==
  ASSUME NEW t \in Nat
  PROVE  Seconds(t) \in Nat /\ Second * Seconds(t) \in Nat /\ Second * Seconds(t) >= t
<1>1. Second \in Nat /\ Second > 0
  BY LimitAssumption
<1>2. CASE t > Second
  <2> DEFINE q == (t + Second - 1) \div Second
             r == (t + Second - 1) % Second
  <2>1. q \in Int /\ r \in 0..(Second - 1)
    BY <1>1, SMTT(30)
  <2>2. t + Second - 1 = Second * q + r
    BY <1>1, SMTT(30)
  <2>3. q \in Nat /\ Second * q >= t /\ Second * q \in Nat
    BY <1>1, <1>2, <2>1, <2>2, SMTT(30)
  <2>4. Seconds(t) = q
    BY <1>2 DEF Seconds
  <2>. QED
    BY <2>3, <2>4
<1>3. CASE ~(t > Second)
  BY <1>1, <1>3, SMT DEF Seconds
<1>. QED
  BY <1>2, <1>3

\* Retry-After reaches the end of the window, counted from the time of the call.
LEMMA RetryReaches ==
  ASSUME NEW r, r.resetAt \in Nat, r.at \in Nat
  PROVE  RetryAfter(r) \in Nat /\ RetryAfter(r) >= r.resetAt - r.at
<1> DEFINE left == IF r.resetAt > r.at THEN r.resetAt - r.at ELSE 0
<1>1. left \in Nat /\ left >= r.resetAt - r.at
  OBVIOUS
<1>2. RetryAfter(r) = Second * Seconds(left)
  BY DEF RetryAfter
<1> HIDE DEF left
<1>3. Second * Seconds(left) \in Nat /\ Second * Seconds(left) >= left
  BY <1>1, RoundsUp
<1>. QED
  BY <1>1, <1>2, <1>3

\* One more call is counted: in the window that was there, or in a new one.
LEMMA CountedOne ==
  ASSUME NEW w \in WindowEntry, NEW now \in Nat
  PROVE  /\ Counted(w, now) \in WindowEntry
         /\ Counted(w, now).count > 0
         /\ Counted(w, now).until > now
         /\ \/ /\ Counted(w, now).life = w.life + 1
               /\ Counted(w, now).count = 1
            \/ /\ Counted(w, now).life = w.life
               /\ Counted(w, now).until = w.until
               /\ w.count > 0
               /\ Counted(w, now).count = w.count + 1
  BY LimitAssumption DEF Counted, WindowEntry

LEMMA InFinite ==
  ASSUME NEW s \in Stores, NEW l \in Nat
  PROVE  IsFiniteSet(In[s][l]) /\ Cardinality(In[s][l]) \in Nat
<1>1. In[s][l] \subseteq Calls
  BY DEF In
<1>. QED
  BY <1>1, LimitAssumption, FS_Subset, FS_CardinalityType

-----------------------------------------------------------------------------
(* What a step leaves as it was                                            *)

LEMMA WindowTypes == LimitTypeOK => Windows \in [Stores -> WindowEntry]
  BY DEF LimitTypeOK, Windows, Stores, WindowEntry

\* Calls that are let in by no window they were not in before, and windows that
\* go on or are forgotten.
LEMMA CountsKeep ==
  ASSUME LInv,
         \A s \in Stores, l \in Nat : In'[s][l] \subseteq In[s][l],
         \A s \in Stores : /\ Windows'[s].life = Windows[s].life
                           /\ Windows'[s].count \in {0, Windows[s].count}
  PROVE  CountsHold'
<1> SUFFICES ASSUME NEW s \in Stores
             PROVE  /\ \A l \in Nat : Cardinality(In'[s][l]) <= Limit
                    /\ Windows'[s].count > 0 =>
                         Cardinality(In'[s][Windows'[s].life]) <= Windows'[s].count
  BY DEF CountsHold
<1>1. \A l \in Nat : /\ Cardinality(In'[s][l]) <= Cardinality(In[s][l])
                     /\ Cardinality(In'[s][l]) \in Nat /\ Cardinality(In[s][l]) \in Nat
  BY InFinite, FS_Subset, FS_CardinalityType
<1>2. Windows[s] \in WindowEntry
  BY WindowTypes DEF LInv
<1>3. /\ \A l \in Nat : Cardinality(In[s][l]) <= Limit
      /\ Windows[s].count > 0 => Cardinality(In[s][Windows[s].life]) <= Windows[s].count
  BY DEF LInv, CountsHold
<1>4. Windows'[s].life = Windows[s].life /\ Windows[s].life \in Nat /\ Windows[s].count \in Nat
  BY <1>2 DEF WindowEntry
<1>5. \A l \in Nat : Cardinality(In'[s][l]) <= Limit
  BY <1>1, <1>3, LimitAssumption
<1>6. ASSUME Windows'[s].count > 0
      PROVE  Cardinality(In'[s][Windows'[s].life]) <= Windows'[s].count
  <2>1. Windows'[s].count = Windows[s].count
    BY <1>4, <1>6
  <2>2. Cardinality(In'[s][Windows[s].life]) <= Windows[s].count
    BY <1>1, <1>3, <1>4, <1>6, <2>1
  <2>. QED
    BY <1>4, <2>1, <2>2
<1>. QED
  BY <1>5, <1>6

\* The windows of a step: each goes on, is forgotten or gives way to the next.
WindowsMove ==
  /\ Windows' \in [Stores -> WindowEntry]
  /\ \A s \in Stores :
       \/ Windows'[s].life = Windows[s].life + 1
       \/ /\ Windows'[s].life = Windows[s].life
          /\ Windows'[s].until <= Windows[s].until

\* A call whose window goes on, or has been replaced, is still where it was.
LEMMA StillPlaced ==
  ASSUME LInv, NEW d \in Calls, call'[d] = call[d],
         clock' \in Nat, clock' >= clock, WindowsMove
  PROVE  Placed(d)'
<1> DEFINE r == call[d]
           s == r.window.store
<1>1. Placed(d) /\ r \in CallAt(clock) /\ clock \in Nat
  BY DEF LInv, LimitTypeOK, CallAt, Phases
<1>2. Windows \in [Stores -> WindowEntry] /\ Windows' \in [Stores -> WindowEntry]
  BY WindowTypes DEF LInv, WindowsMove
<1>3. CASE r.phase \in {"idle", "asking"}
  BY <1>1, <1>3 DEF Placed
<1>4. CASE r.phase \in {"counted", "passed", "refused"}
  <2>1. s \in Stores /\ r.window.life \in Nat /\ r.window.life <= Windows[s].life
    BY <1>1, <1>4 DEF Placed, CallAt
  <2>2. /\ Windows'[s].life \in Nat /\ Windows[s].life \in Nat
        /\ Windows'[s].until \in Nat /\ Windows[s].until \in Nat
    BY <1>2, <2>1 DEF WindowEntry
  <2>3. /\ r.window.life <= Windows'[s].life
        /\ r.window.life = Windows'[s].life =>
             r.window.life = Windows[s].life /\ Windows'[s].until <= Windows[s].until
    BY <2>1, <2>2 DEF WindowsMove
  <2>4. r.resetAt \in Nat /\ r.at \in Nat /\ r.again \in Nat
    BY <1>1 DEF CallAt
  <2>5. /\ r.phase = "counted" => r.server \in Servers /\ s = "redis"
        /\ r.phase = "counted" /\ r.window.life = Windows[s].life =>
             Windows[s].until <= clock + (r.resetAt - r.at)
        /\ r.phase = "refused" /\ r.window.life = Windows[s].life =>
             Windows[s].until <= r.again
    BY <1>1 DEF Placed
  <2>6. /\ r.phase = "counted" /\ r.window.life = Windows'[s].life =>
             Windows'[s].until <= clock' + (r.resetAt - r.at)
        /\ r.phase = "refused" /\ r.window.life = Windows'[s].life =>
             Windows'[s].until <= r.again
    BY <1>1, <2>2, <2>3, <2>4, <2>5
  <2>. QED
    BY <1>4, <2>1, <2>3, <2>5, <2>6 DEF Placed
<1>. QED
  BY <1>1, <1>3, <1>4 DEF CallAt, Phases

-----------------------------------------------------------------------------
(* A step that counts a call                                               *)

LetIn(r) == r.phase = "passed" \/ (r.phase = "counted" /\ r.count <= Limit)

\* The one call that is counted is let in only if the new count allows it: the
\* set of the calls let in grows by one at most, as the count does.
LEMMA CountsGrow ==
  ASSUME LInv, NEW c \in Calls, NEW s \in Stores, NEW now \in Nat,
         Windows' = [Windows EXCEPT ![s] = Counted(Windows[s], now)],
         \A d \in Calls : d # c => call'[d] = call[d],
         call'[c].window = [store |-> s, life |-> Windows'[s].life],
         LetIn(call'[c]) => Windows'[s].count <= Limit
  PROVE  CountsHold'
<1> DEFINE old == Windows[s]
           new == Windows'[s]
<1>1. old \in WindowEntry /\ new \in WindowEntry /\ new = Counted(old, now)
  BY WindowTypes, CountedOne DEF LInv
<1>2. \/ new.life = old.life + 1 /\ new.count = 1
      \/ new.life = old.life /\ old.count > 0 /\ new.count = old.count + 1
  <2> HIDE DEF old, new
  <2>1. \/ Counted(old, now).life = old.life + 1 /\ Counted(old, now).count = 1
        \/ /\ Counted(old, now).life = old.life
           /\ old.count > 0
           /\ Counted(old, now).count = old.count + 1
    BY <1>1, CountedOne
  <2>. QED
    BY <1>1, <2>1
<1>3. \A t \in Stores : t # s => Windows'[t] = Windows[t]
  BY WindowTypes DEF LInv
<1>4. /\ new.life \in Nat /\ old.life \in Nat /\ new.count \in Nat /\ old.count \in Nat
      /\ Limit \in Nat
  BY <1>1, LimitAssumption DEF WindowEntry
<1>5. \A t \in Stores, l \in Nat :
        /\ In'[t][l] \subseteq In[t][l] \cup {c}
        /\ t # s \/ l # new.life \/ ~LetIn(call'[c]) => In'[t][l] \subseteq In[t][l]
  BY DEF In, LetIn
<1>6. \A t \in Stores, l \in Nat :
        /\ Cardinality(In[t][l]) \in Nat /\ Cardinality(In'[t][l]) \in Nat
        /\ Cardinality(In'[t][l]) <= Cardinality(In[t][l]) + 1
        /\ t # s \/ l # new.life \/ ~LetIn(call'[c]) =>
             Cardinality(In'[t][l]) <= Cardinality(In[t][l])
  <2> SUFFICES ASSUME NEW t \in Stores, NEW l \in Nat
               PROVE  /\ Cardinality(In[t][l]) \in Nat /\ Cardinality(In'[t][l]) \in Nat
                      /\ Cardinality(In'[t][l]) <= Cardinality(In[t][l]) + 1
                      /\ t # s \/ l # new.life \/ ~LetIn(call'[c]) =>
                           Cardinality(In'[t][l]) <= Cardinality(In[t][l])
    OBVIOUS
  <2>1. IsFiniteSet(In[t][l]) /\ Cardinality(In[t][l]) \in Nat
    BY InFinite
  <2>2. /\ IsFiniteSet(In[t][l] \cup {c})
        /\ Cardinality(In[t][l] \cup {c}) \in {Cardinality(In[t][l]), Cardinality(In[t][l]) + 1}
    BY <2>1, FS_AddElement
  <2>3. IsFiniteSet(In'[t][l]) /\ Cardinality(In'[t][l]) <= Cardinality(In[t][l] \cup {c})
    BY <1>5, <2>2, FS_Subset
  <2>4. Cardinality(In'[t][l]) \in Nat
    BY <2>3, FS_CardinalityType
  <2>5. ASSUME t # s \/ l # new.life \/ ~LetIn(call'[c])
        PROVE  Cardinality(In'[t][l]) <= Cardinality(In[t][l])
    <3>1. In'[t][l] \subseteq In[t][l]
      BY <1>5, <2>5
    <3>. QED
      BY <2>1, <3>1, FS_Subset
  <2>. QED
    BY <2>1, <2>2, <2>3, <2>4, <2>5
<1>7. \A t \in Stores :
        /\ \A l \in Nat : Cardinality(In[t][l]) <= Limit
        /\ Windows[t].count > 0 => Cardinality(In[t][Windows[t].life]) <= Windows[t].count
  BY DEF LInv, CountsHold
<1>8. ASSUME new.life = old.life + 1
      PROVE  In[s][new.life] = {}
  <2>1. ASSUME NEW d \in Calls, call[d].window = [store |-> s, life |-> new.life],
               LetIn(call[d])
        PROVE  FALSE
    <3>1. call[d].window.store = s /\ call[d].window.life = new.life
      BY <2>1
    <3>2. call[d].window.life <= old.life
      BY <2>1, <3>1 DEF LInv, Placed, LetIn
    <3>. QED
      BY <1>4, <1>8, <3>1, <3>2
  <2>. QED
    BY <1>4, <2>1 DEF In, LetIn
<1> HIDE DEF old, new
<1>9. /\ Cardinality(In'[s][new.life]) <= Limit
      /\ Cardinality(In'[s][new.life]) <= new.count
  <2>1. CASE new.life = old.life + 1
    <3>1. Cardinality(In[s][new.life]) = 0
      BY <1>8, <2>1, FS_EmptySet
    <3>. QED
      <4>1. Cardinality(In'[s][new.life]) \in Nat /\ Cardinality(In'[s][new.life]) <= 1
        BY <1>4, <1>6, <3>1
      <4>2. new.count = 1
        BY <1>2, <1>4, <2>1
      <4>3. CASE LetIn(call'[c])
        BY <1>4, <4>1, <4>2, <4>3 DEF new
      <4>4. CASE ~LetIn(call'[c])
        BY <1>4, <1>6, <3>1, <4>2, <4>4
      <4>. QED
        BY <4>3, <4>4
  <2>2. CASE new.life = old.life
    <3>1. Cardinality(In[s][new.life]) <= old.count /\ Cardinality(In[s][new.life]) <= Limit
          /\ new.count = old.count + 1
      <4>1. /\ Cardinality(In[s][old.life]) <= Limit
            /\ old.count > 0 => Cardinality(In[s][old.life]) <= old.count
        BY <1>4, <1>7 DEF old
      <4>. QED
        BY <1>2, <1>4, <2>2, <4>1
    <3>2. Cardinality(In'[s][new.life]) <= new.count
      BY <1>4, <1>6, <3>1
    <3>3. Cardinality(In'[s][new.life]) <= Limit
      <4>1. CASE LetIn(call'[c])
        <5>1. new.count <= Limit
          BY <4>1 DEF new
        <5>. QED
          BY <1>4, <1>6, <3>2, <5>1
      <4>2. CASE ~LetIn(call'[c])
        <5>1. Cardinality(In'[s][new.life]) <= Cardinality(In[s][new.life])
          BY <1>4, <1>6, <4>2
        <5>. QED
          BY <1>4, <1>6, <3>1, <5>1
      <4>. QED
        BY <4>1, <4>2
    <3>. QED
      BY <3>2, <3>3
  <2>. QED
    BY <1>2, <2>1, <2>2
<1> SUFFICES ASSUME NEW t \in Stores
             PROVE  /\ \A l \in Nat : Cardinality(In'[t][l]) <= Limit
                    /\ Windows'[t].count > 0 =>
                         Cardinality(In'[t][Windows'[t].life]) <= Windows'[t].count
  BY DEF CountsHold
<1>10. CASE t = s
  <2>1. ASSUME NEW l \in Nat, l # new.life
        PROVE  Cardinality(In'[s][l]) <= Limit
    <3>1. Cardinality(In'[s][l]) <= Cardinality(In[s][l]) /\ Cardinality(In[s][l]) <= Limit
      BY <1>6, <1>7, <2>1
    <3>. QED
      BY <1>4, <1>6, <3>1
  <2>2. new = Windows'[t]
    BY <1>10 DEF new
  <2>. QED
    BY <1>4, <1>9, <1>10, <2>1, <2>2
<1>11. CASE t # s
  <2>1. Windows'[t] = Windows[t] /\ Windows[t].life \in Nat /\ Windows[t].count \in Nat
    BY <1>3, <1>11, WindowTypes DEF LInv, WindowEntry
  <2>2. \A l \in Nat : Cardinality(In'[t][l]) <= Cardinality(In[t][l])
                       /\ Cardinality(In'[t][l]) \in Nat /\ Cardinality(In[t][l]) \in Nat
    BY <1>6, <1>11
  <2>3. \A l \in Nat : Cardinality(In'[t][l]) <= Limit
    BY <1>4, <1>7, <2>2
  <2>4. Windows[t].count > 0 => Cardinality(In'[t][Windows[t].life]) <= Windows[t].count
    BY <1>7, <2>1, <2>2
  <2>. QED
    BY <2>1, <2>3, <2>4
<1>. QED
  BY <1>10, <1>11

-----------------------------------------------------------------------------
(* The actions                                                             *)

LEMMA NoCallType == ASSUME NEW t \in Nat PROVE NoCall \in CallAt(t)
  BY DEF NoCall, CallAt, Phases

\* Replacing fields of a call by values of their types gives a call.
LEMMA PassedUpdate ==
  ASSUME NEW t, NEW r \in CallAt(t), NEW s \in Servers \cup {"none"},
         NEW w \in [store : Stores \cup {"none"}, life : Nat], NEW p \in Phases
  PROVE  [r EXCEPT !.phase = p, !.server = s, !.window = w] \in CallAt(t)
  BY Zenon DEF CallAt

LEMMA RefusedUpdate ==
  ASSUME NEW t, NEW r \in CallAt(t), NEW s \in Servers \cup {"none"},
         NEW w \in [store : Stores \cup {"none"}, life : Nat], NEW a \in Nat, NEW p \in Phases
  PROVE  [r EXCEPT !.phase = p, !.server = s, !.window = w, !.again = a] \in CallAt(t)
  BY Zenon DEF CallAt

LEMMA AskingUpdate ==
  ASSUME NEW t, NEW r \in CallAt(t), NEW s \in Servers \cup {"none"}, NEW a \in 0..t, NEW p \in Phases
  PROVE  [r EXCEPT !.phase = p, !.server = s, !.at = a] \in CallAt(t)
  BY Zenon DEF CallAt

LEMMA SnapshotUpdate ==
  ASSUME NEW t, NEW r \in CallAt(t), NEW n \in Nat, NEW e \in Nat,
         NEW w \in [store : Stores \cup {"none"}, life : Nat]
  PROVE  [r EXCEPT !.count = n, !.resetAt = e, !.window = w] \in CallAt(t)
  BY Zenon DEF CallAt

LEMMA PhaseUpdate ==
  ASSUME NEW t, NEW r \in CallAt(t), NEW p \in Phases
  PROVE  [r EXCEPT !.phase = p] \in CallAt(t)
  BY Zenon DEF CallAt

\* What rateLimiter makes of an answer, for any answer.
LEMMA Judged ==
  ASSUME NEW c \in Calls, NEW r \in CallAt(clock), call \in [Calls -> CallAt(clock)],
         clock \in Nat, Judge(c, r)
  PROVE  /\ call' \in [Calls -> CallAt(clock)]
         /\ \A d \in Calls : d # c => call'[d] = call[d]
         /\ call'[c].window = r.window
         /\ \/ call'[c].phase = "passed" /\ r.count <= Limit
            \/ /\ call'[c].phase = "refused"
               /\ call'[c].again \in Nat
               /\ call'[c].again >= clock + (r.resetAt - r.at)
<1>0. NoCall \in CallAt(clock)
  BY NoCallType
<1>1. /\ r.resetAt \in Nat /\ r.at \in 0..clock /\ r.count \in Nat /\ Limit \in Nat
      /\ r.server \in Servers \cup {"none"}
      /\ r.window \in [store : Stores \cup {"none"}, life : Nat]
  BY LimitAssumption DEF CallAt
<1>2. RetryAfter(r) \in Nat /\ RetryAfter(r) >= r.resetAt - r.at
  BY <1>1, RetryReaches
<1> DEFINE refused == [NoCall EXCEPT !.phase = "refused", !.server = r.server,
                                     !.window = r.window, !.again = clock + RetryAfter(r)]
           passed == [NoCall EXCEPT !.phase = "passed", !.server = r.server,
                                    !.window = r.window]
<1>3. /\ refused \in CallAt(clock) /\ refused.window = r.window
      /\ refused.phase = "refused" /\ refused.again = clock + RetryAfter(r)
  <2>1. clock + RetryAfter(r) \in Nat
    BY <1>2
  <2>2. "refused" \in Phases
    BY DEF Phases
  <2>3. refused \in CallAt(clock)
    BY <1>0, <1>1, <2>1, <2>2, RefusedUpdate, Zenon
  <2>4. refused.window = r.window
    BY <1>0, Zenon DEF CallAt
  <2>5. refused.phase = "refused"
    BY <1>0, Zenon DEF CallAt
  <2>6. refused.again = clock + RetryAfter(r)
    BY <1>0, Zenon DEF CallAt
  <2>. QED
    BY <2>3, <2>4, <2>5, <2>6
<1>4. passed \in CallAt(clock) /\ passed.window = r.window /\ passed.phase = "passed"
  <2>1. "passed" \in Phases
    BY DEF Phases
  <2>2. passed \in CallAt(clock)
    BY <1>0, <1>1, <2>1, PassedUpdate, Zenon
  <2>3. passed.window = r.window
    BY <1>0, Zenon DEF CallAt
  <2>4. passed.phase = "passed"
    BY <1>0, Zenon DEF CallAt
  <2>. QED
    BY <2>2, <2>3, <2>4
<1>5. call' = [call EXCEPT ![c] = IF r.count > Limit THEN refused ELSE passed]
  BY DEF Judge
<1> HIDE DEF refused, passed
<1>6. call'[c] = IF r.count > Limit THEN refused ELSE passed
  BY <1>5
<1>. QED
  BY <1>1, <1>2, <1>3, <1>4, <1>5, <1>6

\* What is left to show of a step of one call.
LEMMA StepOfCall ==
  ASSUME LInv, NEW c \in Calls, LimitTypeOK', WindowsMove, clock' = clock,
         \A d \in Calls : d # c => call'[d] = call[d],
         Placed(c)', CountsHold'
  PROVE  LInv'
<1>1. clock' \in Nat /\ clock' >= clock
  BY DEF LInv, LimitTypeOK
<1>2. \A d \in Calls : d # c => Placed(d)'
  BY <1>1, StillPlaced
<1>. QED
  BY <1>2 DEF LInv

\* A step that touches no window.
LEMMA WindowsStay ==
  ASSUME LInv, UNCHANGED <<redis, entry>>
  PROVE  Windows' = Windows /\ WindowsMove
<1>1. Windows' = Windows
  BY DEF Windows
<1>2. \A s \in Stores : Windows[s].life \in Nat /\ Windows[s].until \in Nat
  BY WindowTypes DEF LInv, WindowEntry
<1>. QED
  BY <1>1, <1>2, WindowTypes DEF LInv, WindowsMove

LEMMA InitLimits == LimitInit => LInv
<1> SUFFICES ASSUME LimitInit PROVE LInv
  OBVIOUS
<1>1. LimitTypeOK
  BY DEF LimitInit, LimitTypeOK, NoWindow, NoCall
<1>2. \A c \in Calls : call[c].phase = "idle"
  BY DEF LimitInit, NoCall
<1>3. \A s \in Stores, l \in Nat : In[s][l] = {}
  BY <1>2 DEF In
<1>4. \A s \in Stores, l \in Nat : Cardinality(In[s][l]) = 0
  BY <1>3, FS_EmptySet
<1>5. \A s \in Stores : Windows[s].count = 0
  BY DEF LimitInit, Windows, Stores, NoWindow
<1>6. CountsHold
  BY <1>4, <1>5, LimitAssumption DEF CountsHold
<1>7. \A c \in Calls : Placed(c)
  BY <1>2 DEF Placed
<1>. QED
  BY <1>1, <1>6, <1>7 DEF LInv

LEMMA AskKeeps ==
  ASSUME LInv, NEW c \in Calls, NEW s \in Servers, Ask(c, s)
  PROVE  LInv'
<1> DEFINE new == [NoCall EXCEPT !.phase = "asking", !.server = s, !.at = clock]
<1>1. clock \in Nat /\ call \in [Calls -> CallAt(clock)]
  BY DEF LInv, LimitTypeOK, CallAt, Phases
<1>2. new \in CallAt(clock) /\ new.phase = "asking" /\ new.server = s
  <2>1. clock \in 0..clock
    BY <1>1
  <2>2. NoCall \in CallAt(clock)
    BY <1>1, NoCallType
  <2>3. "asking" \in Phases /\ s \in Servers \cup {"none"}
    BY DEF Phases
  <2>4. new \in CallAt(clock)
    BY <2>1, <2>2, <2>3, AskingUpdate, Zenon
  <2>5. new.phase = "asking"
    BY <2>2, Zenon DEF CallAt
  <2>6. new.server = s
    BY <2>2, Zenon DEF CallAt
  <2>. QED
    BY <2>4, <2>5, <2>6
<1>3. call' = [call EXCEPT ![c] = new] /\ UNCHANGED <<clock, redis, entry>>
  BY DEF Ask
<1> HIDE DEF new
<1>4. call' \in [Calls -> CallAt(clock)] /\ call'[c] = new
      /\ \A d \in Calls : d # c => call'[d] = call[d]
  BY <1>1, <1>2, <1>3
<1>5. LimitTypeOK'
  BY <1>3, <1>4 DEF LInv, LimitTypeOK, CallAt, Phases
<1>6. Windows' = Windows /\ WindowsMove
  BY <1>3, WindowsStay
<1>7. Placed(c)'
  BY <1>2, <1>4 DEF Placed
<1>8. \A t \in Stores, l \in Nat : In'[t][l] \subseteq In[t][l]
  BY <1>2, <1>4 DEF In
<1>9. CountsHold'
  BY <1>6, <1>8, CountsKeep
<1>. QED
  BY <1>3, <1>4, <1>5, <1>6, <1>7, <1>9, StepOfCall

LEMMA SnapshotOf ==
  ASSUME NEW c \in Calls, clock \in Nat, call \in [Calls -> CallAt(clock)],
         NEW n \in Nat, NEW e \in Nat, NEW s \in Stores, NEW l \in Nat
  PROVE  LET r == Snapshot(c, n, e, s, l) IN
         /\ r \in CallAt(clock) /\ r.at = call[c].at /\ r.server = call[c].server
         /\ r.count = n /\ r.resetAt = e /\ r.window = [store |-> s, life |-> l]
<1> DEFINE w == [store |-> s, life |-> l]
           u == [call[c] EXCEPT !.count = n, !.resetAt = e, !.window = w]
<1>1. call[c] \in CallAt(clock)
  OBVIOUS
<1>2. w \in [store : Stores \cup {"none"}, life : Nat]
  OBVIOUS
<1> HIDE DEF w
<1>3. u \in CallAt(clock)
  BY <1>1, <1>2, SnapshotUpdate, Zenon
<1>4. u.at = call[c].at
  BY <1>1, Zenon DEF CallAt
<1>5. u.server = call[c].server
  BY <1>1, Zenon DEF CallAt
<1>6. u.count = n
  BY <1>1, Zenon DEF CallAt
<1>7. u.resetAt = e
  BY <1>1, Zenon DEF CallAt
<1>8. u.window = w
  BY <1>1, Zenon DEF CallAt
<1>9. Snapshot(c, n, e, s, l) = u
  BY DEF Snapshot, w
<1> HIDE DEF u
<1>. QED
  BY <1>3, <1>4, <1>5, <1>6, <1>7, <1>8, <1>9 DEF w

\* The windows of a step that counts a call in store s.
LEMMA OneWindowCounts ==
  ASSUME LInv, NEW s \in Stores, NEW now \in Nat,
         Windows' = [Windows EXCEPT ![s] = Counted(Windows[s], now)]
  PROVE  WindowsMove
<1>1. Windows \in [Stores -> WindowEntry]
  BY WindowTypes DEF LInv
<1> DEFINE new == Counted(Windows[s], now)
<1>2. Windows[s] \in WindowEntry
  BY <1>1
<1>3. /\ new \in WindowEntry
      /\ new.life = Windows[s].life + 1 \/ (new.life = Windows[s].life /\ new.until = Windows[s].until)
  BY <1>2, CountedOne
<1> HIDE DEF new
<1>4. Windows' \in [Stores -> WindowEntry] /\ Windows'[s] = new
      /\ \A t \in Stores : t # s => Windows'[t] = Windows[t]
  BY <1>1, <1>3 DEF new
<1>5. \A t \in Stores : Windows[t].until \in Nat
  BY <1>1 DEF WindowEntry
<1>6. ASSUME NEW t \in Stores
      PROVE  \/ Windows'[t].life = Windows[t].life + 1
             \/ Windows'[t].life = Windows[t].life /\ Windows'[t].until <= Windows[t].until
  <2>1. CASE t = s
    BY <1>3, <1>4, <1>5, <2>1
  <2>2. CASE t # s
    BY <1>4, <1>5, <2>2
  <2>. QED
    BY <2>1, <2>2
<1>. QED
  BY <1>4, <1>6 DEF WindowsMove

LEMMA RedisCounts ==
  ASSUME NEW now, redis' = Counted(redis, now), entry' = entry
  PROVE  /\ Windows' = [Windows EXCEPT !["redis"] = Counted(Windows["redis"], now)]
         /\ Windows["redis"] = redis /\ Windows'["redis"] = redis'
  BY DEF Windows, Stores

LEMMA ServerCounts ==
  ASSUME LimitTypeOK, NEW s \in Servers, NEW now, redis' = redis,
         entry' = [entry EXCEPT ![s] = Counted(@, now)]
  PROVE  /\ Windows' = [Windows EXCEPT ![s] = Counted(Windows[s], now)]
         /\ Windows[s] = entry[s] /\ Windows'[s] = entry'[s]
<1>1. s # "redis" /\ "redis" \notin Servers
  BY LimitAssumption
<1>2. entry \in [Servers -> WindowEntry]
  BY DEF LimitTypeOK, WindowEntry
<1>. QED
  BY <1>1, <1>2 DEF Windows, Stores

LEMMA EvalKeeps ==
  ASSUME LInv, NEW c \in Calls, Eval(c)
  PROVE  LInv'
<1>1. /\ clock \in Nat /\ redis \in WindowEntry /\ entry \in [Servers -> WindowEntry]
      /\ call \in [Calls -> CallAt(clock)] /\ call[c] \in CallAt(clock)
  BY DEF LInv, LimitTypeOK, CallAt, WindowEntry, Phases
<1>2. call[c].phase = "asking" /\ redis' = Counted(redis, clock) /\ UNCHANGED <<clock, entry>>
  BY DEF Eval
<1>3. redis' \in WindowEntry /\ redis'.until > clock
  BY <1>1, <1>2, CountedOne
<1>4. PICK ttl \in {redis'.until - clock} \cup {x \in {0} : redis'.until = clock + 1} :
        call' = [call EXCEPT ![c] =
          [Snapshot(c, redis'.count, call[c].at + (IF ttl > 0 THEN ttl ELSE Window),
                    "redis", redis'.life) EXCEPT !.phase = "counted"]]
  BY DEF Eval
<1> DEFINE left == IF ttl > 0 THEN ttl ELSE Window
           r == Snapshot(c, redis'.count, call[c].at + left, "redis", redis'.life)
           v == [r EXCEPT !.phase = "counted"]
<1>5. /\ redis'.until \in Nat /\ redis'.count \in Nat /\ redis'.life \in Nat
      /\ call[c].at \in Nat /\ call[c].at <= clock
  BY <1>1, <1>3 DEF WindowEntry, CallAt
<1>6. left \in Nat /\ redis'.until <= clock + left
  BY <1>1, <1>3, <1>5, LimitAssumption
<1> HIDE DEF left
<1>7. /\ r \in CallAt(clock) /\ r.at = call[c].at /\ r.server = call[c].server
      /\ r.count = redis'.count /\ r.resetAt = call[c].at + left
      /\ r.window = [store |-> "redis", life |-> redis'.life]
  <2>1. "redis" \in Stores /\ call[c].at + left \in Nat
    BY <1>5, <1>6 DEF Stores
  <2>. QED
    BY <1>1, <1>5, <2>1, SnapshotOf
<1>8. call' = [call EXCEPT ![c] = v]
  BY <1>4 DEF left
<1> HIDE DEF r
<1>9. /\ v \in CallAt(clock) /\ v.phase = "counted" /\ v.at = r.at /\ v.server = r.server
      /\ v.count = r.count /\ v.resetAt = r.resetAt /\ v.window = r.window
  <2>1. v \in CallAt(clock)
    <3>1. "counted" \in Phases
      BY DEF Phases
    <3>. QED
      BY <1>7, <3>1, PhaseUpdate, Zenon
  <2>2. v.phase = "counted"
    BY <1>7, Zenon DEF CallAt
  <2>3. v.at = r.at
    BY <1>7, Zenon DEF CallAt
  <2>4. v.server = r.server
    BY <1>7, Zenon DEF CallAt
  <2>5. v.count = r.count
    BY <1>7, Zenon DEF CallAt
  <2>6. v.resetAt = r.resetAt
    BY <1>7, Zenon DEF CallAt
  <2>7. v.window = r.window
    BY <1>7, Zenon DEF CallAt
  <2>. QED
    BY <2>1, <2>2, <2>3, <2>4, <2>5, <2>6, <2>7
<1> HIDE DEF v
<1>10. call' \in [Calls -> CallAt(clock)] /\ call'[c] = v
       /\ \A d \in Calls : d # c => call'[d] = call[d]
  BY <1>1, <1>8, <1>9
<1>11. LimitTypeOK'
  BY <1>1, <1>2, <1>3, <1>10 DEF LimitTypeOK, CallAt, WindowEntry, Phases
<1>12. /\ Windows' = [Windows EXCEPT !["redis"] = Counted(Windows["redis"], clock)]
       /\ Windows'["redis"] = redis' /\ "redis" \in Stores
  BY <1>2, RedisCounts DEF Stores
<1>13. WindowsMove
  BY <1>1, <1>12, OneWindowCounts
<1>14. CountsHold'
  <2>1. call'[c].window = [store |-> "redis", life |-> Windows'["redis"].life]
    BY <1>7, <1>9, <1>10, <1>12
  <2>2. LetIn(call'[c]) => Windows'["redis"].count <= Limit
    BY <1>7, <1>9, <1>10, <1>12 DEF LetIn
  <2>. QED
    BY <1>1, <1>10, <1>12, <2>1, <2>2, CountsGrow
<1>15. Placed(c)'
  <2>1. v.server \in Servers
    BY <1>2, <1>7, <1>9 DEF LInv, Placed
  <2>2. v.window.store = "redis" /\ v.window.life = redis'.life
    BY <1>7, <1>9
  <2>3. redis'.until <= clock + (v.resetAt - v.at)
    BY <1>1, <1>5, <1>6, <1>7, <1>9
  <2>. QED
    BY <1>2, <1>5, <1>9, <1>10, <1>12, <2>1, <2>2, <2>3 DEF Placed
<1>. QED
  BY <1>2, <1>10, <1>11, <1>13, <1>14, <1>15, StepOfCall

LEMMA RepliedKeeps ==
  ASSUME LInv, NEW c \in Calls, Replied(c)
  PROVE  LInv'
<1>1. /\ clock \in Nat /\ call \in [Calls -> CallAt(clock)] /\ call[c] \in CallAt(clock)
  BY DEF LInv, LimitTypeOK, CallAt, Phases
<1>2. call[c].phase = "counted" /\ Judge(c, call[c]) /\ UNCHANGED <<clock, redis, entry>>
  BY DEF Replied
<1>3. /\ call' \in [Calls -> CallAt(clock)]
      /\ \A d \in Calls : d # c => call'[d] = call[d]
      /\ call'[c].window = call[c].window
      /\ \/ call'[c].phase = "passed" /\ call[c].count <= Limit
         \/ /\ call'[c].phase = "refused"
            /\ call'[c].again \in Nat
            /\ call'[c].again >= clock + (call[c].resetAt - call[c].at)
  BY <1>1, <1>2, Judged
<1>4. LimitTypeOK'
  BY <1>2, <1>3 DEF LInv, LimitTypeOK, CallAt, Phases
<1>5. Windows' = Windows /\ WindowsMove
  BY <1>2, WindowsStay
<1>6. \A s \in Stores, l \in Nat : In'[s][l] \subseteq In[s][l]
  BY <1>2, <1>3 DEF In
<1>7. CountsHold'
  BY <1>5, <1>6, CountsKeep
<1>8. Placed(c)'
  <2> DEFINE w == Windows[call[c].window.store]
  <2>1. /\ call[c].window.store = "redis" /\ call[c].window.life <= w.life
        /\ call[c].window.life = w.life => w.until <= clock + (call[c].resetAt - call[c].at)
    BY <1>2 DEF LInv, Placed
  <2>2. "redis" \in Stores /\ Windows \in [Stores -> WindowEntry]
    BY WindowTypes DEF LInv, Stores
  <2>3. w.until \in Nat /\ call[c].resetAt \in Nat /\ call[c].at \in Nat
    BY <1>1, <2>1, <2>2 DEF WindowEntry, CallAt
  <2> HIDE DEF w
  <2>4. call'[c].phase = "refused" /\ call[c].window.life = w.life => w.until <= call'[c].again
    BY <1>1, <1>3, <2>1, <2>3
  <2>. QED
    BY <1>3, <1>5, <2>1, <2>2, <2>4 DEF Placed, w
<1>. QED
  BY <1>2, <1>3, <1>4, <1>5, <1>7, <1>8, StepOfCall

LEMMA RedisFailsKeeps ==
  ASSUME LInv, NEW c \in Calls, RedisFails(c)
  PROVE  LInv'
<1> DEFINE s == call[c].server
           now == call[c].at
           r == Snapshot(c, entry'[s].count, entry'[s].until, s, entry'[s].life)
<1>1. /\ clock \in Nat /\ redis \in WindowEntry /\ entry \in [Servers -> WindowEntry]
      /\ call \in [Calls -> CallAt(clock)] /\ call[c] \in CallAt(clock)
  BY DEF LInv, LimitTypeOK, CallAt, WindowEntry, Phases
<1>2. /\ call[c].phase \in {"asking", "counted"}
      /\ entry' = [entry EXCEPT ![s] = Counted(@, now)]
      /\ Judge(c, r)
      /\ UNCHANGED <<clock, redis>>
  BY DEF RedisFails
<1>3. s \in Servers /\ s \in Stores /\ now \in Nat /\ now <= clock
  BY <1>1, <1>2 DEF LInv, Placed, Stores, CallAt
<1> HIDE DEF s, now
<1>4. entry[s] \in WindowEntry /\ entry'[s] = Counted(entry[s], now)
  BY <1>1, <1>2, <1>3
<1>5. entry'[s] \in WindowEntry
  BY <1>3, <1>4, CountedOne
<1>6. entry' \in [Servers -> WindowEntry]
  BY <1>1, <1>2, <1>3, <1>4, <1>5
<1>7. entry'[s].until \in Nat /\ entry'[s].count \in Nat /\ entry'[s].life \in Nat
  BY <1>5 DEF WindowEntry
<1>8. /\ r \in CallAt(clock) /\ r.at = now /\ r.count = entry'[s].count
      /\ r.resetAt = entry'[s].until /\ r.window = [store |-> s, life |-> entry'[s].life]
  BY <1>1, <1>3, <1>7, SnapshotOf DEF now
<1> HIDE DEF r
<1>9. /\ call' \in [Calls -> CallAt(clock)]
      /\ \A d \in Calls : d # c => call'[d] = call[d]
      /\ call'[c].window = r.window
      /\ \/ call'[c].phase = "passed" /\ r.count <= Limit
         \/ /\ call'[c].phase = "refused"
            /\ call'[c].again \in Nat
            /\ call'[c].again >= clock + (r.resetAt - r.at)
  BY <1>1, <1>2, <1>8, Judged
<1>10. LimitTypeOK'
  BY <1>1, <1>2, <1>6, <1>9 DEF LimitTypeOK, CallAt, WindowEntry, Phases
<1>11. /\ Windows' = [Windows EXCEPT ![s] = Counted(Windows[s], now)]
       /\ Windows'[s] = entry'[s]
  BY <1>2, <1>3, ServerCounts DEF LInv
<1>12. WindowsMove
  BY <1>3, <1>11, OneWindowCounts
<1>13. CountsHold'
  <2>1. call'[c].window = [store |-> s, life |-> Windows'[s].life]
    BY <1>8, <1>9, <1>11
  <2>2. LetIn(call'[c]) => Windows'[s].count <= Limit
    BY <1>8, <1>9, <1>11 DEF LetIn
  <2>. QED
    BY <1>3, <1>9, <1>11, <2>1, <2>2, CountsGrow
<1>14. Placed(c)'
  <2>1. call'[c].window.store = s /\ call'[c].window.life = Windows'[s].life
    BY <1>8, <1>9, <1>11
  <2>2. call'[c].phase = "refused" => Windows'[s].until <= call'[c].again
    BY <1>1, <1>3, <1>7, <1>8, <1>9, <1>11
  <2>3. call'[c].phase \in {"passed", "refused"}
    BY <1>9
  <2>. QED
    BY <1>3, <1>7, <1>11, <2>1, <2>2, <2>3 DEF Placed
<1>. QED
  BY <1>2, <1>9, <1>10, <1>12, <1>13, <1>14, StepOfCall

\* A step in which no call takes part.
LEMMA NoCallMoves ==
  ASSUME LInv, UNCHANGED call, clock' \in Nat, clock' >= clock, WindowsMove, LimitTypeOK',
         \A s \in Stores : Windows'[s].life = Windows[s].life
                           /\ Windows'[s].count \in {0, Windows[s].count}
  PROVE  LInv'
<1>1. \A d \in Calls : call'[d] = call[d]
  OBVIOUS
<1>2. \A d \in Calls : Placed(d)'
  BY <1>1, StillPlaced
<1>3. \A s \in Stores, l \in Nat : In'[s][l] \subseteq In[s][l]
  BY <1>1 DEF In
<1>4. CountsHold'
  BY <1>3, CountsKeep
<1>. QED
  BY <1>2, <1>4 DEF LInv

\* A window that is forgotten keeps the count of its lives.
LEMMA Forgotten ==
  ASSUME NEW w \in WindowEntry, NEW s \in Servers, w = entry[s],
         entry \in [Servers -> WindowEntry],
         entry' = [entry EXCEPT ![s] = [[w EXCEPT !.count = 0] EXCEPT !.until = 0]]
  PROVE  /\ entry' \in [Servers -> WindowEntry]
         /\ entry'[s].life = entry[s].life /\ entry'[s].count = 0 /\ entry'[s].until = 0
         /\ \A t \in Servers : t # s => entry'[t] = entry[t]
<1> DEFINE e == [[w EXCEPT !.count = 0] EXCEPT !.until = 0]
<1>1. 0 \in Nat
  OBVIOUS
<1>2. e \in WindowEntry
  <2>1. [w EXCEPT !.count = 0] \in WindowEntry
    BY <1>1, Zenon DEF WindowEntry
  <2>. QED
    BY <1>1, <2>1, Zenon DEF WindowEntry
<1>3. e.life = w.life
  BY Zenon DEF WindowEntry
<1>4. e.count = 0
  BY Zenon DEF WindowEntry
<1>5. e.until = 0
  BY Zenon DEF WindowEntry
<1> HIDE DEF e
<1>6. entry' = [entry EXCEPT ![s] = e]
  BY DEF e
<1>7. entry'[s] = e
  BY <1>6
<1>. QED
  BY <1>2, <1>3, <1>4, <1>5, <1>6, <1>7

LEMMA CleanupKeeps ==
  ASSUME LInv, NEW s \in Servers, Cleanup(s)
  PROVE  LInv'
<1>1. /\ clock \in Nat /\ redis \in WindowEntry /\ entry \in [Servers -> WindowEntry]
  BY DEF LInv, LimitTypeOK, WindowEntry
<1>2. /\ entry' = [entry EXCEPT ![s].count = 0, ![s].until = 0]
      /\ UNCHANGED <<clock, redis, call>>
  BY DEF Cleanup
<1>3. /\ entry' \in [Servers -> WindowEntry]
      /\ entry'[s].life = entry[s].life /\ entry'[s].count = 0 /\ entry'[s].until = 0
      /\ \A t \in Servers : t # s => entry'[t] = entry[t]
  <2> DEFINE w == entry[s]
  <2>1. w \in WindowEntry
    BY <1>1
  <2>2. entry' = [entry EXCEPT ![s] = [[w EXCEPT !.count = 0] EXCEPT !.until = 0]]
    BY <1>2, Zenon
  <2> HIDE DEF w
  <2>. QED
    BY <1>1, <2>1, <2>2, Forgotten DEF w
<1>4. LimitTypeOK'
  BY <1>1, <1>2, <1>3 DEF LInv, LimitTypeOK, WindowEntry
<1>5. Windows \in [Stores -> WindowEntry] /\ Windows' \in [Stores -> WindowEntry]
  BY <1>4, WindowTypes, <1>1, <1>2, <1>3 DEF LInv, Windows, Stores
<1>6. ASSUME NEW t \in Stores
      PROVE  /\ Windows'[t].life = Windows[t].life
             /\ Windows'[t].count \in {0, Windows[t].count}
             /\ Windows'[t].until <= Windows[t].until
  <2>1. Windows[t] \in WindowEntry
    BY <1>5
  <2>2. CASE t = "redis" \/ t # s
    <3>1. Windows'[t] = Windows[t]
      BY <1>2, <1>3, <2>2 DEF Windows, Stores
    <3>. QED
      BY <2>1, <3>1 DEF WindowEntry
  <2>3. CASE t # "redis" /\ t = s
    <3>1. Windows[t] = entry[s] /\ Windows'[t] = entry'[s]
      BY <2>3 DEF Windows
    <3>. QED
      BY <1>3, <2>1, <3>1 DEF WindowEntry
  <2>. QED
    BY <2>2, <2>3
<1>7. WindowsMove
  BY <1>5, <1>6 DEF WindowsMove
<1>. QED
  BY <1>1, <1>2, <1>4, <1>6, <1>7, NoCallMoves

LEMMA TickKeeps == LInv /\ Tick => LInv'
<1> SUFFICES ASSUME LInv, Tick PROVE LInv'
  OBVIOUS
<1>1. clock \in Nat /\ clock' = clock + 1 /\ UNCHANGED <<redis, entry, call>>
  BY DEF LInv, LimitTypeOK, Tick
<1>2. clock' \in Nat /\ clock' >= clock
  BY <1>1
<1>3. Windows' = Windows /\ WindowsMove
  BY <1>1, WindowsStay
<1>4. \A r : r \in CallAt(clock) => r \in CallAt(clock')
  BY <1>1, <1>2 DEF CallAt
<1>5. call' \in [Calls -> CallAt(clock')]
  BY <1>1, <1>4 DEF LInv, LimitTypeOK, CallAt, Phases
<1>6. LimitTypeOK'
  BY <1>1, <1>2, <1>5 DEF LInv, LimitTypeOK, CallAt, Phases
<1>. QED
  BY <1>1, <1>2, <1>3, <1>6, NoCallMoves

-----------------------------------------------------------------------------
(* The theorems                                                            *)

LEMMA LimitsStep ==
  ASSUME LInv, LimitNext \/ UNCHANGED limitVars
  PROVE  LInv'
<1>1. CASE UNCHANGED limitVars
  <2>1. UNCHANGED <<clock, redis, entry, call>>
    BY <1>1 DEF limitVars
  <2>2. clock \in Nat /\ clock' \in Nat /\ clock' >= clock
    BY <2>1 DEF LInv, LimitTypeOK
  <2>3. LimitTypeOK'
    BY <2>1 DEF LInv, LimitTypeOK
  <2>4. Windows' = Windows /\ WindowsMove
    BY <2>1, WindowsStay
  <2>. QED
    BY <2>1, <2>2, <2>3, <2>4, NoCallMoves
<1>2. ASSUME NEW c \in Calls, NEW s \in Servers, Ask(c, s)
      PROVE  LInv'
  BY <1>2, AskKeeps
<1>3. ASSUME NEW c \in Calls, Eval(c) \/ Replied(c) \/ RedisFails(c)
      PROVE  LInv'
  BY <1>3, EvalKeeps, RepliedKeeps, RedisFailsKeeps
<1>4. ASSUME NEW s \in Servers, Cleanup(s)
      PROVE  LInv'
  BY <1>4, CleanupKeeps
<1>5. CASE Tick
  BY <1>5, TickKeeps
<1>. QED
  BY <1>1, <1>2, <1>3, <1>4, <1>5 DEF LimitNext

LEMMA WindowAt == \A s \in Stores : WindowOf(s) = Windows[s]
  BY DEF WindowOf, Windows

\* A window lets at most Limit calls through (snapshot.count > limit).
LEMMA WindowsHold == LInv => WindowHolds
<1> SUFFICES ASSUME LInv, NEW c \in CallsAt("passed")
             PROVE  Cardinality({d \in CallsAt("passed") : call[d].window = call[c].window}) <= Limit
  BY DEF WindowHolds
<1> DEFINE s == call[c].window.store
           l == call[c].window.life
           same == {d \in CallsAt("passed") : call[d].window = call[c].window}
<1>1. c \in Calls /\ call[c].phase = "passed" /\ call[c] \in CallAt(clock)
  BY DEF CallsAt, LInv, LimitTypeOK, CallAt, Phases
<1>2. s \in Stores
  BY <1>1 DEF LInv, Placed
<1>3. l \in Nat /\ call[c].window = [store |-> s, life |-> l]
  BY <1>1 DEF CallAt
<1>4. same \subseteq In[s][l]
  BY <1>2, <1>3 DEF In, CallsAt
<1>5. IsFiniteSet(In[s][l]) /\ Cardinality(In[s][l]) \in Nat /\ Cardinality(In[s][l]) <= Limit
  BY <1>2, <1>3, InFinite DEF LInv, CountsHold
<1> HIDE DEF same
<1>6. Cardinality(same) <= Cardinality(In[s][l]) /\ Cardinality(same) \in Nat
  BY <1>4, <1>5, FS_Subset, FS_CardinalityType
<1>. QED
  BY <1>5, <1>6, LimitAssumption DEF same

\* Who waits for Retry-After does not meet the window that refused the call.
LEMMA RetriesHold == LInv => RetryHolds
<1> SUFFICES ASSUME LInv, NEW c \in CallsAt("refused"), clock >= call[c].again
             PROVE  Over(call[c].window)
  BY DEF RetryHolds
<1> DEFINE s == call[c].window.store
<1>1. c \in Calls /\ call[c].phase = "refused" /\ call[c] \in CallAt(clock) /\ clock \in Nat
  BY DEF CallsAt, LInv, LimitTypeOK, CallAt, Phases
<1>2. s \in Stores /\ (call[c].window.life = Windows[s].life => Windows[s].until <= call[c].again)
  BY <1>1 DEF LInv, Placed
<1>3. WindowOf(s) = Windows[s] /\ Windows[s].until \in Nat /\ call[c].again \in Nat
  BY <1>1, <1>2, WindowAt, WindowTypes DEF LInv, WindowEntry, CallAt
<1>. QED
  BY <1>1, <1>2, <1>3 DEF Over

\* The limiter on its own: calls that overlap, a Redis that fails before or after
\* it has counted, servers that fall back on their memory and forget windows.
THEOREM LimiterHolds == LimitSpec => [](LimitTypeOK /\ WindowHolds /\ RetryHolds)
<1>1. LimitInit => LInv
  BY InitLimits
<1>2. LInv /\ [LimitNext]_limitVars => LInv'
  BY LimitsStep
<1>3. LInv => LimitTypeOK /\ WindowHolds /\ RetryHolds
  BY WindowsHold, RetriesHold DEF LInv
<1>. QED
  BY <1>1, <1>2, <1>3, PTL DEF LimitSpec

-----------------------------------------------------------------------------
(* The role of a user                                                      *)

\* A sync that had its groups when another was over still sees that one over.
RInv ==
  /\ RoleTypeOK
  /\ \A g \in SignIns : signIn[g].before \subseteq Ended
  /\ RoleFollows

SyncAt ==
  [at : {"off", "groups", "read", "write", "done", "over"},
   page : Nat, seen : SUBSET AllGroups, before : SUBSET SignIns]

LEMMA RoleStarts == RoleInit => RInv
<1> SUFFICES ASSUME RoleInit PROVE RInv
  OBVIOUS
<1>1. NoSync \in SyncAt
  BY DEF NoSync, SyncAt
<1>2. RoleTypeOK
  BY <1>1 DEF RoleInit, RoleTypeOK, SyncAt, RoleNames
<1>3. \A g \in SignIns : signIn[g].before = {} /\ signIn[g].at = "off"
  BY DEF RoleInit, NoSync
<1>. QED
  BY <1>2, <1>3 DEF RInv, RoleFollows

\* A sync moves on: it was not over, and if it is done now, the role is its own.
LEMMA SyncMoves ==
  ASSUME RInv, NEW g \in SignIns, NEW step \in SyncAt, Moves(g, step),
         signIn[g].at \notin {"done", "over"},
         step.before \subseteq Ended,
         userRole' \in RoleNames,
         \/ UNCHANGED <<userRole, writer>>
         \/ writer' = g,
         step.at = "done" => userRole' = ResolveRole(step.seen)
  PROVE  RInv'
<1>1. /\ signIn \in [SignIns -> SyncAt] /\ writer \in SignIns \cup {"none"}
      /\ signIn' = [signIn EXCEPT ![g] = step] /\ member' = member
  BY DEF RInv, RoleTypeOK, SyncAt, Moves
<1>2. /\ signIn' \in [SignIns -> SyncAt] /\ signIn'[g] = step
      /\ \A h \in SignIns : h # g => signIn'[h] = signIn[h]
  BY <1>1
<1>3. writer' \in SignIns \cup {"none"}
  BY <1>1
<1>4. RoleTypeOK'
  BY <1>1, <1>2, <1>3 DEF RInv, RoleTypeOK, SyncAt, AllGroups
<1>5. Ended \subseteq Ended'
  BY <1>2 DEF Ended
<1>6. \A h \in SignIns : signIn'[h].before \subseteq Ended'
  BY <1>2, <1>5 DEF RInv
<1>7. ASSUME NEW h \in SignIns, signIn'[h].at = "done"
      PROVE  \/ userRole' = ResolveRole(signIn'[h].seen)
             \/ writer' # "none" /\ writer' \notin signIn'[h].before
  <2>1. CASE h = g
    BY <1>2, <1>7, <2>1
  <2>2. CASE h # g
    <3>1. signIn'[h] = signIn[h] /\ signIn[h].at = "done"
      BY <1>2, <1>7, <2>2
    <3>2. \/ userRole = ResolveRole(signIn[h].seen)
          \/ writer # "none" /\ writer \notin signIn[h].before
      BY <3>1 DEF RInv, RoleFollows
    <3>3. g \notin signIn[h].before
      BY DEF RInv, Ended
    <3>. QED
      BY <3>1, <3>2, <3>3, RolesAssumption
  <2>. QED
    BY <2>1, <2>2
<1>8. RoleFollows'
  BY <1>7 DEF RoleFollows, ResolveRole
<1>. QED
  BY <1>4, <1>6, <1>8 DEF RInv

LEMMA SyncKeeps ==
  ASSUME RInv, NEW g \in SignIns, Sync(g)
  PROVE  RInv'
<1> DEFINE s == signIn[g]
<1>1. s \in SyncAt /\ userRole \in RoleNames /\ s.before \subseteq Ended
  BY DEF RInv, RoleTypeOK, SyncAt
<1>2. CASE SessionCreated(g)
  <2>1. PICK at \in {"groups", "over"} : Moves(g, [NoSync EXCEPT !.at = at])
    BY <1>2 DEF SessionCreated
  <2> DEFINE step == [NoSync EXCEPT !.at = at]
  <2>2. step \in SyncAt /\ step.before = {} /\ step.at = at
    BY DEF NoSync, SyncAt
  <2>. QED
    BY <1>1, <1>2, <2>1, <2>2, SyncMoves DEF SessionCreated
<1>3. CASE FetchGroupPage(g)
  <2> DEFINE seen == s.seen \cup (member \cap GroupPages[s.page])
             more == [s EXCEPT !.page = s.page + 1, !.seen = seen]
             last == [s EXCEPT !.at = "read", !.seen = seen, !.before = Ended]
  <2>1. s.at = "groups" /\ UNCHANGED <<userRole, writer>> /\ (Moves(g, more) \/ Moves(g, last))
    BY <1>3 DEF FetchGroupPage
  <2>2. seen \in SUBSET AllGroups /\ s.page + 1 \in Nat /\ Ended \in SUBSET SignIns
    BY <1>1 DEF RInv, RoleTypeOK, SyncAt, Ended
  <2> HIDE DEF seen
  <2>3. more \in SyncAt /\ more.before = s.before /\ more.at = s.at
    BY <1>1, <2>2, Zenon DEF SyncAt
  <2>4. last \in SyncAt /\ last.before = Ended /\ last.at = "read"
    BY <1>1, <2>2, Zenon DEF SyncAt
  <2> HIDE DEF more, last
  <2>5. CASE Moves(g, more)
    BY <1>1, <2>1, <2>3, <2>5, SyncMoves
  <2>6. CASE Moves(g, last)
    BY <1>1, <2>1, <2>4, <2>6, SyncMoves
  <2>. QED
    BY <2>1, <2>5, <2>6
<1>4. ASSUME NEW at \in {"done", "write", "over"}
      PROVE  LET step == [s EXCEPT !.at = at] IN
               /\ step \in SyncAt /\ step.at = at
               /\ step.before \subseteq Ended /\ step.seen = s.seen
  BY <1>1 DEF SyncAt
<1>5. CASE ReadRole(g)
  <2>1. PICK at \in {"done", "write"} :
          Moves(g, [s EXCEPT !.at = at]) /\ (at = "done" => InLine(g))
    BY <1>5 DEF ReadRole
  <2> DEFINE step == [s EXCEPT !.at = at]
  <2>2. /\ step \in SyncAt /\ step.at = at
        /\ step.before \subseteq Ended /\ step.seen = s.seen
    BY <1>4
  <2>3. Moves(g, step)
    BY <2>1
  <2> HIDE DEF step
  <2>. QED
    BY <1>1, <1>5, <2>1, <2>2, <2>3, SyncMoves DEF ReadRole, InLine
<1>6. CASE WriteRole(g)
  <2>1. PICK at \in {"done", "over"} : Moves(g, [s EXCEPT !.at = at])
    BY <1>6 DEF WriteRole
  <2> DEFINE step == [s EXCEPT !.at = at]
  <2>2. /\ step \in SyncAt /\ step.at = at
        /\ step.before \subseteq Ended /\ step.seen = s.seen
    BY <1>4
  <2>3. Moves(g, step)
    BY <2>1
  <2>4. userRole' = ResolveRole(s.seen) /\ ResolveRole(s.seen) \in RoleNames
    BY <1>6 DEF WriteRole, ResolveRole, RoleNames
  <2> HIDE DEF step
  <2>. QED
    BY <1>6, <2>2, <2>3, <2>4, SyncMoves DEF WriteRole
<1>7. CASE SyncFails(g)
  <2>1. Moves(g, [s EXCEPT !.at = "over"])
    BY <1>7 DEF SyncFails
  <2> DEFINE step == [s EXCEPT !.at = "over"]
  <2>2. step \in SyncAt /\ step.at = "over" /\ step.before \subseteq Ended
    BY <1>4
  <2>3. Moves(g, step)
    BY <2>1
  <2> HIDE DEF step
  <2>. QED
    BY <1>1, <1>7, <2>2, <2>3, SyncMoves DEF SyncFails
<1>. QED
  BY <1>2, <1>3, <1>5, <1>6, <1>7 DEF Sync

LEMMA RolesStep ==
  ASSUME RInv, RoleNext \/ UNCHANGED roleVars
  PROVE  RInv'
<1>1. CASE MemberChanges
  BY <1>1 DEF MemberChanges, RInv, RoleTypeOK, RoleFollows, Ended, ResolveRole, AllGroups
<1>2. ASSUME NEW g \in SignIns, Sync(g)
      PROVE  RInv'
  BY <1>2, SyncKeeps
<1>3. CASE UNCHANGED roleVars
  BY <1>3 DEF roleVars, RInv, RoleTypeOK, RoleFollows, Ended, ResolveRole, AllGroups
<1>. QED
  BY <1>1, <1>2, <1>3 DEF RoleNext

\* The role on its own: sign-ins that overlap, groups that change while they are
\* read page by page, syncs that fail and updates whose reply is lost.
THEOREM RoleHolds == RoleSpec => [](RoleTypeOK /\ RoleFollows)
<1>1. RoleInit => RInv
  BY RoleStarts
<1>2. RInv /\ [RoleNext]_roleVars => RInv'
  BY RolesStep
<1>3. RInv => RoleTypeOK /\ RoleFollows
  BY DEF RInv
<1>. QED
  BY <1>1, <1>2, <1>3, PTL DEF RoleSpec

-----------------------------------------------------------------------------
(* The slots of the chat's tool                                            *)

RunStates ==
  {"off", "fetch", "body", "wait", "ok", "ForbiddenError", "ValidationError",
   "WeatherToolRateLimitError", "WeatherToolTimeoutError", "WeatherToolProviderError",
   "WeatherToolSchemaDriftError"}
RunAt == [at : RunStates, retry : BOOLEAN, for : Calls \cup {"none"}]

TInv ==
  /\ run \in [ToolRuns -> RunAt]
  /\ CapHolds

Invokes == \E r \in ToolRuns, c \in Calls, valid \in BOOLEAN : Invoke(r, c, valid, userRole)

LEMMA HoldingFinite == IsFiniteSet(Holding) /\ Cardinality(Holding) \in Nat
<1>1. Holding \subseteq ToolRuns
  BY DEF Holding
<1>. QED
  BY <1>1, CapAssumption, FS_Subset, FS_CardinalityType

LEMMA ToolStarts == ToolInit => TInv
<1> SUFFICES ASSUME ToolInit PROVE TInv
  OBVIOUS
<1>1. run \in [ToolRuns -> RunAt] /\ Holding = {}
  BY DEF ToolInit, RunAt, RunStates, NoRun, Holding
<1>. QED
  BY <1>1, FS_EmptySet, CapAssumption DEF ToolInit, TInv, CapHolds

\* The three ways a run moves: it takes a slot, gives one back, or neither.
LEMMA RunTakes ==
  ASSUME TInv, NEW r \in ToolRuns, NEW record \in RunAt, run' = [run EXCEPT ![r] = record],
         run[r].at \notin {"fetch", "body"}, record.at \in {"fetch", "body"},
         active < Cap, active' = active + 1
  PROVE  TInv'
<1>1. run' \in [ToolRuns -> RunAt] /\ Holding' = Holding \cup {r} /\ r \notin Holding
  BY DEF TInv, Holding
<1>2. Cardinality(Holding') = Cardinality(Holding) + 1
  BY <1>1, HoldingFinite, FS_AddElement
<1>. QED
  BY <1>1, <1>2, HoldingFinite, CapAssumption DEF TInv, CapHolds

LEMMA RunGivesBack ==
  ASSUME TInv, NEW r \in ToolRuns, NEW record \in RunAt, run' = [run EXCEPT ![r] = record],
         run[r].at \in {"fetch", "body"}, record.at \notin {"fetch", "body"}, Release
  PROVE  TInv'
<1>1. run' \in [ToolRuns -> RunAt] /\ Holding' = Holding \ {r} /\ r \in Holding
  BY DEF TInv, Holding
<1>2. Cardinality(Holding') = Cardinality(Holding) - 1 /\ Cardinality(Holding') \in Nat
  <2>1. Holding' \subseteq Holding
    BY <1>1
  <2>. QED
    BY <1>1, <2>1, HoldingFinite, FS_RemoveElement, FS_Subset, FS_CardinalityType
<1>. QED
  BY <1>1, <1>2, HoldingFinite, CapAssumption DEF TInv, CapHolds, Release

LEMMA RunStays ==
  ASSUME TInv, NEW r \in ToolRuns, NEW record \in RunAt, run' = [run EXCEPT ![r] = record],
         run[r].at \in {"fetch", "body"} <=> record.at \in {"fetch", "body"},
         UNCHANGED active
  PROVE  TInv'
<1>1. run' \in [ToolRuns -> RunAt] /\ Holding' = Holding
  BY DEF TInv, Holding
<1>. QED
  BY <1>1 DEF TInv, CapHolds

\* A record of a run, moved.
LEMMA RunMoved ==
  ASSUME NEW record \in RunAt, NEW at \in RunStates
  PROVE  [record EXCEPT !.at = at] \in RunAt /\ [record EXCEPT !.at = at].at = at
  BY DEF RunAt

LEMMA AttemptKeeps ==
  ASSUME TInv, NEW r \in ToolRuns, NEW record \in RunAt, Attempt(r, record),
         run[r].at \notin {"fetch", "body"}
  PROVE  TInv'
<1> DEFINE refused == [record EXCEPT !.at = "WeatherToolRateLimitError"]
           begun == [record EXCEPT !.at = "fetch"]
<1>1. /\ refused \in RunAt /\ refused.at = "WeatherToolRateLimitError"
      /\ begun \in RunAt /\ begun.at = "fetch"
  <2>1. "WeatherToolRateLimitError" \in RunStates /\ "fetch" \in RunStates
    BY DEF RunStates
  <2>. QED
    BY <2>1, RunMoved
<1>2. active \in Nat /\ Cap \in Nat
  BY HoldingFinite, CapAssumption DEF TInv, CapHolds
<1>3. CASE active >= Cap
  <2>1. run' = [run EXCEPT ![r] = refused] /\ UNCHANGED active
    BY <1>3 DEF Attempt
  <2> HIDE DEF refused
  <2>. QED
    BY <1>1, <2>1, RunStays
<1>4. CASE active < Cap
  <2>1. run' = [run EXCEPT ![r] = begun] /\ active' = active + 1
    BY <1>2, <1>4 DEF Attempt
  <2> HIDE DEF begun
  <2>. QED
    BY <1>1, <1>4, <2>1, RunTakes
<1>. QED
  BY <1>2, <1>3, <1>4

LEMMA EndsKeeps ==
  ASSUME TInv, NEW r \in ToolRuns, run[r].at \in {"fetch", "body"},
         NEW tag \in RunStates, tag \notin {"fetch", "body"}, Ends(r, tag)
  PROVE  TInv'
<1>1. PICK at \in RunStates : /\ at \notin {"fetch", "body"}
                           /\ run' = [run EXCEPT ![r].at = at]
                           /\ Release
  <2> DEFINE at == IF /\ tag \in {"WeatherToolTimeoutError", "WeatherToolProviderError"}
                      /\ ~run[r].retry
                     THEN "wait" ELSE tag
  <2>1. at \in RunStates /\ at \notin {"fetch", "body"}
    BY DEF RunStates
  <2>2. run' = [run EXCEPT ![r].at = at] /\ Release
    BY DEF Ends
  <2> HIDE DEF at
  <2>. QED
    BY <2>1, <2>2
<1> DEFINE record == [run[r] EXCEPT !.at = at]
<1>2. run' = [run EXCEPT ![r] = record]
  BY <1>1
<1>3. record \in RunAt /\ record.at = at
  BY RunMoved DEF TInv
<1> HIDE DEF record
<1>. QED
  BY <1>1, <1>2, <1>3, RunGivesBack

LEMMA ToolKeeps ==
  ASSUME TInv, ToolStep
  PROVE  TInv'
<1>1. PICK r \in ToolRuns : Headers(r) \/ FetchEnds(r) \/ Body(r) \/ Retry(r)
  BY DEF ToolStep
<1>2. run[r] \in RunAt
  BY DEF TInv
<1>3. CASE Headers(r)
  <2> DEFINE record == [run[r] EXCEPT !.at = "body"]
  <2>1. run[r].at = "fetch" /\ run' = [run EXCEPT ![r] = record] /\ UNCHANGED active
    BY <1>3 DEF Headers
  <2>2. record \in RunAt /\ record.at = "body"
    <3>1. "body" \in RunStates
      BY DEF RunStates
    <3>. QED
      BY <1>2, <3>1, RunMoved
  <2> HIDE DEF record
  <2>. QED
    BY <2>1, <2>2, RunStays
<1>4. CASE FetchEnds(r)
  BY <1>4, EndsKeeps DEF FetchEnds, RunStates
<1>5. CASE Body(r)
  BY <1>5, EndsKeeps DEF Body, RunStates
<1>6. CASE Retry(r)
  <2> DEFINE record == [run[r] EXCEPT !.retry = TRUE]
  <2>1. run[r].at = "wait" /\ Attempt(r, record)
    BY <1>6 DEF Retry
  <2>2. record \in RunAt
    BY <1>2 DEF RunAt
  <2> HIDE DEF record
  <2>. QED
    BY <2>1, <2>2, AttemptKeeps
<1>. QED
  BY <1>1, <1>3, <1>4, <1>5, <1>6

LEMMA InvokesKeeps ==
  ASSUME TInv, Invokes
  PROVE  TInv'
<1>1. PICK r \in ToolRuns, c \in Calls, valid \in BOOLEAN : Invoke(r, c, valid, userRole)
  BY DEF Invokes
<1>2. run[r] \in RunAt /\ run[r].at = "off" /\ run \in [ToolRuns -> RunAt]
  BY <1>1 DEF TInv, Invoke
<1>3. CASE valid /\ Authorized(userRole)
  <2> DEFINE record == [NoRun EXCEPT !.for = c]
  <2>1. Attempt(r, record)
    BY <1>1, <1>3 DEF Invoke
  <2>2. record \in RunAt
    BY DEF NoRun, RunAt, RunStates
  <2> HIDE DEF record
  <2>. QED
    BY <1>2, <2>1, <2>2, AttemptKeeps
<1>4. CASE ~(valid /\ Authorized(userRole))
  <2> DEFINE at == IF valid THEN "ForbiddenError" ELSE "ValidationError"
             record == [[run[r] EXCEPT !.for = c] EXCEPT !.at = at]
  <2>1. run' = [run EXCEPT ![r].for = c, ![r].at = at] /\ UNCHANGED active
    BY <1>1, <1>4 DEF Invoke
  <2>2. run' = [run EXCEPT ![r] = record]
    BY <1>2, <2>1, Zenon
  <2>3. [run[r] EXCEPT !.for = c] \in RunAt
    BY <1>2 DEF RunAt
  <2>4. at \in RunStates
    BY DEF RunStates
  <2>5. record \in RunAt /\ record.at = at
    BY <2>3, <2>4, RunMoved
  <2>6. at \notin {"fetch", "body"}
    OBVIOUS
  <2> HIDE DEF record, at
  <2>. QED
    BY <1>2, <2>1, <2>2, <2>5, <2>6, RunStays
<1>. QED
  BY <1>3, <1>4

-----------------------------------------------------------------------------
(* The steps of Chat, seen from its parts                                  *)

\* A step that leaves the limiter, the role and the tool as they are, but for
\* what its conclusion says.
PartsStep ==
  /\ budget' = budget
  /\ [LimitNext]_limitVars
  /\ [RoleNext]_roleVars
  /\ ToolStep \/ Invokes \/ UNCHANGED toolVars

LEMMA SendsAsks ==
  ASSUME budget \in Setups, NEW kind, NEW parts, Sends(kind, parts)
  PROVE  LimitNext
<1>1. NextCall \in Calls
  <2>1. NextCall \in Idle
    BY DEF Sends, NextCall
  <2>. QED
    BY <2>1, SetupsAssumption DEF Idle
<1>2. PICK s \in budget.servers : Ask(NextCall, s)
  BY DEF Sends
<1>3. s \in Servers
  BY SetupsAssumption
<1>. QED
  BY <1>1, <1>2, <1>3 DEF LimitNext

LEMMA StepOfParts ==
  ASSUME budget \in Setups, Next \/ UNCHANGED vars
  PROVE  PartsStep
<1> DEFINE quiet == UNCHANGED <<limitVars, toolVars, roleVars, budget>>
           asks == LimitNext /\ UNCHANGED <<toolVars, roleVars, budget>>
<1>1. quiet \/ asks => PartsStep
  BY DEF PartsStep
<1>2. CASE UNCHANGED vars
  BY <1>1, <1>2 DEF vars
<1>3. CASE Limiter
  BY <1>1, <1>3 DEF Limiter, LimitNext
<1>4. CASE Tools
  BY <1>4 DEF Tools, PartsStep
<1>5. CASE RoleSyncs
  BY <1>5 DEF RoleSyncs, PartsStep
<1>6. CASE OtherCall
  <2>1. LimitNext
    BY <1>6, SendsAsks DEF OtherCall
  <2>. QED
    BY <1>1, <1>6, <2>1 DEF OtherCall
<1>7. ASSUME NEW c \in Calls, Handle(c) \/ NetworkFails(c) \/ StreamEnds(c)
      PROVE  PartsStep
  BY <1>1, <1>7 DEF Handle, NetworkFails, StreamEnds
<1>8. ASSUME NEW c \in Calls, NEW r \in ToolRuns, ModelCallsTool(c, r)
      PROVE  PartsStep
  <2>1. Invokes /\ UNCHANGED <<limitVars, roleVars, budget>>
    BY <1>8 DEF ModelCallsTool, Invokes
  <2>. QED
    BY <2>1 DEF PartsStep
<1>9. ASSUME NEW u \in Users, SignIn(u)
      PROVE  PartsStep
  BY <1>1, <1>9 DEF SignIn
<1>10. ASSUME NEW p \in Tabs, Mount(p) \/ Unmount(p) \/ SignOut(p)
       PROVE  PartsStep
  BY <1>1, <1>10 DEF Mount, Unmount, SignOut, Unmounted
<1>11. ASSUME NEW p \in Tabs, SendFails(p) \/ TextArrives(p) \/ CreateThread(p) \/ RunQueued(p)
       PROVE  PartsStep
  BY <1>1, <1>11 DEF SendFails, TextArrives, CreateThread, RunQueued
<1>12. ASSUME NEW p \in Tabs, NEW t \in ThreadIds, SelectThread(p, t)
       PROVE  PartsStep
  BY <1>1, <1>12 DEF SelectThread
<1>13. ASSUME NEW p \in Tabs, OnSend(p)
       PROVE  PartsStep
  <2>1. LimitNext /\ UNCHANGED <<toolVars, roleVars, budget>>
    BY <1>13, SendsAsks DEF OnSend
  <2>. QED
    BY <1>1, <2>1
<1>14. ASSUME NEW p \in Tabs, OnQueueRun(p)
       PROVE  PartsStep
  <2>1. LimitNext /\ UNCHANGED <<toolVars, roleVars, budget>>
    BY <1>14, SendsAsks DEF OnQueueRun
  <2>. QED
    BY <1>1, <2>1
<1>15. ASSUME NEW p \in Tabs, OnInvoke(p)
       PROVE  PartsStep
  <2>1. LimitNext /\ UNCHANGED <<toolVars, roleVars, budget>>
    BY <1>15, SendsAsks DEF OnInvoke, OnlyPanel
  <2>. QED
    BY <1>1, <2>1
<1>16. ASSUME NEW p \in Tabs, PanelHears(p) \/ OnCancel(p)
       PROVE  PartsStep
  BY <1>1, <1>16 DEF PanelHears, OnCancel, OnlyPanel
<1> HIDE DEF quiet, asks
<1>. QED
  BY <1>2, <1>3, <1>4, <1>5, <1>6, <1>7, <1>8, <1>9, <1>10, <1>11, <1>12, <1>13, <1>14,
     <1>15, <1>16 DEF Next

CInv == budget \in Setups /\ LInv /\ RInv /\ TInv

LEMMA InitParts == Init => CInv
<1>1. Init => budget \in Setups /\ LimitInit /\ RoleInit /\ ToolInit
  BY DEF Init
<1>. QED
  BY <1>1, InitLimits, RoleStarts, ToolStarts DEF CInv

LEMMA PartsKeep ==
  ASSUME CInv, [Next]_vars
  PROVE  CInv'
<1>1. PartsStep
  BY StepOfParts DEF CInv
<1>2. LInv'
  BY <1>1, LimitsStep DEF CInv, PartsStep
<1>3. RInv'
  BY <1>1, RolesStep DEF CInv, PartsStep
<1>4. TInv'
  <2>1. CASE UNCHANGED toolVars
    BY <2>1 DEF CInv, TInv, CapHolds, Holding, toolVars
  <2>. QED
    BY <1>1, <2>1, ToolKeeps, InvokesKeeps DEF CInv, PartsStep
<1>. QED
  BY <1>1, <1>2, <1>3, <1>4 DEF CInv, PartsStep

-----------------------------------------------------------------------------
(* The theorems                                                            *)

\* Whatever pages, streams, panels and models do: no window lets more than Limit
\* calls through, Retry-After suffices, and the tool's slots are those in use.
THEOREM ChatKeepsLimits == Spec => []LimitHolds
<1>1. CInv => LimitHolds
  BY WindowsHold, RetriesHold DEF CInv, TInv, LimitHolds
<1>. QED
  BY <1>1, InitParts, PartsKeep, PTL DEF Spec

\* A late sync never brings back the role that an earlier one, already over, had
\* replaced.
THEOREM ChatKeepsRole == Spec => []RoleFollows
<1>1. CInv => RoleFollows
  BY DEF CInv, RInv
<1>. QED
  BY <1>1, InitParts, PartsKeep, PTL DEF Spec

\* The limiter and the role in Chat are those on their own: a page asks, and
\* never takes a call back or counts one of its own.
THEOREM ChatImplementsParts == Spec => LimitSpec /\ RoleSpec
<1>1. Init => LimitInit /\ RoleInit
  BY DEF Init
<1>2. CInv /\ [Next]_vars => [LimitNext]_limitVars /\ [RoleNext]_roleVars
  BY StepOfParts DEF CInv, PartsStep
<1>. QED
  BY <1>1, <1>2, InitParts, PartsKeep, PTL DEF Spec, LimitSpec, RoleSpec

-----------------------------------------------------------------------------
(* What the panel makes of an answer.                                      *)

ToolTags == {"ToolTimeoutError", "ToolProviderError", "ToolRateLimitError",
             "ToolSchemaDriftError"}

\* Whatever is thrown, the interceptor's FiberFailure is told as one error.
LEMMA ToldAsOne ==
  ASSUME NEW error, NEW invalid
  PROVE  ToldOfError(error, invalid) = Reply("INTERNAL_SERVER_ERROR", 500, "none")
<1> DEFINE thrown == ThrowTransformed(error, invalid)
<1>1. ToldOfError(error, invalid) = ToORPCError([defect |-> thrown])
  BY DEF ToldOfError, HandleORPCError, FiberFailure
<1> HIDE DEF thrown
<1>2. ~IsORPCError([defect |-> thrown])
  BY DEF IsORPCError
<1>. QED
  BY <1>1, <1>2 DEF ToORPCError

\* What a call of the panel that the limiter let pass can come to.
Causes == ToolTags \union {"UnauthorizedError", "ForbiddenError", "network", "context",
                           "contract", "parts", "ok"}

\* What the panel is told of a call that is over.
Heard(c) ==
  /\ ReplyTo(c).code = "OK" <=> req[c].cause = "ok"
  /\ ExtractWeatherErrorTag(ReplyTo(c)) = "none"

LEMMA Hears ==
  ASSUME NEW c \in Calls, Answered(c), req[c].cause \in Causes \union {"none"},
         call[c].phase = "refused" => req[c].cause \in {"none", "network"}
  PROVE  Heard(c)
<1>1. \A x, y, z : /\ Reply(x, y, z).code = x
                   /\ Reply(x, y, z).errorTag = z
  BY DEF Reply
<1>2. \E code \in {"none", "TOO_MANY_REQUESTS", "INTERNAL_SERVER_ERROR", "OK"} : \E n :
        /\ ReplyTo(c) = Reply(code, n, "none")
        /\ code = "OK" <=> req[c].cause = "ok"
  <2>1. CASE req[c].cause = "network"
    <3>1. ReplyTo(c) = Reply("none", 0, "none")
      BY <2>1 DEF ReplyTo
    <3>. QED
      BY <2>1, <3>1
  <2>2. CASE req[c].cause # "network" /\ call[c].phase = "refused"
    <3>1. ReplyTo(c) = TooManyRequests /\ req[c].cause = "none"
      BY <2>2 DEF ReplyTo
    <3>. QED
      BY <3>1 DEF TooManyRequests
  <2>3. CASE call[c].phase # "refused" /\ req[c].cause = "ok"
    <3>1. ReplyTo(c) = Reply("OK", 200, "none")
      BY <2>3 DEF ReplyTo
    <3>. QED
      BY <2>3, <3>1
  <2>4. CASE call[c].phase # "refused" /\ req[c].cause = "context"
    <3>1. ReplyTo(c) = GlobalErrorHandler
      BY <2>4 DEF ReplyTo
    <3>. QED
      BY <2>4, <3>1 DEF GlobalErrorHandler
  <2>5. CASE call[c].phase # "refused" /\ req[c].cause \notin {"network", "ok", "context"}
    <3>1. \E error, invalid : ReplyTo(c) = ToldOfError(error, invalid)
      <4>1. CASE req[c].cause = "contract"
        BY <2>5, <4>1 DEF ReplyTo
      <4>2. CASE req[c].cause = "parts"
        BY <2>5, <4>2 DEF ReplyTo
      <4>3. CASE req[c].cause = "UnauthorizedError"
        BY <2>5, <4>3 DEF ReplyTo
      <4>4. CASE req[c].cause \notin {"contract", "parts", "UnauthorizedError"}
        <5>1. ReplyTo(c) = ToldOfError(HandleCause(req[c].cause), FALSE)
          BY <2>5, <4>4 DEF ReplyTo
        <5>. QED
          BY <5>1
      <4>. QED
        BY <4>1, <4>2, <4>3, <4>4
    <3>2. ReplyTo(c) = Reply("INTERNAL_SERVER_ERROR", 500, "none")
      BY <3>1, ToldAsOne
    <3>. QED
      BY <2>5, <3>2
  <2>. QED
    BY <2>1, <2>2, <2>3, <2>4, <2>5
<1>. QED
  BY <1>1, <1>2 DEF Heard, ExtractWeatherErrorTag

-----------------------------------------------------------------------------
(* The calls of the pages.  A call is handled once, after the limiter let  *)
(* it pass, and what came of it stays.                                     *)

AllCauses == Causes \union {"none", "stream", "QueueError", "defect"}
PartTypes == {"text", "step-start", "invalid"}
Request == [kind : {"none", "other", "chat", "weather", "run"}, as : Users \union {"none"},
            parts : SUBSET PartTypes, cause : AllCauses, stream : {"none", "open", "over"}]

ReqSound(c) ==
  /\ call[c].phase = "idle" => req[c].cause = "none"
  /\ call[c].phase # "passed" => req[c].cause \in {"none", "network"}
  /\ req[c].kind = "weather" => req[c].cause \in Causes \union {"none"}

QInv ==
  /\ cookie \in Users \union {"none"}
  /\ req \in [Calls -> Request]
  /\ \A c \in Calls : ReqSound(c)

\* A call that was sent stays what it is, and what came of it stays.
ReqStays(c) ==
  /\ call[c].phase # "idle" => /\ call'[c].phase # "idle" /\ req'[c].kind = req[c].kind
                               /\ req[c].cause # "none" => req'[c].cause = req[c].cause
                               /\ req'[c].stream = "over" =>
                                    req[c].stream = "over" \/ StreamEnds(c)
  /\ call[c].phase \in {"passed", "refused"} => call'[c].phase = call[c].phase

LEMMA PhasesGoOn ==
  ASSUME LInv, [LimitNext]_limitVars, NEW c \in Calls
  PROVE  /\ call[c].phase # "idle" => call'[c].phase # "idle"
         /\ call[c].phase \in {"passed", "refused"} => call'[c].phase = call[c].phase
<1>1. call \in [Calls -> CallAt(clock)]
  BY DEF LInv, LimitTypeOK, CallAt, Phases
<1>2. CASE call' = call
  BY <1>2
<1>3. ASSUME NEW d \in Calls, NEW r,
             call[d].phase \notin {"passed", "refused"}, r.phase # "idle",
             call' = [call EXCEPT ![d] = r]
      PROVE  /\ call[c].phase # "idle" => call'[c].phase # "idle"
             /\ call[c].phase \in {"passed", "refused"} => call'[c].phase = call[c].phase
  BY <1>1, <1>3
<1>4. ASSUME NEW d \in Calls, NEW snapshot, Judge(d, snapshot)
      PROVE  \E r : r.phase # "idle" /\ call' = [call EXCEPT ![d] = r]
  <2> DEFINE refused == [NoCall EXCEPT !.phase = "refused", !.server = snapshot.server,
                           !.window = snapshot.window, !.again = clock + RetryAfter(snapshot)]
             passed == [NoCall EXCEPT !.phase = "passed", !.server = snapshot.server,
                                      !.window = snapshot.window]
             r == IF snapshot.count > Limit THEN refused ELSE passed
  <2>1. refused.phase = "refused" /\ passed.phase = "passed"
    BY DEF NoCall
  <2>2. call' = [call EXCEPT ![d] = r]
    BY <1>4 DEF Judge
  <2> HIDE DEF refused, passed
  <2>3. r.phase # "idle"
    BY <2>1
  <2> HIDE DEF r
  <2>. QED
    BY <2>2, <2>3
<1>5. ASSUME NEW d \in Calls, NEW s \in Servers, Ask(d, s)
      PROVE  /\ call[c].phase # "idle" => call'[c].phase # "idle"
             /\ call[c].phase \in {"passed", "refused"} => call'[c].phase = call[c].phase
  <2>1. \E r : r.phase # "idle" /\ call' = [call EXCEPT ![d] = r]
    BY <1>5 DEF Ask, NoCall
  <2>. QED
    BY <1>3, <1>5, <2>1 DEF Ask
<1>6. ASSUME NEW d \in Calls, Eval(d)
      PROVE  /\ call[c].phase # "idle" => call'[c].phase # "idle"
             /\ call[c].phase \in {"passed", "refused"} => call'[c].phase = call[c].phase
  <2>1. \E r : r.phase # "idle" /\ call' = [call EXCEPT ![d] = r]
    <3>1. PICK n : call' = [call EXCEPT ![d] =
                     [Snapshot(d, redis'.count, n, "redis", redis'.life)
                        EXCEPT !.phase = "counted"]]
      BY <1>6 DEF Eval
    <3>2. [Snapshot(d, redis'.count, n, "redis", redis'.life)
             EXCEPT !.phase = "counted"].phase = "counted"
      BY <1>1 DEF Snapshot, CallAt
    <3>. QED
      BY <3>1, <3>2
  <2>. QED
    BY <1>3, <1>6, <2>1 DEF Eval
<1>7. ASSUME NEW d \in Calls, Replied(d) \/ RedisFails(d)
      PROVE  /\ call[c].phase # "idle" => call'[c].phase # "idle"
             /\ call[c].phase \in {"passed", "refused"} => call'[c].phase = call[c].phase
  <2>1. \E snapshot : Judge(d, snapshot)
    BY <1>7 DEF Replied, RedisFails
  <2>2. call[d].phase \notin {"passed", "refused"}
    BY <1>7 DEF Replied, RedisFails
  <2>. QED
    BY <1>3, <1>4, <2>1, <2>2
<1>. QED
  BY <1>2, <1>5, <1>6, <1>7 DEF LimitNext, Cleanup, Tick, limitVars

\* What the next call is, and what sending it does.
LEMMA SendsIs ==
  ASSUME CInv, QInv, NEW kind \in {"other", "chat", "weather", "run"},
         NEW parts \in SUBSET PartTypes, Sends(kind, parts)
  PROVE  /\ NextCall \in Calls /\ call[NextCall].phase = "idle"
         /\ call'[NextCall].phase = "asking"
         /\ req' = [req EXCEPT ![NextCall] = [NoReq EXCEPT !.kind = kind, !.as = cookie,
                                                           !.parts = parts]]
         /\ [NoReq EXCEPT !.kind = kind, !.as = cookie, !.parts = parts] \in Request
<1>1. NextCall \in Idle
  BY DEF Sends, NextCall
<1>2. NextCall \in Calls /\ call[NextCall].phase = "idle"
  BY <1>1, SetupsAssumption DEF Idle, CInv
<1>3. PICK s : Ask(NextCall, s)
  BY DEF Sends
<1>4. call'[NextCall].phase = "asking"
  BY <1>2, <1>3 DEF Ask, NoCall, CInv, LInv, LimitTypeOK
<1>5. \A k \in {"other", "chat", "weather", "run"}, u \in Users \union {"none"},
         q \in SUBSET PartTypes :
        [NoReq EXCEPT !.kind = k, !.as = u, !.parts = q] \in Request
  BY DEF NoReq, Request, AllCauses
<1>6. cookie \in Users \union {"none"}
  BY DEF QInv
<1>. QED
  BY <1>2, <1>4, <1>5, <1>6 DEF Sends

\* What a call of the panel comes to.
LEMMA WeatherCauses ==
  ASSUME CInv, NEW c \in Calls, req[c].kind = "weather"
  PROVE  Outcomes(c) \subseteq Causes
<1>1. WeatherOutcomes("interactive-chat", userRole) \subseteq Causes
  BY DEF WeatherOutcomes, Refusal, ProviderEnds, Causes, ToolTags
<1>2. \/ ~Fits(req[c].parts)
      \/ Fits(req[c].parts) /\ ~AllText(req[c].parts)
      \/ AllText(req[c].parts)
  OBVIOUS
<1>3. CASE ~AllText(req[c].parts)
  BY <1>3 DEF Outcomes, Fits, AllText, Causes
<1>4. CASE AllText(req[c].parts)
  <2>1. Fits(req[c].parts)
    BY <1>4 DEF Fits, AllText
  <2>2. Outcomes(c) = WeatherOutcomes("interactive-chat", userRole)
    BY <1>4, <2>1 DEF Outcomes
  <2>. QED
    BY <1>1, <2>2
<1>. QED
  BY <1>3, <1>4

LEMMA OutcomesTyped ==
  ASSUME CInv, NEW c \in Calls
  PROVE  Outcomes(c) \subseteq AllCauses
<1>1. PromptFailure = "none"
  BY DEF PromptFailure, ResolvePrompt, GeneralChat
<1>2. WeatherOutcomes("interactive-chat", userRole) \subseteq Causes
  BY DEF WeatherOutcomes, Refusal, ProviderEnds, Causes, ToolTags
<1>3. CASE ~AllText(req[c].parts)
  BY <1>3 DEF Outcomes, Fits, AllText, Causes, AllCauses
<1>4. CASE AllText(req[c].parts)
  <2>1. Fits(req[c].parts)
    BY <1>4 DEF Fits, AllText
  <2>2. CASE req[c].kind = "chat"
    BY <1>1, <1>4, <2>1, <2>2 DEF Outcomes, AllCauses
  <2>3. CASE req[c].kind = "weather"
    BY <1>2, <1>4, <2>1, <2>3 DEF Outcomes, AllCauses
  <2>4. CASE req[c].kind \notin {"chat", "weather"}
    BY <1>4, <2>1, <2>4 DEF Outcomes, Causes, AllCauses
  <2>. QED
    BY <2>2, <2>3, <2>4
<1>. QED
  BY <1>3, <1>4

\* What a step does to a call: it is sent, or something comes of it, or nothing.
ReqStep(c) ==
  \/ call[c].phase = "idle" /\ call'[c].phase = "asking" /\ req'[c].cause = "none"
  \/ /\ req'[c].kind = req[c].kind
     /\ req'[c].stream = "over" => req[c].stream = "over" \/ StreamEnds(c)
     /\ \/ req'[c].cause = req[c].cause
        \/ /\ req[c].cause = "none" /\ call[c].phase # "idle"
           /\ req'[c].cause = "network" \/ call[c].phase = "passed"
           /\ req[c].kind = "weather" => req'[c].cause \in Causes

Asked == req' \in [Calls -> Request] /\ (\A c \in Calls : ReqStep(c))

LEMMA SendsAsked ==
  ASSUME CInv, QInv, NEW kind \in {"other", "chat", "weather", "run"},
         NEW parts \in SUBSET PartTypes, Sends(kind, parts)
  PROVE  Asked
<1> DEFINE r == [NoReq EXCEPT !.kind = kind, !.as = cookie, !.parts = parts]
<1>1. /\ NextCall \in Calls /\ call[NextCall].phase = "idle"
      /\ call'[NextCall].phase = "asking"
      /\ req' = [req EXCEPT ![NextCall] = r]
      /\ r \in Request
  BY SendsIs
<1>2. r.cause = "none"
  BY DEF NoReq
<1> HIDE DEF r
<1>. QED
  BY <1>1, <1>2 DEF Asked, ReqStep, QInv

LEMMA RestAsked == QInv /\ UNCHANGED req => Asked
BY DEF Asked, ReqStep, QInv

LEMMA HandleAsked ==
  ASSUME CInv, QInv, NEW c \in Calls, Handle(c)
  PROVE  Asked
<1>1. PICK cause : /\ \/ cause = "UnauthorizedError" \/ cause \in Outcomes(c) \/ cause = "context"
                   /\ req' = [req EXCEPT ![c].cause = cause,
                                ![c].stream = IF cause = "stream" THEN "open" ELSE "none"]
  BY DEF Handle
<1>2. cause \in AllCauses
  BY <1>1, OutcomesTyped DEF AllCauses, Causes
<1>3. req[c].kind = "weather" => cause \in Causes
  BY <1>1, WeatherCauses DEF Causes
<1> DEFINE stream == IF cause = "stream" THEN "open" ELSE "none"
           r == [req[c] EXCEPT !.cause = cause, !.stream = stream]
<1>4. stream \in {"none", "open", "over"} /\ req[c] \in Request
  BY DEF QInv
<1> HIDE DEF stream
<1>5. r \in Request /\ r.cause = cause /\ r.kind = req[c].kind /\ r.stream = stream
  BY <1>2, <1>4 DEF Request
<1>6. req' = [req EXCEPT ![c] = r]
  BY <1>1 DEF QInv, Request, stream
<1> HIDE DEF r
<1>7. stream # "over"
  BY DEF stream
<1>. QED
  BY <1>3, <1>5, <1>6, <1>7 DEF Handle, Asked, ReqStep, QInv

LEMMA OthersAsked ==
  ASSUME CInv, QInv, NEW c \in Calls, NetworkFails(c) \/ StreamEnds(c)
  PROVE  Asked
<1>1. CASE NetworkFails(c)
  <2> DEFINE r == [req[c] EXCEPT !.cause = "network"]
  <2>1. r \in Request /\ r.cause = "network" /\ r.kind = req[c].kind
       /\ r.stream = req[c].stream
    BY DEF QInv, Request, AllCauses, Causes
  <2>2. req' = [req EXCEPT ![c] = r]
    BY <1>1 DEF NetworkFails
  <2> HIDE DEF r
  <2>. QED
    BY <1>1, <2>1, <2>2 DEF NetworkFails, Asked, ReqStep, QInv, Causes
<1>2. CASE StreamEnds(c)
  <2> DEFINE r == [req[c] EXCEPT !.stream = "over"]
  <2>1. r \in Request /\ r.cause = req[c].cause /\ r.kind = req[c].kind
    BY DEF QInv, Request
  <2>2. req' = [req EXCEPT ![c] = r]
    BY <1>2 DEF StreamEnds
  <2> HIDE DEF r
  <2>. QED
    BY <1>2, <2>1, <2>2 DEF Asked, ReqStep, QInv
<1>. QED
  BY <1>1, <1>2

LEMMA StepAsked ==
  ASSUME CInv, QInv, [Next]_vars
  PROVE  Asked /\ cookie' \in Users \union {"none"}
<1> DEFINE typed == cookie' \in Users \union {"none"}
<1>1. cookie' = cookie => typed
  BY DEF QInv
<1> SUFFICES Asked /\ typed
  OBVIOUS
<1> HIDE DEF typed
<1>2. CASE UNCHANGED vars
  BY <1>1, <1>2, RestAsked DEF vars, pageVars
<1>3. CASE Limiter \/ Tools \/ RoleSyncs
  BY <1>1, <1>3, RestAsked DEF Limiter, Tools, RoleSyncs, pageVars
<1>4. CASE OtherCall
  BY <1>1, <1>4, SendsAsked DEF OtherCall
<1>5. ASSUME NEW c \in Calls,
             \/ Handle(c) \/ NetworkFails(c) \/ StreamEnds(c)
             \/ \E r \in ToolRuns : ModelCallsTool(c, r)
      PROVE  Asked /\ typed
  <2>1. CASE Handle(c)
    BY <1>1, <2>1, HandleAsked DEF Handle
  <2>2. CASE NetworkFails(c) \/ StreamEnds(c)
    BY <1>1, <2>2, OthersAsked DEF NetworkFails, StreamEnds
  <2>3. CASE \E r \in ToolRuns : ModelCallsTool(c, r)
    BY <1>1, <2>3, RestAsked DEF ModelCallsTool, pageVars
  <2>. QED
    BY <1>5, <2>1, <2>2, <2>3
<1>6. ASSUME NEW u \in Users, SignIn(u)
      PROVE  Asked /\ typed
  BY <1>6, RestAsked DEF SignIn, typed
<1>7. ASSUME NEW p \in Tabs, Mount(p) \/ Unmount(p)
      PROVE  Asked /\ typed
  BY <1>1, <1>7, RestAsked DEF Mount, Unmount, Unmounted
<1>8. ASSUME NEW p \in Tabs, SignOut(p)
      PROVE  Asked /\ typed
  BY <1>8, RestAsked DEF SignOut, Unmounted, typed
<1>9. ASSUME NEW p \in Tabs, OnSend(p)
      PROVE  Asked /\ typed
  <2> DEFINE messages == Append(tab[p].messages, Message(NextCall, "user", 1))
             parts == UNION {PartsOf(messages[i]) : i \in DOMAIN messages}
  <2>1. parts \in SUBSET PartTypes
    BY DEF PartsOf, PartTypes
  <2>2. Sends("chat", parts)
    BY <1>9 DEF OnSend
  <2> HIDE DEF parts
  <2>. QED
    BY <1>1, <1>9, <2>1, <2>2, SendsAsked DEF OnSend
<1>10. ASSUME NEW p \in Tabs,
              SendFails(p) \/ TextArrives(p) \/ (\E t \in ThreadIds : SelectThread(p, t))
                \/ CreateThread(p) \/ RunQueued(p)
       PROVE  Asked /\ typed
  BY <1>1, <1>10, RestAsked DEF SendFails, TextArrives, SelectThread, CreateThread, RunQueued
<1>11. ASSUME NEW p \in Tabs, OnQueueRun(p)
       PROVE  Asked /\ typed
  BY <1>1, <1>11, SendsAsked DEF OnQueueRun
<1>12. ASSUME NEW p \in Tabs, OnInvoke(p)
       PROVE  Asked /\ typed
  <2>1. PICK parts \in {{"text"}, {"invalid"}} : Sends("weather", parts)
    BY <1>12 DEF OnInvoke
  <2>2. parts \in SUBSET PartTypes
    BY DEF PartTypes
  <2>. QED
    BY <1>1, <1>12, <2>1, <2>2, SendsAsked DEF OnInvoke, OnlyPanel
<1>13. ASSUME NEW p \in Tabs, PanelHears(p) \/ OnCancel(p)
       PROVE  Asked /\ typed
  BY <1>1, <1>13, RestAsked DEF PanelHears, OnCancel, OnlyPanel
<1>14. CASE Next
  BY <1>3, <1>4, <1>5, <1>6, <1>7, <1>8, <1>9, <1>10, <1>11, <1>12, <1>13, <1>14 DEF Next
<1>. QED
  BY <1>2, <1>14

LEMMA CallsKeep ==
  ASSUME CInv, QInv, [Next]_vars
  PROVE  QInv' /\ (\A c \in Calls : ReqStays(c))
<1>1. Asked /\ cookie' \in Users \union {"none"}
  BY StepAsked
<1>2. [LimitNext]_limitVars
  BY StepOfParts DEF CInv, PartsStep
<1>3. ASSUME NEW c \in Calls
      PROVE  ReqSound(c)' /\ ReqStays(c)
  <2>1. /\ call[c].phase # "idle" => call'[c].phase # "idle"
        /\ call[c].phase \in {"passed", "refused"} => call'[c].phase = call[c].phase
    BY <1>2, PhasesGoOn DEF CInv
  <2>2. ReqStep(c) /\ ReqSound(c)
    BY <1>1 DEF Asked, QInv
  <2>3. CASE call[c].phase = "idle" /\ call'[c].phase = "asking" /\ req'[c].cause = "none"
    BY <2>3 DEF ReqSound, ReqStays
  <2>4. CASE /\ req'[c].kind = req[c].kind /\ req'[c].cause = req[c].cause
             /\ req'[c].stream = "over" => req[c].stream = "over" \/ StreamEnds(c)
    BY <2>1, <2>2, <2>4 DEF ReqSound, ReqStays
  <2>5. CASE /\ req'[c].kind = req[c].kind
             /\ req[c].cause = "none" /\ call[c].phase # "idle"
             /\ req'[c].cause = "network" \/ call[c].phase = "passed"
             /\ req[c].kind = "weather" => req'[c].cause \in Causes
             /\ req'[c].stream = "over" => req[c].stream = "over" \/ StreamEnds(c)
    BY <2>1, <2>2, <2>5 DEF ReqSound, ReqStays
  <2>. QED
    BY <2>2, <2>3, <2>4, <2>5 DEF ReqStep
<1>. QED
  BY <1>1, <1>3 DEF QInv, Asked

LEMMA CallsStart == Init => QInv
<1>1. NoReq \in Request /\ NoReq.cause = "none" /\ NoReq.kind = "none"
  BY DEF NoReq, Request, AllCauses
<1>2. (CHOOSE u \in Users : TRUE) \in Users
  BY NamesAssumption
<1>. QED
  BY <1>1, <1>2 DEF Init, QInv, ReqSound

-----------------------------------------------------------------------------
(* The panel.  It tells of the call it made last, and what came of that     *)
(* call stays; a network that fails late does not make it a success.        *)

PanelStates ==
  [status : {"idle", "running", "succeeded", "failed", "timed_out", "cancelled"},
   tag : {"none", "ToolTimeoutError"}, ref : Calls \union {"none"},
   last : Calls \union {"none", "cancelled"}]

PanelSound(p) ==
  LET state == panel[p] IN
  /\ state.status = "running" <=> state.ref # "none"
  /\ state.status = "timed_out" => state.last = "cancelled"
  /\ state.last = "cancelled" => state.status \in {"failed", "timed_out"}
  /\ state.ref # "none" => state.last = state.ref /\ state.tag = "none"
  /\ state.last \in Calls => req[state.last].kind = "weather" /\ call[state.last].phase # "idle"
  /\ state.last \in Calls /\ state.ref = "none" =>
       /\ Answered(state.last)
       /\ state.status = (IF req[state.last].cause = "ok" THEN "succeeded" ELSE "failed")
       /\ state.tag = "none"

PanelInv == panel \in [Tabs -> PanelStates] /\ (\A p \in Tabs : PanelSound(p))

\* What the panel was told of a call stays true of it.
LEMMA ToldStays ==
  ASSUME QInv, QInv', NEW c \in Calls, ReqStays(c), req[c].kind = "weather",
         call[c].phase # "idle"
  PROVE  /\ call'[c].phase # "idle" /\ req'[c].kind = "weather"
         /\ Answered(c) => Answered(c)' /\ (req'[c].cause = "ok" <=> req[c].cause = "ok")
<1>1. /\ call'[c].phase # "idle" /\ req'[c].kind = "weather"
      /\ req[c].cause # "none" => req'[c].cause = req[c].cause
      /\ call[c].phase \in {"passed", "refused"} => call'[c].phase = call[c].phase
  BY DEF ReqStays
<1>2. /\ call[c].phase # "passed" => req[c].cause \in {"none", "network"}
      /\ call'[c].phase # "passed" => req'[c].cause \in {"none", "network"}
      /\ req'[c].cause # "stream"
  <2>1. ReqSound(c) /\ ReqSound(c)'
    BY DEF QInv
  <2>2. "stream" \notin Causes \union {"none"}
    BY DEF Causes, ToolTags
  <2>. QED
    BY <1>1, <2>1, <2>2 DEF ReqSound
<1>3. ASSUME Answered(c)
      PROVE  Answered(c)'
  BY <1>1, <1>2, <1>3 DEF Answered
<1>4. ASSUME Answered(c)
      PROVE  req'[c].cause = "ok" <=> req[c].cause = "ok"
  <2>1. CASE call[c].phase = "refused"
    <3>1. call'[c].phase = "refused"
      BY <1>1, <2>1
    <3>. QED
      BY <1>2, <2>1, <3>1
  <2>2. CASE call[c].phase # "refused"
    BY <1>1, <1>4, <2>2 DEF Answered
  <2>. QED
    BY <2>1, <2>2
<1>. QED
  BY <1>1, <1>3, <1>4

LEMMA PanelStays ==
  ASSUME QInv, QInv', \A c \in Calls : ReqStays(c), PanelInv, NEW p \in Tabs,
         panel'[p] = panel[p]
  PROVE  panel'[p] \in PanelStates /\ PanelSound(p)'
<1>1. panel[p] \in PanelStates /\ PanelSound(p)
  BY DEF PanelInv
<1>2. CASE panel[p].last \in Calls
  <2>1. /\ req[panel[p].last].kind = "weather" /\ call[panel[p].last].phase # "idle"
        /\ ReqStays(panel[p].last)
    BY <1>1, <1>2 DEF PanelSound
  <2>2. /\ call'[panel[p].last].phase # "idle" /\ req'[panel[p].last].kind = "weather"
        /\ Answered(panel[p].last) =>
             /\ Answered(panel[p].last)'
             /\ req'[panel[p].last].cause = "ok" <=> req[panel[p].last].cause = "ok"
    <3> DEFINE c == panel[p].last
    <3>1. c \in Calls /\ req[c].kind = "weather" /\ call[c].phase # "idle" /\ ReqStays(c)
      BY <1>2, <2>1
    <3>. QED
      BY <3>1, ToldStays
  <2>. QED
    BY <1>1, <1>2, <2>2 DEF PanelSound, Answered
<1>3. CASE panel[p].last \notin Calls
  BY <1>1, <1>3 DEF PanelSound
<1>. QED
  BY <1>2, <1>3

\* One panel changes.
LEMMA OnePanel ==
  ASSUME QInv, QInv', \A c \in Calls : ReqStays(c), PanelInv, NEW p \in Tabs, NEW state,
         state \in PanelStates, panel' = [panel EXCEPT ![p] = state],
         panel'[p] = state => PanelSound(p)'
  PROVE  PanelInv'
<1>1. panel'[p] = state /\ panel' \in [Tabs -> PanelStates]
  BY DEF PanelInv
<1>2. ASSUME NEW q \in Tabs, q # p
      PROVE  PanelSound(q)'
  <2>1. panel'[q] = panel[q]
    BY <1>2 DEF PanelInv
  <2>. QED
    BY <2>1, PanelStays
<1>. QED
  BY <1>1, <1>2 DEF PanelInv

LEMMA AllPanels ==
  ASSUME QInv, QInv', \A c \in Calls : ReqStays(c), PanelInv, UNCHANGED panel
  PROVE  PanelInv'
BY PanelStays DEF PanelInv

LEMMA NoPanelTells ==
  ASSUME QInv, QInv', \A c \in Calls : ReqStays(c), PanelInv, NEW p \in Tabs, Unmounted(p)
  PROVE  PanelInv'
<1>1. /\ NoPanel \in PanelStates /\ NoPanel.status = "idle" /\ NoPanel.ref = "none"
      /\ NoPanel.last = "none" /\ NoPanel.tag = "none"
  BY DEF NoPanel, PanelStates
<1>2. panel' = [panel EXCEPT ![p] = NoPanel]
  BY DEF Unmounted
<1>3. panel'[p] = NoPanel => PanelSound(p)'
  BY <1>1, NamesAssumption DEF PanelSound
<1>. QED
  BY <1>1, <1>2, <1>3, OnePanel

LEMMA InvokeTells ==
  ASSUME CInv, QInv, QInv', \A c \in Calls : ReqStays(c), PanelInv, NEW p \in Tabs, OnInvoke(p)
  PROVE  PanelInv'
<1>1. PICK parts \in {{"text"}, {"invalid"}} : Sends("weather", parts)
  BY DEF OnInvoke
<1>2. parts \in SUBSET PartTypes
  BY DEF PartTypes
<1>3. /\ NextCall \in Calls
      /\ call'[NextCall].phase = "asking"
      /\ req' = [req EXCEPT ![NextCall] = [NoReq EXCEPT !.kind = "weather", !.as = cookie,
                                                        !.parts = parts]]
  BY <1>1, <1>2, SendsIs
<1>4. req'[NextCall].kind = "weather"
  BY <1>3 DEF QInv, NoReq
<1> DEFINE c == NextCall
           state == [status |-> "running", tag |-> "none", ref |-> c, last |-> c]
<1>5. c \in Calls /\ call'[c].phase = "asking" /\ req'[c].kind = "weather"
  BY <1>3, <1>4
<1>6. panel' = [panel EXCEPT ![p] = state]
  BY DEF OnInvoke, OnlyPanel
<1> HIDE DEF c
<1>7. state \in PanelStates
  BY <1>5 DEF PanelStates
<1>8. panel'[p] = state => PanelSound(p)'
  BY <1>5, NamesAssumption DEF PanelSound
<1> HIDE DEF state
<1>. QED
  BY <1>6, <1>7, <1>8, OnePanel

LEMMA HearsTells ==
  ASSUME QInv, QInv', \A c \in Calls : ReqStays(c), PanelInv, NEW p \in Tabs, PanelHears(p)
  PROVE  PanelInv'
<1>0. PICK c \in Calls : c = panel[p].ref
  BY DEF PanelHears, PanelInv, PanelStates
<1> DEFINE tag == ExtractWeatherErrorTag(ReplyTo(c))
           state == IF ReplyTo(c).code = "OK"
                      THEN [status |-> "succeeded", tag |-> "none", ref |-> "none", last |-> c]
                      ELSE Failed(tag, c)
<1>1. panel' = [panel EXCEPT ![p] = state] /\ c # "none" /\ Answered(c)
  BY <1>0 DEF PanelHears, OnlyPanel
<1>2. /\ c \in Calls /\ req[c].kind = "weather" /\ call[c].phase # "idle"
  BY <1>0, <1>1 DEF PanelInv, PanelSound
<1>3. UNCHANGED <<call, req>>
  BY DEF PanelHears, limitVars
<1>4. ReqSound(c)
  BY <1>2 DEF QInv
<1>5. Heard(c)
  BY <1>1, <1>2, <1>4, Hears DEF ReqSound
<1>6. tag = "none" /\ (ReplyTo(c).code = "OK" <=> req[c].cause = "ok")
  BY <1>5 DEF Heard
<1> HIDE DEF tag
<1>7. /\ state.tag = "none" /\ state.ref = "none" /\ state.last = c
      /\ state.status = (IF req[c].cause = "ok" THEN "succeeded" ELSE "failed")
      /\ state \in PanelStates
  <2>1. CASE ReplyTo(c).code = "OK"
    BY <1>2, <1>6, <2>1 DEF PanelStates
  <2>2. CASE ReplyTo(c).code # "OK"
    BY <1>2, <1>6, <2>2 DEF Failed, PanelStates
  <2>. QED
    BY <2>1, <2>2
<1> HIDE DEF state
<1>8. Answered(c)' /\ req'[c] = req[c] /\ call'[c] = call[c]
  BY <1>1, <1>3 DEF Answered
<1>9. panel'[p] = state => PanelSound(p)'
  BY <1>2, <1>7, <1>8, NamesAssumption DEF PanelSound, Answered
<1>. QED
  BY <1>1, <1>7, <1>9, OnePanel

\* However the rejection comes, the panel has no call any more.
LEMMA CancelTells ==
  ASSUME QInv, QInv', \A c \in Calls : ReqStays(c), PanelInv, NEW p \in Tabs, OnCancel(p)
  PROVE  PanelInv'
<1>1. PICK tag \in {"none", "ToolTimeoutError"} :
        panel' = [panel EXCEPT ![p] = Failed(tag, "cancelled")]
  BY DEF OnCancel, OnlyPanel
<1> DEFINE state == Failed(tag, "cancelled")
<1>2. /\ state \in PanelStates
      /\ state.status \in {"failed", "timed_out"}
      /\ state.ref = "none" /\ state.last = "cancelled"
  BY DEF Failed, PanelStates
<1>3. panel' = [panel EXCEPT ![p] = state]
  BY <1>1
<1> HIDE DEF state
<1>4. panel'[p] = state => PanelSound(p)'
  BY <1>2, NamesAssumption DEF PanelSound
<1>. QED
  BY <1>2, <1>3, <1>4, OnePanel

LEMMA PanelKeeps ==
  ASSUME CInv, QInv, PanelInv, [Next]_vars
  PROVE  PanelInv'
<1>1. QInv' /\ (\A c \in Calls : ReqStays(c))
  BY CallsKeep
<1>2. CASE UNCHANGED panel
  BY <1>1, <1>2, AllPanels
<1>3. ASSUME NEW p \in Tabs, Unmount(p) \/ SignOut(p)
      PROVE  PanelInv'
  <2>1. Unmounted(p)
    BY <1>3 DEF Unmount, SignOut
  <2>. QED
    BY <1>1, <2>1, NoPanelTells
<1>4. ASSUME NEW p \in Tabs, OnInvoke(p)
      PROVE  PanelInv'
  BY <1>1, <1>4, InvokeTells
<1>5. ASSUME NEW p \in Tabs, PanelHears(p) \/ OnCancel(p)
      PROVE  PanelInv'
  <2>1. CASE PanelHears(p)
    BY <1>1, <2>1, HearsTells
  <2>2. CASE OnCancel(p)
    BY <1>1, <2>2, CancelTells
  <2>. QED
    BY <1>5, <2>1, <2>2
<1>6. CASE Next
  <2>1. CASE Limiter \/ Tools \/ RoleSyncs \/ OtherCall
    BY <1>2, <2>1 DEF Limiter, Tools, RoleSyncs, OtherCall, pageVars
  <2>2. ASSUME NEW c \in Calls,
               \/ Handle(c) \/ NetworkFails(c) \/ StreamEnds(c)
               \/ \E r \in ToolRuns : ModelCallsTool(c, r)
        PROVE  UNCHANGED panel
    BY <2>2 DEF Handle, NetworkFails, StreamEnds, ModelCallsTool, pageVars
  <2>3. ASSUME NEW u \in Users, SignIn(u)
        PROVE  UNCHANGED panel
    BY <2>3 DEF SignIn
  <2>4. ASSUME NEW p \in Tabs,
               \/ Mount(p) \/ OnSend(p) \/ SendFails(p) \/ TextArrives(p)
               \/ \E t \in ThreadIds : SelectThread(p, t)
               \/ CreateThread(p) \/ OnQueueRun(p) \/ RunQueued(p)
        PROVE  UNCHANGED panel
    BY <2>4 DEF Mount, OnSend, SendFails, TextArrives, SelectThread, CreateThread, OnQueueRun,
                RunQueued
  <2>. QED
    BY <1>2, <1>3, <1>4, <1>5, <1>6, <2>1, <2>2, <2>3, <2>4 DEF Next
<1>7. CASE UNCHANGED vars
  BY <1>2, <1>7 DEF vars, pageVars
<1>. QED
  BY <1>6, <1>7

LEMMA PanelsStart == Init => PanelInv
<1>1. /\ NoPanel \in PanelStates /\ NoPanel.status = "idle" /\ NoPanel.ref = "none"
      /\ NoPanel.last = "none" /\ NoPanel.tag = "none"
  BY DEF NoPanel, PanelStates
<1>. QED
  BY <1>1, NamesAssumption DEF Init, PanelInv, PanelSound

\* Whatever calls overlap, fail, are refused or cancelled, and whoever signs in:
\* the panel runs exactly while it has a call to cancel, a cancelled call is over
\* for good and only such a call ends as timed out, and any other call ends as
\* succeeded exactly when the tool did, and else as failed without a class.
THEOREM PanelIsTold == Spec => []PanelTells
<1>1. PanelInv => PanelTells
  BY DEF PanelInv, PanelSound, PanelTells
<1>. QED
  BY <1>1, InitParts, PartsKeep, CallsStart, CallsKeep, PanelsStart, PanelKeeps, PTL DEF Spec

-----------------------------------------------------------------------------
(* The threads.  A page shows the threads it holds, the active one with the *)
(* messages of useChat instead of its own; what it shows is what it saved   *)
(* last, until another tab saves.                                          *)

\* Typed by the calls that were sent so far: a message is of one of them.
Messages(sent) == [of : sent, role : {"user", "assistant"}, len : Nat]
Threads(sent)  == [id : ThreadIds, messages : Seq(Messages(sent))]
Lists(sent) ==
  {threads \in Seq(Threads(sent)) :
     \A i, j \in DOMAIN threads : threads[i].id = threads[j].id => i = j}

LEMMA ListsGrow ==
  ASSUME NEW old, NEW new, old \subseteq new
  PROVE  /\ Seq(Messages(old)) \subseteq Seq(Messages(new))
         /\ Lists(old) \subseteq Lists(new)
<1>1. Messages(old) \subseteq Messages(new)
  BY DEF Messages
<1>2. Seq(Messages(old)) \subseteq Seq(Messages(new))
  BY <1>1, SeqMonotonic
<1>3. Threads(old) \subseteq Threads(new)
  BY <1>2 DEF Threads
<1>4. Seq(Threads(old)) \subseteq Seq(Threads(new))
  BY <1>3, SeqMonotonic
<1>. QED
  BY <1>2, <1>4 DEF Lists

\* A thread put in front of the others, or moved there.
LEMMA InFront ==
  ASSUME NEW sent, NEW threads \in Lists(sent), NEW t \in Threads(sent),
         ~Has(threads, t.id), NEW shown, shown = <<t>> \o threads
  PROVE  /\ shown \in Lists(sent)
         /\ Len(shown) = Len(threads) + 1
         /\ shown[1] = t
         /\ \A i \in DOMAIN threads : shown[i + 1] = threads[i]
<1>1. threads \in Seq(Threads(sent)) /\ <<t>> \in Seq(Threads(sent))
  BY DEF Lists
<1>2. /\ shown \in Seq(Threads(sent)) /\ Len(shown) = Len(threads) + 1
      /\ shown[1] = t
      /\ \A i \in 1..Len(threads) : shown[i + 1] = threads[i]
  BY <1>1
<1>3. \A i \in 1..Len(shown) : i = 1 \/ (i - 1 \in 1..Len(threads) /\ shown[i] = threads[i - 1])
  <2>1. ASSUME NEW i \in 1..Len(shown), i # 1
        PROVE  i - 1 \in 1..Len(threads) /\ shown[i] = threads[i - 1]
    <3>1. i - 1 \in 1..Len(threads) /\ i = (i - 1) + 1
      BY <1>1, <1>2, <2>1
    <3>. QED
      BY <1>2, <3>1
  <2>. QED
    BY <2>1
<1>4. ASSUME NEW i \in DOMAIN shown, NEW j \in DOMAIN shown, shown[i].id = shown[j].id
      PROVE  i = j
  <2>1. i \in 1..Len(shown) /\ j \in 1..Len(shown)
    BY <1>2, <1>4
  <2>2. \A k \in 1..Len(threads) : threads[k].id # t.id
    BY <1>1 DEF Has
  <2>3. CASE i = 1 \/ j = 1
    BY <1>2, <1>3, <1>4, <2>1, <2>2, <2>3
  <2>4. CASE i # 1 /\ j # 1
    <3>1. /\ i - 1 \in 1..Len(threads) /\ j - 1 \in 1..Len(threads)
          /\ threads[i - 1].id = threads[j - 1].id
      BY <1>3, <1>4, <2>1, <2>4
    <3>2. i - 1 = j - 1
      BY <1>1, <3>1 DEF Lists
    <3>. QED
      BY <2>1, <3>2
  <2>. QED
    BY <2>3, <2>4
<1>5. shown \in Lists(sent)
  BY <1>2, <1>4 DEF Lists
<1>6. \A i \in DOMAIN threads : shown[i + 1] = threads[i]
  BY <1>1, <1>2
<1>. QED
  BY <1>2, <1>5, <1>6

\* One taken out.
LEMMA TakenOut ==
  ASSUME NEW sent, NEW threads \in Lists(sent), NEW i \in DOMAIN threads
  PROVE  LET rest == RemoveAt(threads, i) IN
         /\ rest \in Lists(sent)
         /\ ~Has(rest, threads[i].id)
         /\ \A j \in DOMAIN threads : j # i => \E k \in DOMAIN rest : rest[k] = threads[j]
         /\ \A k \in DOMAIN rest : \E j \in DOMAIN threads : j # i /\ rest[k] = threads[j]
<1> DEFINE rest == RemoveAt(threads, i)
<1>1. threads \in Seq(Threads(sent)) /\ i \in 1..Len(threads)
  BY DEF Lists
<1>2. /\ rest \in Seq(Threads(sent)) /\ Len(rest) = Len(threads) - 1
      /\ \A k \in 1..Len(rest) : rest[k] = IF k < i THEN threads[k] ELSE threads[k + 1]
  <2> DEFINE a == SubSeq(threads, 1, i - 1)
             b == SubSeq(threads, i + 1, Len(threads))
             n == Len(threads)
  <2>1. n \in Nat /\ i \in 1..n
    BY <1>1
  <2>2. a \in Seq(Threads(sent)) /\ Len(a) = i - 1 /\ (\A k \in 1..(i - 1) : a[k] = threads[k])
    BY <1>1, <2>1
  <2>3. /\ b \in Seq(Threads(sent)) /\ Len(b) = n - i
        /\ \A k \in 1..(n - i) : b[k] = threads[k + i]
    <3>1. \A k \in (i + 1)..n : threads[k] \in Threads(sent)
      BY <1>1, <2>1
    <3>2. b = [k \in 1..(n - i) |-> threads[k + i]]
      BY <2>1, SubSeqProperties, <1>1
    <3>. QED
      BY <1>1, <2>1, <3>1, <3>2
  <2>4. rest = a \o b
    BY DEF RemoveAt
  <2> HIDE DEF a, b, n, rest
  <2>5. rest \in Seq(Threads(sent)) /\ Len(rest) = n - 1
    <3>1. rest \in Seq(Threads(sent)) /\ Len(rest) = Len(a) + Len(b)
      BY <2>2, <2>3, <2>4, ConcatProperties
    <3>. QED
      BY <2>1, <2>2, <2>3, <3>1
  <2>6. ASSUME NEW k \in 1..Len(rest)
        PROVE  rest[k] = IF k < i THEN threads[k] ELSE threads[k + 1]
    <3>1. rest[k] = IF k <= Len(a) THEN a[k] ELSE b[k - Len(a)]
      BY <2>2, <2>3, <2>4, <2>6
    <3>2. CASE k < i
      BY <2>1, <2>2, <3>1, <3>2
    <3>3. CASE ~(k < i)
      <4>1. k - (i - 1) \in 1..(n - i) /\ (k - (i - 1)) + i = k + 1
        BY <2>1, <2>5, <3>3
      <4>2. rest[k] = b[k - (i - 1)]
        BY <2>1, <2>2, <3>1, <3>3
      <4>. QED
        BY <2>3, <3>3, <4>1, <4>2
    <3>. QED
      BY <3>2, <3>3
  <2>. QED
    BY <2>5, <2>6 DEF n
<1> HIDE DEF rest
<1> DEFINE back(k) == IF k < i THEN k ELSE k + 1
<1>3. \A k \in DOMAIN rest : /\ back(k) \in DOMAIN threads /\ back(k) # i
                             /\ rest[k] = threads[back(k)]
  BY <1>1, <1>2
<1>4. \A k, l \in DOMAIN rest : back(k) = back(l) => k = l
  BY <1>1, <1>2
<1>5. ASSUME NEW j \in DOMAIN threads, j # i
      PROVE  \E k \in DOMAIN rest : back(k) = j
  <2>1. CASE j < i
    <3>1. j \in DOMAIN rest /\ back(j) = j
      BY <1>1, <1>2, <2>1
    <3>. QED
      BY <3>1
  <2>2. CASE ~(j < i)
    <3>1. j - 1 \in DOMAIN rest /\ back(j - 1) = j
      BY <1>1, <1>2, <1>5, <2>2
    <3>. QED
      BY <3>1
  <2>. QED
    BY <2>1, <2>2
<1> HIDE DEF back
<1>6. \A j, k \in DOMAIN threads : threads[j].id = threads[k].id => j = k
  BY DEF Lists
<1>7. \A k, l \in DOMAIN rest : rest[k].id = rest[l].id => k = l
  BY <1>3, <1>4, <1>6
<1>8. rest \in Lists(sent)
  BY <1>2, <1>7 DEF Lists
<1>9. ~Has(rest, threads[i].id)
  BY <1>3, <1>6 DEF Has
<1>. QED
  BY <1>3, <1>5, <1>8, <1>9 DEF rest

\* No answer's text is longer than what has come of it.
Short(messages, c, said) ==
  \A k \in DOMAIN messages :
    messages[k].of = c /\ messages[k].role = "assistant" => messages[k].len <= said

PageRecords(sent) ==
  [user : Users \union {"none"}, threads : Lists(sent), active : ThreadIds \union {"none"},
   messages : Seq(Messages(sent)), status : {"ready", "submitted", "streaming", "error"},
   stream : sent \union {"none"}, said : Nat, queueing : sent \union {"none"}]

PageHolds(page) ==
  /\ page.user # "none" => Has(page.threads, page.active)
  /\ page.status \in {"submitted", "streaming"} <=> page.stream # "none"
  /\ page.stream # "none" =>
       /\ page.user # "none"
       /\ Short(page.messages, page.stream, page.said)
       /\ \A i \in DOMAIN page.threads : Short(page.threads[i].messages, page.stream, page.said)

Pages(sent) == {page \in PageRecords(sent) : PageHolds(page)}

\* What is shown: the active thread with its messages, and the others.
Shows(shown, page) ==
  /\ \E k \in DOMAIN shown : shown[k] = Thread(page.active, page.messages)
  /\ \A j \in DOMAIN page.threads :
       page.threads[j].id # page.active => \E k \in DOMAIN shown : shown[k] = page.threads[j]
  /\ \A k \in DOMAIN shown :
       \/ shown[k] = Thread(page.active, page.messages)
       \/ \E j \in DOMAIN page.threads :
            page.threads[j].id # page.active /\ shown[k] = page.threads[j]

LEMMA ViewShows ==
  ASSUME NEW sent, NEW page \in PageRecords(sent), Has(page.threads, page.active)
  PROVE  View(page) \in Lists(sent) /\ Shows(View(page), page)
<1> DEFINE threads == page.threads
           i == IndexOf(threads, page.active)
           t == Thread(page.active, page.messages)
           rest == RemoveAt(threads, i)
           shown == <<t>> \o rest
<1>1. /\ threads \in Lists(sent) /\ threads \in Seq(Threads(sent))
      /\ page.messages \in Seq(Messages(sent))
  BY DEF PageRecords, Lists
<1>2. i \in DOMAIN threads /\ threads[i].id = page.active
  BY DEF IndexOf, Has
<1>3. threads[i] \in Threads(sent)
  BY <1>1, <1>2
<1>4. t \in Threads(sent) /\ t.id = page.active
  BY <1>1, <1>2, <1>3 DEF Thread, Threads
<1>5. \A j \in DOMAIN threads : threads[j].id = page.active => j = i
  BY <1>1, <1>2 DEF Lists
<1> HIDE DEF i, t
<1>6. CASE threads[i].messages = page.messages
  <2>1. View(page) = threads
    BY <1>6 DEF View, ApplyActiveMessages, i
  <2>2. threads[i] = t
    BY <1>2, <1>3, <1>6 DEF Threads, Thread, t
  <2>. QED
    BY <1>1, <1>2, <1>5, <2>1, <2>2 DEF Shows, t
<1>7. CASE threads[i].messages # page.messages
  <2>1. View(page) = shown
    BY <1>7 DEF View, ApplyActiveMessages, i, t
  <2>2. /\ rest \in Lists(sent)
        /\ ~Has(rest, page.active)
        /\ \A j \in DOMAIN threads : j # i => \E k \in DOMAIN rest : rest[k] = threads[j]
        /\ \A k \in DOMAIN rest : \E j \in DOMAIN threads : j # i /\ rest[k] = threads[j]
    BY <1>1, <1>2, TakenOut
  <2> HIDE DEF rest
  <2>3. /\ shown \in Lists(sent)
        /\ Len(shown) = Len(rest) + 1
        /\ shown[1] = t
        /\ \A k \in DOMAIN rest : shown[k + 1] = rest[k]
    <3>1. ~Has(rest, t.id) /\ rest \in Lists(sent) /\ t \in Threads(sent)
      BY <1>4, <2>2
    <3>2. shown = <<t>> \o rest
      OBVIOUS
    <3> HIDE DEF shown
    <3>3. shown \in Lists(sent)
      BY <3>1, <3>2, InFront
    <3>4. Len(shown) = Len(rest) + 1
      BY <3>1, <3>2, InFront
    <3>5. shown[1] = t
      BY <3>1, <3>2, InFront
    <3>6. \A k \in DOMAIN rest : shown[k + 1] = rest[k]
      BY <3>1, <3>2, InFront
    <3>. QED
      BY <3>3, <3>4, <3>5, <3>6
  <2> HIDE DEF shown
  <2>4. shown \in Seq(Threads(sent)) /\ rest \in Seq(Threads(sent))
    BY <2>2, <2>3 DEF Lists
  <2>5. 1 \in DOMAIN shown /\ (\A k \in DOMAIN rest : k + 1 \in DOMAIN shown)
    BY <2>3, <2>4
  <2>6. ASSUME NEW j \in DOMAIN threads, threads[j].id # page.active
        PROVE  \E k \in DOMAIN shown : shown[k] = threads[j]
    <3>1. PICK k \in DOMAIN rest : rest[k] = threads[j]
      BY <1>2, <2>2, <2>6
    <3>. QED
      BY <2>3, <2>5, <3>1
  <2>7. ASSUME NEW k \in DOMAIN shown, k # 1
        PROVE  \E j \in DOMAIN threads : threads[j].id # page.active /\ shown[k] = threads[j]
    <3>1. k - 1 \in DOMAIN rest /\ k = (k - 1) + 1
      BY <2>3, <2>4, <2>7
    <3>2. shown[k] = rest[k - 1]
      BY <2>3, <3>1
    <3>3. PICK j \in DOMAIN threads : j # i /\ rest[k - 1] = threads[j]
      BY <2>2, <3>1
    <3>. QED
      BY <1>5, <3>2, <3>3
  <2>. QED
    BY <2>1, <2>3, <2>5, <2>6, <2>7 DEF Shows, t
<1>. QED
  BY <1>6, <1>7

\* Nothing is taken out.
GrownThread(old, new) ==
  /\ new.id = old.id
  /\ Len(old.messages) <= Len(new.messages)
  /\ \A k \in DOMAIN old.messages :
       /\ new.messages[k].of = old.messages[k].of
       /\ new.messages[k].role = old.messages[k].role
       /\ new.messages[k].len >= old.messages[k].len

LEMMA GrownBy ==
  ASSUME NEW old, NEW new,
         \A i \in DOMAIN old : \E j \in DOMAIN new : GrownThread(old[i], new[j])
  PROVE  Grown(old, new)
BY DEF Grown, GrownThread

LEMMA SameGrows ==
  ASSUME NEW sent, NEW t \in Threads(sent)
  PROVE  GrownThread(t, t)
<1>1. t.messages \in Seq(Messages(sent))
  BY DEF Threads
<1>2. \A k \in DOMAIN t.messages : t.messages[k].len \in Nat
  <2>1. \A k \in DOMAIN t.messages : t.messages[k] \in Messages(sent)
    BY <1>1
  <2>. QED
    BY <2>1 DEF Messages
<1>3. Len(t.messages) \in Nat
  BY <1>1
<1>. QED
  BY <1>2, <1>3 DEF GrownThread

LEMMA SameListGrows ==
  ASSUME NEW sent, NEW threads \in Lists(sent)
  PROVE  Grown(threads, threads)
<1>1. \A i \in DOMAIN threads : GrownThread(threads[i], threads[i])
  BY SameGrows DEF Lists
<1>. QED
  BY <1>1, GrownBy

\* The messages of useChat grow, the threads stay.
LEMMA MessagesGrow ==
  ASSUME NEW sent, NEW old \in PageRecords(sent),
         NEW more, NEW new \in PageRecords(more),
         new.threads = old.threads, new.active = old.active, Has(old.threads, old.active),
         GrownThread(Thread(old.active, old.messages), Thread(new.active, new.messages))
  PROVE  Grown(View(old), View(new))
<1>1. Shows(View(old), old) /\ Shows(View(new), new) /\ old.threads \in Lists(sent)
  BY ViewShows DEF PageRecords
<1>2. ASSUME NEW i \in DOMAIN View(old)
      PROVE  \E j \in DOMAIN View(new) : GrownThread(View(old)[i], View(new)[j])
  <2>1. CASE View(old)[i] = Thread(old.active, old.messages)
    BY <1>1, <2>1 DEF Shows
  <2>2. ASSUME NEW j \in DOMAIN old.threads,
               old.threads[j].id # old.active, View(old)[i] = old.threads[j]
        PROVE  \E k \in DOMAIN View(new) : GrownThread(View(old)[i], View(new)[k])
    <3>1. \E k \in DOMAIN View(new) : View(new)[k] = View(old)[i]
      BY <1>1, <2>2 DEF Shows
    <3>2. old.threads[j] \in Threads(sent)
      BY <1>1 DEF Lists
    <3>. QED
      BY <2>2, <3>1, <3>2, SameGrows
  <2>. QED
    BY <1>1, <2>1, <2>2 DEF Shows
<1>. QED
  BY <1>2, GrownBy

-----------------------------------------------------------------------------
(* What a page does to its threads and messages.                           *)

LEMMA ThreadsOf ==
  ASSUME NEW sent, NEW threads \in Lists(sent), NEW i \in DOMAIN threads
  PROVE  /\ threads[i] \in Threads(sent)
         /\ threads[i].messages \in Seq(Messages(sent)) /\ threads[i].id \in ThreadIds
<1>1. threads[i] \in Threads(sent)
  BY DEF Lists
<1>. QED
  BY <1>1 DEF Threads

LEMMA PagesGrow ==
  ASSUME NEW old, NEW new, old \subseteq new
  PROVE  Pages(old) \subseteq Pages(new)
<1>1. PageRecords(old) \subseteq PageRecords(new)
  BY ListsGrow DEF PageRecords
<1>. QED
  BY <1>1 DEF Pages

\* A page whose active thread has the messages of useChat shows what it holds.
LEMMA Settled ==
  ASSUME NEW page, Has(page.threads, page.active),
         page.messages = MessagesOf(page.threads, page.active)
  PROVE  View(page) = page.threads
BY DEF View, ApplyActiveMessages, MessagesOf

LEMMA MessagesAt ==
  ASSUME NEW sent, NEW threads \in Lists(sent), NEW i \in DOMAIN threads
  PROVE  /\ Has(threads, threads[i].id)
         /\ MessagesOf(threads, threads[i].id) = threads[i].messages
<1>1. Has(threads, threads[i].id)
  BY DEF Has
<1>2. IndexOf(threads, threads[i].id) = i
  <2>1. \A j \in DOMAIN threads : threads[j].id = threads[i].id => j = i
    BY DEF Lists
  <2>. QED
    BY <2>1 DEF IndexOf
<1>. QED
  BY <1>1, <1>2 DEF MessagesOf

\* Only what is not shown changes.
LEMMA SameShown ==
  ASSUME NEW old, NEW new, new.threads = old.threads, new.active = old.active,
         new.messages = old.messages
  PROVE  View(new) = View(old)
BY DEF View, ApplyActiveMessages

LEMMA PageStops ==
  ASSUME NEW sent, NEW page \in Pages(sent), NEW status \in {"ready", "error"},
         NEW new, new = [page EXCEPT !.status = status, !.stream = "none"]
  PROVE  new \in Pages(sent) /\ new.user = page.user /\ View(new) = View(page)
<1>1. page \in PageRecords(sent) /\ PageHolds(page)
  BY DEF Pages
<1>2. new \in PageRecords(sent)
  BY <1>1 DEF PageRecords
<1>3. /\ new.threads = page.threads /\ new.active = page.active
      /\ new.messages = page.messages /\ new.user = page.user
      /\ new.stream = "none" /\ new.status = status
  BY <1>1 DEF PageRecords
<1>4. PageHolds(new)
  BY <1>1, <1>3 DEF PageHolds
<1>. QED
  BY <1>2, <1>3, <1>4, SameShown DEF Pages

LEMMA PageQueues ==
  ASSUME NEW sent, NEW page \in Pages(sent), NEW c \in sent \union {"none"},
         NEW new, new = [page EXCEPT !.queueing = c]
  PROVE  /\ new \in Pages(sent) /\ new.user = page.user /\ View(new) = View(page)
         /\ new.stream = page.stream
<1>1. page \in PageRecords(sent) /\ PageHolds(page)
  BY DEF Pages
<1>2. new \in PageRecords(sent)
  BY <1>1 DEF PageRecords
<1>3. /\ new.threads = page.threads /\ new.active = page.active
      /\ new.messages = page.messages /\ new.user = page.user
      /\ new.stream = page.stream /\ new.status = page.status /\ new.said = page.said
  BY <1>1 DEF PageRecords
<1>4. PageHolds(new)
  BY <1>1, <1>3 DEF PageHolds
<1>. QED
  BY <1>2, <1>3, <1>4, SameShown DEF Pages

LEMMA RecordSends ==
  ASSUME NEW sent, NEW page \in PageRecords(sent), NEW c \in sent,
         NEW messages \in Seq(Messages(sent)), NEW new,
         new = [page EXCEPT !.messages = messages, !.status = "submitted", !.stream = c, !.said = 0]
  PROVE  new \in PageRecords(sent)
BY DEF PageRecords

Submitted(page, c) ==
  [page EXCEPT !.messages = Append(page.messages, Message(c, "user", 1)),
               !.status = "submitted", !.stream = c, !.said = 0]

LEMMA PageSends ==
  ASSUME NEW sent, NEW more, sent \subseteq more, NEW c \in more, c \notin sent, c # "none",
         NEW page \in Pages(sent), page.user # "none", NEW new,
         new = Submitted(page, c)
  PROVE  /\ new \in Pages(more) /\ new.user = page.user /\ new.stream = c
         /\ Grown(View(page), View(new))
<1> DEFINE m == Message(c, "user", 1)
           messages == Append(page.messages, m)
<1>1. page \in PageRecords(sent) /\ page \in PageRecords(more) /\ PageHolds(page)
  BY PagesGrow DEF Pages
<1>2. /\ page.messages \in Seq(Messages(sent)) /\ page.messages \in Seq(Messages(more))
      /\ page.threads \in Lists(sent)
  BY <1>1 DEF PageRecords
<1>3. m \in Messages(more) /\ m.of = c /\ m.role = "user"
  BY DEF Message, Messages
<1> HIDE DEF m
<1>4. /\ messages \in Seq(Messages(more)) /\ Len(messages) = Len(page.messages) + 1
      /\ messages[Len(page.messages) + 1] = m
      /\ \A k \in 1..Len(page.messages) : messages[k] = page.messages[k]
  BY <1>2, <1>3, AppendProperties
<1>5. new = [page EXCEPT !.messages = messages, !.status = "submitted", !.stream = c, !.said = 0]
  BY DEF m, Submitted
<1> HIDE DEF messages
<1>6. new \in PageRecords(more)
  <2>1. page \in PageRecords(more)
    BY <1>1
  <2>. QED
    BY <2>1, <1>4, <1>5, RecordSends
<1>7. /\ new.threads = page.threads /\ new.active = page.active
      /\ new.messages = messages /\ new.user = page.user
      /\ new.stream = c /\ new.status = "submitted" /\ new.said = 0
  BY <1>1, <1>5 DEF PageRecords
<1>8. Len(page.messages) \in Nat /\ DOMAIN messages = 1..(Len(page.messages) + 1)
      /\ DOMAIN page.messages = 1..Len(page.messages)
  BY <1>2, <1>4
<1>9. \A k \in DOMAIN page.messages : page.messages[k].of # c /\ page.messages[k].len \in Nat
  <2>1. \A k \in DOMAIN page.messages : page.messages[k] \in Messages(sent)
    BY <1>2
  <2>. QED
    BY <2>1 DEF Messages
<1>10. Short(messages, c, 0)
  BY <1>3, <1>4, <1>8, <1>9 DEF Short
<1>11. \A i \in DOMAIN page.threads : Short(page.threads[i].messages, c, 0)
  <2>1. \A i \in DOMAIN page.threads : page.threads[i].messages \in Seq(Messages(sent))
    BY <1>2, ThreadsOf
  <2>2. ASSUME NEW i \in DOMAIN page.threads, NEW k \in DOMAIN page.threads[i].messages
        PROVE  page.threads[i].messages[k].of # c
    <3>1. page.threads[i].messages[k] \in Messages(sent)
      BY <2>1, <2>2
    <3>. QED
      BY <3>1 DEF Messages
  <2>. QED
    BY <2>2 DEF Short
<1>12. PageHolds(new)
  BY <1>1, <1>7, <1>10, <1>11 DEF PageHolds
<1>13. GrownThread(Thread(page.active, page.messages), Thread(new.active, new.messages))
  <2>1. /\ Thread(page.active, page.messages).messages = page.messages
        /\ Thread(new.active, new.messages).messages = messages
        /\ Thread(page.active, page.messages).id = Thread(new.active, new.messages).id
    BY <1>7 DEF Thread
  <2>. QED
    BY <2>1, <1>4, <1>8, <1>9 DEF GrownThread
<1>14. Has(page.threads, page.active)
  BY <1>1 DEF PageHolds
<1>15. Grown(View(page), View(new))
  BY <1>1, <1>6, <1>7, <1>13, <1>14, MessagesGrow
<1>. QED
  BY <1>6, <1>7, <1>12, <1>15 DEF Pages

LEMMA PageWrites ==
  ASSUME NEW sent, NEW page \in Pages(sent), page.stream # "none", NEW new,
         new = Written(page)
  PROVE  /\ new \in Pages(sent) /\ new.user = page.user /\ new.stream = page.stream
         /\ Grown(View(page), View(new))
<1> DEFINE c == page.stream
           said == page.said + 1
           m == Message(c, "assistant", said)
           n == Len(page.messages)
           same == n > 0 /\ page.messages[n].of = m.of /\ page.messages[n].role = m.role
           messages == IF same THEN [page.messages EXCEPT ![n] = m]
                               ELSE Append(page.messages, m)
<1>1. page \in PageRecords(sent) /\ PageHolds(page)
  BY DEF Pages
<1>2. /\ page.messages \in Seq(Messages(sent)) /\ page.said \in Nat /\ c \in sent
      /\ page.threads \in Lists(sent)
  BY <1>1 DEF PageRecords
<1>3. n \in Nat /\ DOMAIN page.messages = 1..n
  BY <1>2
<1>4. \A k \in 1..n : page.messages[k] \in Messages(sent) /\ page.messages[k].len \in Nat
  <2>1. \A k \in 1..n : page.messages[k] \in Messages(sent)
    BY <1>2, <1>3
  <2>. QED
    BY <2>1 DEF Messages
<1>5. said \in Nat /\ page.said <= said
  BY <1>2
<1>6. m \in Messages(sent) /\ m.of = c /\ m.role = "assistant" /\ m.len = said
  BY <1>2, <1>5 DEF Message, Messages
<1>7. new = [page EXCEPT !.messages = messages, !.said = said, !.status = "streaming"]
  BY <1>1 DEF Written, PageRecords
<1>8. Short(page.messages, c, page.said)
  BY <1>1 DEF PageHolds
<1> HIDE DEF m, c, said
<1>9. /\ messages \in Seq(Messages(sent))
      /\ n <= Len(messages)
      /\ \A k \in DOMAIN messages :
           messages[k] = m \/ (k \in 1..n /\ messages[k] = page.messages[k])
      /\ \A k \in 1..n : /\ messages[k].of = page.messages[k].of
                         /\ messages[k].role = page.messages[k].role
                         /\ messages[k].len >= page.messages[k].len
  <2>1. CASE same
    <3>1. messages = [page.messages EXCEPT ![n] = m] /\ n \in 1..n
      BY <1>3, <2>1
    <3>2. messages \in Seq(Messages(sent)) /\ Len(messages) = n
      BY <1>2, <1>3, <1>6, <3>1, ExceptSeq
    <3>3. page.messages[n].len <= page.said
      BY <1>3, <1>6, <1>8, <2>1, <3>1 DEF Short
    <3>4. page.messages[n].len <= m.len
      BY <1>2, <1>4, <1>5, <1>6, <3>1, <3>3
    <3>5. \A k \in 1..n : messages[k] = IF k = n THEN m ELSE page.messages[k]
      BY <1>3, <3>1
    <3> HIDE DEF messages
    <3>6. DOMAIN messages = 1..n
      BY <3>2
    <3>7. \A k \in 1..n : /\ messages[k].of = page.messages[k].of
                          /\ messages[k].role = page.messages[k].role
                          /\ messages[k].len >= page.messages[k].len
      BY <1>4, <1>6, <2>1, <3>4, <3>5
    <3>. QED
      BY <1>3, <3>2, <3>5, <3>6, <3>7
  <2>2. CASE ~same
    <3>1. messages = Append(page.messages, m)
      BY <2>2
    <3>2. /\ messages \in Seq(Messages(sent)) /\ Len(messages) = n + 1
          /\ messages[n + 1] = m
          /\ \A k \in 1..n : messages[k] = page.messages[k]
      BY <1>2, <1>6, <3>1, AppendProperties
    <3> HIDE DEF messages, n
    <3>. QED
      BY <1>3, <1>4, <3>2
  <2>. QED
    BY <2>1, <2>2
<1> HIDE DEF messages, same
<1>10. new \in PageRecords(sent)
  BY <1>1, <1>5, <1>7, <1>9 DEF PageRecords
<1>11. /\ new.threads = page.threads /\ new.active = page.active
       /\ new.messages = messages /\ new.user = page.user
       /\ new.stream = page.stream /\ new.status = "streaming" /\ new.said = said
  BY <1>1, <1>7 DEF PageRecords
<1>12. Short(messages, c, said)
  <2>1. \A k \in 1..n : page.messages[k].of = c /\ page.messages[k].role = "assistant"
                          => page.messages[k].len <= said
    BY <1>2, <1>3, <1>4, <1>5, <1>8 DEF Short
  <2>. QED
    BY <1>5, <1>6, <1>9, <2>1 DEF Short
<1>13. \A i \in DOMAIN page.threads : Short(page.threads[i].messages, c, said)
  <2>1. \A i \in DOMAIN page.threads : /\ page.threads[i].messages \in Seq(Messages(sent))
                                       /\ Short(page.threads[i].messages, c, page.said)
    BY <1>1, <1>2, ThreadsOf DEF PageHolds, c
  <2>2. ASSUME NEW i \in DOMAIN page.threads
        PROVE  Short(page.threads[i].messages, c, said)
    <3>1. \A k \in DOMAIN page.threads[i].messages : page.threads[i].messages[k].len \in Nat
      <4>1. \A k \in DOMAIN page.threads[i].messages :
              page.threads[i].messages[k] \in Messages(sent)
        BY <2>1, <2>2
      <4>. QED
        BY <4>1 DEF Messages
    <3>. QED
      BY <1>2, <1>5, <2>1, <2>2, <3>1 DEF Short
  <2>. QED
    BY <2>2
<1>14. PageHolds(new)
  BY <1>1, <1>11, <1>12, <1>13 DEF PageHolds, c
<1>15. GrownThread(Thread(page.active, page.messages), Thread(new.active, new.messages))
  <2>1. /\ Thread(page.active, page.messages).messages = page.messages
        /\ Thread(new.active, new.messages).messages = messages
        /\ Thread(page.active, page.messages).id = Thread(new.active, new.messages).id
    BY <1>11 DEF Thread
  <2>. QED
    BY <2>1, <1>3, <1>9 DEF GrownThread
<1>16. Has(page.threads, page.active)
  BY <1>1 DEF PageHolds
<1>17. Grown(View(page), View(new))
  BY <1>1, <1>10, <1>11, <1>15, <1>16, MessagesGrow
<1>. QED
  BY <1>10, <1>11, <1>14, <1>17 DEF Pages

\* A page shown anew, with the threads it had and one more perhaps.
Opened(page, threads, i) ==
  [page EXCEPT !.threads = threads, !.active = threads[i].id, !.messages = threads[i].messages]

Familiar(threads, page) ==
  \A j \in DOMAIN threads : \/ \E k \in DOMAIN View(page) : threads[j] = View(page)[k]
                            \/ threads[j].messages = <<>>

LEMMA PageShows ==
  ASSUME NEW sent, NEW page \in Pages(sent), page.user # "none",
         NEW threads \in Lists(sent), NEW i \in DOMAIN threads,
         Familiar(threads, page), NEW new, new = Opened(page, threads, i)
  PROVE  /\ new \in Pages(sent) /\ new.user = page.user /\ new.stream = page.stream
         /\ View(new) = threads
<1>1. page \in PageRecords(sent) /\ PageHolds(page)
  BY DEF Pages
<1>2. threads[i].id \in ThreadIds /\ threads[i].messages \in Seq(Messages(sent))
  BY ThreadsOf
<1>3. new \in PageRecords(sent)
  BY <1>1, <1>2 DEF PageRecords, Opened
<1>4. /\ new.threads = threads /\ new.active = threads[i].id
      /\ new.messages = threads[i].messages /\ new.user = page.user
      /\ new.stream = page.stream /\ new.status = page.status /\ new.said = page.said
  BY <1>1 DEF PageRecords, Opened
<1>5. Has(threads, threads[i].id) /\ MessagesOf(threads, threads[i].id) = threads[i].messages
  BY MessagesAt
<1>6. View(new) = threads
  BY <1>4, <1>5, Settled
<1>7. Shows(View(page), page)
  BY <1>1, ViewShows DEF PageHolds
<1>8. ASSUME page.stream # "none", NEW j \in DOMAIN threads
      PROVE  Short(threads[j].messages, page.stream, page.said)
  <2>1. Short(<<>>, page.stream, page.said)
    BY DEF Short
  <2>2. /\ Short(page.messages, page.stream, page.said)
        /\ \A k \in DOMAIN page.threads :
             Short(page.threads[k].messages, page.stream, page.said)
    BY <1>1, <1>8 DEF PageHolds
  <2>3. ASSUME NEW k \in DOMAIN View(page), threads[j] = View(page)[k]
        PROVE  Short(threads[j].messages, page.stream, page.said)
    <3>1. Thread(page.active, page.messages).messages = page.messages
      BY DEF Thread
    <3>2. CASE View(page)[k] = Thread(page.active, page.messages)
      BY <2>2, <2>3, <3>1, <3>2
    <3>3. CASE \E l \in DOMAIN page.threads : View(page)[k] = page.threads[l]
      BY <2>2, <2>3, <3>3
    <3>. QED
      BY <1>7, <3>2, <3>3 DEF Shows
  <2>. QED
    BY <1>8, <2>1, <2>3 DEF Familiar
<1>9. PageHolds(new)
  BY <1>1, <1>4, <1>5, <1>8 DEF PageHolds
<1>. QED
  BY <1>3, <1>4, <1>6, <1>9 DEF Pages

LEMMA PageSelects ==
  ASSUME NEW sent, NEW page \in Pages(sent), page.user # "none",
         NEW t, Has(View(page), t), NEW new,
         new = [page EXCEPT !.threads = ApplyActiveMessages(page), !.active = t,
                            !.messages = MessagesOf(View(page), t)]
  PROVE  /\ new \in Pages(sent) /\ new.user = page.user /\ new.stream = page.stream
         /\ Grown(View(page), View(new))
<1>1. page \in PageRecords(sent) /\ PageHolds(page)
  BY DEF Pages
<1>2. View(page) \in Lists(sent)
  BY <1>1, ViewShows DEF PageHolds
<1>3. PICK i \in DOMAIN View(page) : View(page)[i].id = t
  BY DEF Has
<1>4. MessagesOf(View(page), t) = View(page)[i].messages
  BY <1>2, <1>3, MessagesAt
<1>5. new = Opened(page, View(page), i)
  BY <1>3, <1>4 DEF View, Opened
<1>6. /\ new \in Pages(sent) /\ new.user = page.user /\ new.stream = page.stream
      /\ View(new) = View(page)
  <2>1. Familiar(View(page), page)
    BY DEF Familiar
  <2>. QED
    BY <1>2, <1>3, <1>5, <2>1, PageShows
<1>. QED
  BY <1>2, <1>6, SameListGrows

LEMMA PageCreates ==
  ASSUME NEW sent, NEW page \in Pages(sent), page.user # "none",
         NEW t \in ThreadIds, ~Has(page.threads, t), NEW new,
         new = [page EXCEPT !.threads = <<Thread(t, <<>>)>> \o ApplyActiveMessages(page),
                            !.active = t, !.messages = <<>>]
  PROVE  /\ new \in Pages(sent) /\ new.user = page.user /\ new.stream = page.stream
         /\ Grown(View(page), View(new))
<1> DEFINE fresh == Thread(t, <<>>)
           threads == <<fresh>> \o View(page)
<1>1. page \in PageRecords(sent) /\ PageHolds(page)
  BY DEF Pages
<1>2. View(page) \in Lists(sent) /\ Shows(View(page), page) /\ Has(page.threads, page.active)
  BY <1>1, ViewShows DEF PageHolds
<1>3. /\ fresh \in Threads(sent) /\ fresh.id = t /\ fresh.messages = <<>>
      /\ Thread(page.active, page.messages).id = page.active
  BY DEF Thread, Threads
<1>4. ~Has(View(page), fresh.id)
  <2>1. t # page.active
    BY <1>2 DEF Has
  <2>2. ASSUME NEW k \in DOMAIN View(page)
        PROVE  View(page)[k].id # t
    BY <1>2, <1>3, <2>1, <2>2 DEF Shows, Has
  <2>. QED
    BY <1>3, <2>2 DEF Has
<1>5. new = [page EXCEPT !.threads = threads, !.active = t, !.messages = <<>>]
  BY DEF View
<1> HIDE DEF fresh
<1>6. threads = <<fresh>> \o View(page)
  OBVIOUS
<1> HIDE DEF threads
<1>7. threads \in Lists(sent)
  BY <1>2, <1>3, <1>4, <1>6, InFront
<1>8. Len(threads) = Len(View(page)) + 1
  BY <1>2, <1>3, <1>4, <1>6, InFront
<1>9. threads[1] = fresh
  BY <1>2, <1>3, <1>4, <1>6, InFront
<1>10. \A k \in DOMAIN View(page) : threads[k + 1] = View(page)[k]
  BY <1>2, <1>3, <1>4, <1>6, InFront
<1>11. /\ Len(View(page)) \in Nat /\ DOMAIN View(page) = 1..Len(View(page))
       /\ DOMAIN threads = 1..(Len(View(page)) + 1)
  BY <1>2, <1>7, <1>8 DEF Lists
<1>12. 1 \in DOMAIN threads /\ (\A k \in DOMAIN View(page) : k + 1 \in DOMAIN threads)
  BY <1>11
<1>13. ASSUME NEW j \in DOMAIN threads
       PROVE  \/ \E k \in DOMAIN View(page) : threads[j] = View(page)[k]
              \/ threads[j].messages = <<>>
  <2>1. CASE j = 1
    BY <1>3, <1>9, <2>1
  <2>2. CASE j # 1
    <3>1. j - 1 \in DOMAIN View(page) /\ j = (j - 1) + 1
      BY <1>11, <2>2
    <3>. QED
      BY <1>10, <3>1
  <2>. QED
    BY <2>1, <2>2
<1>14. /\ new \in Pages(sent) /\ new.user = page.user /\ new.stream = page.stream
       /\ View(new) = threads
  <2>1. PICK i \in DOMAIN threads : i = 1
    BY <1>12
  <2>2. new = Opened(page, threads, i)
    BY <1>3, <1>5, <1>9, <2>1 DEF Opened
  <2>3. Familiar(threads, page)
    BY <1>13 DEF Familiar
  <2>. QED
    BY <1>7, <2>2, <2>3, PageShows
<1>15. Grown(View(page), threads)
  <2>1. ASSUME NEW k \in DOMAIN View(page)
        PROVE  \E j \in DOMAIN threads : GrownThread(View(page)[k], threads[j])
    <3>1. GrownThread(View(page)[k], View(page)[k])
      BY <1>2, SameGrows DEF Lists
    <3>. QED
      BY <1>10, <1>12, <3>1
  <2>. QED
    BY <2>1, GrownBy
<1>. QED
  BY <1>14, <1>15

Loaded(u, threads) ==
  [NoTab EXCEPT !.user = u, !.threads = threads, !.active = threads[1].id,
                !.messages = threads[1].messages]

LEMMA PageMounts ==
  ASSUME NEW sent, NEW threads \in Lists(sent), threads # <<>>, NEW u \in Users, NEW new,
         new = Loaded(u, threads)
  PROVE  new \in Pages(sent) /\ new.user = u /\ new.stream = "none" /\ View(new) = threads
<1>1. 1 \in DOMAIN threads
  BY DEF Lists
<1>2. threads[1].id \in ThreadIds /\ threads[1].messages \in Seq(Messages(sent))
  BY <1>1, ThreadsOf
<1>3. Has(threads, threads[1].id) /\ MessagesOf(threads, threads[1].id) = threads[1].messages
  BY <1>1, MessagesAt
<1>4. /\ new.threads = threads /\ new.active = threads[1].id
      /\ new.messages = threads[1].messages /\ new.user = u
      /\ new.stream = "none" /\ new.status = "ready" /\ new.said = 0
  BY DEF NoTab, Loaded
<1>5. new \in PageRecords(sent)
  BY <1>2 DEF NoTab, Loaded, PageRecords
<1>6. PageHolds(new)
  BY <1>3, <1>4 DEF PageHolds
<1>. QED
  BY <1>3, <1>4, <1>5, <1>6, Settled DEF Pages

-----------------------------------------------------------------------------
(* The tabs and the storage.                                               *)

Sent == {c \in Calls : call[c].phase # "idle"}

\* What a page shows is what it saved, until another tab saves.
Fresh(p) == Mounted(p) /\ ~overtaken[p] => storage[tab[p].user] = View(tab[p])

Streams(p) == tab[p].stream # "none" => /\ req[tab[p].stream].kind = "chat"
                                        /\ req[tab[p].stream].stream \in {"none", "open"}

TabInv ==
  /\ storage \in [Users -> Lists(Sent)]
  /\ tab \in [Tabs -> Pages(Sent)]
  /\ overtaken \in [Tabs -> BOOLEAN]
  /\ \A p \in Tabs : Fresh(p) /\ Streams(p)

\* A page that renders saves no less than what was there, if it had saved last.
Turns(p, page) ==
  /\ Renders(p, page)
  /\ page \in Pages(Sent')
  /\ page.user \in Users
  /\ Mounted(p) => page.user = tab[p].user /\ Grown(View(tab[p]), View(page))
  /\ ~Mounted(p) => Grown(storage[page.user], View(page))
  /\ \/ page.stream \in {tab[p].stream, "none"}
     \/ req'[page.stream].kind = "chat" /\ req'[page.stream].stream = "none"

\* What is shown and saved stays, or a page goes.
Rests ==
  /\ storage' = storage
  /\ tab' \in [Tabs -> Pages(Sent')]
  /\ overtaken' \in [Tabs -> BOOLEAN]
  /\ \A p \in Tabs :
       /\ tab'[p].stream \in {tab[p].stream, "none"}
       /\ \/ tab'[p].user = "none"
          \/ /\ tab'[p].user = tab[p].user /\ overtaken'[p] = overtaken[p]
             /\ View(tab'[p]) = View(tab[p])

\* A stream that ends is no page's any more.
StreamsClosed ==
  \A c \in Calls : StreamEnds(c) => \A p \in Tabs : tab[p].stream = c => tab'[p].stream # c

LEMMA EndsClose == TabInv => StreamsClosed
<1> SUFFICES ASSUME TabInv, NEW c \in Calls, StreamEnds(c), NEW p \in Tabs, tab[p].stream = c
             PROVE  tab'[p].stream # c
  BY DEF StreamsClosed
<1>1. tab[p] \in Pages(Sent)
  BY DEF TabInv
<1>2. \A status : [tab[p] EXCEPT !.status = status, !.stream = "none"].stream = "none"
  BY <1>1 DEF Pages, PageRecords
<1>3. PICK status : tab'[p] = [tab[p] EXCEPT !.status = status, !.stream = "none"]
  <2>1. CASE tab' = [q \in Tabs |-> IF tab[q].stream = c
               THEN [tab[q] EXCEPT !.status = "ready", !.stream = "none"] ELSE tab[q]]
    BY <2>1
  <2>2. CASE tab' = [q \in Tabs |-> IF tab[q].stream = c
               THEN [tab[q] EXCEPT !.status = "error", !.stream = "none"] ELSE tab[q]]
    BY <2>2
  <2>. QED
    BY <2>1, <2>2 DEF StreamEnds
<1>. QED
  BY <1>2, <1>3, NamesAssumption

LEMMA StreamsStay ==
  ASSUME QInv, QInv', \A c \in Calls : ReqStays(c), TabInv, NEW p \in Tabs,
         tab'[p].stream \in {tab[p].stream, "none"}, StreamsClosed
  PROVE  Streams(p)'
<1> DEFINE c == tab[p].stream
<1>1. CASE tab'[p].stream = "none"
  BY <1>1 DEF Streams
<1>2. CASE tab'[p].stream # "none"
  <2>1. tab'[p].stream = tab[p].stream /\ c # "none" /\ Streams(p) /\ tab[p] \in Pages(Sent)
    BY <1>2 DEF TabInv
  <2>2. c \in Sent
    BY <2>1 DEF Pages, PageRecords
  <2>3. ReqStays(c) /\ c \in Calls /\ call[c].phase # "idle"
    BY <2>2 DEF Sent
  <2>4. ~StreamEnds(c)
    BY <1>2, <2>1, <2>3 DEF StreamsClosed
  <2>5. req'[c].stream \in {"none", "open", "over"}
    BY <2>3 DEF QInv, Request
  <2>6. req'[c].kind = "chat" /\ req'[c].stream \in {"none", "open"}
    BY <2>1, <2>3, <2>4, <2>5 DEF ReqStays, Streams
  <2>. QED
    BY <2>1, <2>6 DEF Streams
<1>. QED
  BY <1>1, <1>2

LEMMA TurnsKeep ==
  ASSUME QInv, QInv', \A c \in Calls : ReqStays(c), TabInv, StreamsClosed,
         NEW p \in Tabs, NEW page, Turns(p, page)
  PROVE  TabInv'
<1>1. /\ tab' = [tab EXCEPT ![p] = page]
      /\ storage' = [storage EXCEPT ![page.user] = View(page)]
      /\ page \in Pages(Sent') /\ page.user \in Users /\ page.user # "none"
  BY NamesAssumption DEF Turns, Renders
<1>2. Sent \subseteq Sent'
  BY DEF ReqStays, Sent
<1>3. Pages(Sent) \subseteq Pages(Sent') /\ Lists(Sent) \subseteq Lists(Sent')
  BY <1>2, PagesGrow, ListsGrow
<1>4. View(page) \in Lists(Sent')
  BY <1>1, ViewShows DEF Pages, PageHolds
<1>5. storage' \in [Users -> Lists(Sent')]
  BY <1>1, <1>3, <1>4 DEF TabInv
<1>6. tab' \in [Tabs -> Pages(Sent')] /\ tab'[p] = page
  BY <1>1, <1>3 DEF TabInv
<1>7. /\ overtaken' \in [Tabs -> BOOLEAN]
      /\ \A q \in Tabs : q # p =>
           overtaken'[q] = IF tab[q].user = page.user
                             THEN overtaken[q] \/ storage[page.user] # View(page)
                             ELSE overtaken[q]
  BY DEF Turns, Renders, TabInv
<1>8. ASSUME NEW q \in Tabs
      PROVE  Fresh(q)'
  <2>1. CASE q = p
    <3>1. tab'[q] = page /\ storage'[page.user] = View(page)
      BY <1>1, <1>6, <2>1 DEF TabInv
    <3>. QED
      BY <3>1 DEF Fresh
  <2>2. CASE q # p
    <3>1. tab'[q] = tab[q] /\ Fresh(q)
      BY <1>1, <2>2 DEF TabInv
    <3>2. CASE tab[q].user = page.user
      <4>1. overtaken'[q] = (overtaken[q] \/ storage[page.user] # View(page))
        BY <1>7, <2>2, <3>2
      <4>2. storage'[page.user] = View(page)
        BY <1>1 DEF TabInv
      <4>. QED
        BY <3>1, <3>2, <4>1, <4>2 DEF Fresh, Mounted
    <3>3. CASE tab[q].user # page.user
      <4>1. overtaken'[q] = overtaken[q]
        BY <1>7, <2>2, <3>3
      <4>2. storage'[tab[q].user] = storage[tab[q].user]
        BY <1>1, <3>3 DEF TabInv
      <4>. QED
        BY <3>1, <4>1, <4>2 DEF Fresh, Mounted
    <3>. QED
      BY <3>2, <3>3
  <2>. QED
    BY <2>1, <2>2
<1>9. ASSUME NEW q \in Tabs
      PROVE  Streams(q)'
  <2>1. CASE tab'[q].stream \in {tab[q].stream, "none"}
    BY <2>1, StreamsStay
  <2>2. CASE tab'[q].stream \notin {tab[q].stream, "none"}
    <3>1. q = p
      BY <1>1, <2>2 DEF TabInv
    <3>2. tab'[q].stream = page.stream /\ page.stream \notin {tab[p].stream, "none"}
      BY <1>6, <2>2, <3>1
    <3>. QED
      BY <3>2 DEF Turns, Streams
  <2>. QED
    BY <2>1, <2>2
<1>. QED
  BY <1>5, <1>6, <1>7, <1>8, <1>9 DEF TabInv

LEMMA RestsKeep ==
  ASSUME QInv, QInv', \A c \in Calls : ReqStays(c), TabInv, StreamsClosed, Rests
  PROVE  TabInv'
<1>1. Sent \subseteq Sent'
  BY DEF ReqStays, Sent
<1>2. Lists(Sent) \subseteq Lists(Sent')
  BY <1>1, ListsGrow
<1>3. storage' \in [Users -> Lists(Sent')]
  BY <1>2 DEF Rests, TabInv
<1>4. ASSUME NEW p \in Tabs
      PROVE  Fresh(p)' /\ Streams(p)'
  <2>1. Fresh(p) /\ tab'[p].stream \in {tab[p].stream, "none"}
    BY DEF TabInv, Rests
  <2>2. Streams(p)'
    BY <2>1, StreamsStay
  <2>3. storage' = storage
    BY DEF Rests
  <2>4. CASE tab'[p].user = "none"
    BY <2>2, <2>4 DEF Fresh, Mounted
  <2>5. CASE /\ tab'[p].user = tab[p].user /\ overtaken'[p] = overtaken[p]
             /\ View(tab'[p]) = View(tab[p])
    BY <2>1, <2>2, <2>3, <2>5 DEF Fresh, Mounted
  <2>. QED
    BY <2>4, <2>5 DEF Rests
<1>. QED
  BY <1>3, <1>4 DEF TabInv, Rests

LEMMA PageOf ==
  ASSUME TabInv, NEW p \in Tabs
  PROVE  /\ tab[p] \in Pages(Sent) /\ tab[p].user \in Users \union {"none"}
         /\ tab[p].stream \in Sent \union {"none"}
         /\ Streaming(p) <=> tab[p].stream # "none"
         /\ tab[p].stream # "none" => Mounted(p)
BY DEF TabInv, Pages, PageRecords, PageHolds, Streaming, Mounted

LEMMA SentGrows ==
  ASSUME \A c \in Calls : ReqStays(c)
  PROVE  Sent \subseteq Sent'
BY DEF ReqStays, Sent

\* A page that is mounted, and renders a page that shows no less.
LEMMA MountedTurns ==
  ASSUME TabInv, NEW p \in Tabs, Mounted(p), NEW page, Renders(p, page),
         page \in Pages(Sent'), page.user = tab[p].user, Grown(View(tab[p]), View(page)),
         \/ page.stream \in {tab[p].stream, "none"}
         \/ req'[page.stream].kind = "chat" /\ req'[page.stream].stream = "none"
  PROVE  Turns(p, page)
BY PageOf DEF Turns, Mounted

LEMMA MountTurns ==
  ASSUME QInv, TabInv, \A c \in Calls : ReqStays(c), NEW p \in Tabs, Mount(p)
  PROVE  \E page : Turns(p, page)
<1> DEFINE threads == Hydrated(cookie)
           page == Loaded(cookie, threads)
<1>1. Renders(p, page) /\ cookie \in Users /\ ~Mounted(p)
  BY DEF Mount, QInv, Loaded
<1>2. storage[cookie] \in Lists(Sent)
  BY <1>1 DEF TabInv
<1>3. /\ threads \in Lists(Sent) /\ threads # <<>>
      /\ threads = storage[cookie] \/ storage[cookie] = <<>>
  <2>1. CASE storage[cookie] # <<>>
    BY <1>2, <2>1 DEF Hydrated
  <2>2. CASE storage[cookie] = <<>>
    <3> DEFINE t == Thread(UnusedThread, <<>>)
    <3>1. UnusedThread \in ThreadIds
      BY <2>2 DEF Mount, ThreadLeft, UnusedThread
    <3>2. t \in Threads(Sent)
      BY <3>1 DEF Thread, Threads
    <3>3. threads = <<t>>
      BY <2>2 DEF Hydrated
    <3> HIDE DEF t
    <3>4. <<t>> \in Seq(Threads(Sent)) /\ Len(<<t>>) = 1
      BY <3>2
    <3>5. <<t>> \in Lists(Sent) /\ <<t>> # <<>>
      BY <3>4 DEF Lists
    <3>. QED
      BY <2>2, <3>3, <3>5
  <2>. QED
    BY <2>1, <2>2
<1> HIDE DEF threads
<1>4. page \in Pages(Sent) /\ page.user = cookie /\ page.stream = "none" /\ View(page) = threads
  BY <1>1, <1>3, PageMounts
<1> HIDE DEF page
<1>5. Grown(storage[cookie], View(page))
  <2>1. CASE threads = storage[cookie]
    BY <1>3, <1>4, <2>1, SameListGrows
  <2>2. CASE storage[cookie] = <<>>
    BY <2>2 DEF Grown
  <2>. QED
    BY <1>3, <2>1, <2>2
<1>6. page \in Pages(Sent')
  BY <1>4, SentGrows, PagesGrow
<1>. QED
  BY <1>1, <1>4, <1>5, <1>6 DEF Turns

LEMMA SendTurns ==
  ASSUME CInv, QInv, QInv', TabInv, \A c \in Calls : ReqStays(c), NEW p \in Tabs, OnSend(p)
  PROVE  \E page : Turns(p, page)
<1> DEFINE messages == Append(tab[p].messages, Message(NextCall, "user", 1))
           parts == UNION {PartsOf(messages[i]) : i \in DOMAIN messages}
           page == Submitted(tab[p], NextCall)
<1>1. parts \in SUBSET PartTypes
  BY DEF PartsOf, PartTypes
<1>2. Sends("chat", parts) /\ Renders(p, page) /\ Mounted(p)
  BY DEF OnSend, Submitted
<1> HIDE DEF parts
<1>3. /\ NextCall \in Calls /\ call[NextCall].phase = "idle"
      /\ call'[NextCall].phase = "asking"
      /\ req' = [req EXCEPT ![NextCall] = [NoReq EXCEPT !.kind = "chat", !.as = cookie,
                                                        !.parts = parts]]
  BY <1>1, <1>2, SendsIs
<1>4. NextCall \notin Sent /\ NextCall \in Sent' /\ NextCall # "none"
  BY <1>3, NamesAssumption DEF Sent
<1>5. Sent \subseteq Sent' /\ tab[p] \in Pages(Sent) /\ tab[p].user # "none"
  BY <1>2, SentGrows, PageOf DEF Mounted
<1>6. /\ page \in Pages(Sent') /\ page.user = tab[p].user /\ page.stream = NextCall
      /\ Grown(View(tab[p]), View(page))
  BY <1>4, <1>5, PageSends
<1>7. req'[NextCall].kind = "chat" /\ req'[NextCall].stream = "none"
  BY <1>3 DEF QInv, NoReq
<1> HIDE DEF page
<1>. QED
  BY <1>2, <1>6, <1>7, MountedTurns

LEMMA FailsTurns ==
  ASSUME TabInv, \A c \in Calls : ReqStays(c), NEW p \in Tabs, SendFails(p)
  PROVE  \E page : Turns(p, page)
<1> DEFINE page == [tab[p] EXCEPT !.status = "error", !.stream = "none"]
<1>1. Renders(p, page) /\ tab[p] \in Pages(Sent) /\ Mounted(p) /\ Sent \subseteq Sent'
  BY SentGrows, PageOf DEF SendFails
<1>2. page \in Pages(Sent) /\ page.user = tab[p].user /\ View(page) = View(tab[p])
  BY <1>1, PageStops
<1>3. page.stream = "none"
  BY <1>1 DEF Pages, PageRecords
<1> HIDE DEF page
<1>4. View(tab[p]) \in Lists(Sent)
  BY <1>1, ViewShows DEF Pages, PageHolds, Mounted
<1>5. Grown(View(tab[p]), View(page)) /\ page \in Pages(Sent')
  BY <1>1, <1>2, <1>4, SameListGrows, PagesGrow
<1>. QED
  BY <1>1, <1>2, <1>3, <1>5, MountedTurns

LEMMA ArrivesTurns ==
  ASSUME TabInv, \A c \in Calls : ReqStays(c), NEW p \in Tabs, TextArrives(p)
  PROVE  \E page : Turns(p, page)
<1> DEFINE page == Written(tab[p])
<1>1. /\ Renders(p, page) /\ tab[p] \in Pages(Sent) /\ Mounted(p) /\ Sent \subseteq Sent'
      /\ tab[p].stream # "none"
  BY SentGrows, PageOf DEF TextArrives
<1>2. /\ page \in Pages(Sent) /\ page.user = tab[p].user /\ page.stream = tab[p].stream
      /\ Grown(View(tab[p]), View(page))
  BY <1>1, PageWrites
<1> HIDE DEF page
<1>3. page \in Pages(Sent')
  BY <1>1, <1>2, PagesGrow
<1>. QED
  BY <1>1, <1>2, <1>3, MountedTurns

LEMMA SelectTurns ==
  ASSUME TabInv, \A c \in Calls : ReqStays(c), NEW p \in Tabs, NEW t \in ThreadIds,
         SelectThread(p, t)
  PROVE  \E page : Turns(p, page)
<1> DEFINE page == [tab[p] EXCEPT !.threads = ApplyActiveMessages(tab[p]), !.active = t,
                                  !.messages = MessagesOf(View(tab[p]), t)]
<1>1. /\ Renders(p, page) /\ tab[p] \in Pages(Sent) /\ Mounted(p) /\ Sent \subseteq Sent'
      /\ Has(View(tab[p]), t) /\ tab[p].user # "none"
  BY SentGrows, PageOf DEF SelectThread, Select, Mounted
<1>2. /\ page \in Pages(Sent) /\ page.user = tab[p].user /\ page.stream = tab[p].stream
      /\ Grown(View(tab[p]), View(page))
  BY <1>1, PageSelects
<1> HIDE DEF page
<1>3. page \in Pages(Sent')
  BY <1>1, <1>2, PagesGrow
<1>. QED
  BY <1>1, <1>2, <1>3, MountedTurns

LEMMA CreateTurns ==
  ASSUME TabInv, \A c \in Calls : ReqStays(c), NEW p \in Tabs, CreateThread(p)
  PROVE  \E page : Turns(p, page)
<1> DEFINE t == UnusedThread
           page == [tab[p] EXCEPT !.threads = <<Thread(t, <<>>)>> \o ApplyActiveMessages(tab[p]),
                                  !.active = t, !.messages = <<>>]
<1>1. /\ Renders(p, page) /\ tab[p] \in Pages(Sent) /\ Mounted(p) /\ Sent \subseteq Sent'
      /\ tab[p].user # "none"
  BY SentGrows, PageOf DEF CreateThread, Create, Mounted
<1>2. t \in ThreadIds /\ ~Has(tab[p].threads, t)
  BY DEF CreateThread, ThreadLeft, UnusedThread
<1> HIDE DEF t
<1>3. /\ page \in Pages(Sent) /\ page.user = tab[p].user /\ page.stream = tab[p].stream
      /\ Grown(View(tab[p]), View(page))
  BY <1>1, <1>2, PageCreates
<1> HIDE DEF page
<1>4. page \in Pages(Sent')
  BY <1>1, <1>3, PagesGrow
<1>. QED
  BY <1>1, <1>3, <1>4, MountedTurns

LEMMA NoTabHolds == ASSUME NEW sent PROVE NoTab \in Pages(sent)
<1>1. NoTab \in PageRecords(sent)
  <2>1. <<>> \in Lists(sent)
    BY DEF Lists
  <2>. QED
    BY <2>1 DEF NoTab, PageRecords
<1>2. PageHolds(NoTab)
  BY DEF NoTab, PageHolds
<1>. QED
  BY <1>1, <1>2 DEF Pages

LEMMA QuietRests ==
  ASSUME TabInv, \A c \in Calls : ReqStays(c), UNCHANGED <<storage, tab, overtaken>>
  PROVE  Rests
<1>1. Pages(Sent) \subseteq Pages(Sent')
  BY SentGrows, PagesGrow
<1>. QED
  BY <1>1 DEF Rests, TabInv

LEMMA GoneRests ==
  ASSUME TabInv, \A c \in Calls : ReqStays(c), NEW p \in Tabs, Unmounted(p)
  PROVE  Rests
<1>1. Pages(Sent) \subseteq Pages(Sent') /\ NoTab \in Pages(Sent')
  BY SentGrows, PagesGrow, NoTabHolds
<1>2. NoTab.user = "none" /\ NoTab.stream = "none"
  BY DEF NoTab
<1>3. /\ tab' = [tab EXCEPT ![p] = NoTab]
      /\ overtaken' = [overtaken EXCEPT ![p] = FALSE]
      /\ storage' = storage
  BY DEF Unmounted
<1>. QED
  BY <1>1, <1>2, <1>3 DEF Rests, TabInv

LEMMA EndsRests ==
  ASSUME TabInv, \A d \in Calls : ReqStays(d), NEW c \in Calls, StreamEnds(c)
  PROVE  Rests
<1>1. Pages(Sent) \subseteq Pages(Sent')
  BY SentGrows, PagesGrow
<1>2. PICK status \in {"ready", "error"} :
        tab' = [q \in Tabs |-> IF tab[q].stream = c
                  THEN [tab[q] EXCEPT !.status = status, !.stream = "none"] ELSE tab[q]]
  BY DEF StreamEnds
<1>3. ASSUME NEW q \in Tabs
      PROVE  /\ tab'[q] \in Pages(Sent') /\ tab'[q].stream \in {tab[q].stream, "none"}
             /\ tab'[q].user = tab[q].user /\ View(tab'[q]) = View(tab[q])
  <2>1. tab[q] \in Pages(Sent) /\ tab[q] \in PageRecords(Sent)
    BY DEF TabInv, Pages
  <2>2. CASE tab[q].stream # c
    BY <1>1, <1>2, <2>1, <2>2
  <2>3. CASE tab[q].stream = c
    <3> DEFINE page == [tab[q] EXCEPT !.status = status, !.stream = "none"]
    <3>1. page \in Pages(Sent) /\ page.user = tab[q].user /\ View(page) = View(tab[q])
      BY <2>1, PageStops
    <3>2. page.stream = "none"
      BY <2>1 DEF PageRecords
    <3>3. tab'[q] = page
      BY <1>2, <2>3
    <3> HIDE DEF page
    <3>. QED
      BY <1>1, <3>1, <3>2, <3>3
  <2>. QED
    BY <2>2, <2>3
<1>4. UNCHANGED <<storage, overtaken>>
  BY DEF StreamEnds
<1>5. tab' \in [Tabs -> Pages(Sent')]
  BY <1>2, <1>3
<1>. QED
  BY <1>3, <1>4, <1>5 DEF Rests, TabInv

LEMMA QueueRests ==
  ASSUME TabInv, \A d \in Calls : ReqStays(d), NEW p \in Tabs, NEW c \in Sent' \union {"none"},
         tab' = [tab EXCEPT ![p].queueing = c], UNCHANGED <<storage, overtaken>>
  PROVE  Rests
<1> DEFINE page == [tab[p] EXCEPT !.queueing = c]
<1>1. Pages(Sent) \subseteq Pages(Sent') /\ tab[p] \in Pages(Sent')
  BY SentGrows, PagesGrow DEF TabInv
<1>2. /\ page \in Pages(Sent') /\ page.user = tab[p].user /\ View(page) = View(tab[p])
      /\ page.stream = tab[p].stream
  BY <1>1, PageQueues
<1>3. tab' = [tab EXCEPT ![p] = page]
  OBVIOUS
<1> HIDE DEF page
<1>4. tab' \in [Tabs -> Pages(Sent')]
  BY <1>1, <1>2, <1>3 DEF TabInv
<1>5. \A q \in Tabs : tab'[q] = IF q = p THEN page ELSE tab[q]
  BY <1>3 DEF TabInv
<1>. QED
  BY <1>2, <1>4, <1>5 DEF Rests, TabInv

LEMMA StepOfTabs ==
  ASSUME CInv, QInv, QInv', TabInv, \A c \in Calls : ReqStays(c), [Next]_vars
  PROVE  Rests \/ (\E p \in Tabs : \E page : Turns(p, page))
<1>1. storage' = storage /\ tab' = tab /\ overtaken' = overtaken => Rests
  BY QuietRests
<1>2. CASE UNCHANGED vars
  BY <1>1, <1>2 DEF vars, pageVars
<1>3. CASE Limiter \/ Tools \/ RoleSyncs \/ OtherCall
  BY <1>1, <1>3 DEF Limiter, Tools, RoleSyncs, OtherCall, pageVars
<1>4. ASSUME NEW c \in Calls,
             Handle(c) \/ NetworkFails(c) \/ (\E r \in ToolRuns : ModelCallsTool(c, r))
      PROVE  Rests
  BY <1>1, <1>4 DEF Handle, NetworkFails, ModelCallsTool, pageVars
<1>5. ASSUME NEW c \in Calls, StreamEnds(c)
      PROVE  Rests
  BY <1>5, EndsRests
<1>6. ASSUME NEW u \in Users, SignIn(u)
      PROVE  Rests
  BY <1>1, <1>6 DEF SignIn
<1>7. ASSUME NEW p \in Tabs, Unmount(p) \/ SignOut(p)
      PROVE  Rests
  BY <1>7, GoneRests DEF Unmount, SignOut
<1>8. ASSUME NEW p \in Tabs, OnQueueRun(p)
      PROVE  Rests
  <2>1. {} \in SUBSET PartTypes
    OBVIOUS
  <2>2. NextCall \in Sent'
    BY <1>8, <2>1, SendsIs DEF OnQueueRun, Sent
  <2>. QED
    BY <1>8, <2>2, QueueRests DEF OnQueueRun
<1>9. ASSUME NEW p \in Tabs, RunQueued(p)
      PROVE  Rests
  BY <1>9, QueueRests DEF RunQueued
<1>10. ASSUME NEW p \in Tabs, OnInvoke(p) \/ PanelHears(p) \/ OnCancel(p)
       PROVE  Rests
  BY <1>1, <1>10 DEF OnInvoke, PanelHears, OnCancel, OnlyPanel
<1>11. ASSUME NEW p \in Tabs, Mount(p) \/ OnSend(p) \/ SendFails(p) \/ TextArrives(p)
                              \/ CreateThread(p)
       PROVE  \E page : Turns(p, page)
  BY <1>11, MountTurns, SendTurns, FailsTurns, ArrivesTurns, CreateTurns
<1>12. ASSUME NEW p \in Tabs, NEW t \in ThreadIds, SelectThread(p, t)
       PROVE  \E page : Turns(p, page)
  BY <1>12, SelectTurns
<1>13. CASE Next
  BY <1>3, <1>4, <1>5, <1>6, <1>7, <1>8, <1>9, <1>10, <1>11, <1>12, <1>13 DEF Next
<1>. QED
  BY <1>2, <1>13

LEMMA TabsKeep ==
  ASSUME CInv, QInv, TabInv, [Next]_vars
  PROVE  TabInv'
<1>1. QInv' /\ (\A c \in Calls : ReqStays(c))
  BY CallsKeep
<1>2. StreamsClosed
  BY EndsClose
<1>3. CASE Rests
  BY <1>1, <1>2, <1>3, RestsKeep
<1>4. ASSUME NEW p \in Tabs, NEW page, Turns(p, page)
      PROVE  TabInv'
  BY <1>1, <1>2, <1>4, TurnsKeep
<1>. QED
  BY <1>1, <1>3, <1>4, StepOfTabs

LEMMA TabsStart == Init => TabInv
<1>1. <<>> \in Lists(Sent)
  BY DEF Lists
<1>2. NoTab \in Pages(Sent) /\ NoTab.user = "none" /\ NoTab.stream = "none"
  BY NoTabHolds DEF NoTab
<1>. QED
  BY <1>1, <1>2 DEF Init, TabInv, Fresh, Streams, Mounted

\* What a tab that nobody has overtaken takes out of the storage: nothing.
LEMMA NothingLost ==
  ASSUME CInv, QInv, TabInv, [Next]_vars, NEW p \in Tabs, tab'[p] # tab[p], ~overtaken[p],
         NEW u \in Users
  PROVE  Grown(storage[u], storage'[u])
<1>1. QInv' /\ (\A c \in Calls : ReqStays(c))
  BY CallsKeep
<1>2. storage[u] \in Lists(Sent)
  BY DEF TabInv
<1>3. CASE storage'[u] = storage[u]
  BY <1>2, <1>3, SameListGrows
<1>4. ASSUME NEW q \in Tabs, NEW page, Turns(q, page), storage'[u] # storage[u]
      PROVE  Grown(storage[u], storage'[u])
  <2>1. /\ tab' = [tab EXCEPT ![q] = page]
        /\ storage' = [storage EXCEPT ![page.user] = View(page)]
    BY <1>4 DEF Turns, Renders
  <2>2. q = p /\ u = page.user /\ storage'[u] = View(page)
    BY <1>4, <2>1 DEF TabInv
  <2>3. CASE Mounted(p)
    <3>1. storage[u] = View(tab[p]) /\ Grown(View(tab[p]), View(page))
      BY <1>4, <2>2, <2>3 DEF Turns, TabInv, Fresh
    <3>. QED
      BY <2>2, <3>1
  <2>4. CASE ~Mounted(p)
    BY <1>4, <2>2, <2>4 DEF Turns
  <2>. QED
    BY <2>3, <2>4
<1>5. CASE Rests
  BY <1>3, <1>5 DEF Rests
<1>. QED
  BY <1>1, <1>3, <1>4, <1>5, StepOfTabs

\* Whatever thread is selected or made while an answer comes, and however often
\* the page is left and opened: a tab takes nothing out of the storage, unless
\* another tab has saved since it loaded.
THEOREM ThreadsAreKept == Spec => Kept
<1>1. CInv /\ QInv /\ TabInv /\ [Next]_vars
        => [\A p \in Tabs : tab'[p] # tab[p] /\ ~overtaken[p] =>
              \A u \in Users : Grown(storage[u], storage'[u])]_vars
  BY NothingLost
<1>. QED
  BY <1>1, InitParts, PartsKeep, CallsStart, CallsKeep, TabsStart, TabsKeep, PTL DEF Spec, Kept

\* The types of Chat: of the limiter, the role and the tool, and that a page has
\* its active thread in its list, a stream exactly while it waits for an answer,
\* of a chat's call, and no two threads of a name.
THEOREM ChatTyped == Spec => []TypeOK
<1>1. CInv => LimitTypeOK /\ RoleTypeOK /\ active \in Nat
  BY HoldingFinite DEF CInv, LInv, RInv, TInv, CapHolds
<1>2. PanelInv => \A p \in Tabs : panel[p].status \in
        {"idle", "running", "succeeded", "failed", "timed_out", "cancelled"}
  BY DEF PanelInv, PanelStates
<1>3. TabInv => \A u \in Users : \A i, j \in DOMAIN storage[u] :
        /\ storage[u][i].id \in ThreadIds
        /\ storage[u][i].id = storage[u][j].id => i = j
  <2> SUFFICES ASSUME TabInv, NEW u \in Users, NEW i \in DOMAIN storage[u],
                      NEW j \in DOMAIN storage[u]
               PROVE  /\ storage[u][i].id \in ThreadIds
                      /\ storage[u][i].id = storage[u][j].id => i = j
    OBVIOUS
  <2>1. storage[u] \in Lists(Sent)
    BY DEF TabInv
  <2>2. storage[u][i].id \in ThreadIds
    BY <2>1, ThreadsOf
  <2>. QED
    BY <2>1, <2>2 DEF Lists
<1>4. ASSUME TabInv, NEW p \in Tabs
      PROVE  /\ tab[p].user \in Users \cup {"none"}
             /\ tab[p].status \in {"ready", "submitted", "streaming", "error"}
             /\ Streaming(p) <=> tab[p].stream # "none"
             /\ tab[p].stream # "none" => /\ req[tab[p].stream].kind = "chat"
                                          /\ req[tab[p].stream].stream \in {"none", "open"}
             /\ Mounted(p) => \E i \in DOMAIN tab[p].threads : tab[p].threads[i].id = tab[p].active
             /\ overtaken[p] \in BOOLEAN
  <2>1. tab[p] \in PageRecords(Sent) /\ PageHolds(tab[p]) /\ Streams(p) /\ overtaken[p] \in BOOLEAN
    BY <1>4 DEF TabInv, Pages
  <2>2. /\ tab[p].user \in Users \cup {"none"}
        /\ tab[p].status \in {"ready", "submitted", "streaming", "error"}
    BY <2>1 DEF PageRecords
  <2>. QED
    BY <2>1, <2>2 DEF PageHolds, Streams, Streaming, Mounted, Has
<1>5. CInv /\ QInv /\ PanelInv /\ TabInv => TypeOK
  BY <1>1, <1>2, <1>3, <1>4 DEF TypeOK, QInv
<1>. QED
  BY <1>5, InitParts, PartsKeep, CallsStart, CallsKeep, PanelsStart, PanelKeeps, TabsStart,
     TabsKeep, PTL DEF Spec
=============================================================================
