---------------------------- MODULE Runners_proofs ----------------------------
(***************************************************************************)
(* What the runners of the automation lanes keep, for any agents, lanes,   *)
(* events, months and faults: the lock, and what their checkouts make of   *)
(* the workflow memory on main.                                            *)
(***************************************************************************)
EXTENDS Runners, TLAPS, WellFoundedInduction, FiniteSetTheorems

-----------------------------------------------------------------------------
(* The lock.  Of the pid file one can always say that a runner it names is *)
(* up and has not released the lock, and that there is none without the    *)
(* directory.  As long as no two runners of a lane were changing the lock  *)
(* at once, what a runner takes the lock for is what it is (Fits).         *)

Shell == [at : Places, then : {"down", "loop", "cleanup"}]
Pids  == Agents \union {"dead", "none"}

LockTypes ==
  /\ lane \in [Agents -> Agents]
  /\ dir \in [Agents -> BOOLEAN]
  /\ pid \in [Agents -> Pids]
  /\ runner \in [Agents -> Shell]
  /\ raced \in BOOLEAN

PidFile ==
  \A l \in Agents :
    /\ ~dir[l] => pid[l] = "none"
    /\ pid[l] \in Agents =>
         /\ lane[pid[l]] = l
         /\ runner[pid[l]].at \in {"loop", "cycle", "cleanup", "release"}

\* What the shell of r, at s, relies on when the lock is there or not (b) and
\* its pid file says p.
Fits(r, s, b, p) ==
  /\ s.at \in {"loop", "cycle", "cleanup"} => b /\ p = r
  /\ s.at = "writePid" => b /\ p = "none"
  /\ s.at = "remove" => p \notin Agents
  /\ s.at = "remake" => ~b
  /\ s.at = "rmdir" => p = "none"
  /\ s.at \in {"release", "rmdir"} => s.then = "down"

Busy == Places \ {"down", "loop", "cycle", "cleanup"}

Orderly(r) ==
  /\ Fits(r, runner[r], dir[lane[r]], pid[lane[r]])
  /\ runner[r].at \in Busy => \A q \in Rivals(r) : runner[q].at \notin Busy

LockInv ==
  /\ LockTypes
  /\ PidFile
  /\ ~raced => \A r \in Agents : Orderly(r)

LEMMA LockStarts == Init => LockInv
<1> SUFFICES ASSUME Init PROVE LockInv
  OBVIOUS
<1>1. PICK s \in Setups : lane = s.lane
  BY DEF Init, MemoryInit
<1>2. lane \in [Agents -> Agents]
  BY <1>1, SyncAssumption
<1>3. LockTypes
  BY <1>2 DEF Init, LockTypes, Pids, Shell, Places
<1>4. PidFile
  BY RunnersAssumption DEF Init, PidFile
<1>5. \A r \in Agents : Orderly(r)
  BY <1>2 DEF Init, Orderly, Fits, Busy
<1>. QED
  BY <1>3, <1>4, <1>5 DEF LockInv

\* One runner moves to s, and leaves the lock of its lane as b and p say.
LEMMA LockMoves ==
  ASSUME LockInv, NEW r \in Agents, NEW s \in Shell, NEW b \in BOOLEAN, NEW p \in Pids,
         lane' = lane,
         dir' = [dir EXCEPT ![lane[r]] = b],
         pid' = [pid EXCEPT ![lane[r]] = p],
         runner' = [runner EXCEPT ![r] = s],
         raced' \in BOOLEAN, raced => raced',
         ~b => p = "none",
         p \in Agents => p \in {r, pid[lane[r]]},
         p = r => s.at \in {"loop", "cycle", "cleanup", "release"},
         ~raced' => /\ Fits(r, s, b, p)
                    /\ \A q \in Rivals(r) : Fits(q, runner[q], b, p)
                    /\ s.at \in Busy => \A q \in Rivals(r) : runner[q].at \notin Busy
  PROVE  LockInv'
<1> USE DEF LockInv
<1>1. lane \in [Agents -> Agents] /\ lane[r] \in Agents
  BY DEF LockTypes
<1>2. LockTypes'
  BY <1>1 DEF LockTypes
<1>3. /\ \A l \in Agents : l # lane[r] => dir'[l] = dir[l] /\ pid'[l] = pid[l]
      /\ dir'[lane[r]] = b /\ pid'[lane[r]] = p
      /\ runner'[r] = s
      /\ \A q \in Agents : q # r => runner'[q] = runner[q]
  BY <1>1 DEF LockTypes
<1>4. PidFile'
  <2> SUFFICES ASSUME NEW l \in Agents
               PROVE  /\ ~dir'[l] => pid'[l] = "none"
                      /\ pid'[l] \in Agents =>
                           /\ lane[pid'[l]] = l
                           /\ runner'[pid'[l]].at \in {"loop", "cycle", "cleanup", "release"}
    BY DEF PidFile
  <2>1. CASE l # lane[r]
    <3>1. dir'[l] = dir[l] /\ pid'[l] = pid[l]
      BY <1>3, <2>1
    <3>2. pid[l] # r
      BY <2>1 DEF PidFile
    <3>. QED
      BY <1>3, <3>1, <3>2 DEF PidFile
  <2>2. CASE l = lane[r]
    <3>1. dir'[l] = b /\ pid'[l] = p
      BY <1>3, <2>2
    <3>2. CASE p = r
      BY <1>3, <2>2, <3>1, <3>2
    <3>3. CASE p # r
      <4>1. p \in Agents => p = pid[l]
        BY <2>2, <3>3
      <4>. QED
        BY <1>3, <3>1, <3>3, <4>1 DEF PidFile
    <3>. QED
      BY <3>2, <3>3
  <2>. QED
    BY <2>1, <2>2
<1>5. ASSUME ~raced', NEW q \in Agents PROVE Orderly(q)'
  <2>1. ~raced /\ Orderly(q) /\ Orderly(r)
    BY <1>5
  <2>2. Rivals(q)' = Rivals(q)
    BY DEF Rivals
  <2>3. CASE q = r
    <3>1. Fits(r, runner'[r], dir'[lane'[r]], pid'[lane'[r]])
      BY <1>3, <1>5
    <3>2. runner'[r].at \in Busy => \A k \in Rivals(r) : runner'[k].at \notin Busy
      BY <1>3, <1>5 DEF Rivals
    <3>. QED
      BY <2>2, <2>3, <3>1, <3>2 DEF Orderly
  <2>4. CASE q # r /\ lane[q] = lane[r]
    <3>1. q \in Rivals(r)
      BY <2>4 DEF Rivals
    <3>2. Fits(q, runner'[q], dir'[lane'[q]], pid'[lane'[q]])
      BY <1>3, <1>5, <2>4, <3>1
    <3>3. runner'[q].at \in Busy => \A k \in Rivals(q) : runner'[k].at \notin Busy
      <4> SUFFICES ASSUME runner'[q].at \in Busy, NEW k \in Rivals(q), runner'[k].at \in Busy
                   PROVE  FALSE
        OBVIOUS
      <4>1. k = r
        BY <1>3, <2>1, <2>4 DEF Orderly, Rivals
      <4>. QED
        BY <1>3, <1>5, <2>4, <3>1, <4>1
    <3>. QED
      BY <2>2, <3>2, <3>3 DEF Orderly
  <2>5. CASE lane[q] # lane[r]
    <3>1. lane[q] \in Agents /\ q # r
      BY <1>1, <2>5
    <3>2. \A k \in Rivals(q) : k \in Agents /\ k # r
      BY <2>5 DEF Rivals
    <3>. QED
      BY <1>3, <2>1, <2>2, <2>5, <3>1, <3>2 DEF Orderly
  <2>. QED
    BY <2>3, <2>4, <2>5
<1>. QED
  BY <1>2, <1>4, <1>5

LEMMA NoticedMeans ==
  ASSUME LockInv, NEW r \in Agents, Noticed(r)
  PROVE  /\ raced' \in BOOLEAN /\ (raced => raced')
         /\ ~raced' => ~raced /\ \A q \in Rivals(r) : runner[q].at \notin Busy
BY DEF Noticed, Changing, Busy, LockInv, LockTypes

\* What is known of the shell of r and of the lock it sees.
LEMMA ShellOf ==
  ASSUME LockInv, NEW r \in Agents
  PROVE  /\ lane[r] \in Agents /\ Locked(r) \in BOOLEAN /\ Holder(r) \in Pids
         /\ runner[r] \in Shell /\ runner[r].at \in Places
         /\ runner[r].then \in {"down", "loop", "cleanup"}
         /\ dir = [dir EXCEPT ![lane[r]] = Locked(r)]
         /\ pid = [pid EXCEPT ![lane[r]] = Holder(r)]
         /\ Rivals(r) \subseteq Agents
         /\ \A q \in Rivals(r) : lane[q] = lane[r] /\ q # r
<1>1. lane[r] \in Agents /\ runner[r] \in Shell
  BY DEF LockInv, LockTypes
<1>2. Locked(r) \in BOOLEAN /\ dir = [dir EXCEPT ![lane[r]] = Locked(r)]
  BY <1>1 DEF LockInv, LockTypes, Locked
<1>3. Holder(r) \in Pids /\ pid = [pid EXCEPT ![lane[r]] = Holder(r)]
  BY <1>1 DEF LockInv, LockTypes, Holder
<1>4. runner[r].at \in Places /\ runner[r].then \in {"down", "loop", "cleanup"}
  BY <1>1 DEF Shell
<1>. QED
  BY <1>1, <1>2, <1>3, <1>4 DEF Rivals

LEMMA GoesTo ==
  ASSUME LockInv, NEW r \in Agents, NEW p \in Places, GoTo(r, p)
  PROVE  /\ [runner[r] EXCEPT !.at = p] \in Shell
         /\ runner' = [runner EXCEPT ![r] = [runner[r] EXCEPT !.at = p]]
         /\ [runner[r] EXCEPT !.at = p].at = p
         /\ [runner[r] EXCEPT !.at = p].then = runner[r].then
<1>1. runner[r] \in Shell /\ runner \in [Agents -> Shell]
  BY DEF LockInv, LockTypes
<1>. QED
  BY <1>1 DEF GoTo, Shell

LEMMA StartKeeps ==
  ASSUME LockInv, NEW r \in Agents, Start(r)
  PROVE  LockInv'
<1> DEFINE b == TRUE
           p == IF Locked(r) THEN Holder(r) ELSE "none"
           at == IF Locked(r) THEN "readPid" ELSE "writePid"
           s == [runner[r] EXCEPT !.at = at]
<1>1. /\ lane' = lane /\ GoTo(r, at) /\ at \in Places
      /\ dir' = [dir EXCEPT ![lane[r]] = b]
      /\ pid' = [pid EXCEPT ![lane[r]] = p]
  BY ShellOf DEF Start, memoryVars, SetDir, SetPid, Places
<1>2. b \in BOOLEAN /\ p \in Pids /\ p # r
  BY ShellOf, RunnersAssumption DEF Start, Pids, LockInv, PidFile, Holder
<1>3. s \in Shell /\ runner' = [runner EXCEPT ![r] = s] /\ s.at = at
  BY <1>1, GoesTo
<1>4. /\ raced' \in BOOLEAN /\ (raced => raced')
      /\ ~raced' => ~raced /\ \A q \in Rivals(r) : runner[q].at \notin Busy
  BY NoticedMeans DEF Start
<1>5. ASSUME ~raced' PROVE Fits(r, s, b, p)
  BY <1>3 DEF Fits
<1>6. ASSUME ~raced', NEW q \in Rivals(r) PROVE Fits(q, runner[q], b, p)
  <2>1. Fits(q, runner[q], Locked(r), Holder(r)) /\ runner[q].at \notin Busy
    BY <1>4, <1>6, ShellOf DEF LockInv, Orderly, Locked, Holder
  <2>. QED
    BY <2>1, ShellOf DEF Fits, Busy, Places
<1>7. p \in Agents => p \in {r, pid[lane[r]]}
  BY RunnersAssumption DEF Holder
<1>8. /\ ~b => p = "none"
      /\ p = r => s.at \in {"loop", "cycle", "cleanup", "release"}
  BY <1>2
<1>9. ~raced' => /\ Fits(r, s, b, p)
                 /\ \A q \in Rivals(r) : Fits(q, runner[q], b, p)
                 /\ s.at \in Busy => \A q \in Rivals(r) : runner[q].at \notin Busy
  BY <1>4, <1>5, <1>6
<1> HIDE DEF b, p, at, s
<1>. QED
  BY <1>1, <1>2, <1>3, <1>4, <1>7, <1>8, <1>9, LockMoves

LEMMA WritePidKeeps ==
  ASSUME LockInv, NEW r \in Agents, WritePid(r)
  PROVE  LockInv'
<1> DEFINE b == Locked(r)
           p == IF Locked(r) THEN r ELSE Holder(r)
           at == IF Locked(r) THEN "loop" ELSE "down"
           s == [runner[r] EXCEPT !.at = at]
<1>1. /\ lane' = lane /\ GoTo(r, at) /\ at \in Places
      /\ dir' = [dir EXCEPT ![lane[r]] = b]
      /\ pid' = [pid EXCEPT ![lane[r]] = p]
  BY ShellOf DEF WritePid, memoryVars, SetPid, Places
<1>2. b \in BOOLEAN /\ p \in Pids
  BY ShellOf DEF Pids
<1>3. s \in Shell /\ runner' = [runner EXCEPT ![r] = s] /\ s.at = at
  BY <1>1, GoesTo
<1>4. /\ raced' \in BOOLEAN /\ (raced => raced')
      /\ ~raced' => ~raced /\ \A q \in Rivals(r) : runner[q].at \notin Busy
  BY NoticedMeans DEF WritePid
<1>5. (~b => p = "none") /\ (p = r => at = "loop")
  BY ShellOf, RunnersAssumption DEF LockInv, PidFile, Locked, Holder
<1>6. ASSUME ~raced' PROVE Fits(r, s, b, p) /\ b
  <2>1. b
    BY <1>4, <1>6 DEF LockInv, Orderly, Fits, WritePid, Locked
  <2>. QED
    BY <1>3, <2>1 DEF Fits
<1>7. ASSUME ~raced', NEW q \in Rivals(r) PROVE Fits(q, runner[q], b, p)
  <2>1. Fits(q, runner[q], Locked(r), Holder(r)) /\ runner[q].at \notin Busy
    BY <1>4, <1>7, ShellOf DEF LockInv, Orderly, Locked, Holder
  <2>2. Holder(r) = "none"
    BY <1>4, <1>7 DEF LockInv, Orderly, Fits, WritePid, Holder
  <2>3. runner[q].at \notin {"loop", "cycle", "cleanup"}
    BY <2>1, <2>2, ShellOf, RunnersAssumption DEF Fits
  <2>. QED
    BY <2>1, <2>3 DEF Fits, Busy, Places
<1>8. p \in Agents => p \in {r, pid[lane[r]]}
  BY DEF Holder
<1>9. /\ p = r => s.at \in {"loop", "cycle", "cleanup", "release"}
      /\ ~raced' => /\ Fits(r, s, b, p)
                    /\ \A q \in Rivals(r) : Fits(q, runner[q], b, p)
                    /\ s.at \in Busy => \A q \in Rivals(r) : runner[q].at \notin Busy
  BY <1>3, <1>4, <1>5, <1>6, <1>7
<1> HIDE DEF b, p, at, s
<1>. QED
  BY <1>1, <1>2, <1>3, <1>4, <1>5, <1>8, <1>9, LockMoves

LockStays == lane' = lane /\ dir' = dir /\ pid' = pid

\* A runner moves and leaves the lock as it is.
LEMMA ShellMoves ==
  ASSUME LockInv, NEW r \in Agents, NEW s \in Shell,
         LockStays,
         runner' = [runner EXCEPT ![r] = s],
         raced' \in BOOLEAN, raced => raced',
         Mine(r) => s.at \in {"loop", "cycle", "cleanup", "release"},
         ~raced' => /\ Fits(r, s, Locked(r), Holder(r))
                    /\ s.at \in Busy => \A q \in Rivals(r) : runner[q].at \notin Busy
  PROVE  LockInv'
<1> DEFINE b == Locked(r)
           p == Holder(r)
<1>1. /\ b \in BOOLEAN /\ p \in Pids /\ lane' = lane
      /\ dir' = [dir EXCEPT ![lane[r]] = b]
      /\ pid' = [pid EXCEPT ![lane[r]] = p]
  BY ShellOf DEF LockStays
<1>2. ~b => p = "none"
  BY ShellOf DEF LockInv, PidFile, Locked, Holder
<1>3. /\ p \in Agents => p \in {r, pid[lane[r]]}
      /\ p = r => s.at \in {"loop", "cycle", "cleanup", "release"}
  BY DEF Holder, Mine
<1>4. ~raced' => /\ Fits(r, s, b, p)
                 /\ \A q \in Rivals(r) : Fits(q, runner[q], b, p)
                 /\ s.at \in Busy => \A q \in Rivals(r) : runner[q].at \notin Busy
  BY ShellOf DEF LockInv, Orderly, Locked, Holder
<1> HIDE DEF b, p
<1>. QED
  BY <1>1, <1>2, <1>3, <1>4, LockMoves

LEMMA ReadPidKeeps ==
  ASSUME LockInv, NEW r \in Agents, ReadPid(r)
  PROVE  LockInv'
<1> DEFINE at == IF Alive(Holder(r)) THEN "down" ELSE "remove"
           s == [runner[r] EXCEPT !.at = at]
<1>1. LockStays /\ GoTo(r, at) /\ at \in Places
  BY DEF ReadPid, memoryVars, Places, LockStays
<1>2. s \in Shell /\ runner' = [runner EXCEPT ![r] = s] /\ s.at = at
  BY <1>1, GoesTo
<1>3. /\ raced' \in BOOLEAN /\ (raced => raced')
      /\ ~raced' => ~raced /\ \A q \in Rivals(r) : runner[q].at \notin Busy
  BY NoticedMeans DEF ReadPid
<1>4. ~Mine(r)
  BY ShellOf DEF Mine, Holder, LockInv, PidFile, ReadPid
<1>5. at = "remove" => Holder(r) \notin Agents
  BY ShellOf DEF Alive, Up, Holder, LockInv, PidFile
<1>6. ~raced' => /\ Fits(r, s, Locked(r), Holder(r))
                 /\ s.at \in Busy => \A q \in Rivals(r) : runner[q].at \notin Busy
  BY <1>2, <1>3, <1>5 DEF Fits
<1> HIDE DEF at, s
<1>. QED
  BY <1>1, <1>2, <1>3, <1>4, <1>6, ShellMoves

LEMMA RemoveLockKeeps ==
  ASSUME LockInv, NEW r \in Agents, RemoveLock(r)
  PROVE  LockInv'
<1> DEFINE s == [runner[r] EXCEPT !.at = "remake"]
<1>1. /\ lane' = lane /\ GoTo(r, "remake") /\ "remake" \in Places
      /\ dir' = [dir EXCEPT ![lane[r]] = FALSE]
      /\ pid' = [pid EXCEPT ![lane[r]] = "none"]
  BY DEF RemoveLock, memoryVars, SetDir, SetPid, Places
<1>2. s \in Shell /\ runner' = [runner EXCEPT ![r] = s] /\ s.at = "remake"
  BY <1>1, GoesTo
<1>3. /\ raced' \in BOOLEAN /\ (raced => raced')
      /\ ~raced' => ~raced /\ \A q \in Rivals(r) : runner[q].at \notin Busy
  BY NoticedMeans DEF RemoveLock
<1>4. "none" \in Pids /\ FALSE \in BOOLEAN /\ "none" \notin Agents
  BY RunnersAssumption DEF Pids
<1>5. ~raced' => Fits(r, s, FALSE, "none")
  BY <1>2 DEF Fits
<1>6. ASSUME ~raced', NEW q \in Rivals(r) PROVE Fits(q, runner[q], FALSE, "none")
  <2>1. Fits(q, runner[q], Locked(r), Holder(r)) /\ runner[q].at \notin Busy
    BY <1>3, <1>6, ShellOf DEF LockInv, Orderly, Locked, Holder
  <2>2. Holder(r) \notin Agents
    BY <1>3, <1>6 DEF LockInv, Orderly, Fits, RemoveLock, Holder
  <2>3. runner[q].at \notin {"loop", "cycle", "cleanup"}
    BY <2>1, <2>2, ShellOf DEF Fits
  <2>. QED
    BY <2>1, <2>3 DEF Fits, Busy, Places
<1>7. /\ ~FALSE => "none" = "none"
      /\ "none" \in Agents => "none" \in {r, pid[lane[r]]}
      /\ "none" = r => s.at \in {"loop", "cycle", "cleanup", "release"}
      /\ ~raced' => /\ Fits(r, s, FALSE, "none")
                    /\ \A q \in Rivals(r) : Fits(q, runner[q], FALSE, "none")
                    /\ s.at \in Busy => \A q \in Rivals(r) : runner[q].at \notin Busy
  BY <1>3, <1>4, <1>5, <1>6
<1> HIDE DEF s
<1>. QED
  BY <1>1, <1>2, <1>3, <1>4, <1>7, LockMoves

LEMMA RemakeLockKeeps ==
  ASSUME LockInv, NEW r \in Agents, RemakeLock(r)
  PROVE  LockInv'
<1> DEFINE p == Holder(r)
           at == IF Locked(r) THEN "down" ELSE "writePid"
           s == [runner[r] EXCEPT !.at = at]
<1>1. /\ lane' = lane /\ GoTo(r, at) /\ at \in Places
      /\ dir' = [dir EXCEPT ![lane[r]] = TRUE]
      /\ pid' = [pid EXCEPT ![lane[r]] = p]
  BY ShellOf DEF RemakeLock, memoryVars, SetDir, Places
<1>2. p \in Pids /\ p # r /\ TRUE \in BOOLEAN
  BY ShellOf DEF RemakeLock, Holder, LockInv, PidFile
<1>3. s \in Shell /\ runner' = [runner EXCEPT ![r] = s] /\ s.at = at
  BY <1>1, GoesTo
<1>4. /\ raced' \in BOOLEAN /\ (raced => raced')
      /\ ~raced' => ~raced /\ \A q \in Rivals(r) : runner[q].at \notin Busy
  BY NoticedMeans DEF RemakeLock
<1>5. ~Locked(r) => p = "none"
  BY ShellOf DEF LockInv, PidFile, Locked, Holder
<1>6. ~raced' => Fits(r, s, TRUE, p)
  BY <1>3, <1>5 DEF Fits
<1>7. ASSUME ~raced', NEW q \in Rivals(r) PROVE Fits(q, runner[q], TRUE, p)
  <2>1. Fits(q, runner[q], Locked(r), Holder(r)) /\ runner[q].at \notin Busy
    BY <1>4, <1>7, ShellOf DEF LockInv, Orderly, Locked, Holder
  <2>. QED
    BY <2>1 DEF Fits, Busy, Places
<1>8. /\ ~TRUE => p = "none"
      /\ p \in Agents => p \in {r, pid[lane[r]]}
      /\ p = r => s.at \in {"loop", "cycle", "cleanup", "release"}
      /\ ~raced' => /\ Fits(r, s, TRUE, p)
                    /\ \A q \in Rivals(r) : Fits(q, runner[q], TRUE, p)
                    /\ s.at \in Busy => \A q \in Rivals(r) : runner[q].at \notin Busy
  BY <1>2, <1>4, <1>6, <1>7 DEF Holder
<1> HIDE DEF p, at, s
<1>. QED
  BY <1>1, <1>2, <1>3, <1>4, <1>8, LockMoves

\* Exits and Trapped.
LEMMA LeaveKeeps ==
  ASSUME LockInv, NEW r \in Agents, Exits(r) \/ Trapped(r)
  PROVE  LockInv'
<1>1. CASE Exits(r)
  <2>1. /\ LockStays /\ Noticed(r)
        /\ runner' = [runner EXCEPT ![r] = [at |-> "release", then |-> "down"]]
    BY <1>1 DEF Exits, Leave, LockStays
  <2>2. [at |-> "release", then |-> "down"] \in Shell
    BY DEF Shell, Places
  <2>3. /\ raced' \in BOOLEAN /\ (raced => raced')
        /\ ~raced' => ~raced /\ \A q \in Rivals(r) : runner[q].at \notin Busy
    BY <2>1, NoticedMeans
  <2>4. Fits(r, [at |-> "release", then |-> "down"], Locked(r), Holder(r))
    BY DEF Fits
  <2>. QED
    BY <2>1, <2>2, <2>3, <2>4, ShellMoves
<1>2. CASE Trapped(r)
  <2>1. /\ LockStays /\ raced' = TRUE
        /\ runner[r].at \in {"loop", "cleanup"}
        /\ runner' = [runner EXCEPT ![r] = [at |-> "release", then |-> runner[r].at]]
    BY <1>2 DEF Trapped, Leave, LockStays
  <2>2. [at |-> "release", then |-> runner[r].at] \in Shell
    BY <2>1 DEF Shell, Places
  <2>. QED
    BY <2>1, <2>2, ShellMoves
<1>. QED
  BY <1>1, <1>2

LEMMA ReleasePidKeeps ==
  ASSUME LockInv, NEW r \in Agents, ReleasePid(r)
  PROVE  LockInv'
<1> DEFINE mine == Locked(r) /\ Mine(r)
           b == Locked(r)
           p == IF mine THEN "none" ELSE Holder(r)
           at == IF mine THEN "rmdir" ELSE runner[r].then
           s == [runner[r] EXCEPT !.at = at]
<1>1. /\ lane' = lane /\ GoTo(r, at) /\ at \in Places
      /\ dir' = [dir EXCEPT ![lane[r]] = b]
      /\ pid' = [pid EXCEPT ![lane[r]] = p]
  BY ShellOf DEF ReleasePid, memoryVars, SetPid, Places
<1>2. b \in BOOLEAN /\ p \in Pids
  BY ShellOf DEF Pids
<1>3. /\ s \in Shell /\ runner' = [runner EXCEPT ![r] = s]
      /\ s.at = at /\ s.then = runner[r].then
  BY <1>1, GoesTo
<1>4. /\ raced' \in BOOLEAN /\ (raced => raced')
      /\ ~raced' => ~raced /\ \A q \in Rivals(r) : runner[q].at \notin Busy
  BY NoticedMeans DEF ReleasePid
<1>5. (~b => p = "none") /\ p # r
  BY ShellOf, RunnersAssumption DEF LockInv, PidFile, Locked, Holder, Mine
<1>6. ASSUME ~raced' PROVE Fits(r, s, b, p)
  <2>1. runner[r].then = "down"
    BY <1>4, <1>6 DEF LockInv, Orderly, Fits, ReleasePid
  <2>. QED
    BY <1>3, <2>1 DEF Fits
<1>7. ASSUME ~raced', NEW q \in Rivals(r) PROVE Fits(q, runner[q], b, p)
  <2>1. Fits(q, runner[q], Locked(r), Holder(r)) /\ runner[q].at \notin Busy
    BY <1>4, <1>7, ShellOf DEF LockInv, Orderly, Locked, Holder
  <2>. QED
    BY <2>1, ShellOf DEF Fits, Busy, Places, Mine
<1>8. p \in Agents => p \in {r, pid[lane[r]]}
  BY RunnersAssumption DEF Holder
<1>9. /\ p = r => s.at \in {"loop", "cycle", "cleanup", "release"}
      /\ ~raced' => /\ Fits(r, s, b, p)
                    /\ \A q \in Rivals(r) : Fits(q, runner[q], b, p)
                    /\ s.at \in Busy => \A q \in Rivals(r) : runner[q].at \notin Busy
  BY <1>4, <1>5, <1>6, <1>7
<1> HIDE DEF mine, b, p, at, s
<1>. QED
  BY <1>1, <1>2, <1>3, <1>4, <1>5, <1>8, <1>9, LockMoves

LEMMA RmdirKeeps ==
  ASSUME LockInv, NEW r \in Agents, Rmdir(r)
  PROVE  LockInv'
<1> DEFINE b == Locked(r) /\ Holder(r) # "none"
           p == Holder(r)
           at == runner[r].then
           s == [runner[r] EXCEPT !.at = at]
<1>1. /\ lane' = lane /\ GoTo(r, at) /\ at \in Places
      /\ dir' = [dir EXCEPT ![lane[r]] = b]
      /\ pid' = [pid EXCEPT ![lane[r]] = p]
  BY ShellOf DEF Rmdir, memoryVars, SetDir, Places
<1>2. b \in BOOLEAN /\ p \in Pids /\ p # r
  BY ShellOf DEF LockInv, PidFile, Rmdir, Holder
<1>3. /\ s \in Shell /\ runner' = [runner EXCEPT ![r] = s]
      /\ s.at = at /\ s.then = runner[r].then
  BY <1>1, GoesTo
<1>4. /\ raced' \in BOOLEAN /\ (raced => raced')
      /\ ~raced' => ~raced /\ \A q \in Rivals(r) : runner[q].at \notin Busy
  BY NoticedMeans DEF Rmdir
<1>5. ~b => p = "none"
  BY ShellOf DEF LockInv, PidFile, Locked, Holder
<1>6. ASSUME ~raced' PROVE Fits(r, s, b, p)
  <2>1. runner[r].then = "down"
    BY <1>4, <1>6 DEF LockInv, Orderly, Fits, Rmdir
  <2>. QED
    BY <1>3, <2>1 DEF Fits
<1>7. ASSUME ~raced', NEW q \in Rivals(r) PROVE Fits(q, runner[q], b, p)
  <2>1. Fits(q, runner[q], Locked(r), Holder(r)) /\ runner[q].at \notin Busy
    BY <1>4, <1>7, ShellOf DEF LockInv, Orderly, Locked, Holder
  <2>2. Holder(r) = "none"
    BY <1>4, <1>7 DEF LockInv, Orderly, Fits, Rmdir, Holder
  <2>3. runner[q].at \notin {"loop", "cycle", "cleanup"}
    BY <2>1, <2>2, ShellOf, RunnersAssumption DEF Fits
  <2>. QED
    BY <2>1, <2>3 DEF Fits, Busy, Places
<1>8. /\ p \in Agents => p \in {r, pid[lane[r]]}
      /\ p = r => s.at \in {"loop", "cycle", "cleanup", "release"}
      /\ ~raced' => /\ Fits(r, s, b, p)
                    /\ \A q \in Rivals(r) : Fits(q, runner[q], b, p)
                    /\ s.at \in Busy => \A q \in Rivals(r) : runner[q].at \notin Busy
  BY <1>2, <1>4, <1>6, <1>7 DEF Holder
<1> HIDE DEF b, p, at, s
<1>. QED
  BY <1>1, <1>2, <1>3, <1>4, <1>5, <1>8, LockMoves

\* BeginCycle, EndWork and CleanupCycle: within the loop.
LEMMA CycleKeeps ==
  ASSUME LockInv, NEW r \in Agents, BeginCycle(r) \/ EndWork(r) \/ CleanupCycle(r)
  PROVE  LockInv'
<1>1. PICK at \in {"loop", "cycle", "cleanup"} : GoTo(r, at)
  BY DEF BeginCycle, EndWork, CleanupCycle
<1>2. LockStays /\ raced' = raced /\ runner[r].at \in {"loop", "cycle", "cleanup"}
  BY DEF BeginCycle, EndWork, CleanupCycle, LockStays, memoryVars
<1> DEFINE s == [runner[r] EXCEPT !.at = at]
<1>3. s \in Shell /\ runner' = [runner EXCEPT ![r] = s] /\ s.at = at
  <2>1. at \in Places
    BY <1>1 DEF Places
  <2>. QED
    BY <1>1, <2>1, GoesTo
<1>4. raced' \in BOOLEAN
  BY <1>2 DEF LockInv, LockTypes
<1>5. ~raced' => Fits(r, runner[r], Locked(r), Holder(r))
  BY <1>2 DEF LockInv, Orderly, Locked, Holder
<1>6. ~raced' => Fits(r, s, Locked(r), Holder(r))
  BY <1>1, <1>2, <1>3, <1>5 DEF Fits
<1>7. /\ Mine(r) => s.at \in {"loop", "cycle", "cleanup", "release"}
      /\ ~raced' => /\ Fits(r, s, Locked(r), Holder(r))
                    /\ s.at \in Busy => \A q \in Rivals(r) : runner[q].at \notin Busy
  BY <1>1, <1>3, <1>6 DEF Busy
<1> HIDE DEF s
<1>. QED
  BY <1>2, <1>3, <1>4, <1>7, ShellMoves

LEMMA CrashKeeps ==
  ASSUME LockInv, NEW r \in Agents, Crash(r)
  PROVE  LockInv'
<1> DEFINE b == Locked(r)
           p == IF Mine(r) THEN "dead" ELSE Holder(r)
           s == [at |-> "down", then |-> "down"]
<1>1. /\ lane' = lane /\ raced' = raced
      /\ dir' = [dir EXCEPT ![lane[r]] = b]
      /\ pid' = [pid EXCEPT ![lane[r]] = p]
      /\ runner' = [runner EXCEPT ![r] = s]
  BY ShellOf DEF Crash, SetPid
<1>2. b \in BOOLEAN /\ p \in Pids /\ p # r /\ s \in Shell
  BY ShellOf, RunnersAssumption DEF Pids, Shell, Places, Mine
<1>3. raced' \in BOOLEAN /\ (raced => raced')
  BY <1>1 DEF LockInv, LockTypes
<1>4. ~b => p = "none"
  BY ShellOf, RunnersAssumption DEF LockInv, PidFile, Locked, Holder, Mine
<1>5. Fits(r, s, b, p) /\ s.at \notin Busy
  BY DEF Fits, Busy
<1>6. ASSUME ~raced', NEW q \in Rivals(r) PROVE Fits(q, runner[q], b, p)
  <2>1. Fits(q, runner[q], Locked(r), Holder(r))
    BY <1>1, <1>6, ShellOf DEF LockInv, Orderly, Locked, Holder
  <2>2. Mine(r) => runner[q].at \notin {"loop", "cycle", "cleanup", "writePid", "rmdir"}
    BY <2>1, ShellOf, RunnersAssumption DEF Fits, Mine
  <2>. QED
    BY <2>1, <2>2, RunnersAssumption DEF Fits
<1>7. /\ p \in Agents => p \in {r, pid[lane[r]]}
      /\ p = r => s.at \in {"loop", "cycle", "cleanup", "release"}
      /\ ~raced' => /\ Fits(r, s, b, p)
                    /\ \A q \in Rivals(r) : Fits(q, runner[q], b, p)
                    /\ s.at \in Busy => \A q \in Rivals(r) : runner[q].at \notin Busy
  BY <1>2, <1>5, <1>6, RunnersAssumption DEF Holder
<1> HIDE DEF b, p, s
<1>. QED
  BY <1>1, <1>2, <1>3, <1>4, <1>7, LockMoves

\* The steps within a checkout, and those that change nothing.
LEMMA LockUntouched ==
  ASSUME LockInv, LockStays, UNCHANGED <<runner, raced>>
  PROVE  LockInv'
BY DEF LockInv, LockTypes, LockStays, PidFile, Orderly, Fits, Rivals

LEMMA WorkKeeps ==
  ASSUME LockInv, NEW r \in Agents, Work(r)
  PROVE  LockInv'
<1>1. UNCHANGED lockVars
  BY DEF Work
<1>2. lane' = lane
  BY DEF Work, AgentStep, AddEntry, Bootstrap, Compact, Writes, SyncNothing, memoryVars,
         SyncCommit, Push, PushOwn, PushRejected, AttemptsExhausted, CommitsStay,
         GitFails, RebaseAborted, RebaseStops, RebaseFails, Rebase
<1>. QED
  BY <1>1, <1>2, LockUntouched DEF lockVars, LockStays

LEMMA LockStep_ == LockInv /\ [Next]_vars => LockInv'
<1> SUFFICES ASSUME LockInv, [Next]_vars PROVE LockInv'
  OBVIOUS
<1>1. ASSUME NEW r \in Agents, LockStep(r) PROVE LockInv'
  BY <1>1, StartKeeps, WritePidKeeps, ReadPidKeeps, RemoveLockKeeps, RemakeLockKeeps,
     LeaveKeeps, ReleasePidKeeps, RmdirKeeps, CycleKeeps DEF LockStep
<1>2. CASE UNCHANGED vars
  BY <1>2, LockUntouched DEF vars, memoryVars, lockVars, LockStays
<1>. QED
  BY <1>1, <1>2, WorkKeeps, CrashKeeps DEF Next

LEMMA LockHolds == Spec => []LockInv
<1>. QED
  BY LockStarts, LockStep_, PTL DEF Spec

\* As long as no two runners of a lane acquired or released its lock at once, and
\* none was signalled and went on, at most one of them works: however they start,
\* exit, crash and take over what others left, for any number of them.
THEOREM OneRunnerWorks == Spec => []OneRunner
<1>1. LockInv => OneRunner
  <2> SUFFICES ASSUME LockInv, ~raced, NEW r \in Agents, Working(r),
                      NEW q \in Rivals(r), Working(q)
               PROVE  FALSE
    BY DEF OneRunner
  <2>1. Holder(r) = r
    BY DEF LockInv, Orderly, Fits, Working, Holder
  <2>2. Holder(r) = q /\ q # r
    BY ShellOf DEF LockInv, Orderly, Fits, Working, Holder
  <2>. QED
    BY <2>1, <2>2
<1>. QED
  BY <1>1, LockHolds, PTL

-----------------------------------------------------------------------------
(* What may go wrong is counted down.                                      *)

CountsDown == \/ faults' = faults
              \/ faults > 0 /\ faults' = faults - 1

LEMMA FaultsInWork ==
  ASSUME NEW a \in Agents, AgentStep(a)
  PROVE  CountsDown
<1>1. ASSUME NEW trees, NEW mine, Writes(a, trees, mine) PROVE CountsDown
  <2>1. PICK k \in 1..Len(trees) :
           /\ k < Len(trees) => faults > 0
           /\ faults' = IF k < Len(trees) THEN faults - 1 ELSE faults
    BY <1>1 DEF Writes
  <2>. QED
    BY <2>1 DEF CountsDown
<1>2. ASSUME NEW l \in Lines, AddEntry(a, l) PROVE CountsDown
  BY <1>1, <1>2 DEF AddEntry
<1>3. ASSUME NEW m \in Months, Bootstrap(a, m) PROVE CountsDown
  BY <1>1, <1>3 DEF Bootstrap
<1>4. ASSUME NEW b \in BOOLEAN, Compact(a, b) PROVE CountsDown
  BY <1>1, <1>4 DEF Compact
<1>5. ASSUME NEW target \in Targets, SyncCommit(a, target) PROVE CountsDown
  BY <1>5 DEF SyncCommit, CountsDown
<1>. QED
  BY <1>2, <1>3, <1>4, <1>5 DEF AgentStep, SyncNothing, memoryVars, Push, PushOwn,
     PushRejected, AttemptsExhausted, GitFails, RebaseAborted, RebaseStops, RebaseFails,
     Rebase, CountsDown

LEMMA FaultsHold == Spec => [](faults \in Nat)
<1>1. Init => faults \in Nat
  BY SyncAssumption DEF Init, MemoryInit
<1>2. faults \in Nat /\ [Next]_vars => (faults \in Nat)'
  <2> SUFFICES ASSUME faults \in Nat, [Next]_vars PROVE CountsDown
    BY DEF CountsDown
  <2>1. ASSUME NEW r \in Agents, BeginCycle(r) PROVE CountsDown
    <3>1. PICK fetches \in {TRUE} \union IF faults > 0 THEN {FALSE} ELSE {} :
             faults' = IF fetches THEN faults ELSE faults - 1
      BY <2>1 DEF BeginCycle
    <3>. QED
      BY <3>1 DEF CountsDown
  <2>2. ASSUME NEW r \in Agents, LockStep(r) PROVE CountsDown
    BY <2>1, <2>2 DEF LockStep, Start, WritePid, ReadPid, RemoveLock, RemakeLock, Exits,
       Trapped, Leave, ReleasePid, Rmdir, EndWork, CleanupCycle, memoryVars, CountsDown
  <2>3. ASSUME NEW r \in Agents, Work(r) PROVE CountsDown
    BY <2>3, FaultsInWork DEF Work
  <2>4. ASSUME NEW r \in Agents, Crash(r) PROVE CountsDown
    BY <2>4 DEF Crash, CountsDown
  <2>5. CASE UNCHANGED vars
    BY <2>5 DEF vars, memoryVars, CountsDown
  <2>. QED
    BY <2>2, <2>3, <2>4, <2>5 DEF Next
<1>. QED
  BY <1>1, <1>2, PTL DEF Spec

-----------------------------------------------------------------------------
(* What a crash left of the lock does not keep a runner out.               *)

\* A runner that acquires the lock alone goes on to its next step.
LEMMA AcquiresOn ==
  ASSUME LockInv, ~raced, NEW r \in Agents, \A q \in Rivals(r) : ~Up(q),
         WritePid(r) \/ ReadPid(r) \/ RemoveLock(r) \/ RemakeLock(r)
  PROVE  runner'[r].at # "down"
<1>1. /\ Fits(r, runner[r], Locked(r), Holder(r))
      /\ runner \in [Agents -> Shell]
  BY DEF LockInv, LockTypes, Orderly, Locked, Holder
<1>2. \A p \in Places : GoTo(r, p) => runner'[r].at = p
  BY <1>1 DEF GoTo, Shell
<1>3. CASE WritePid(r)
  <2>1. GoTo(r, "loop")
    BY <1>1, <1>3 DEF WritePid, Fits
  <2>. QED
    BY <1>2, <2>1 DEF Places
<1>4. CASE ReadPid(r)
  <2>1. ~Alive(Holder(r))
    <3> SUFFICES ASSUME Alive(Holder(r)) PROVE FALSE
      OBVIOUS
    <3>1. Holder(r) \in Agents /\ Up(Holder(r)) /\ lane[Holder(r)] = lane[r]
      BY ShellOf DEF Alive, LockInv, PidFile, Holder
    <3>2. Holder(r) # r
      BY <1>4, ShellOf DEF LockInv, PidFile, Holder, ReadPid
    <3>. QED
      BY <3>1, <3>2 DEF Rivals
  <2>2. GoTo(r, "remove")
    BY <1>4, <2>1 DEF ReadPid
  <2>. QED
    BY <1>2, <2>2 DEF Places
<1>5. CASE RemoveLock(r)
  BY <1>2, <1>5 DEF RemoveLock, Places
<1>6. CASE RemakeLock(r)
  <2>1. GoTo(r, "writePid")
    BY <1>1, <1>6 DEF RemakeLock, Fits
  <2>. QED
    BY <1>2, <2>1 DEF Places
<1>. QED
  BY <1>3, <1>4, <1>5, <1>6

\* Whatever a crash left of the lock, a runner that starts alone is not turned away
\* at any command of acquire_lock: as long as nothing fails and no two of its lane
\* ever overlapped, it goes on to the loop.
THEOREM LockIsRecoverable == Spec => LockRecoverable
<1> DEFINE Alone(r) == /\ runner[r].at \in {"writePid", "readPid", "remove", "remake"}
                       /\ \A q \in Rivals(r) : ~Up(q)
                       /\ ~raced /\ faults' = faults
           Stays == \A r \in Agents : Alone(r) => Up(r)'
<1>1. ASSUME LockInv, faults \in Nat, [Next]_vars PROVE Stays
  <2> SUFFICES ASSUME NEW r \in Agents, Alone(r) PROVE runner'[r].at # "down"
    BY DEF Up
  <2>1. /\ runner \in [Agents -> Shell]
        /\ runner[r].at \in {"writePid", "readPid", "remove", "remake"}
        /\ \A q \in Rivals(r) : ~Up(q)
        /\ ~raced /\ faults' = faults
    BY <1>1 DEF LockInv, LockTypes
  <2>2. CASE \E q \in Agents \ {r} : \E s : runner' = [runner EXCEPT ![q] = s]
    BY <2>1, <2>2
  <2>3. CASE UNCHANGED runner
    BY <2>1, <2>3
  <2>4. CASE \E q \in Agents : LockStep(q)
    <3>1. PICK q \in Agents : LockStep(q)
      BY <2>4
    <3>2. CASE q = r
      <4>1. ~Exits(r) /\ ~Trapped(r) /\ ~Start(r) /\ ~ReleasePid(r) /\ ~Rmdir(r)
        BY <2>1 DEF Exits, Trapped, Start, ReleasePid, Rmdir
      <4>2. ~BeginCycle(r) /\ ~EndWork(r) /\ ~CleanupCycle(r)
        BY <2>1 DEF BeginCycle, EndWork, CleanupCycle
      <4>. QED
        BY <1>1, <2>1, <3>1, <3>2, <4>1, <4>2, AcquiresOn DEF LockStep
    <3>3. CASE q # r
      <4>1. \E s : runner' = [runner EXCEPT ![q] = s]
        BY <3>1 DEF LockStep, Start, WritePid, ReadPid, RemoveLock, RemakeLock, Exits,
             Trapped, Leave, ReleasePid, Rmdir, BeginCycle, EndWork, CleanupCycle, GoTo
      <4>. QED
        BY <2>2, <3>3, <4>1
    <3>. QED
      BY <3>2, <3>3
  <2>5. CASE \E q \in Agents : Work(q)
    BY <2>3, <2>5 DEF Work, lockVars
  <2>6. CASE \E q \in Agents : Crash(q)
    <3>1. PICK q \in Agents : Crash(q)
      BY <2>6
    <3>2. CASE q = r
      <4>1. faults > 0 /\ faults' = faults - 1
        BY <3>1 DEF Crash
      <4>. QED
        BY <1>1, <2>1, <4>1
    <3>3. CASE q # r
      BY <2>2, <3>1, <3>3 DEF Crash
    <3>. QED
      BY <3>2, <3>3
  <2>7. CASE UNCHANGED vars
    BY <2>3, <2>7 DEF vars, lockVars
  <2>. QED
    BY <1>1, <2>4, <2>5, <2>6, <2>7 DEF Next
<1>. QED
  BY <1>1, LockHolds, FaultsHold, PTL DEF Spec, LockRecoverable

-----------------------------------------------------------------------------
(* The trees of the workflow memory: what each script leaves of the files. *)

LEMMA TreeFields ==
  ASSUME NEW t \in Tree
  PROVE  /\ t.log \in [Months -> SUBSET Lines] /\ t.archive \in [Months -> SUBSET Lines]
         /\ t.index \subseteq Row /\ t.summary \in [Months -> Summary]
         /\ t.torn \in BOOLEAN /\ t.composed \subseteq Months
BY DEF Tree

SameSummaries(t, u) == u.summary = t.summary /\ u.composed = t.composed

\* A tree u that differs from t in one of its files.
LEMMA LogWritten ==
  ASSUME NEW t \in Tree, NEW log \in [Months -> SUBSET Lines]
  PROVE  LET u == [t EXCEPT !.log = log]
         IN  /\ u \in Tree /\ u.log = log
             /\ u.archive = t.archive /\ u.index = t.index /\ u.torn = t.torn
             /\ SameSummaries(t, u)
BY DEF Tree, SameSummaries

LEMMA ArchiveWritten ==
  ASSUME NEW t \in Tree, NEW archive \in [Months -> SUBSET Lines]
  PROVE  LET u == [t EXCEPT !.archive = archive]
         IN  /\ u \in Tree /\ u.archive = archive
             /\ u.log = t.log /\ u.index = t.index /\ u.torn = t.torn
             /\ SameSummaries(t, u)
BY DEF Tree, SameSummaries

LEMMA IndexWritten ==
  ASSUME NEW t \in Tree, NEW index \in SUBSET Row
  PROVE  LET u == [t EXCEPT !.index = index]
         IN  /\ u \in Tree /\ u.index = index
             /\ u.log = t.log /\ u.archive = t.archive /\ u.torn = t.torn
             /\ SameSummaries(t, u)
BY DEF Tree, SameSummaries

\* A file in which no two entries have one identifier.
Distinct(S) == \A k, l \in S : k.id = l.id => k = l

LEMMA RowOf ==
  \A l \in Lines :
    /\ IndexRow(l) \in Row /\ l.month \in Months
    /\ IndexRow(l).id = l.id /\ IndexRow(l).month = l.month
    /\ FirstRow(l) \in Row /\ l.file \in Months
    /\ FirstRow(l).id = l.id /\ FirstRow(l).month = l.file
BY StoreAssumption DEF Line, Row, IndexRow, FirstRow

\* An event whose identifier is of no stray was filed under its date.
LEMMA NotAstray ==
  ASSUME NEW l \in Lines, l.id \notin Strays
  PROVE  l.file = l.month
BY DEF Strays, Ids

LEMMA DistinctRows ==
  ASSUME NEW S \in SUBSET Lines, Distinct(S)
  PROVE  Distinct({IndexRow(l) : l \in S}) /\ Distinct({FirstRow(l) : l \in S})
BY RowOf DEF Distinct

LEMMA AppendedIs ==
  ASSUME NEW t \in Tree, NEW l \in Lines
  PROVE  LET u == Appended(t, l)
         IN  /\ u \in Tree /\ u.log = [t.log EXCEPT ![l.file] = @ \union {l}]
             /\ u.archive = t.archive /\ u.index = t.index /\ u.torn = t.torn
             /\ SameSummaries(t, u)
<1> DEFINE log == [t.log EXCEPT ![l.file] = @ \union {l}]
<1>1. log \in [Months -> SUBSET Lines]
  BY TreeFields, RowOf
<1>2. Appended(t, l) = [t EXCEPT !.log = log]
  BY DEF Appended
<1> HIDE DEF log
<1>3. LET u == [t EXCEPT !.log = log]
      IN  /\ u \in Tree /\ u.log = log
          /\ u.archive = t.archive /\ u.index = t.index /\ u.torn = t.torn
          /\ SameSummaries(t, u)
  BY <1>1, LogWritten
<1>. QED
  BY <1>2, <1>3 DEF log

LEMMA SeededIs ==
  ASSUME NEW t \in Tree, NEW m \in Months, NEW S \in SUBSET Lines
  PROVE  LET u == Seeded(t, m, S)
         IN  /\ u \in Tree /\ u.log = [t.log EXCEPT ![m] = @ \union S]
             /\ u.archive = t.archive /\ u.index = t.index /\ u.torn = t.torn
             /\ SameSummaries(t, u)
<1> DEFINE log == [t.log EXCEPT ![m] = @ \union S]
<1>1. log \in [Months -> SUBSET Lines]
  BY TreeFields
<1>2. Seeded(t, m, S) = [t EXCEPT !.log = log]
  BY DEF Seeded
<1> HIDE DEF log
<1>3. LET u == [t EXCEPT !.log = log]
      IN  /\ u \in Tree /\ u.log = log
          /\ u.archive = t.archive /\ u.index = t.index /\ u.torn = t.torn
          /\ SameSummaries(t, u)
  BY <1>1, LogWritten
<1>. QED
  BY <1>2, <1>3 DEF log

LEMMA IndexedIs ==
  ASSUME NEW t \in Tree, NEW S \in SUBSET Lines
  PROVE  LET u == Indexed(t, S)
         IN  /\ u \in Tree
             /\ u.index = {FirstRow(l) : l \in S} \union {r \in t.index : r.id \notin Ids(S)}
             /\ u.log = t.log /\ u.archive = t.archive /\ u.torn = t.torn
             /\ SameSummaries(t, u)
<1> DEFINE index == {FirstRow(l) : l \in S} \union {r \in t.index : r.id \notin Ids(S)}
<1>1. index \in SUBSET Row
  BY TreeFields, RowOf
<1>2. Indexed(t, S) = [t EXCEPT !.index = index]
  BY DEF Indexed
<1> HIDE DEF index
<1>3. LET u == [t EXCEPT !.index = index]
      IN  /\ u \in Tree /\ u.index = index
          /\ u.log = t.log /\ u.archive = t.archive /\ u.torn = t.torn
          /\ SameSummaries(t, u)
  BY <1>1, IndexWritten
<1>. QED
  BY <1>2, <1>3 DEF index

LEMMA RefreshedIs ==
  ASSUME NEW t \in Tree, NEW ms
  PROVE  LET u == Refreshed(t, ms)
         IN  /\ u \in Tree
             /\ u.log = t.log /\ u.archive = t.archive /\ u.index = t.index
             /\ u.torn = t.torn /\ u.composed = t.composed \ ms
             /\ \A m \in Months :
                  u.summary[m] = IF m \in ms THEN [made |-> TRUE, of |-> t.log[m]]
                                             ELSE t.summary[m]
<1> DEFINE summary == [m \in Months |->
                         IF m \in ms THEN [made |-> TRUE, of |-> t.log[m]]
                                     ELSE t.summary[m]]
           composed == t.composed \ ms
<1>1. summary \in [Months -> Summary] /\ composed \subseteq Months
  BY TreeFields DEF Summary
<1>2. Refreshed(t, ms) = [t EXCEPT !.summary = summary, !.composed = composed]
  BY DEF Refreshed
<1>3. \A m \in Months :
        summary[m] = IF m \in ms THEN [made |-> TRUE, of |-> t.log[m]]
                                 ELSE t.summary[m]
  OBVIOUS
<1> DEFINE u == Refreshed(t, ms)
<1> HIDE DEF summary, composed
<1>4. /\ u \in Tree
      /\ u.log = t.log /\ u.archive = t.archive /\ u.index = t.index
      /\ u.torn = t.torn /\ u.composed = composed /\ u.summary = summary
  BY <1>1, <1>2 DEF Tree
<1> HIDE DEF u
<1>. QED
  BY <1>3, <1>4 DEF composed, u

LEMMA UnrenderedIs ==
  ASSUME NEW t \in Tree, NEW ms \in SUBSET Months
  PROVE  LET u == Unrendered(t, ms)
         IN  /\ u \in Tree
             /\ u.log = t.log /\ u.archive = t.archive /\ u.index = t.index
             /\ u.torn = t.torn /\ u.summary = t.summary
             /\ u.composed = t.composed \union ms
<1> DEFINE composed == t.composed \union ms
<1>1. composed \subseteq Months
  BY TreeFields
<1>2. Unrendered(t, ms) = [t EXCEPT !.composed = composed]
  BY DEF Unrendered
<1> HIDE DEF composed
<1>3. LET u == [t EXCEPT !.composed = composed]
      IN  /\ u \in Tree /\ u.composed = composed
          /\ u.log = t.log /\ u.archive = t.archive /\ u.index = t.index
          /\ u.torn = t.torn /\ u.summary = t.summary
  BY <1>1 DEF Tree
<1>. QED
  BY <1>2, <1>3 DEF composed

LEMMA TruncatedIs ==
  ASSUME NEW t \in Tree
  PROVE  LET u == Truncated(t)
         IN  /\ u \in Tree /\ u.log = [m \in Months |-> {}]
             /\ u.archive = t.archive /\ u.index = t.index /\ u.torn = t.torn
             /\ SameSummaries(t, u)
BY LogWritten DEF Truncated

LEMMA RewrittenIs ==
  ASSUME NEW t \in Tree, NEW K \in SUBSET Lines
  PROVE  LET u == Rewritten(t, K)
         IN  /\ u \in Tree /\ u.log = [m \in Months |-> {l \in K : l.month = m}]
             /\ u.archive = t.archive /\ u.index = t.index /\ u.torn = t.torn
             /\ SameSummaries(t, u)
<1> DEFINE log == [m \in Months |-> {l \in K : l.month = m}]
<1>1. log \in [Months -> SUBSET Lines]
  OBVIOUS
<1>2. Rewritten(t, K) = [t EXCEPT !.log = log]
  BY DEF Rewritten
<1> HIDE DEF log
<1>3. LET u == [t EXCEPT !.log = log]
      IN  /\ u \in Tree /\ u.log = log
          /\ u.archive = t.archive /\ u.index = t.index /\ u.torn = t.torn
          /\ SameSummaries(t, u)
  BY <1>1, LogWritten
<1>. QED
  BY <1>2, <1>3 DEF log

LEMMA ArchivedIs ==
  ASSUME NEW t \in Tree, NEW A \in [Months -> SUBSET Lines]
  PROVE  LET u == Archived(t, A)
         IN  /\ u \in Tree
             /\ u.archive = [m \in Months |-> t.archive[m] \union A[m]]
             /\ u.log = t.log /\ u.index = t.index /\ u.torn = t.torn
             /\ SameSummaries(t, u)
<1> DEFINE archive == [m \in Months |-> t.archive[m] \union A[m]]
<1>1. archive \in [Months -> SUBSET Lines]
  BY TreeFields
<1>2. Archived(t, A) = [t EXCEPT !.archive = archive]
  BY DEF Archived
<1> HIDE DEF archive
<1>3. LET u == [t EXCEPT !.archive = archive]
      IN  /\ u \in Tree /\ u.archive = archive
          /\ u.log = t.log /\ u.index = t.index /\ u.torn = t.torn
          /\ SameSummaries(t, u)
  BY <1>1, ArchiveWritten
<1>. QED
  BY <1>2, <1>3 DEF archive

LEMMA ReindexedIs ==
  ASSUME NEW t \in Tree, NEW K \in SUBSET Lines
  PROVE  LET u == Reindexed(t, K)
         IN  /\ u \in Tree /\ u.index = {IndexRow(l) : l \in K}
             /\ u.log = t.log /\ u.archive = t.archive /\ u.torn = t.torn
             /\ SameSummaries(t, u)
<1> DEFINE index == {IndexRow(l) : l \in K}
<1>1. index \in SUBSET Row
  BY RowOf
<1>2. Reindexed(t, K) = [t EXCEPT !.index = index]
  BY DEF Reindexed
<1> HIDE DEF index
<1>3. LET u == [t EXCEPT !.index = index]
      IN  /\ u \in Tree /\ u.index = index
          /\ u.log = t.log /\ u.archive = t.archive /\ u.torn = t.torn
          /\ SameSummaries(t, u)
  BY <1>1, IndexWritten
<1>. QED
  BY <1>2, <1>3 DEF index

LEMMA EmptyTreeIs == EmptyTree \in Tree
<1>1. [m \in Months |-> NoSummary] \in [Months -> Summary]
  BY DEF Summary, NoSummary
<1>. QED
  BY <1>1 DEF Tree, EmptyTree

-----------------------------------------------------------------------------
(* What a tree that no script was stopped over keeps, and what one tree    *)
(* keeps of another: identifiers leave a log only for the archive.         *)

FiledIn(l, m) == l.id \notin Strays => l.month = m
LogsFiled(t) ==
  \A m \in Months : Distinct(t.log[m]) /\ \A l \in t.log[m] : FiledIn(l, m)
Filed(t) == LogsFiled(t) /\ Distinct(t.index)

Proper(S) == Ids(S) \ Strays
Agrees(t) == \A m \in Months : Proper(RowsOf(t, m)) = Proper(t.log[m])

\* The summary that a log is rendered as; there is none of a log without events.
Rendering(S) == IF S = {} THEN NoSummary ELSE [made |-> TRUE, of |-> S]
Rendered(t)  == \A m \in Months \ t.composed : t.summary[m] = Rendering(t.log[m])

Sound(t) == Filed(t) /\ (~t.torn => Agrees(t) /\ Rendered(t))

\* In some archive, or in the log of its date, where a compaction puts it.
Elsewhere(u, i) ==
  \/ \E m \in Months : i \in Ids(u.archive[m])
  \/ \E l \in Lines : l.id = i /\ i \in Ids(u.log[l.month])

Below(t, u) ==
  \A m \in Months :
    /\ Ids(t.archive[m]) \subseteq Ids(u.archive[m])
    /\ \A i \in Ids(t.log[m]) : i \in Ids(u.log[m]) \/ Elsewhere(u, i)

Follows(t, u) == ~u.torn => ~t.torn /\ Below(t, u)

LEMMA BelowReflexive == \A t : Below(t, t) /\ Follows(t, t)
BY DEF Below, Follows

LEMMA BelowTransitive ==
  ASSUME NEW t, NEW u, NEW v, Below(t, u), Below(u, v)
  PROVE  Below(t, v)
<1> SUFFICES ASSUME NEW m \in Months
             PROVE  /\ Ids(t.archive[m]) \subseteq Ids(v.archive[m])
                    /\ \A i \in Ids(t.log[m]) : i \in Ids(v.log[m]) \/ Elsewhere(v, i)
  BY DEF Below
<1>1. ASSUME NEW i, Elsewhere(u, i) PROVE Elsewhere(v, i)
  <2>1. CASE \E n \in Months : i \in Ids(u.archive[n])
    BY <2>1 DEF Below, Elsewhere
  <2>2. CASE \E l \in Lines : l.id = i /\ i \in Ids(u.log[l.month])
    <3>1. PICK l \in Lines : l.id = i /\ i \in Ids(u.log[l.month])
      BY <2>2
    <3>2. l.month \in Months
      BY RowOf
    <3>3. i \in Ids(v.log[l.month]) \/ Elsewhere(v, i)
      BY <3>1, <3>2 DEF Below
    <3>. QED
      BY <3>1, <3>3 DEF Elsewhere
  <2>. QED
    BY <1>1, <2>1, <2>2 DEF Elsewhere
<1>. QED
  BY <1>1 DEF Below

LEMMA FollowsTransitive ==
  ASSUME NEW t, NEW u, NEW v, Follows(t, u), Follows(u, v)
  PROVE  Follows(t, v)
BY BelowTransitive DEF Follows

\* What a tree names, the one that keeps it names.
LEMMA BelowKnown ==
  ASSUME NEW t, NEW u, Below(t, u)
  PROVE  Known(t) \subseteq Known(u)
<1> SUFFICES ASSUME NEW i \in Known(t) PROVE i \in Known(u)
  OBVIOUS
<1>1. PICK l : /\ i = l.id
               /\ \E m \in Months : l \in t.log[m] \/ l \in t.archive[m]
  BY DEF Known, Ids, Logged
<1>2. PICK m \in Months : l \in t.log[m] \/ l \in t.archive[m]
  BY <1>1
<1>3. i \in Ids(t.log[m]) \union Ids(t.archive[m])
  BY <1>1, <1>2 DEF Ids
<1>4. \E n \in Months : i \in Ids(u.log[n]) \union Ids(u.archive[n])
  <2>1. i \in Ids(u.log[m]) \union Ids(u.archive[m]) \/ Elsewhere(u, i)
    BY <1>3 DEF Below
  <2>. QED
    BY <2>1, RowOf DEF Elsewhere
<1>5. PICK n \in Months : \E k \in u.log[n] \union u.archive[n] : i = k.id
  BY <1>4 DEF Ids
<1>. QED
  BY <1>5 DEF Known, Ids, Logged

\* A tree whose index agrees with its logs month by month agrees as a whole.
LEMMA SoundIndex ==
  ASSUME NEW t \in Tree, Agrees(t)
  PROVE  Proper(t.index) = Proper(Logged(t))
<1>1. ASSUME NEW r \in t.index, r.id \notin Strays PROVE r.id \in Ids(Logged(t))
  <2>1. r.month \in Months /\ r \in RowsOf(t, r.month)
    BY <1>1, TreeFields DEF RowsOf, Row
  <2>2. r.id \in Ids(t.log[r.month])
    BY <1>1, <2>1 DEF Agrees, Proper, Ids
  <2>. QED
    BY <2>1, <2>2 DEF Ids, Logged
<1>2. ASSUME NEW l \in Logged(t), l.id \notin Strays PROVE l.id \in Ids(t.index)
  <2>1. PICK m \in Months : l \in t.log[m]
    BY <1>2 DEF Logged
  <2>2. l.id \in Ids(RowsOf(t, m))
    BY <1>2, <2>1 DEF Agrees, Proper, Ids
  <2>. QED
    BY <2>2 DEF Ids, RowsOf
<1>. QED
  BY <1>1, <1>2 DEF Proper, Ids

-----------------------------------------------------------------------------
(* sync-git: what a rebase makes of a commit keeps both sides.             *)

LEMMA MergedIds == \A U, L : Ids(MergeEventJsonl(U, L)) = Ids(U) \union Ids(L)
BY DEF MergeEventJsonl, Ids

LEMMA Merge3Cases ==
  ASSUME NEW base, NEW up, NEW local, NEW resolve
  PROVE  LET r == Merged3(base, up, local, resolve)
         IN  \/ r = up /\ (local = base \/ local = up)
             \/ r = local /\ up = base
             \/ r = resolve /\ Conflict(base, up, local)
BY DEF Merged3, Conflict

LEMMA Merge3In ==
  ASSUME NEW S, NEW base, NEW up \in S, NEW local \in S, NEW resolve \in S
  PROVE  Merged3(base, up, local, resolve) \in S
BY DEF Merged3
NoConflict(base, up, local) ==
  /\ ~Conflict(base.index, up.index, local.index)
  /\ \A m \in Months : ~Conflict(base.log[m], up.log[m], local.log[m])

LEMMA ReplayedIs ==
  ASSUME NEW base \in Tree, NEW up \in Tree, NEW local \in Tree, NEW mine
  PROVE  LET r == Replayed(base, up, local, mine)
         IN  /\ r \in Tree
             /\ \A m \in Months :
                  /\ r.log[m] = Merged3(base.log[m], up.log[m], local.log[m],
                                        MergeEventJsonl(up.log[m], local.log[m]))
                  /\ r.archive[m] = Merged3(base.archive[m], up.archive[m], local.archive[m],
                                            MergeEventJsonl(up.archive[m], local.archive[m]))
                  /\ m \notin r.composed =>
                       /\ m \notin base.composed \union up.composed \union local.composed
                       /\ ~Conflict(base.summary[m], up.summary[m], local.summary[m])
                       /\ \E s : r.summary[m] = Merged3(base.summary[m], up.summary[m],
                                                       local.summary[m], s)
             /\ r.torn = (up.torn \/ local.torn)
             /\ \/ r.index = RebuiltIndex(r)
                \/ /\ r.index = Merged3(base.index, up.index, local.index, {})
                   /\ NoConflict(base, up, local)
<1> DEFINE log == [m \in Months |->
                     Merged3(base.log[m], up.log[m], local.log[m],
                             MergeEventJsonl(up.log[m], local.log[m]))]
           archive == [m \in Months |->
                         Merged3(base.archive[m], up.archive[m], local.archive[m],
                                 MergeEventJsonl(up.archive[m], local.archive[m]))]
           summary == [m \in Months |->
                         Merged3(base.summary[m], up.summary[m], local.summary[m],
                                 IF m \in mine THEN local.summary[m] ELSE up.summary[m])]
           index == Merged3(base.index, up.index, local.index, {})
           torn == up.torn \/ local.torn
           composed == {m \in Months :
                          \/ m \in base.composed \union up.composed \union local.composed
                          \/ Conflict(base.summary[m], up.summary[m], local.summary[m])}
           rebuild ==
             \/ Conflict(base.index, up.index, local.index)
             \/ \E m \in Months :
                  \/ Conflict(base.log[m], up.log[m], local.log[m])
                  \/ Conflict(base.archive[m], up.archive[m], local.archive[m])
           merged == [log |-> log, archive |-> archive, summary |-> summary,
                      index |-> index, torn |-> torn, composed |-> composed]
<1>1. \A U, L \in SUBSET Lines : MergeEventJsonl(U, L) \in SUBSET Lines
  BY DEF MergeEventJsonl
<1>2. log \in [Months -> SUBSET Lines]
  <2>1. ASSUME NEW m \in Months
        PROVE  Merged3(base.log[m], up.log[m], local.log[m],
                       MergeEventJsonl(up.log[m], local.log[m])) \in SUBSET Lines
    <3>1. up.log[m] \in SUBSET Lines /\ local.log[m] \in SUBSET Lines
      BY TreeFields
    <3>2. MergeEventJsonl(up.log[m], local.log[m]) \in SUBSET Lines
      BY <1>1, <3>1
    <3>. QED
      BY <3>1, <3>2, Merge3In
  <2>. QED
    BY <2>1
<1>3. archive \in [Months -> SUBSET Lines]
  <2>1. ASSUME NEW m \in Months
        PROVE  Merged3(base.archive[m], up.archive[m], local.archive[m],
                       MergeEventJsonl(up.archive[m], local.archive[m])) \in SUBSET Lines
    <3>1. up.archive[m] \in SUBSET Lines /\ local.archive[m] \in SUBSET Lines
      BY TreeFields
    <3>2. MergeEventJsonl(up.archive[m], local.archive[m]) \in SUBSET Lines
      BY <1>1, <3>1
    <3>. QED
      BY <3>1, <3>2, Merge3In
  <2>. QED
    BY <2>1
<1>4. summary \in [Months -> Summary]
  BY TreeFields, Merge3In
<1>5. index \in SUBSET Row
  BY TreeFields, Merge3In
<1>6. torn \in BOOLEAN /\ composed \in SUBSET Months
  BY TreeFields
<1>7. Replayed(base, up, local, mine)
        = IF rebuild THEN [merged EXCEPT !.index = RebuiltIndex(merged)] ELSE merged
  BY DEF Replayed
<1>8. /\ \A m \in Months :
           /\ log[m] = Merged3(base.log[m], up.log[m], local.log[m],
                               MergeEventJsonl(up.log[m], local.log[m]))
           /\ archive[m] = Merged3(base.archive[m], up.archive[m], local.archive[m],
                                   MergeEventJsonl(up.archive[m], local.archive[m]))
           /\ m \notin composed =>
                /\ m \notin base.composed \union up.composed \union local.composed
                /\ ~Conflict(base.summary[m], up.summary[m], local.summary[m])
           /\ \E s : summary[m] = Merged3(base.summary[m], up.summary[m],
                                          local.summary[m], s)
      /\ ~rebuild => NoConflict(base, up, local)
  BY DEF NoConflict
<1> HIDE DEF log, archive, summary, index, torn, composed, rebuild
<1>9. merged \in Tree
  BY <1>2, <1>3, <1>4, <1>5, <1>6 DEF Tree
<1>10. CASE rebuild
  <2> DEFINE r == [merged EXCEPT !.index = RebuiltIndex(merged)]
  <2>1. RebuiltIndex(merged) \in SUBSET Row
    <3>1. Logged(merged) \subseteq Lines
      BY <1>9, TreeFields DEF Logged
    <3>. QED
      BY <3>1, RowOf DEF RebuiltIndex
  <2>2. r \in Tree
    BY <1>9, <2>1, IndexWritten
  <2>3. /\ r.log = log /\ r.archive = archive /\ r.torn = torn
        /\ r.index = RebuiltIndex(merged)
        /\ r.summary = summary /\ r.composed = composed
    OBVIOUS
  <2>4. Logged(r) = Logged(merged)
    BY <2>3 DEF Logged
  <2>5. RebuiltIndex(r) = RebuiltIndex(merged)
    BY <2>4 DEF RebuiltIndex
  <2>6. Replayed(base, up, local, mine) = r
    BY <1>7, <1>10
  <2> HIDE DEF r, merged
  <2>. QED
    BY <1>8, <2>2, <2>3, <2>5, <2>6 DEF torn
<1>11. CASE ~rebuild
  <2>1. Replayed(base, up, local, mine) = merged
    BY <1>7, <1>11
  <2>2. /\ merged.log = log /\ merged.archive = archive /\ merged.torn = torn
        /\ merged.index = index
        /\ merged.summary = summary /\ merged.composed = composed
    OBVIOUS
  <2> HIDE DEF merged
  <2>. QED
    BY <1>8, <1>9, <1>11, <2>1, <2>2 DEF torn, index
<1>. QED
  BY <1>10, <1>11

\* A row that rebuildIndexFromEvents writes is of the month of its event, so that
\* the rebuilt index names, month by month, what the logs do.
LEMMA RebuiltAgrees ==
  ASSUME NEW t \in Tree, LogsFiled(t), t.index = RebuiltIndex(t)
  PROVE  Agrees(t) /\ Distinct(t.index)
<1>1. \A l \in Logged(t) : l \in Lines
  BY TreeFields DEF Logged
<1>2. ASSUME NEW k \in Logged(t), NEW l \in Logged(t), k.id = l.id
      PROVE  k.month <= l.month
  <2>1. k.month = l.month /\ k.month \in Nat
    BY <1>1, <1>2, RowOf, StoreAssumption
  <2>. QED
    BY <2>1
<1>3. RebuiltIndex(t) = {IndexRow(l) : l \in Logged(t)}
  BY <1>2 DEF RebuiltIndex
<1>4. ASSUME NEW m \in Months PROVE Proper(RowsOf(t, m)) = Proper(t.log[m])
  <2>1. ASSUME NEW r \in RowsOf(t, m), r.id \notin Strays PROVE r.id \in Ids(t.log[m])
    <3>1. r.month = m /\ r \in t.index
      BY <2>1 DEF RowsOf
    <3>2. PICK l \in Logged(t) : r = IndexRow(l)
      BY <1>3, <3>1
    <3>3. PICK n \in Months : l \in t.log[n]
      BY DEF Logged
    <3>4. n = m
      BY <1>1, <2>1, <3>1, <3>2, <3>3, RowOf DEF LogsFiled, FiledIn
    <3>. QED
      BY <1>1, <3>2, <3>3, <3>4, RowOf DEF Ids
  <2>2. ASSUME NEW l \in t.log[m], l.id \notin Strays PROVE l.id \in Ids(RowsOf(t, m))
    <3>1. l \in Logged(t) /\ l.month = m
      BY <2>2 DEF Logged, LogsFiled, FiledIn
    <3>2. IndexRow(l) \in RowsOf(t, m)
      BY <1>1, <1>3, <3>1, RowOf DEF RowsOf
    <3>. QED
      BY <1>1, <3>1, <3>2, RowOf DEF Ids
  <2>. QED
    BY <2>1, <2>2 DEF Proper, Ids
<1>5. ASSUME NEW k \in Logged(t), NEW l \in Logged(t), IndexRow(k).id = IndexRow(l).id
      PROVE  IndexRow(k) = IndexRow(l)
  <2>1. k.id = l.id
    BY <1>1, <1>5, RowOf
  <2>2. k.month = l.month /\ k.workflow = l.workflow
    BY <1>1, <2>1, StoreAssumption
  <2>. QED
    BY <2>1, <2>2 DEF IndexRow
<1>6. Distinct(t.index)
  BY <1>3, <1>5 DEF Distinct
<1>. QED
  BY <1>4, <1>6 DEF Agrees

\* Where logs and summaries are merged alike, the summary goes with the log.
LEMMA MergedRendering ==
  ASSUME NEW base, NEW up, NEW local, NEW s, NEW resolve,
         ~Conflict(Rendering(base), Rendering(up), Rendering(local))
  PROVE  Merged3(Rendering(base), Rendering(up), Rendering(local), s)
           = Rendering(Merged3(base, up, local, resolve))
<1>1. \A S, T : Rendering(S) = Rendering(T) => S = T
  BY DEF Rendering, NoSummary
<1> HIDE DEF Rendering
<1>. QED
  BY <1>1 DEF Merged3, Conflict

MergedLog(base, one, other, log) ==
  \/ log = one /\ (other = base \/ other = one)
  \/ log = other /\ one = base
  \/ Ids(log) = Ids(one) \union Ids(other)

\* An identifier of the base, in whose log a merge follows the one side, is where
\* that side has it: if it moved it to the log of its date, which the merge takes
\* from the other side, that log had it in the base already.
LEMMA KeptOverMerge ==
  ASSUME NEW base, NEW one, NEW other, NEW r, Below(base, one), Below(base, other),
         \A n \in Months : /\ Ids(one.archive[n]) \subseteq Ids(r.archive[n])
                           /\ Ids(other.archive[n]) \subseteq Ids(r.archive[n])
                           /\ MergedLog(base.log[n], one.log[n], other.log[n], r.log[n]),
         NEW m \in Months, r.log[m] = one.log[m], NEW i \in Ids(base.log[m])
  PROVE  i \in Ids(r.log[m]) \/ Elsewhere(r, i)
<1>1. i \in Ids(one.log[m]) \/ Elsewhere(one, i)
  BY DEF Below
<1>2. \A n \in Months : i \in Ids(one.archive[n]) \union Ids(other.archive[n])
                         => Elsewhere(r, i)
  BY DEF Elsewhere
<1>3. ASSUME NEW l \in Lines, l.id = i, i \in Ids(one.log[l.month])
      PROVE  Elsewhere(r, i)
  <2>1. l.month \in Months
    BY RowOf
  <2>2. CASE i \in Ids(r.log[l.month])
    BY <1>3, <2>2 DEF Elsewhere
  <2>3. CASE r.log[l.month] = other.log[l.month] /\ one.log[l.month] = base.log[l.month]
    <3>1. i \in Ids(other.log[l.month]) \/ Elsewhere(other, i)
      BY <1>3, <2>1, <2>3 DEF Below
    <3>2. ASSUME NEW k \in Lines, k.id = i, i \in Ids(other.log[k.month])
          PROVE  i \in Ids(other.log[l.month])
      BY <1>3, <3>2, StoreAssumption
    <3>. QED
      BY <1>2, <2>2, <2>3, <3>1, <3>2 DEF Elsewhere
  <2>. QED
    BY <1>3, <2>1, <2>2, <2>3 DEF MergedLog
<1>. QED
  BY <1>1, <1>2, <1>3 DEF Elsewhere

\* Replayed over a tip, a commit keeps the tip and what it had itself; and the
\* index it leaves agrees with the logs, whether it was merged or rebuilt.
LEMMA ReplayedKeeps ==
  ASSUME NEW base \in Tree, NEW up \in Tree, NEW local \in Tree, NEW mine,
         Sound(base), Sound(up), Sound(local), Follows(base, up), Follows(base, local)
  PROVE  LET r == Replayed(base, up, local, mine)
         IN  r \in Tree /\ Sound(r) /\ Follows(up, r) /\ Follows(local, r)
<1> DEFINE r == Replayed(base, up, local, mine)
<1>1. /\ r \in Tree
      /\ \A m \in Months :
           /\ r.log[m] = Merged3(base.log[m], up.log[m], local.log[m],
                                 MergeEventJsonl(up.log[m], local.log[m]))
           /\ r.archive[m] = Merged3(base.archive[m], up.archive[m], local.archive[m],
                                     MergeEventJsonl(up.archive[m], local.archive[m]))
           /\ m \notin r.composed =>
                /\ m \notin base.composed \union up.composed \union local.composed
                /\ ~Conflict(base.summary[m], up.summary[m], local.summary[m])
                /\ \E s : r.summary[m] = Merged3(base.summary[m], up.summary[m],
                                                local.summary[m], s)
      /\ r.torn = (up.torn \/ local.torn)
      /\ \/ r.index = RebuiltIndex(r)
         \/ /\ r.index = Merged3(base.index, up.index, local.index, {})
            /\ NoConflict(base, up, local)
  BY ReplayedIs
<1> HIDE DEF r
<1>2. LogsFiled(r)
  <2> SUFFICES ASSUME NEW m \in Months
               PROVE  Distinct(r.log[m]) /\ \A l \in r.log[m] : FiledIn(l, m)
    BY DEF LogsFiled
  <2>1. \/ r.log[m] = up.log[m]
        \/ r.log[m] = local.log[m]
        \/ r.log[m] = MergeEventJsonl(up.log[m], local.log[m])
    BY <1>1, Merge3Cases
  <2>2. /\ Distinct(up.log[m]) /\ \A l \in up.log[m] : FiledIn(l, m)
        /\ Distinct(local.log[m]) /\ \A l \in local.log[m] : FiledIn(l, m)
    BY DEF Sound, Filed, LogsFiled
  <2>3. /\ Distinct(MergeEventJsonl(up.log[m], local.log[m]))
        /\ \A l \in MergeEventJsonl(up.log[m], local.log[m]) : FiledIn(l, m)
    BY <2>2 DEF MergeEventJsonl, Distinct, Ids
  <2>. QED
    BY <2>1, <2>2, <2>3
<1>3. Filed(r)
  <2>1. CASE r.index = RebuiltIndex(r)
    BY <1>1, <1>2, <2>1, RebuiltAgrees DEF Filed
  <2>2. CASE /\ r.index = Merged3(base.index, up.index, local.index, {})
             /\ NoConflict(base, up, local)
    <3>1. r.index = up.index \/ r.index = local.index
      BY <2>2, Merge3Cases DEF NoConflict
    <3>. QED
      BY <1>2, <3>1 DEF Sound, Filed
  <2>. QED
    BY <1>1, <2>1, <2>2
<1>4. ASSUME ~r.torn PROVE Rendered(r)
  <2>1. Rendered(up) /\ Rendered(local) /\ Rendered(base)
    BY <1>1, <1>4, TreeFields DEF Sound, Follows
  <2> SUFFICES ASSUME NEW m \in Months \ r.composed
               PROVE  r.summary[m] = Rendering(r.log[m])
    BY DEF Rendered
  <2>2. /\ m \notin base.composed \union up.composed \union local.composed
        /\ ~Conflict(base.summary[m], up.summary[m], local.summary[m])
    BY <1>1
  <2>3. PICK s : r.summary[m] = Merged3(base.summary[m], up.summary[m], local.summary[m], s)
    BY <1>1
  <2>4. /\ base.summary[m] = Rendering(base.log[m])
        /\ up.summary[m] = Rendering(up.log[m])
        /\ local.summary[m] = Rendering(local.log[m])
    BY <2>1, <2>2 DEF Rendered
  <2>5. r.log[m] = Merged3(base.log[m], up.log[m], local.log[m],
                           MergeEventJsonl(up.log[m], local.log[m]))
    BY <1>1
  <2>. QED
    BY <2>2, <2>3, <2>4, <2>5, MergedRendering
<1>5. ASSUME ~r.torn PROVE Below(up, r) /\ Below(local, r)
  <2>1. /\ ~up.torn /\ ~local.torn /\ ~base.torn
        /\ Below(base, up) /\ Below(base, local)
    BY <1>1, <1>5, TreeFields DEF Follows
  <2>2. \A m \in Months : /\ Ids(base.archive[m]) \subseteq Ids(up.archive[m])
                          /\ Ids(base.archive[m]) \subseteq Ids(local.archive[m])
    BY <2>1 DEF Below
  <2>3. \A m \in Months :
          \/ r.archive[m] = up.archive[m]
             /\ (local.archive[m] = base.archive[m] \/ local.archive[m] = up.archive[m])
          \/ r.archive[m] = local.archive[m] /\ up.archive[m] = base.archive[m]
          \/ r.archive[m] = MergeEventJsonl(up.archive[m], local.archive[m])
    BY <1>1, Merge3Cases
  <2>4. \A m \in Months : /\ Ids(up.archive[m]) \subseteq Ids(r.archive[m])
                          /\ Ids(local.archive[m]) \subseteq Ids(r.archive[m])
    BY <2>2, <2>3, MergedIds
  <2>5. \A m \in Months :
          \/ r.log[m] = up.log[m]
             /\ (local.log[m] = base.log[m] \/ local.log[m] = up.log[m])
          \/ r.log[m] = local.log[m] /\ up.log[m] = base.log[m]
          \/ r.log[m] = MergeEventJsonl(up.log[m], local.log[m])
    BY <1>1, Merge3Cases
  <2>6. \A m \in Months :
          /\ MergedLog(base.log[m], up.log[m], local.log[m], r.log[m])
          /\ MergedLog(base.log[m], local.log[m], up.log[m], r.log[m])
    BY <2>5, MergedIds DEF MergedLog
  <2>7. ASSUME NEW m \in Months, NEW i \in Ids(up.log[m])
        PROVE  i \in Ids(r.log[m]) \/ Elsewhere(r, i)
    <3>1. CASE r.log[m] = local.log[m] /\ up.log[m] = base.log[m]
      BY <2>1, <2>4, <2>6, <2>7, <3>1, KeptOverMerge
    <3>. QED
      BY <2>5, <2>7, <3>1, MergedIds
  <2>8. ASSUME NEW m \in Months, NEW i \in Ids(local.log[m])
        PROVE  i \in Ids(r.log[m]) \/ Elsewhere(r, i)
    <3>1. CASE r.log[m] = up.log[m] /\ local.log[m] = base.log[m]
      BY <2>1, <2>4, <2>6, <2>8, <3>1, KeptOverMerge
    <3>. QED
      BY <2>5, <2>8, <3>1, MergedIds
  <2>. QED
    BY <2>4, <2>7, <2>8 DEF Below
<1>6. ASSUME ~r.torn PROVE Agrees(r)
  <2>1. Agrees(up) /\ Agrees(local) /\ Agrees(base)
    BY <1>1, <1>6, TreeFields DEF Sound, Follows
  <2>2. CASE r.index = RebuiltIndex(r)
    BY <1>1, <1>2, <2>2, RebuiltAgrees
  <2>3. CASE /\ r.index = Merged3(base.index, up.index, local.index, {})
             /\ NoConflict(base, up, local)
    <3> SUFFICES ASSUME NEW m \in Months PROVE Proper(RowsOf(r, m)) = Proper(r.log[m])
      BY DEF Agrees
    <3>1. \/ r.log[m] = up.log[m]
             /\ (local.log[m] = base.log[m] \/ local.log[m] = up.log[m])
          \/ r.log[m] = local.log[m] /\ up.log[m] = base.log[m]
      BY <1>1, <2>3, Merge3Cases DEF NoConflict
    <3>2. \/ r.index = up.index /\ (local.index = base.index \/ local.index = up.index)
          \/ r.index = local.index /\ up.index = base.index
      BY <2>3, Merge3Cases DEF NoConflict
    <3>3. \A t, u : t.index = u.index => Proper(RowsOf(t, m)) = Proper(RowsOf(u, m))
      BY DEF RowsOf
    <3>4. /\ Proper(RowsOf(up, m)) = Proper(up.log[m])
          /\ Proper(RowsOf(local, m)) = Proper(local.log[m])
          /\ Proper(RowsOf(base, m)) = Proper(base.log[m])
      BY <2>1 DEF Agrees
    <3>. QED
      BY <3>1, <3>2, <3>3, <3>4
  <2>. QED
    BY <1>1, <2>2, <2>3
<1>7. Follows(up, r) /\ Follows(local, r)
  BY <1>1, <1>5, TreeFields DEF Follows
<1>. QED
  BY <1>1, <1>3, <1>4, <1>6, <1>7 DEF r, Sound
-----------------------------------------------------------------------------
(* The commits of a checkout, replayed one after the other.                *)

\* A set of natural numbers has a least one.
LEMMA LeastOf ==
  ASSUME NEW T, T \subseteq Nat, T # {}
  PROVE  \E n \in T : \A k \in T : n <= k
<1>1. PICK n \in T : \A k \in T : ~ (<<k, n>> \in OpToRel(<, Nat))
  BY WFMin, NatLessThanWellFounded, Zenon
<1>2. ASSUME NEW k \in T PROVE n <= k
  <2>1. ~ (k < n)
    BY <1>1 DEF OpToRel
  <2>. QED
    BY <2>1
<1>. QED
  BY <1>2

\* What the replay of the k-th commit starts from.
Prior(c, k) == IF k = 1 THEN c.base ELSE c.commits[k - 1]

\* The function that Replays defines by recursion is there: each commit is
\* replayed over what the one before it became.
LEMMA ReplaysIs ==
  ASSUME NEW c \in Checkout, NEW tip, NEW mine
  PROVE  LET new == Replays(c, tip, mine)
         IN  new = [k \in 1..Len(c.commits) |->
                      Replayed(Prior(c, k), IF k = 1 THEN tip ELSE new[k - 1],
                               c.commits[k], mine)]
<1> DEFINE G(k, u) == Replayed(Prior(c, k), u, c.commits[k], mine)
           Solves(f, n) == f = [k \in 1..n |-> G(k, IF k = 1 THEN tip ELSE f[k - 1])]
           Bad == {n \in Nat : ~ \E f : Solves(f, n)}
<1>1. Bad = {}
  <2> SUFFICES ASSUME Bad # {} PROVE FALSE
    OBVIOUS
  <2>1. PICK n \in Bad : \A k \in Bad : n <= k
    <3>1. Bad \subseteq Nat
      OBVIOUS
    <3> HIDE DEF Bad
    <3>. QED
      BY <3>1, LeastOf
  <2>2. n \in Nat /\ ~ \E f : Solves(f, n)
    BY <2>1
  <2>3. n # 0
    <3> DEFINE z == [k \in 1..0 |-> G(k, tip)]
    <3>1. Solves(z, 0)
      <4> HIDE DEF G
      <4>. QED
        OBVIOUS
    <3>. QED
      BY <2>2, <3>1
  <2>4. n - 1 \in Nat /\ n - 1 \notin Bad
    <3> HIDE DEF Bad
    <3>. QED
      BY <2>1, <2>2, <2>3
  <2>5. PICK f : Solves(f, n - 1)
    BY <2>4
  <2> DEFINE g == [k \in 1..n |-> G(k, IF k = 1 THEN tip ELSE f[k - 1])]
  <2> HIDE DEF G
  <2>6. ASSUME NEW k \in 1..n, k # 1 PROVE g[k - 1] = f[k - 1]
    <3>1. k - 1 \in 1..(n - 1) /\ k - 1 \in 1..n
      BY <2>2, <2>6
    <3>2. f[k - 1] = G(k - 1, IF k - 1 = 1 THEN tip ELSE f[k - 1 - 1])
      BY <2>5, <3>1
    <3>. QED
      BY <3>1, <3>2
  <2>7. ASSUME NEW k \in 1..n
        PROVE  g[k] = G(k, IF k = 1 THEN tip ELSE g[k - 1])
    <3>1. g[k] = G(k, IF k = 1 THEN tip ELSE f[k - 1])
      OBVIOUS
    <3> HIDE DEF g
    <3>. QED
      BY <2>6, <3>1
  <2>8. g = [k \in 1..n |-> g[k]]
    OBVIOUS
  <2> HIDE DEF g
  <2>9. Solves(g, n)
    BY <2>7, <2>8
  <2>. QED
    BY <2>2, <2>9
<1>2. Len(c.commits) \in Nat
  BY DEF Checkout
<1>3. \E f : Solves(f, Len(c.commits))
  BY <1>1, <1>2
<1>4. Replays(c, tip, mine) = CHOOSE f : Solves(f, Len(c.commits))
  BY DEF Replays, Prior
<1>. QED
  BY <1>3, <1>4

\* What holds of a checkout: each of its trees keeps the one it was made from.
CheckoutSound(c) ==
  /\ Sound(c.base) /\ Sound(c.work)
  /\ \A i \in 1..Len(c.commits) : /\ Sound(c.commits[i])
                                  /\ Follows(Prior(c, i), c.commits[i])
                                  /\ Follows(c.base, c.commits[i])
  /\ Follows(c.base, c.work) /\ Follows(Top(c), c.work)
  /\ ~c.work.torn => Ids(c.mine) \subseteq Known(c.work)

\* Every commit of the rebased branch keeps the tip, the commit it was made of, and
\* the commit before it.
LEMMA ReplaysKeep ==
  ASSUME NEW c \in Checkout, CheckoutSound(c), NEW tip \in Tree, NEW mine,
         Sound(tip), Follows(c.base, tip)
  PROVE  LET new == Replays(c, tip, mine)
         IN  /\ new \in Seq(Tree) /\ Len(new) = Len(c.commits)
             /\ \A k \in 1..Len(c.commits) :
                  /\ Sound(new[k])
                  /\ Follows(c.commits[k], new[k])
                  /\ Follows(IF k = 1 THEN tip ELSE new[k - 1], new[k])
                  /\ Follows(tip, new[k])
<1> DEFINE new == Replays(c, tip, mine)
           n == Len(c.commits)
           Onto(k) == IF k = 1 THEN tip ELSE new[k - 1]
           Keeps(k) == /\ new[k] \in Tree /\ Sound(new[k])
                       /\ Follows(c.commits[k], new[k])
                       /\ Follows(Onto(k), new[k])
                       /\ Follows(tip, new[k])
           Bad == {k \in 1..n : ~Keeps(k)}
<1>1. new = [k \in 1..n |-> Replayed(Prior(c, k), Onto(k), c.commits[k], mine)]
  BY ReplaysIs
<1>2. n \in Nat /\ c.base \in Tree /\ \A k \in 1..n : c.commits[k] \in Tree
  BY DEF Checkout
<1> HIDE DEF new
<1>3. ASSUME NEW k \in 1..n, k # 1 => Keeps(k - 1)
      PROVE  Keeps(k)
  <2>1. new[k] = Replayed(Prior(c, k), Onto(k), c.commits[k], mine)
    BY <1>1
  <2>2. c.commits[k] \in Tree /\ Sound(c.commits[k]) /\ Follows(Prior(c, k), c.commits[k])
    BY <1>2 DEF CheckoutSound
  <2>3. /\ Prior(c, k) \in Tree /\ Sound(Prior(c, k))
        /\ Onto(k) \in Tree /\ Sound(Onto(k))
        /\ Follows(Prior(c, k), Onto(k)) /\ Follows(tip, Onto(k))
    <3>1. CASE k = 1
      BY <1>2, <3>1, BelowReflexive DEF Prior, CheckoutSound
    <3>2. CASE k # 1
      <4>1. k - 1 \in 1..n
        BY <1>2, <3>2
      <4>2. c.commits[k - 1] \in Tree /\ Sound(c.commits[k - 1])
        BY <1>2, <4>1 DEF CheckoutSound
      <4>. QED
        BY <1>3, <3>2, <4>2 DEF Prior
    <3>. QED
      BY <3>1, <3>2
  <2> DEFINE r == Replayed(Prior(c, k), Onto(k), c.commits[k], mine)
  <2>4. r \in Tree /\ Sound(r) /\ Follows(Onto(k), r) /\ Follows(c.commits[k], r)
    <3> HIDE DEF Onto
    <3>. QED
      BY <2>2, <2>3, ReplayedKeeps
  <2>5. new[k] = r
    BY <2>1
  <2> HIDE DEF r, Onto
  <2>6. Follows(tip, r)
    BY <2>3, <2>4, FollowsTransitive
  <2>. QED
    BY <2>4, <2>5, <2>6
<1> HIDE DEF Onto
<1>4. Bad = {}
  <2> SUFFICES ASSUME Bad # {} PROVE FALSE
    OBVIOUS
  <2>1. PICK k \in Bad : \A j \in Bad : k <= j
    <3>1. Bad \subseteq Nat
      BY <1>2
    <3> HIDE DEF Bad
    <3>. QED
      BY <3>1, LeastOf
  <2>2. k \in 1..n /\ ~Keeps(k)
    BY <2>1
  <2> HIDE DEF Keeps
  <2>3. k # 1 => Keeps(k - 1)
    <3> SUFFICES ASSUME k # 1, ~Keeps(k - 1) PROVE FALSE
      OBVIOUS
    <3>1. k - 1 \in 1..n /\ ~(k <= k - 1)
      BY <1>2, <2>2
    <3>2. k - 1 \in Bad
      BY <3>1
    <3>. QED
      BY <2>1, <3>1, <3>2
  <2>. QED
    BY <1>3, <2>2, <2>3
<1>5. \A k \in 1..n : Keeps(k)
  <2> HIDE DEF Keeps
  <2>. QED
    BY <1>4
<1>6. new = [k \in 1..n |-> new[k]]
  BY <1>1
<1>7. new \in Seq(Tree) /\ Len(new) = n
  <2>1. new \in [1..n -> Tree]
    BY <1>5, <1>6
  <2>. QED
    BY <1>2, <2>1
<1>. QED
  BY <1>5, <1>7 DEF new, Onto

-----------------------------------------------------------------------------
(* The scripts that write.                                                 *)

\* What add-entry and bootstrap-coverage make of a tree: events of one file in its
\* log, and their rows over those that had their identifiers.
LEMMA LoggedAndIndexed ==
  ASSUME NEW t \in Tree, Sound(t), NEW m \in Months, NEW S \in SUBSET Lines,
         \A l \in S : l.file = m /\ l.id \notin Ids(t.log[m]), Distinct(S),
         NEW u \in Tree,
         u.log = [t.log EXCEPT ![m] = @ \union S],
         u.index = {FirstRow(l) : l \in S} \union {r \in t.index : r.id \notin Ids(S)},
         u.archive = t.archive, u.torn = t.torn, ~u.torn => Rendered(u)
  PROVE  Sound(u) /\ Follows(t, u) /\ Ids(S) \subseteq Known(u)
<1>1. \A n \in Months : u.log[n] = IF n = m THEN t.log[m] \union S ELSE t.log[n]
  BY TreeFields
<1>2. Filed(u)
  <2>1. LogsFiled(t) /\ Distinct(t.index)
    BY DEF Sound, Filed
  <2>2. LogsFiled(u)
    <3> SUFFICES ASSUME NEW n \in Months
                 PROVE  Distinct(u.log[n]) /\ \A l \in u.log[n] : FiledIn(l, n)
      BY DEF LogsFiled
    <3>1. Distinct(t.log[n]) /\ \A l \in t.log[n] : FiledIn(l, n)
      BY <2>1 DEF LogsFiled
    <3>2. Distinct(t.log[m] \union S) /\ \A l \in S : FiledIn(l, m)
      BY <2>1, NotAstray DEF LogsFiled, Distinct, Ids, FiledIn
    <3>. QED
      BY <1>1, <3>1, <3>2
  <2>3. Distinct({FirstRow(l) : l \in S})
    BY DistinctRows
  <2>4. \A r \in {FirstRow(l) : l \in S} : r.id \in Ids(S)
    BY RowOf DEF Ids
  <2>5. Distinct(u.index)
    BY <2>1, <2>3, <2>4 DEF Distinct
  <2>. QED
    BY <2>2, <2>5 DEF Filed
<1>3. ASSUME ~u.torn, NEW n \in Months PROVE Proper(RowsOf(u, n)) = Proper(u.log[n])
  <2>1. Proper(RowsOf(t, n)) = Proper(t.log[n])
    BY <1>3 DEF Sound, Agrees
  <2>2. CASE n = m
    <3>1. ASSUME NEW r \in RowsOf(u, n), r.id \notin Strays PROVE r.id \in Ids(u.log[n])
      <4>1. CASE r \in RowsOf(t, n)
        BY <1>1, <2>1, <2>2, <3>1, <4>1 DEF Proper, Ids
      <4>2. CASE \E l \in S : r = FirstRow(l)
        BY <1>1, <2>2, <4>2, RowOf DEF Ids
      <4>. QED
        BY <3>1, <4>1, <4>2 DEF RowsOf
    <3>2. ASSUME NEW l \in u.log[n], l.id \notin Strays PROVE l.id \in Ids(RowsOf(u, n))
      <4>1. CASE l.id \in Ids(S)
        <5>1. PICK k \in S : k.id = l.id
          BY <4>1 DEF Ids
        <5>2. FirstRow(k) \in RowsOf(u, n) /\ FirstRow(k).id = l.id
          BY <2>2, <5>1, RowOf DEF RowsOf
        <5>. QED
          BY <5>2 DEF Ids
      <4>2. l \in S => l.id \in Ids(S)
        BY DEF Ids
      <4>3. CASE l \in t.log[n] /\ l.id \notin Ids(S)
        <5>1. PICK r \in RowsOf(t, n) : r.id = l.id
          BY <2>1, <3>2, <4>3 DEF Proper, Ids
        <5>2. r \in RowsOf(u, n)
          BY <4>3, <5>1 DEF RowsOf
        <5>. QED
          BY <5>1, <5>2 DEF Ids
      <4>. QED
        BY <1>1, <2>2, <3>2, <4>1, <4>2, <4>3
    <3>. QED
      BY <3>1, <3>2 DEF Proper, Ids
  <2>3. CASE n # m
    <3>1. ASSUME NEW l \in t.log[n], l.id \notin Strays PROVE l.id \notin Ids(S)
      <4>1. l \in Lines /\ l.month = n
        BY <3>1, TreeFields DEF Sound, Filed, LogsFiled, FiledIn
      <4>2. ASSUME NEW k \in S, k.id = l.id PROVE FALSE
        <5>1. l.file = l.month
          BY <3>1, <4>1, NotAstray
        <5>. QED
          BY <2>3, <4>1, <4>2, <5>1, StoreAssumption
      <4>. QED
        BY <4>2 DEF Ids
    <3>2. ASSUME NEW r \in RowsOf(t, n), r.id \notin Strays PROVE r.id \notin Ids(S)
      <4>1. PICK l \in t.log[n] : l.id = r.id
        BY <2>1, <3>2 DEF Proper, Ids
      <4>. QED
        BY <3>1, <3>2, <4>1
    <3>3. ASSUME NEW r, r.id \notin Strays PROVE r \in RowsOf(u, n) <=> r \in RowsOf(t, n)
      BY <2>3, <3>2, <3>3, RowOf DEF RowsOf
    <3>4. Proper(RowsOf(u, n)) = Proper(RowsOf(t, n))
      BY <3>3 DEF Proper, Ids
    <3>. QED
      BY <1>1, <2>1, <2>3, <3>4
  <2>. QED
    BY <2>2, <2>3
<1>4. Below(t, u)
  BY <1>1 DEF Below, Ids
<1>5. Ids(S) \subseteq Known(u)
  BY <1>1 DEF Known, Logged, Ids
<1>. QED
  BY <1>2, <1>3, <1>4, <1>5 DEF Sound, Agrees, Follows

\* The trees that a script leaves behind, one per write: the last one is sound and
\* keeps what there was, with the script's own events.
Trail(t, trees, mine) ==
  /\ trees \in Seq(Tree) /\ trees # <<>>
  /\ \A k \in 1..Len(trees) : Filed(trees[k])
  /\ Sound(Last(trees)) /\ Follows(t, Last(trees))
  /\ Ids(mine) \subseteq Known(Last(trees))

LEMMA EntryTrail ==
  ASSUME NEW t \in Tree, Sound(t), NEW l \in Lines, Unused(t, l)
  PROVE  Trail(t, Entry(t, l), {l})
<1> DEFINE logged  == Appended(t, l)
           indexed == Indexed(logged, {l})
           ms      == {l.file}
           last    == Refreshed(indexed, ms)
<1> HIDE DEF ms
<1>1. /\ logged \in Tree /\ logged.log = [t.log EXCEPT ![l.file] = @ \union {l}]
      /\ logged.archive = t.archive /\ logged.index = t.index /\ logged.torn = t.torn
      /\ SameSummaries(t, logged)
  BY AppendedIs
<1>2. Entry(t, l) = <<logged, indexed, last>>
  BY DEF Entry, ms
<1> HIDE DEF logged
<1>3. /\ indexed \in Tree
      /\ indexed.index = {FirstRow(k) : k \in {l}}
                           \union {r \in t.index : r.id \notin Ids({l})}
      /\ indexed.log = logged.log /\ indexed.archive = t.archive
      /\ indexed.torn = t.torn /\ SameSummaries(t, indexed)
  BY <1>1, IndexedIs DEF SameSummaries
<1> HIDE DEF indexed
<1>4. /\ last \in Tree /\ last.log = indexed.log /\ last.archive = t.archive
      /\ last.index = indexed.index /\ last.torn = t.torn
      /\ last.composed = t.composed \ ms
      /\ \A m \in Months :
           last.summary[m] = IF m \in ms THEN [made |-> TRUE, of |-> indexed.log[m]]
                                         ELSE t.summary[m]
  <2>1. indexed \in Tree
    BY <1>3
  <2>2. LET u == Refreshed(indexed, ms)
        IN  /\ u \in Tree
            /\ u.log = indexed.log /\ u.archive = indexed.archive /\ u.index = indexed.index
            /\ u.torn = indexed.torn /\ u.composed = indexed.composed \ ms
            /\ \A m \in Months :
                 u.summary[m] = IF m \in ms THEN [made |-> TRUE, of |-> indexed.log[m]]
                                            ELSE indexed.summary[m]
    BY <2>1, RefreshedIs
  <2>. QED
    BY <1>3, <2>2 DEF SameSummaries
<1> HIDE DEF last
<1>5. /\ l.file \in Months /\ {l} \in SUBSET Lines /\ Distinct({l})
      /\ \A k \in {l} : k.file = l.file /\ k.id \notin Ids(t.log[l.file])
  BY RowOf DEF Distinct, Unused
<1>6. \A m \in Months :
        last.log[m] = IF m = l.file THEN t.log[m] \union {l} ELSE t.log[m]
  <2>1. last.log = [t.log EXCEPT ![l.file] = @ \union {l}]
    BY <1>1, <1>3, <1>4
  <2>. QED
    BY <2>1, TreeFields
<1>7. ASSUME ~last.torn PROVE Rendered(last)
  <2> SUFFICES ASSUME NEW m \in Months \ last.composed
               PROVE  last.summary[m] = Rendering(last.log[m])
    BY DEF Rendered
  <2>1. CASE m = l.file
    <3>1. last.log[m] # {} /\ last.summary[m] = [made |-> TRUE, of |-> last.log[m]]
      BY <1>4, <1>6, <2>1 DEF ms
    <3>. QED
      BY <3>1 DEF Rendering
  <2>2. CASE m # l.file
    <3>1. m \notin t.composed /\ last.log[m] = t.log[m] /\ last.summary[m] = t.summary[m]
      BY <1>4, <1>6, <2>2 DEF ms
    <3>. QED
      BY <1>4, <1>7, <3>1 DEF Sound, Rendered
  <2>. QED
    BY <2>1, <2>2
<1>8. Sound(last) /\ Follows(t, last) /\ Ids({l}) \subseteq Known(last)
  <2> DEFINE S == {l}
             m == l.file
  <2>1. /\ last.log = [t.log EXCEPT ![m] = @ \union S]
        /\ last.index = {FirstRow(k) : k \in S} \union {r \in t.index : r.id \notin Ids(S)}
        /\ last.archive = t.archive /\ last.torn = t.torn
    BY <1>1, <1>3, <1>4
  <2>2. /\ m \in Months /\ S \in SUBSET Lines /\ Distinct(S)
        /\ \A k \in S : k.file = m /\ k.id \notin Ids(t.log[m])
    BY <1>5
  <2> HIDE DEF S, m
  <2>3. last \in Tree /\ (~last.torn => Rendered(last))
    BY <1>4, <1>7
  <2>4. Sound(last) /\ Follows(t, last) /\ Ids(S) \subseteq Known(last)
    BY <2>1, <2>2, <2>3, LoggedAndIndexed
  <2>. QED
    BY <2>4 DEF S
<1>9. Filed(logged) /\ Filed(indexed) /\ Filed(last)
  <2>1. Filed(last) /\ Distinct(t.index)
    BY <1>8 DEF Sound, Filed
  <2>2. /\ logged.log = last.log /\ logged.index = t.index
        /\ indexed.log = last.log /\ indexed.index = last.index
    BY <1>1, <1>3, <1>4
  <2>. QED
    BY <2>1, <2>2 DEF Filed, LogsFiled
<1>10. /\ <<logged, indexed, last>> \in Seq(Tree)
       /\ Last(<<logged, indexed, last>>) = last
       /\ \A k \in 1..Len(<<logged, indexed, last>>) :
            <<logged, indexed, last>>[k] \in {logged, indexed, last}
  BY <1>1, <1>3, <1>4 DEF Last
<1>. QED
  BY <1>2, <1>8, <1>9, <1>10 DEF Trail

\* A finite set of as many identifiers as events.
LEMMA CountedDistinct ==
  ASSUME NEW S \in SUBSET Lines, Cardinality(Ids(S)) = Cardinality(S)
  PROVE  Distinct(S)
<1> DEFINE f == [l \in S |-> l.id]
<1>1. IsFiniteSet(S)
  BY StoreAssumption, FS_Subset
<1>2. f \in Surjection(S, Ids(S))
  BY DEF Surjection, Ids
<1>3. f \in Injection(S, Ids(S))
  <2> HIDE DEF f
  <2>. QED
    BY <1>1, <1>2, FS_SurjSameCardinalityImpliesInj
<1>. QED
  BY <1>3 DEF Injection, IsInjective, Distinct

LEMMA BootstrappedTrail ==
  ASSUME NEW t \in Tree, Sound(t), NEW m \in Months, NEW S \in Seeds(t, m, MinPerWorkflow)
  PROVE  Trail(t, Bootstrapped(t, m, S), S)
<1> DEFINE logged  == Seeded(t, m, S)
           indexed == Indexed(logged, S)
           last    == Unrendered(indexed, {m})
<1>1. /\ S \in SUBSET Lines /\ Distinct(S)
      /\ \A l \in S : l.file = m /\ l.id \notin Ids(t.log[m])
  <2>1. /\ S \in SUBSET {l \in Lines : l.seed /\ l.file = m /\ Unused(t, l)}
        /\ Cardinality(Ids(S)) = Cardinality(S)
    BY DEF Seeds
  <2>2. S \in SUBSET Lines
    BY <2>1
  <2>. QED
    BY <2>1, <2>2, CountedDistinct DEF Unused
<1>2. /\ logged \in Tree /\ logged.log = [t.log EXCEPT ![m] = @ \union S]
      /\ logged.archive = t.archive /\ logged.index = t.index /\ logged.torn = t.torn
      /\ SameSummaries(t, logged)
  BY <1>1, SeededIs
<1>3. Bootstrapped(t, m, S) = <<logged, indexed, last>>
  BY DEF Bootstrapped
<1> HIDE DEF logged
<1>4. /\ indexed \in Tree
      /\ indexed.index = {FirstRow(k) : k \in S} \union {r \in t.index : r.id \notin Ids(S)}
      /\ indexed.log = logged.log /\ indexed.archive = t.archive
      /\ indexed.torn = t.torn /\ SameSummaries(t, indexed)
  BY <1>1, <1>2, IndexedIs DEF SameSummaries
<1> HIDE DEF indexed
<1>5. /\ last \in Tree /\ last.log = indexed.log /\ last.archive = t.archive
      /\ last.index = indexed.index /\ last.torn = t.torn
      /\ last.summary = t.summary /\ last.composed = t.composed \union {m}
  BY <1>4, UnrenderedIs DEF SameSummaries
<1> HIDE DEF last
<1>6. \A n \in Months : last.log[n] = IF n = m THEN t.log[n] \union S ELSE t.log[n]
  <2>1. last.log = [t.log EXCEPT ![m] = @ \union S]
    BY <1>2, <1>4, <1>5
  <2>. QED
    BY <2>1, TreeFields
<1>7. ASSUME ~last.torn PROVE Rendered(last)
  BY <1>5, <1>6, <1>7 DEF Sound, Rendered
<1>8. Sound(last) /\ Follows(t, last) /\ Ids(S) \subseteq Known(last)
  BY <1>1, <1>2, <1>4, <1>5, <1>7, LoggedAndIndexed
<1>9. Filed(logged) /\ Filed(indexed) /\ Filed(last)
  <2>1. Filed(last) /\ Distinct(t.index)
    BY <1>8 DEF Sound, Filed
  <2>2. /\ logged.log = last.log /\ logged.index = t.index
        /\ indexed.log = last.log /\ indexed.index = last.index
    BY <1>2, <1>4, <1>5
  <2>. QED
    BY <2>1, <2>2 DEF Filed, LogsFiled
<1>10. /\ <<logged, indexed, last>> \in Seq(Tree)
       /\ Last(<<logged, indexed, last>>) = last
       /\ \A k \in 1..Len(<<logged, indexed, last>>) :
            <<logged, indexed, last>>[k] \in {logged, indexed, last}
  BY <1>2, <1>4, <1>5 DEF Last
<1>. QED
  BY <1>3, <1>8, <1>9, <1>10 DEF Trail

\* A compaction keeps an event of each identifier, or archives it.
LEMMA CompactedTrail ==
  ASSUME NEW t \in Tree, Sound(t), NEW b \in BOOLEAN, NEW K \in Kept(t, b)
  PROVE  Trail(t, Compacted(t, K, Old(t, b)), {})
<1> DEFINE A         == Old(t, b)
           truncated == Truncated(t)
           rewritten == Rewritten(t, K)
           archived  == Archived(rewritten, A)
           indexed   == Reindexed(archived, K)
           emptied   == {m \in Months : t.log[m] # {} /\ rewritten.log[m] = {}}
           ms        == {l.month : l \in K}
           refreshed == Refreshed(indexed, ms)
           last      == Unrendered(refreshed, emptied)
           active    == {l \in Logged(t) : ~(b /\ Archivable(l))}
           trees     == <<truncated, rewritten, archived, indexed, last>>
<1>1. Compacted(t, K, A) = trees
  BY DEF Compacted
<1>2. Logged(t) \subseteq Lines
  BY TreeFields DEF Logged
<1>3. /\ K \in SUBSET Lines /\ A \in [Months -> SUBSET Lines] /\ Ids(K) = Ids(active)
      /\ \A m \in Months : \A l \in t.log[m] : l \in active \/ l \in A[m]
      /\ Distinct(K) /\ Distinct({IndexRow(l) : l \in K})
  <2>1. K \in SUBSET Lines /\ Distinct(K) /\ Ids(K) = Ids(active)
    BY <1>2 DEF Kept, Distinct
  <2>2. A \in [Months -> SUBSET Lines]
    BY TreeFields DEF Old
  <2>3. \A m \in Months : \A l \in t.log[m] : l \in active \/ l \in A[m]
    BY DEF Old, Logged
  <2>. QED
    BY <2>1, <2>2, <2>3, DistinctRows
<1> HIDE DEF A, active
<1>4. /\ truncated \in Tree /\ truncated.log = [m \in Months |-> {}]
      /\ truncated.index = t.index
  BY TruncatedIs
<1> HIDE DEF truncated
<1>5. /\ rewritten \in Tree /\ rewritten.log = [m \in Months |-> {l \in K : l.month = m}]
      /\ rewritten.archive = t.archive /\ rewritten.torn = t.torn
      /\ rewritten.index = t.index /\ SameSummaries(t, rewritten)
  BY <1>3, RewrittenIs
<1>6. emptied \in SUBSET Months
      /\ \A m \in Months : m \in emptied <=> t.log[m] # {} /\ rewritten.log[m] = {}
  OBVIOUS
<1> HIDE DEF rewritten, emptied, ms
<1>7. /\ archived \in Tree
      /\ archived.archive = [m \in Months |-> t.archive[m] \union A[m]]
      /\ archived.log = rewritten.log /\ archived.torn = t.torn
      /\ archived.index = t.index /\ SameSummaries(t, archived)
  BY <1>3, <1>5, ArchivedIs DEF SameSummaries
<1> HIDE DEF archived
<1>8. /\ indexed \in Tree /\ indexed.index = {IndexRow(l) : l \in K}
      /\ indexed.log = rewritten.log /\ indexed.archive = archived.archive
      /\ indexed.torn = t.torn /\ SameSummaries(t, indexed)
  BY <1>3, <1>7, ReindexedIs DEF SameSummaries
<1> HIDE DEF indexed
<1>9. /\ refreshed \in Tree /\ refreshed.index = indexed.index
      /\ refreshed.log = indexed.log /\ refreshed.archive = archived.archive
      /\ refreshed.torn = t.torn
      /\ refreshed.composed = t.composed \ ms
      /\ \A m \in Months :
           refreshed.summary[m] = IF m \in ms THEN [made |-> TRUE, of |-> indexed.log[m]]
                                              ELSE t.summary[m]
  BY <1>8, RefreshedIs DEF SameSummaries
<1> HIDE DEF refreshed
<1>10. /\ last \in Tree /\ last.index = indexed.index
       /\ last.log = rewritten.log /\ last.archive = archived.archive
       /\ last.torn = t.torn /\ last.summary = refreshed.summary
       /\ last.composed = refreshed.composed \union emptied
  BY <1>6, <1>8, <1>9, UnrenderedIs
<1> HIDE DEF last
<1>11. Filed(truncated) /\ Filed(rewritten) /\ Filed(archived) /\ Filed(indexed) /\ Filed(last)
  <2>1. Distinct(t.index)
    BY DEF Sound, Filed
  <2>2. LogsFiled(truncated)
    BY <1>4 DEF LogsFiled, Distinct
  <2>3. LogsFiled(rewritten)
    BY <1>3, <1>5 DEF LogsFiled, FiledIn, Distinct
  <2>4. LogsFiled(archived) /\ LogsFiled(indexed) /\ LogsFiled(last)
    BY <1>7, <1>8, <1>10, <2>3 DEF LogsFiled
  <2>. QED
    BY <1>3, <1>4, <1>5, <1>7, <1>8, <1>10, <2>1, <2>2, <2>3, <2>4 DEF Filed
<1>12. ASSUME ~last.torn PROVE Rendered(last)
  <2> SUFFICES ASSUME NEW m \in Months \ last.composed
               PROVE  last.summary[m] = Rendering(last.log[m])
    BY DEF Rendered
  <2>1. last.log[m] = {l \in K : l.month = m}
    BY <1>5, <1>10
  <2>2. CASE m \in ms
    <3>1. last.log[m] # {}
      BY <2>1, <2>2 DEF ms
    <3>. QED
      BY <1>8, <1>9, <1>10, <2>2, <3>1 DEF Rendering
  <2>3. CASE m \notin ms
    <3>1. last.log[m] = {} /\ m \notin t.composed /\ m \notin emptied
      BY <1>9, <1>10, <2>1, <2>3 DEF ms
    <3>2. t.log[m] = {}
      BY <1>6, <1>10, <3>1
    <3>3. t.summary[m] = Rendering(t.log[m])
      BY <1>10, <1>12, <3>1 DEF Sound, Rendered
    <3>. QED
      BY <1>9, <1>10, <2>3, <3>1, <3>2, <3>3
  <2>. QED
    BY <2>2, <2>3
<1>13. Agrees(last)
  <2> SUFFICES ASSUME NEW m \in Months PROVE Proper(RowsOf(last, m)) = Proper(last.log[m])
    BY DEF Agrees
  <2>1. last.log[m] = {l \in K : l.month = m}
    BY <1>5, <1>10
  <2>2. ASSUME NEW r \in RowsOf(last, m) PROVE r.id \in Ids(last.log[m])
    BY <1>3, <1>8, <1>10, <2>1, RowOf DEF RowsOf, Ids
  <2>3. ASSUME NEW l \in last.log[m] PROVE l.id \in Ids(RowsOf(last, m))
    <3>1. IndexRow(l) \in RowsOf(last, m) /\ IndexRow(l).id = l.id
      BY <1>3, <1>8, <1>10, <2>1, RowOf DEF RowsOf
    <3>. QED
      BY <3>1 DEF Ids
  <2>. QED
    BY <2>2, <2>3 DEF Proper, Ids
<1>14. Below(t, last)
  <2> SUFFICES ASSUME NEW m \in Months
               PROVE  /\ Ids(t.archive[m]) \subseteq Ids(last.archive[m])
                      /\ \A i \in Ids(t.log[m]) : i \in Ids(last.log[m]) \/ Elsewhere(last, i)
    BY DEF Below
  <2>1. /\ \A n \in Months : last.log[n] = {l \in K : l.month = n}
        /\ last.archive[m] = t.archive[m] \union A[m]
    BY <1>5, <1>7, <1>10
  <2>2. ASSUME NEW l \in t.log[m] PROVE Elsewhere(last, l.id)
    <3>1. CASE l \in A[m]
      BY <2>1, <3>1 DEF Elsewhere, Ids
    <3>2. CASE l \in active
      <4>1. PICK k \in K : k.id = l.id
        BY <1>3, <3>2 DEF Ids
      <4>2. k \in Lines /\ k.month \in Months
        BY <1>3, RowOf
      <4>3. l.id \in Ids(last.log[k.month])
        BY <2>1, <4>1, <4>2 DEF Ids
      <4>. QED
        BY <4>1, <4>2, <4>3 DEF Elsewhere
    <3>. QED
      BY <1>3, <3>1, <3>2
  <2>. QED
    BY <2>1, <2>2 DEF Ids
<1>15. Sound(last) /\ Follows(t, last)
  BY <1>10, <1>11, <1>12, <1>13, <1>14 DEF Sound, Follows
<1>16. /\ trees \in Seq(Tree) /\ trees # <<>> /\ Last(trees) = last
       /\ \A k \in 1..Len(trees) :
            trees[k] \in {truncated, rewritten, archived, indexed, last}
  BY <1>4, <1>5, <1>7, <1>8, <1>10 DEF Last
<1>17. \A k \in 1..Len(trees) : Filed(trees[k])
  BY <1>11, <1>16
<1>18. Ids({}) = {}
  BY DEF Ids
<1> HIDE DEF trees
<1>. QED
  BY <1>1, <1>15, <1>16, <1>17, <1>18 DEF Trail, A

-----------------------------------------------------------------------------
(* The agents.  A checkout's base was on main and main keeps it; what the  *)
(* clone of a lane has of main, main keeps.                                *)

MemTypes ==
  /\ lane \in [Agents -> Agents]
  /\ main \in Tree
  /\ fetched \in [Agents -> Tree]
  /\ behind \subseteq Agents /\ stale \subseteq Agents
  /\ fresh \subseteq Lines
  /\ checkout \in [Agents -> Checkout]
  /\ script \in [Agents -> Script]

BranchSound(l) == Sound(fetched[l]) /\ Follows(fetched[l], main)

AgentSound(a) ==
  /\ lane[a] \notin stale => fetched[lane[a]] = main
  /\ CheckoutSound(checkout[a])
  /\ Follows(checkout[a].base, main)
  /\ script[a].at # "away" /\ a \notin behind => checkout[a].base = main
  /\ script[a].at \in {"push", "rebase"} =>
       /\ checkout[a].commits # <<>>
       /\ checkout[a].work = Last(checkout[a].commits)

MemInv ==
  /\ MemTypes
  /\ Sound(main)
  /\ \A l \in Agents : BranchSound(l)
  /\ \A a \in Agents : AgentSound(a)

LEMMA EmptySound ==
  /\ EmptyTree \in Tree /\ Sound(EmptyTree) /\ Known(EmptyTree) = {}
  /\ \A t \in Tree : Follows(EmptyTree, t)
<1>1. /\ EmptyTree \in Tree
      /\ \A m \in Months : EmptyTree.log[m] = {} /\ EmptyTree.archive[m] = {}
      /\ \A m \in Months : EmptyTree.summary[m] = NoSummary
      /\ EmptyTree.index = {} /\ EmptyTree.torn = FALSE
  BY EmptyTreeIs DEF EmptyTree
<1> HIDE DEF EmptyTree
<1>2. Sound(EmptyTree)
  <2>1. Filed(EmptyTree)
    BY <1>1 DEF Filed, LogsFiled, Distinct
  <2>2. Agrees(EmptyTree)
    BY <1>1 DEF Agrees, RowsOf, Proper, Ids
  <2>3. Rendered(EmptyTree)
    BY <1>1 DEF Rendered, Rendering
  <2>. QED
    BY <2>1, <2>2, <2>3 DEF Sound
<1>3. Known(EmptyTree) = {}
  BY <1>1 DEF Known, Logged, Ids
<1>4. \A t \in Tree : Follows(EmptyTree, t)
  BY <1>1 DEF Follows, Below, Ids
<1>. QED
  BY <1>1, <1>2, <1>3, <1>4

LEMMA FreshCheckoutSound ==
  ASSUME NEW t \in Tree, Sound(t)
  PROVE  LET c == FreshCheckout(t)
         IN  c \in Checkout /\ CheckoutSound(c) /\ c.base = t /\ c.commits = <<>>
<1> DEFINE c == FreshCheckout(t)
<1>1. /\ c.base = t /\ c.commits = <<>> /\ c.work = t /\ c.mine = {}
      /\ c \in Checkout
  BY DEF FreshCheckout, Checkout
<1> HIDE DEF c
<1>2. Top(c) = t /\ Len(c.commits) = 0 /\ Ids(c.mine) = {}
  BY <1>1 DEF Top, Ids
<1>. QED
  BY <1>1, <1>2, BelowReflexive DEF CheckoutSound, c

LEMMA RecordedSound ==
  ASSUME NEW S \in SUBSET Lines, Distinct(S)
  PROVE  Recorded(S) \in Tree /\ Sound(Recorded(S))
<1> DEFINE log == [m \in Months |-> {l \in S : l.month = m}]
           index == {IndexRow(l) : l \in S}
           t == [EmptyTree EXCEPT !.log = log, !.index = index]
           ms == {l.month : l \in S}
           u == Refreshed(t, ms)
<1>1. log \in [Months -> SUBSET Lines] /\ index \in SUBSET Row /\ Distinct(index)
  BY RowOf, DistinctRows
<1>2. Recorded(S) = u
  BY DEF Recorded
<1>3. \A m \in Months : /\ log[m] = {l \in S : l.month = m}
                        /\ log[m] # {} <=> m \in ms
  OBVIOUS
<1>4. \A r \in index : \E l \in S : r = IndexRow(l)
  OBVIOUS
<1>5. \A l \in S : IndexRow(l) \in index
  OBVIOUS
<1> HIDE DEF log, index, ms
<1>6. /\ t \in Tree /\ t.log = log /\ t.index = index
      /\ \A m \in Months : t.summary[m] = NoSummary
  BY <1>1, EmptyTreeIs DEF Tree, EmptyTree
<1> HIDE DEF t
<1>7. /\ u \in Tree /\ u.log = log /\ u.index = index
      /\ \A m \in Months :
           u.summary[m] = IF m \in ms THEN [made |-> TRUE, of |-> log[m]] ELSE NoSummary
  <2>1. /\ u \in Tree /\ u.log = t.log /\ u.index = t.index
        /\ \A m \in Months :
             u.summary[m] = IF m \in ms THEN [made |-> TRUE, of |-> t.log[m]]
                                        ELSE t.summary[m]
    BY <1>6, RefreshedIs
  <2> HIDE DEF u
  <2>. QED
    BY <1>6, <2>1
<1> HIDE DEF u
<1>8. Filed(u)
  BY <1>1, <1>3, <1>7 DEF Filed, LogsFiled, FiledIn, Distinct
<1>9. Rendered(u)
  BY <1>3, <1>7 DEF Rendered, Rendering
<1>10. ASSUME NEW m \in Months PROVE Proper(RowsOf(u, m)) = Proper(u.log[m])
  <2>1. ASSUME NEW r \in RowsOf(u, m) PROVE r.id \in Ids(u.log[m])
    BY <1>3, <1>4, <1>7, RowOf DEF RowsOf, Ids
  <2>2. ASSUME NEW l \in u.log[m] PROVE l.id \in Ids(RowsOf(u, m))
    <3>1. IndexRow(l) \in RowsOf(u, m) /\ IndexRow(l).id = l.id
      BY <1>3, <1>5, <1>7, RowOf DEF RowsOf
    <3>. QED
      BY <3>1 DEF Ids
  <2>. QED
    BY <2>1, <2>2 DEF Proper, Ids
<1>11. Sound(u)
  BY <1>8, <1>9, <1>10 DEF Sound, Agrees
<1>. QED
  BY <1>2, <1>7, <1>11

LEMMA MemStarts == Init => MemInv
<1> SUFFICES ASSUME Init PROVE MemInv
  OBVIOUS
<1>1. PICK s \in Setups : lane = s.lane /\ main = Recorded(s.logged) /\ fresh = s.fresh
  BY DEF Init, MemoryInit
<1>2. /\ lane \in [Agents -> Agents] /\ s.logged \in SUBSET Lines /\ fresh \subseteq Lines
      /\ Distinct(s.logged)
  BY <1>1, SyncAssumption DEF Distinct
<1>3. main \in Tree /\ Sound(main)
  BY <1>1, <1>2, RecordedSound
<1>4. /\ fetched = [l \in Agents |-> main] /\ behind = {} /\ stale = {}
      /\ checkout = [a \in Agents |-> NoCheckout]
      /\ script = [a \in Agents |-> At("away")]
  BY DEF Init, MemoryInit
<1>5. NoCheckout \in Checkout /\ CheckoutSound(NoCheckout) /\ NoCheckout.base = EmptyTree
  BY FreshCheckoutSound, EmptySound DEF NoCheckout
<1>6. At("away") \in Script /\ At("away").at = "away"
  BY SyncAssumption DEF At, Script
<1>7. MemTypes
  BY <1>2, <1>3, <1>4, <1>5, <1>6 DEF MemTypes
<1>8. \A l \in Agents : BranchSound(l)
  BY <1>3, <1>4, BelowReflexive DEF BranchSound
<1>9. ASSUME NEW a \in Agents PROVE AgentSound(a)
  BY <1>2, <1>3, <1>4, <1>5, <1>6, EmptySound DEF AgentSound
<1>. QED
  BY <1>3, <1>7, <1>8, <1>9 DEF MemInv

MainStays == lane' = lane /\ main' = main

\* A step fetches main into the clone of the agent's lane, or does not.
MayFetch(a) ==
  \/ fetched' = fetched /\ stale' = stale
  \/ fetched' = [fetched EXCEPT ![lane[a]] = main] /\ stale' = stale \ {lane[a]}

\* Main stays, one agent's checkout becomes d and its script is at p.
LEMMA CheckoutMoves ==
  ASSUME MemInv, NEW a \in Agents, NEW d \in Checkout, NEW p \in Script,
         MainStays, MayFetch(a),
         behind' \subseteq Agents,
         \A q \in Agents \ {a} : q \in behind => q \in behind',
         fresh' \subseteq Lines,
         checkout' = [checkout EXCEPT ![a] = d],
         script' = [script EXCEPT ![a] = p],
         CheckoutSound(d), Follows(d.base, main),
         (p.at # "away" /\ a \notin behind') => d.base = main,
         p.at \in {"push", "rebase"} => d.commits # <<>> /\ d.work = Last(d.commits)
  PROVE  MemInv'
<1> USE DEF MemInv
<1>1. lane' = lane /\ main' = main /\ lane \in [Agents -> Agents]
  BY DEF MainStays, MemTypes
<1>2. /\ fetched' \in [Agents -> Tree] /\ stale' \subseteq Agents
      /\ \A l \in Agents : /\ fetched'[l] \in {fetched[l], main}
                           /\ l \notin stale' => l \notin stale \/ fetched'[l] = main
                           /\ l \notin stale => fetched'[l] = fetched[l] \/ fetched'[l] = main
  BY <1>1 DEF MayFetch, MemTypes
<1>3. /\ checkout'[a] = d /\ script'[a] = p
      /\ \A q \in Agents \ {a} : checkout'[q] = checkout[q] /\ script'[q] = script[q]
      /\ checkout' \in [Agents -> Checkout] /\ script' \in [Agents -> Script]
  BY DEF MemTypes
<1>4. MemTypes'
  BY <1>1, <1>2, <1>3 DEF MemTypes
<1>5. ASSUME NEW l \in Agents PROVE BranchSound(l)'
  <2>1. Sound(fetched'[l]) /\ Follows(fetched'[l], main)
    BY <1>2, BelowReflexive DEF BranchSound
  <2>. QED
    BY <1>1, <2>1 DEF BranchSound
<1>6. ASSUME NEW q \in Agents PROVE AgentSound(q)'
  <2>1. lane[q] \in Agents
    BY <1>1
  <2>2. lane[q] \notin stale' => fetched'[lane[q]] = main
    BY <1>2, <2>1 DEF AgentSound
  <2>3. CASE q = a
    BY <1>1, <1>3, <2>2, <2>3 DEF AgentSound
  <2>4. CASE q # a
    BY <1>1, <1>3, <2>2, <2>4 DEF AgentSound
  <2>. QED
    BY <2>3, <2>4
<1>7. Sound(main')
  BY <1>1
<1>. QED
  BY <1>4, <1>5, <1>6, <1>7

LEMMA MemUntouched ==
  ASSUME MemInv, UNCHANGED memoryVars
  PROVE  MemInv'
BY DEF MemInv, MemTypes, BranchSound, AgentSound, memoryVars

\* The fields of an agent's checkout and script.
LEMMA AgentOf ==
  ASSUME MemInv, NEW a \in Agents
  PROVE  /\ checkout[a] \in Checkout /\ script[a] \in Script /\ lane[a] \in Agents
         /\ checkout[a].base \in Tree /\ checkout[a].work \in Tree
         /\ checkout[a].commits \in Seq(Tree) /\ checkout[a].mine \in SUBSET Lines
         /\ CheckoutSound(checkout[a]) /\ Follows(checkout[a].base, main)
         /\ Sound(checkout[a].work) /\ Sound(checkout[a].base)
<1>1. checkout[a] \in Checkout /\ script[a] \in Script /\ lane[a] \in Agents
  BY DEF MemInv, MemTypes
<1>2. CheckoutSound(checkout[a]) /\ Follows(checkout[a].base, main)
  BY DEF MemInv, AgentSound
<1>. QED
  BY <1>1, <1>2 DEF Checkout, CheckoutSound

LEMMA PlaceIs ==
  \A at \in {"away", "shell", "push", "rebase", "stopped"} : At(at) \in Script /\ At(at).at = at
BY SyncAssumption DEF At, Script

\* The files change, and the events of the agent: what the new tree has to keep.
LEMMA WorkWritten ==
  ASSUME NEW c \in Checkout, CheckoutSound(c), NEW w \in Tree, NEW mine \in SUBSET Lines,
         Sound(w), Follows(c.work, w),
         ~w.torn => Ids(mine) \subseteq Known(w)
  PROVE  LET d == [c EXCEPT !.work = w, !.mine = @ \union mine]
         IN  d \in Checkout /\ CheckoutSound(d) /\ d.base = c.base
<1> DEFINE d == [c EXCEPT !.work = w, !.mine = @ \union mine]
<1>1. /\ d.base = c.base /\ d.commits = c.commits /\ d.work = w
      /\ d.mine = c.mine \union mine
  BY DEF Checkout
<1>2. d \in Checkout
  <2>1. c.mine \union mine \in SUBSET Lines
    BY DEF Checkout
  <2>. QED
    BY <2>1 DEF Checkout
<1> HIDE DEF d
<1>3. /\ Top(d) = Top(c)
      /\ \A i : Prior(d, i) = Prior(c, i)
  BY <1>1 DEF Top, Prior
<1>4. Follows(c.base, w) /\ Follows(Top(c), w)
  BY FollowsTransitive DEF CheckoutSound
<1>5. ASSUME ~w.torn PROVE Ids(d.mine) \subseteq Known(w)
  <2>1. ~c.work.torn /\ Known(c.work) \subseteq Known(w)
    BY <1>5, BelowKnown DEF Follows
  <2>2. Ids(c.mine) \subseteq Known(w)
    BY <2>1 DEF CheckoutSound
  <2>. QED
    BY <1>1, <1>5, <2>2 DEF Ids
<1>6. CheckoutSound(d)
  BY <1>1, <1>3, <1>4, <1>5 DEF CheckoutSound
<1>. QED
  BY <1>1, <1>2, <1>6 DEF d

\* A script that is stopped between two writes leaves a torn tree, of which only is
\* known that its events are in the files of their months.
LEMMA WritesKeep ==
  ASSUME MemInv, NEW a \in Agents, NEW trees, NEW mine \in SUBSET Lines,
         Trail(checkout[a].work, trees, mine), Writes(a, trees, mine),
         fresh' \subseteq Lines
  PROVE  MemInv'
<1> DEFINE c == checkout[a]
<1>1. PICK k \in 1..Len(trees) :
         checkout' = [checkout EXCEPT
                        ![a].work = [trees[k] EXCEPT !.torn = @ \/ trees[k] # Last(trees)],
                        ![a].mine = @ \union mine]
  BY DEF Writes
<1> DEFINE w == [trees[k] EXCEPT !.torn = @ \/ trees[k] # Last(trees)]
           d == [c EXCEPT !.work = w, !.mine = @ \union mine]
<1>2. trees[k] \in Tree /\ Filed(trees[k])
  BY DEF Trail
<1>3. /\ w \in Tree /\ w.log = trees[k].log /\ w.index = trees[k].index
      /\ w.torn = (trees[k].torn \/ trees[k] # Last(trees))
      /\ trees[k] = Last(trees) => w = Last(trees)
  BY <1>2 DEF Tree
<1>4. checkout' = [checkout EXCEPT ![a] = d]
  BY <1>1, AgentOf DEF MemInv, MemTypes
<1> HIDE DEF w
<1>5. Sound(w) /\ Follows(c.work, w) /\ (~w.torn => Ids(mine) \subseteq Known(w))
  <2>1. CASE trees[k] = Last(trees)
    BY <1>3, <2>1 DEF Trail
  <2>2. CASE trees[k] # Last(trees)
    BY <1>2, <1>3, <2>2 DEF Sound, Filed, LogsFiled, Follows
  <2>. QED
    BY <2>1, <2>2
<1>6. d \in Checkout /\ CheckoutSound(d) /\ d.base = c.base
  <2>1. c \in Checkout /\ CheckoutSound(c) /\ w \in Tree
    BY <1>3, AgentOf
  <2> HIDE DEF c
  <2>. QED
    BY <1>5, <2>1, WorkWritten
<1>7. /\ script[a] \in Script /\ script[a].at = "shell"
      /\ script' = [script EXCEPT ![a] = script[a]]
      /\ MainStays /\ MayFetch(a) /\ behind' = behind
  BY AgentOf DEF Writes, MainStays, MayFetch, MemInv, MemTypes
<1>8. /\ behind' \subseteq Agents
      /\ \A q \in Agents \ {a} : q \in behind => q \in behind'
  BY <1>7 DEF MemInv, MemTypes
<1>9. /\ Follows(d.base, main)
      /\ (script[a].at # "away" /\ a \notin behind') => d.base = main
      /\ script[a].at \in {"push", "rebase"} => d.commits # <<>> /\ d.work = Last(d.commits)
  BY <1>6, <1>7 DEF MemInv, AgentSound
<1> HIDE DEF c, d
<1>. QED
  BY <1>4, <1>6, <1>7, <1>8, <1>9, CheckoutMoves

LEMMA AddEntryKeeps ==
  ASSUME MemInv, NEW a \in Agents, NEW l \in Lines, AddEntry(a, l)
  PROVE  MemInv'
<1>1. Trail(checkout[a].work, Entry(checkout[a].work, l), {l})
  <2>1. Unused(checkout[a].work, l)
    BY DEF AddEntry
  <2>. QED
    BY <2>1, AgentOf, EntryTrail
<1>2. fresh' \subseteq Lines /\ {l} \in SUBSET Lines
  BY DEF AddEntry, MemInv, MemTypes
<1>3. Writes(a, Entry(checkout[a].work, l), {l})
  BY DEF AddEntry
<1>. QED
  BY <1>1, <1>2, <1>3, WritesKeep

LEMMA BootstrapKeeps ==
  ASSUME MemInv, NEW a \in Agents, NEW m \in Months, Bootstrap(a, m)
  PROVE  MemInv'
<1>1. PICK S \in Seeds(checkout[a].work, m, MinPerWorkflow) :
         Writes(a, Bootstrapped(checkout[a].work, m, S), S)
  BY DEF Bootstrap
<1>2. S \in SUBSET Lines
  BY DEF Seeds
<1>3. Trail(checkout[a].work, Bootstrapped(checkout[a].work, m, S), S)
  BY AgentOf, BootstrappedTrail
<1>4. fresh' \subseteq Lines
  BY DEF Bootstrap, MemInv, MemTypes
<1>. QED
  BY <1>1, <1>2, <1>3, <1>4, WritesKeep

LEMMA CompactKeeps ==
  ASSUME MemInv, NEW a \in Agents, NEW b \in BOOLEAN, Compact(a, b)
  PROVE  MemInv'
<1> DEFINE t == checkout[a].work
<1>1. PICK K \in Kept(t, b) : Writes(a, Compacted(t, K, Old(t, b)), {})
  BY DEF Compact
<1>2. Trail(t, Compacted(t, K, Old(t, b)), {})
  BY AgentOf, CompactedTrail
<1>3. fresh' \subseteq Lines /\ {} \in SUBSET Lines
  BY DEF Compact, MemInv, MemTypes
<1>. QED
  BY <1>1, <1>2, <1>3, WritesKeep

LEMMA SyncCommitKeeps ==
  ASSUME MemInv, NEW a \in Agents, NEW target \in Targets, SyncCommit(a, target)
  PROVE  MemInv'
<1> DEFINE c == checkout[a]
           d == [c EXCEPT !.commits = Append(@, c.work)]
           p == [At("push") EXCEPT !.target = target, !.attempt = 1]
<1>1. /\ c \in Checkout /\ CheckoutSound(c) /\ c.work \in Tree /\ c.commits \in Seq(Tree)
  BY AgentOf
<1>2. /\ checkout' = [checkout EXCEPT ![a] = d] /\ script' = [script EXCEPT ![a] = p]
      /\ MainStays /\ MayFetch(a) /\ behind' = behind /\ fresh' = fresh
      /\ script[a].at = "shell"
  BY DEF SyncCommit, MainStays, MayFetch
<1>3. p \in Script /\ p.at = "push"
  <2>1. target \in {"main", "own"} /\ 1 \in 0..MaxAttempts
    <3>1. target \in {"main", "own"}
      BY SyncAssumption, Zenon
    <3>2. MaxAttempts \in Nat \ {0}
      BY SyncAssumption
    <3>. QED
      BY <3>1, <3>2
  <2>2. At("push") \in Script /\ At("push").at = "push"
    BY PlaceIs
  <2>3. \A s \in Script, tg \in {"main", "own"}, n \in 0..MaxAttempts :
          LET q == [s EXCEPT !.target = tg, !.attempt = n]
          IN  q \in Script /\ q.at = s.at
    BY DEF Script
  <2>. QED
    BY <2>1, <2>2, <2>3
<1> HIDE DEF c, p
<1>4. /\ d.base = c.base /\ d.commits = Append(c.commits, c.work)
      /\ d.work = c.work /\ d.mine = c.mine /\ d \in Checkout
  BY <1>1 DEF Checkout
<1> HIDE DEF d
<1>5. /\ d.commits # <<>> /\ Last(d.commits) = c.work /\ Top(d) = c.work
      /\ Len(d.commits) = Len(c.commits) + 1 /\ Len(c.commits) \in Nat
      /\ d.commits[Len(c.commits) + 1] = c.work
      /\ \A i \in 1..Len(c.commits) : d.commits[i] = c.commits[i]
  BY <1>1, <1>4 DEF Last, Top
<1>6. ASSUME NEW i \in 1..Len(d.commits)
      PROVE  /\ Sound(d.commits[i])
             /\ Follows(Prior(d, i), d.commits[i])
             /\ Follows(d.base, d.commits[i])
  <2>1. CASE i \in 1..Len(c.commits)
    <3>1. Prior(d, i) = Prior(c, i)
      <4>1. i # 1 => i - 1 \in 1..Len(c.commits)
        BY <1>5, <2>1
      <4>. QED
        BY <1>4, <1>5, <4>1 DEF Prior
    <3>. QED
      BY <1>1, <1>4, <1>5, <2>1, <3>1 DEF CheckoutSound
  <2>2. CASE i = Len(c.commits) + 1
    <3>1. Prior(d, i) = Top(c)
      <4>1. CASE c.commits = <<>>
        BY <1>4, <2>2, <4>1 DEF Prior, Top
      <4>2. CASE c.commits # <<>>
        <5>1. Len(c.commits) \in 1..Len(c.commits) /\ i # 1 /\ i - 1 = Len(c.commits)
          BY <1>1, <1>5, <2>2, <4>2
        <5>. QED
          BY <1>4, <1>5, <4>2, <5>1 DEF Prior, Top, Last
      <4>. QED
        BY <4>1, <4>2
    <3>. QED
      BY <1>1, <1>4, <1>5, <2>2, <3>1 DEF CheckoutSound
  <2>. QED
    BY <1>5, <2>1, <2>2
<1>7. CheckoutSound(d)
  BY <1>1, <1>4, <1>5, <1>6, BelowReflexive DEF CheckoutSound
<1>8. /\ behind' \subseteq Agents /\ fresh' \subseteq Lines
      /\ \A q \in Agents \ {a} : q \in behind => q \in behind'
  BY <1>2 DEF MemInv, MemTypes
<1>9. /\ Follows(d.base, main)
      /\ (p.at # "away" /\ a \notin behind') => d.base = main
      /\ p.at \in {"push", "rebase"} => d.commits # <<>> /\ d.work = Last(d.commits)
  BY <1>2, <1>4, <1>5 DEF MemInv, AgentSound, c
<1>. QED
  BY <1>2, <1>3, <1>4, <1>7, <1>8, <1>9, CheckoutMoves

\* A failed sync: its commits stay in the checkout.
LEMMA UnpushedIs ==
  ASSUME NEW c \in Checkout
  PROVE  LET d == [c EXCEPT !.unpushed = TRUE]
         IN  /\ d \in Checkout /\ d.base = c.base
             /\ CheckoutSound(c) => CheckoutSound(d)
<1> DEFINE d == [c EXCEPT !.unpushed = TRUE]
<1>1. /\ d \in Checkout
      /\ d.base = c.base /\ d.commits = c.commits /\ d.work = c.work /\ d.mine = c.mine
  BY DEF Checkout
<1> HIDE DEF d
<1>2. Top(d) = Top(c) /\ \A i : Prior(d, i) = Prior(c, i)
  BY <1>1 DEF Top, Prior
<1>3. CheckoutSound(c) => CheckoutSound(d)
  BY <1>1, <1>2 DEF CheckoutSound
<1>. QED
  BY <1>1, <1>3 DEF d

LEMMA CommitsStayKeeps ==
  ASSUME MemInv, NEW a \in Agents, CommitsStay(a), script[a].at # "away"
  PROVE  MemInv'
<1> DEFINE d == [checkout[a] EXCEPT !.unpushed = TRUE]
           p == At("shell")
<1>1. /\ checkout' = [checkout EXCEPT ![a] = d] /\ script' = [script EXCEPT ![a] = p]
      /\ MainStays /\ MayFetch(a) /\ behind' = behind /\ fresh' = fresh
  BY DEF CommitsStay, Exit, MainStays, MayFetch
<1>2. p \in Script /\ p.at = "shell"
  BY PlaceIs
<1>3. d \in Checkout /\ d.base = checkout[a].base /\ CheckoutSound(d)
  BY AgentOf, UnpushedIs
<1> HIDE DEF d, p
<1>4. /\ behind' \subseteq Agents /\ fresh' \subseteq Lines
      /\ \A q \in Agents \ {a} : q \in behind => q \in behind'
  BY <1>1 DEF MemInv, MemTypes
<1>5. /\ Follows(d.base, main)
      /\ (p.at # "away" /\ a \notin behind') => d.base = main
      /\ p.at \in {"push", "rebase"} => d.commits # <<>> /\ d.work = Last(d.commits)
  BY <1>1, <1>2, <1>3 DEF MemInv, AgentSound
<1>. QED
  BY <1>1, <1>2, <1>3, <1>4, <1>5, CheckoutMoves

LEMMA RebaseFailsKeeps ==
  ASSUME MemInv, NEW a \in Agents, RebaseAborted(a) \/ RebaseStops(a)
  PROVE  MemInv'
<1> DEFINE d == [checkout[a] EXCEPT !.unpushed = TRUE]
           p == script'[a]
<1>1. /\ checkout' = [checkout EXCEPT ![a] = d] /\ script' = [script EXCEPT ![a] = p]
      /\ MainStays /\ MayFetch(a) /\ behind' = behind /\ fresh' = fresh
      /\ script[a].at = "rebase"
  <2>1. RebaseFails(a)
    BY DEF RebaseAborted, RebaseStops
  <2>2. script' = [script EXCEPT ![a] = p]
    <3>1. \E s : script' = [script EXCEPT ![a] = s]
      BY DEF RebaseAborted, RebaseStops, Exit, Step
    <3>. QED
      BY <3>1 DEF MemInv, MemTypes
  <2>. QED
    BY <2>1, <2>2 DEF RebaseFails, MainStays, MayFetch
<1>2. p \in Script /\ p.at \in {"shell", "stopped"}
  <2>1. CASE RebaseAborted(a)
    <3>1. p = At("shell")
      BY <2>1 DEF RebaseAborted, Exit, MemInv, MemTypes
    <3>. QED
      BY <3>1, PlaceIs
  <2>2. CASE RebaseStops(a)
    <3>1. script \in [Agents -> Script] /\ p = [script[a] EXCEPT !.at = "stopped"]
      BY <2>2 DEF RebaseStops, Step, MemInv, MemTypes
    <3>. QED
      BY <3>1 DEF Script
  <2>. QED
    BY <2>1, <2>2
<1>3. d \in Checkout /\ d.base = checkout[a].base /\ CheckoutSound(d)
  BY AgentOf, UnpushedIs
<1> HIDE DEF d, p
<1>4. /\ behind' \subseteq Agents /\ fresh' \subseteq Lines
      /\ \A q \in Agents \ {a} : q \in behind => q \in behind'
  BY <1>1 DEF MemInv, MemTypes
<1>5. /\ Follows(d.base, main)
      /\ (p.at # "away" /\ a \notin behind') => d.base = main
      /\ p.at \in {"push", "rebase"} => d.commits # <<>> /\ d.work = Last(d.commits)
  BY <1>1, <1>2, <1>3 DEF MemInv, AgentSound
<1>. QED
  BY <1>1, <1>2, <1>3, <1>4, <1>5, CheckoutMoves

LEMMA PushRejectedKeeps ==
  ASSUME MemInv, NEW a \in Agents, PushRejected(a)
  PROVE  MemInv'
<1> DEFINE d == checkout[a]
           p == [script[a] EXCEPT !.at = "rebase", !.attempt = @ + 1]
<1>1. /\ checkout' = [checkout EXCEPT ![a] = d] /\ script' = [script EXCEPT ![a] = p]
      /\ MainStays /\ MayFetch(a) /\ behind' = behind /\ fresh' = fresh
      /\ script[a].at = "push"
  BY DEF PushRejected, MainStays, MayFetch, MemInv, MemTypes
<1>2. p \in Script /\ p.at = "rebase"
  <2>1. script[a] \in Script /\ script[a].attempt < MaxAttempts
    BY AgentOf DEF PushRejected
  <2>2. script[a].attempt + 1 \in 0..MaxAttempts
    <3>1. MaxAttempts \in Nat /\ script[a].attempt \in 0..MaxAttempts
      BY <2>1, SyncAssumption DEF Script
    <3>. QED
      BY <2>1, <3>1
  <2>3. \A s \in Script, n \in 0..MaxAttempts :
          LET q == [s EXCEPT !.at = "rebase", !.attempt = n]
          IN  q \in Script /\ q.at = "rebase"
    BY DEF Script
  <2>. QED
    BY <2>1, <2>2, <2>3
<1>3. d \in Checkout /\ CheckoutSound(d)
  BY AgentOf
<1> HIDE DEF p
<1>4. /\ behind' \subseteq Agents /\ fresh' \subseteq Lines
      /\ \A q \in Agents \ {a} : q \in behind => q \in behind'
  BY <1>1 DEF MemInv, MemTypes
<1>5. /\ Follows(d.base, main)
      /\ (p.at # "away" /\ a \notin behind') => d.base = main
      /\ p.at \in {"push", "rebase"} => d.commits # <<>> /\ d.work = Last(d.commits)
  BY <1>1, <1>2 DEF MemInv, AgentSound
<1> HIDE DEF d
<1>. QED
  BY <1>1, <1>2, <1>3, <1>4, <1>5, CheckoutMoves

LEMMA RebaseKeeps ==
  ASSUME MemInv, NEW a \in Agents, Rebase(a)
  PROVE  MemInv'
<1> DEFINE c == checkout[a]
<1>1. PICK mine \in SUBSET Months :
         checkout' = [checkout EXCEPT ![a].base = main,
                                      ![a].commits = Replays(c, main, mine),
                                      ![a].work = Last(Replays(c, main, mine))]
  BY DEF Rebase
<1> DEFINE new == Replays(c, main, mine)
           d == [c EXCEPT !.base = main, !.commits = new, !.work = Last(new)]
           p == [script[a] EXCEPT !.at = "push"]
<1>2. /\ c \in Checkout /\ CheckoutSound(c) /\ Follows(c.base, main)
      /\ c.commits \in Seq(Tree) /\ c.commits # <<>> /\ c.work = Last(c.commits)
      /\ main \in Tree /\ Sound(main)
  BY AgentOf DEF MemInv, MemTypes, AgentSound, Rebase
<1>3. /\ checkout' = [checkout EXCEPT ![a] = d] /\ script' = [script EXCEPT ![a] = p]
      /\ MainStays /\ MayFetch(a) /\ behind' = behind \ {a} /\ fresh' = fresh
      /\ script[a].at = "rebase"
  <2>1. checkout' = [checkout EXCEPT ![a] = d]
    BY <1>1 DEF MemInv, MemTypes, Checkout
  <2>. QED
    BY <2>1 DEF Rebase, Step, MainStays, MayFetch
<1>4. p \in Script /\ p.at = "push"
  <2>1. script[a] \in Script
    BY AgentOf
  <2>. QED
    BY <2>1 DEF Script
<1>5. /\ new \in Seq(Tree) /\ Len(new) = Len(c.commits)
      /\ \A k \in 1..Len(c.commits) :
           /\ Sound(new[k])
           /\ Follows(c.commits[k], new[k])
           /\ Follows(IF k = 1 THEN main ELSE new[k - 1], new[k])
           /\ Follows(main, new[k])
  BY <1>2, ReplaysKeep
<1> HIDE DEF c, new, p
<1>6. /\ Len(c.commits) \in 1..Len(c.commits) /\ new # <<>>
      /\ Last(new) = new[Len(c.commits)] /\ c.work = c.commits[Len(c.commits)]
      /\ Last(new) \in Tree
  BY <1>2, <1>5 DEF Last
<1>7. /\ d.base = main /\ d.commits = new /\ d.work = Last(new) /\ d.mine = c.mine
      /\ d \in Checkout
  BY <1>2, <1>5, <1>6 DEF Checkout
<1> HIDE DEF d
<1>8. \A k : Prior(d, k) = IF k = 1 THEN main ELSE new[k - 1]
  BY <1>7 DEF Prior
<1>9. /\ Sound(Last(new)) /\ Follows(c.work, Last(new)) /\ Follows(main, Last(new))
  BY <1>5, <1>6
<1>10. ASSUME ~d.work.torn PROVE Ids(d.mine) \subseteq Known(d.work)
  <2>1. ~c.work.torn /\ Known(c.work) \subseteq Known(d.work)
    BY <1>7, <1>9, <1>10, BelowKnown DEF Follows
  <2>2. Ids(c.mine) \subseteq Known(c.work)
    BY <1>2, <2>1 DEF CheckoutSound
  <2>. QED
    BY <1>7, <2>1, <2>2
<1>11. Top(d) = Last(new)
  BY <1>6, <1>7 DEF Top
<1>12. CheckoutSound(d)
  BY <1>2, <1>5, <1>7, <1>8, <1>9, <1>10, <1>11, BelowReflexive DEF CheckoutSound
<1>13. /\ behind' \subseteq Agents /\ fresh' \subseteq Lines
       /\ \A q \in Agents \ {a} : q \in behind => q \in behind'
  BY <1>3 DEF MemInv, MemTypes
<1>14. /\ Follows(d.base, main)
       /\ (p.at # "away" /\ a \notin behind') => d.base = main
       /\ p.at \in {"push", "rebase"} => d.commits # <<>> /\ d.work = Last(d.commits)
  BY <1>6, <1>7, BelowReflexive
<1>. QED
  BY <1>3, <1>4, <1>7, <1>12, <1>13, <1>14, CheckoutMoves

\* The checkout of a cycle starts from what its lane fetched last.
LEMMA OpenCheckoutKeeps ==
  ASSUME MemInv, NEW a \in Agents, NEW fetches \in BOOLEAN, OpenCheckout(a, fetches),
         lane' = lane, main' = main, fresh' = fresh
  PROVE  MemInv'
<1> DEFINE t == fetched'[lane[a]]
           d == FreshCheckout(t)
           p == At("shell")
<1>1. /\ checkout' = [checkout EXCEPT ![a] = d] /\ script' = [script EXCEPT ![a] = p]
      /\ MainStays /\ MayFetch(a)
      /\ behind' = IF lane[a] \in stale' THEN behind \union {a} ELSE behind \ {a}
  BY DEF OpenCheckout, MainStays, MayFetch
<1>2. p \in Script /\ p.at = "shell"
  BY PlaceIs
<1>3. lane[a] \in Agents
  BY AgentOf
<1>4. t \in Tree /\ Sound(t) /\ Follows(t, main) /\ (lane[a] \notin stale' => t = main)
  BY <1>1, <1>3, BelowReflexive DEF MayFetch, MemInv, MemTypes, BranchSound, AgentSound
<1> HIDE DEF t, p
<1>5. d \in Checkout /\ CheckoutSound(d) /\ d.base = t
  BY <1>4, FreshCheckoutSound
<1> HIDE DEF d
<1>6. /\ behind' \subseteq Agents /\ fresh' \subseteq Lines
      /\ \A q \in Agents \ {a} : q \in behind => q \in behind'
  BY <1>1 DEF MemInv, MemTypes
<1>7. /\ Follows(d.base, main)
      /\ (p.at # "away" /\ a \notin behind') => d.base = main
      /\ p.at \in {"push", "rebase"} => d.commits # <<>> /\ d.work = Last(d.commits)
  BY <1>1, <1>2, <1>4, <1>5
<1>. QED
  BY <1>1, <1>2, <1>5, <1>6, <1>7, CheckoutMoves

LEMMA DropCheckoutKeeps ==
  ASSUME MemInv, NEW a \in Agents, DropCheckout(a),
         UNCHANGED <<lane, main, fetched, stale, fresh>>
  PROVE  MemInv'
<1> DEFINE d == NoCheckout
           p == At("away")
<1>1. /\ checkout' = [checkout EXCEPT ![a] = d] /\ script' = [script EXCEPT ![a] = p]
      /\ MainStays /\ MayFetch(a) /\ behind' = behind \ {a} /\ fresh' = fresh
  BY DEF DropCheckout, MainStays, MayFetch
<1>2. p \in Script /\ p.at = "away"
  BY PlaceIs
<1>3. d \in Checkout /\ CheckoutSound(d) /\ d.base = EmptyTree
  BY FreshCheckoutSound, EmptySound DEF NoCheckout
<1> HIDE DEF d, p
<1>4. /\ behind' \subseteq Agents /\ fresh' \subseteq Lines
      /\ \A q \in Agents \ {a} : q \in behind => q \in behind'
  BY <1>1 DEF MemInv, MemTypes
<1>5. /\ Follows(d.base, main)
      /\ (p.at # "away" /\ a \notin behind') => d.base = main
      /\ p.at \in {"push", "rebase"} => d.commits # <<>> /\ d.work = Last(d.commits)
  BY <1>2, <1>3, EmptySound DEF MemInv, MemTypes
<1>. QED
  BY <1>1, <1>2, <1>3, <1>4, <1>5, CheckoutMoves

\* A push that main accepts: what is committed was made from main's tip.  Every
\* other branch and base, which main kept before, it keeps now.
LEMMA PushKeeps ==
  ASSUME MemInv, NEW a \in Agents, Push(a)
  PROVE  /\ MemInv'
         /\ Follows(main, main')
         /\ main' = checkout[a].work
<1> DEFINE c == checkout[a]
           d == [c EXCEPT !.base = main', !.commits = <<>>]
           p == At("shell")
<1>1. /\ c \in Checkout /\ CheckoutSound(c) /\ Follows(c.base, main) /\ c.base = main
      /\ lane[a] \in Agents /\ lane \in [Agents -> Agents]
  BY AgentOf DEF MemInv, MemTypes, AgentSound, Push
<1>2. /\ main' = c.work /\ lane' = lane /\ fresh' = fresh
      /\ fetched' = [fetched EXCEPT ![lane[a]] = main']
      /\ behind' = {b \in Agents \ {a} : script[b].at # "away"}
      /\ stale' = {lane[b] : b \in Agents} \ {lane[a]}
      /\ checkout' = [checkout EXCEPT ![a] = d]
      /\ script' = [script EXCEPT ![a] = p]
  BY DEF Push, Exit, MemInv, MemTypes, Checkout
<1>3. p \in Script /\ p.at = "shell"
  BY PlaceIs
<1>4. main' \in Tree /\ Sound(main') /\ Follows(main, main')
  BY <1>1, <1>2, AgentOf DEF CheckoutSound
<1>5. /\ d.base = main' /\ d.commits = <<>> /\ d.work = main' /\ d.mine = c.mine
      /\ d \in Checkout
  <2>1. c \in Checkout
    BY <1>1
  <2> HIDE DEF c
  <2>2. ASSUME NEW u \in Tree, NEW s \in Seq(Tree)
        PROVE  LET e == [c EXCEPT !.base = u, !.commits = s]
               IN  /\ e.base = u /\ e.commits = s /\ e.work = c.work /\ e.mine = c.mine
                   /\ e \in Checkout
    BY <2>1 DEF Checkout
  <2>3. <<>> \in Seq(Tree)
    OBVIOUS
  <2>. QED
    BY <1>2, <1>4, <2>2, <2>3
<1> HIDE DEF d, p
<1>6. Top(d) = main' /\ Len(d.commits) = 0
  BY <1>5 DEF Top
<1>7. CheckoutSound(d)
  BY <1>1, <1>2, <1>4, <1>5, <1>6, BelowReflexive DEF CheckoutSound
<1>8. MemTypes'
  BY <1>1, <1>2, <1>3, <1>4, <1>5 DEF MemInv, MemTypes
<1>9. ASSUME NEW l \in Agents PROVE BranchSound(l)'
  <2>1. fetched'[l] \in {fetched[l], main'}
    BY <1>2 DEF MemInv, MemTypes
  <2>2. Sound(fetched'[l]) /\ Follows(fetched'[l], main')
    BY <1>4, <2>1, BelowReflexive, FollowsTransitive DEF MemInv, BranchSound
  <2>. QED
    BY <2>2 DEF BranchSound
<1>10. ASSUME NEW q \in Agents PROVE AgentSound(q)'
  <2>1. lane'[q] \notin stale' => fetched'[lane'[q]] = main'
    BY <1>1, <1>2 DEF MemInv, MemTypes
  <2>2. CASE q = a
    <3>1. checkout'[q] = d /\ script'[q] = p
      BY <1>2, <2>2 DEF MemInv, MemTypes
    <3>. QED
      BY <1>3, <1>5, <1>7, <2>1, <3>1, BelowReflexive DEF AgentSound
  <2>3. CASE q # a
    <3>1. checkout'[q] = checkout[q] /\ script'[q] = script[q]
      BY <1>2, <2>3
    <3>2. Follows(checkout[q].base, main')
      BY <1>4, FollowsTransitive DEF MemInv, AgentSound
    <3>3. script[q].at # "away" => q \in behind'
      BY <1>2, <2>3
    <3>. QED
      BY <2>1, <3>1, <3>2, <3>3 DEF MemInv, AgentSound
  <2>. QED
    BY <2>2, <2>3
<1>. QED
  BY <1>2, <1>4, <1>8, <1>9, <1>10 DEF MemInv

LEMMA WorkKeepsMemory ==
  ASSUME MemInv, NEW a \in Agents, AgentStep(a)
  PROVE  MemInv'
<1>1. CASE PushOwn(a) \/ AttemptsExhausted(a) \/ GitFails(a)
  <2>1. CommitsStay(a) /\ script[a].at # "away"
    BY <1>1 DEF PushOwn, AttemptsExhausted, GitFails
  <2>. QED
    BY <2>1, CommitsStayKeeps
<1>2. CASE SyncNothing(a)
  BY <1>2, MemUntouched DEF SyncNothing
<1>. QED
  BY <1>1, <1>2, AddEntryKeeps, BootstrapKeeps, CompactKeeps, SyncCommitKeeps, PushKeeps,
     PushRejectedKeeps, RebaseFailsKeeps, RebaseKeeps DEF AgentStep

\* The steps of the loop around a cycle.
LEMMA LoopKeepsMemory ==
  ASSUME MemInv, NEW r \in Agents, LockStep(r) \/ Crash(r)
  PROVE  MemInv'
<1>1. CASE BeginCycle(r)
  <2>1. /\ \E fetches \in BOOLEAN : OpenCheckout(r, fetches)
        /\ lane' = lane /\ main' = main /\ fresh' = fresh
    BY <1>1 DEF BeginCycle
  <2>. QED
    BY <2>1, OpenCheckoutKeeps
<1>2. CASE CleanupCycle(r) \/ Crash(r)
  <2>1. DropCheckout(r) /\ UNCHANGED <<lane, main, fetched, stale, fresh>>
    BY <1>2 DEF CleanupCycle, Crash
  <2>. QED
    BY <2>1, DropCheckoutKeeps
<1>3. CASE Exits(r) \/ Trapped(r)
  <2>1. UNCHANGED <<lane, main, fetched, behind, stale, fresh, checkout, script>>
    BY <1>3 DEF Exits, Trapped, Leave
  <2>. QED
    BY <2>1 DEF MemInv, MemTypes, BranchSound, AgentSound
<1>4. CASE \/ Start(r) \/ WritePid(r) \/ ReadPid(r) \/ RemoveLock(r) \/ RemakeLock(r)
           \/ ReleasePid(r) \/ Rmdir(r) \/ EndWork(r)
  <2>1. UNCHANGED memoryVars
    BY <1>4 DEF Start, WritePid, ReadPid, RemoveLock, RemakeLock, ReleasePid, Rmdir, EndWork
  <2>. QED
    BY <2>1, MemUntouched
<1>. QED
  BY <1>1, <1>2, <1>3, <1>4 DEF LockStep

LEMMA MemHolds == Spec => []MemInv
<1>1. MemInv /\ [Next]_vars => MemInv'
  <2> SUFFICES ASSUME MemInv, [Next]_vars PROVE MemInv'
    OBVIOUS
  <2>1. CASE UNCHANGED vars
    BY <2>1, MemUntouched DEF vars
  <2>. QED
    BY <2>1, WorkKeepsMemory, LoopKeepsMemory DEF Next, Work
<1>. QED
  BY <1>1, MemStarts, PTL DEF Spec

\* Every variable has its type, for any agents, lanes, events and months.
THEOREM RunnersTyped == Spec => []TypeOK
<1>1. LockInv /\ MemInv /\ faults \in Nat => TypeOK
  BY DEF LockInv, LockTypes, Pids, Shell, MemInv, MemTypes, TypeOK
<1>. QED
  BY <1>1, LockHolds, MemHolds, FaultsHold, PTL

\* On main the index names the events of the logs: scripts write both, and a rebase
\* that does not rebuild the index has taken both from one side, for any number of
\* agents, commits and rebases.
THEOREM IndexStaysRight == Spec => []IndexAgrees
<1>1. MemInv => IndexAgrees
  BY SoundIndex DEF MemInv, MemTypes, Sound, IndexAgrees, Proper
<1>. QED
  BY <1>1, MemHolds, PTL

\* Two sets of entries, no two of which have one identifier, are of one size when
\* they have the same identifiers.
LEMMA CountedByIds ==
  ASSUME NEW S, NEW R, Distinct(S), Distinct(R), Ids(S) = Ids(R), IsFiniteSet(S)
  PROVE  Cardinality(S) = Cardinality(R)
<1> DEFINE I == Ids(S)
           f == [l \in S |-> l.id]
           g == [r \in R |-> r.id]
<1>1. f \in Surjection(S, I) /\ f \in Injection(S, I)
  BY DEF Surjection, Injection, IsInjective, Distinct, Ids
<1>2. g \in Surjection(R, I) /\ g \in Injection(R, I)
  BY DEF Surjection, Injection, IsInjective, Distinct, Ids
<1> HIDE DEF I, f, g
<1>3. IsFiniteSet(I) /\ Cardinality(I) = Cardinality(S)
  BY <1>1, FS_Surjection
<1>4. Cardinality(R) = Cardinality(I)
  BY <1>2, <1>3, FS_Injection
<1>. QED
  BY <1>3, <1>4

\* On main the summary of a month, unless one was merged or left behind or a seed of
\* another date is in the month, counts the rows that the index has of it.
THEOREM SummariesStayFresh == Spec => []SummaryFresh
<1>1. ASSUME MemInv, ~main.torn, NEW m \in Months \ (main.composed \union Strayed(main))
      PROVE  Fresh(main, m)
  <2>1. main \in Tree /\ Filed(main) /\ Agrees(main) /\ Rendered(main)
    BY <1>1 DEF MemInv, MemTypes, Sound
  <2> DEFINE S == main.log[m]
             R == RowsOf(main, m)
  <2>2. Ids(R) = Ids(S) /\ Distinct(R) /\ Distinct(S)
    <3>1. Proper(R) = Proper(S) /\ Distinct(R) /\ Distinct(S)
      BY <2>1 DEF Agrees, Filed, LogsFiled, Distinct, RowsOf
    <3>2. Ids(S \union R) \intersect Strays = {}
      BY <1>1 DEF Strayed
    <3> HIDE DEF S, R
    <3>. QED
      BY <3>1, <3>2 DEF Proper, Ids
  <2>3. IsFiniteSet(S)
    <3>1. S \subseteq Lines
      BY <2>1, TreeFields
    <3> HIDE DEF S
    <3>. QED
      BY <3>1, StoreAssumption, FS_Subset
  <2>4. Cardinality(S) = Cardinality(R)
    <3> HIDE DEF S, R
    <3>. QED
      BY <2>2, <2>3, CountedByIds
  <2>5. main.summary[m] = Rendering(S)
    BY <2>1 DEF Rendered
  <2>6. S = {} => R = {}
    BY <2>2 DEF Ids
  <2> HIDE DEF S
  <2>. QED
    BY <2>4, <2>5, <2>6 DEF Rendering, Fresh
<1>2. MemInv => SummaryFresh
  BY <1>1 DEF SummaryFresh
<1>. QED
  BY <1>2, MemHolds, PTL

\* A step that changes main is a push of what was made from its tip, which keeps, in
\* a log or an archive, every event that main had.
THEOREM MainOnlyGrows == Spec => MemoryOnlyGrows
<1> DEFINE Grows == main'.torn \/ Known(main) \subseteq Known(main')
<1>1. ASSUME MemInv, [Next]_vars PROVE Grows
  <2>1. ASSUME NEW a \in Agents, Push(a) PROVE Grows
    <3>1. Follows(main, main')
      BY <1>1, <2>1, PushKeeps
    <3>. QED
      BY <3>1, BelowKnown DEF Follows
  <2>2. CASE main' = main
    BY <2>2
  <2>3. ASSUME NEW a \in Agents, AgentStep(a), ~Push(a) PROVE main' = main
    BY <2>3 DEF AgentStep, AddEntry, Bootstrap, Compact, Writes, SyncNothing, memoryVars,
       SyncCommit, PushOwn, PushRejected, AttemptsExhausted, CommitsStay, GitFails,
       RebaseAborted, RebaseStops, RebaseFails, Rebase
  <2>4. ASSUME NEW r \in Agents, LockStep(r) \/ Crash(r) PROVE main' = main
    BY <2>4 DEF LockStep, Start, WritePid, ReadPid, RemoveLock, RemakeLock, Exits, Trapped,
       Leave, ReleasePid, Rmdir, BeginCycle, EndWork, CleanupCycle, Crash, memoryVars
  <2>5. CASE UNCHANGED vars
    BY <2>2, <2>5 DEF vars, memoryVars
  <2>. QED
    BY <1>1, <2>1, <2>2, <2>3, <2>4, <2>5 DEF Next, Work
<1>. QED
  BY <1>1, MemHolds, PTL DEF Spec, MemoryOnlyGrows

\* Of the agents' steps only an accepted push ends a sync with nothing left unpushed.
LEMMA PushedBy ==
  ASSUME MemInv, [Next]_vars, NEW a \in Agents,
         script[a].at = "push", script'[a].at = "shell", ~checkout'[a].unpushed
  PROVE  Push(a)
<1>1. /\ script \in [Agents -> Script] /\ checkout \in [Agents -> Checkout]
  BY DEF MemInv, MemTypes
<1>2. ASSUME NEW r \in Agents \ {a}, \E s : script' = [script EXCEPT ![r] = s] PROVE FALSE
  BY <1>1, <1>2
<1>3. ASSUME script' = script PROVE FALSE
  BY <1>3
<1>4. ASSUME NEW r \in Agents, LockStep(r) \/ Crash(r) PROVE FALSE
  <2>1. CASE script' = script
    BY <1>3, <2>1
  <2>2. CASE BeginCycle(r) \/ CleanupCycle(r) \/ Crash(r)
    <3>1. CASE BeginCycle(r)
      <4>1. script' = [script EXCEPT ![r] = At("shell")] /\ script[r].at = "away"
        BY <3>1 DEF BeginCycle, OpenCheckout
      <4>2. r # a
        BY <4>1
      <4>. QED
        BY <1>2, <4>1, <4>2
    <3>2. CASE CleanupCycle(r) \/ Crash(r)
      <4>1. script' = [script EXCEPT ![r] = At("away")]
        BY <3>2 DEF CleanupCycle, Crash, DropCheckout
      <4>2. r # a
        BY <1>1, <4>1 DEF At
      <4>. QED
        BY <1>2, <4>1, <4>2
    <3>. QED
      BY <2>2, <3>1, <3>2
  <2>. QED
    BY <1>4, <2>1, <2>2 DEF LockStep, Start, WritePid, ReadPid, RemoveLock, RemakeLock,
       Exits, Trapped, Leave, ReleasePid, Rmdir, EndWork, memoryVars
<1>5. ASSUME NEW r \in Agents, AgentStep(r), ~Push(a) PROVE FALSE
  <2>1. CASE r # a
    <3>1. script' = script \/ \E s : script' = [script EXCEPT ![r] = s]
      BY <1>5 DEF AgentStep, AddEntry, Bootstrap, Compact, Writes, SyncNothing, memoryVars,
         SyncCommit, Push, PushOwn, PushRejected, AttemptsExhausted, CommitsStay, Exit, Step,
         GitFails, RebaseAborted, RebaseStops, RebaseFails, Rebase
    <3>. QED
      BY <1>2, <1>3, <2>1, <3>1
  <2>2. CASE r = a
    <3>1. \/ CommitsStay(a) \/ PushRejected(a)
      BY <1>5, <2>2 DEF AgentStep, AddEntry, Bootstrap, Compact, Writes, SyncNothing,
         SyncCommit, PushOwn, AttemptsExhausted, GitFails, RebaseAborted, RebaseStops,
         RebaseFails, Rebase
    <3>2. CommitsStay(a) => checkout'[a].unpushed
      BY <1>1 DEF CommitsStay, Checkout
    <3>3. PushRejected(a) => script'[a].at = "rebase"
      BY <1>1 DEF PushRejected, Script
    <3>. QED
      BY <3>1, <3>2, <3>3
  <2>. QED
    BY <2>1, <2>2
<1>6. CASE UNCHANGED vars
  BY <1>3, <1>6 DEF vars, memoryVars
<1>. QED
  BY <1>4, <1>5, <1>6 DEF Next, Work

\* A sync to main that exits with 0 has put every event its agent wrote on main, over
\* however many commits and rebases; the exceptions are those SyncPublishes names.
THEOREM SyncedIsPublished == Spec => SyncPublishes
<1> DEFINE Published(a) ==
             /\ script[a].at = "push" /\ script'[a].at = "shell"
             /\ ~checkout'[a].unpushed /\ ~checkout'[a].work.torn
             => Ids(checkout[a].mine) \subseteq Known(main')
           Publishes == \A a \in Agents : Published(a)
<1>1. ASSUME MemInv, [Next]_vars PROVE Publishes
  <2> SUFFICES ASSUME NEW a \in Agents,
                      script[a].at = "push", script'[a].at = "shell",
                      ~checkout'[a].unpushed, ~checkout'[a].work.torn
               PROVE  Ids(checkout[a].mine) \subseteq Known(main')
    OBVIOUS
  <2>1. Push(a) /\ main' = checkout[a].work
    BY <1>1, PushedBy, PushKeeps
  <2>2. checkout'[a].work = checkout[a].work
    BY <1>1, <2>1 DEF Push, MemInv, MemTypes, Checkout
  <2>. QED
    BY <1>1, <2>1, <2>2, AgentOf DEF CheckoutSound
<1>. QED
  BY <1>1, MemHolds, PTL DEF Spec, SyncPublishes
=============================================================================
