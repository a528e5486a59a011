------------------------------ MODULE Runners ------------------------------
(***************************************************************************)
(* The loop of an automation lane (scripts/ready-for-dev-loop.sh and its   *)
(* two siblings), possibly started on one state directory more than once:  *)
(* by cron, by hand, after a crash.  A lock directory with a pid file is   *)
(* to keep one of them running; each cycle makes a checkout for one Codex  *)
(* run, whose scripts are those of MemorySync, and removes it.             *)
(*                                                                         *)
(* A runner is an agent.  `set -euo pipefail` ends the shell at a failing  *)
(* command, except within `if ! run_cycle`.  `trap release_lock EXIT INT   *)
(* TERM` releases the lock on a signal but does not exit: the loop goes    *)
(* on.  A process number is not used twice.                                *)
(***************************************************************************)
EXTENDS MemorySync

VARIABLES
  dir,     \* per lane: the lock directory is there
  pid,     \* per lane: what its pid file says, a runner, "dead" or "none"
  runner,  \* per runner: where its shell is, and where release_lock returns to
  raced    \* history: two acquired or released at once, or a signal was trapped

lockVars == <<dir, pid, runner, raced>>
vars == <<memoryVars, lockVars>>

\* A pid file does not name a process by these words.
ASSUME RunnersAssumption == {"none", "dead"} \intersect Agents = {}

Places == {"down", "writePid", "readPid", "remove", "remake", "loop", "cycle",
           "cleanup", "release", "rmdir"}
Rivals(r)   == {q \in Agents \ {r} : lane[q] = lane[r]}
Locked(r)   == dir[lane[r]]
Holder(r)   == pid[lane[r]]
Up(r)       == runner[r].at # "down"
Working(r)  == runner[r].at \in {"loop", "cycle", "cleanup"}
Changing(r) == runner[r].at \in Places \ {"down", "loop", "cycle", "cleanup"}

Init ==
  /\ MemoryInit
  /\ dir = [l \in Agents |-> FALSE]
  /\ pid = [l \in Agents |-> "none"]
  /\ runner = [r \in Agents |-> [at |-> "down", then |-> "down"]]
  /\ raced = FALSE

SetDir(r, b) == dir' = [dir EXCEPT ![lane[r]] = b]
SetPid(r, p) == pid' = [pid EXCEPT ![lane[r]] = p]
GoTo(r, p) == runner' = [runner EXCEPT ![r].at = p]
Noticed(r) == raced' = (raced \/ \E q \in Rivals(r) : Changing(q))

-----------------------------------------------------------------------------
(* acquire_lock; the trap is set only after it                             *)

Start(r) ==
  /\ runner[r].at = "down"
  /\ IF Locked(r) THEN GoTo(r, "readPid") /\ UNCHANGED <<dir, pid>>
            ELSE SetDir(r, TRUE) /\ SetPid(r, "none") /\ GoTo(r, "writePid")
  /\ Noticed(r)
  /\ UNCHANGED memoryVars

\* The directory may be gone: the redirection fails and with it the shell.
WritePid(r) ==
  /\ runner[r].at = "writePid"
  /\ IF Locked(r) THEN SetPid(r, r) /\ GoTo(r, "loop") ELSE GoTo(r, "down") /\ UNCHANGED pid
  /\ Noticed(r)
  /\ UNCHANGED <<dir, memoryVars>>

\* Faulty variants: any pid file, and none, stands for a runner.
AliveIfThere(p) == p # "none"
AliveNever(p)   == FALSE

\* kill -0
Alive(p) == p \in Agents /\ Up(p)

ReadPid(r) ==
  /\ runner[r].at = "readPid"
  /\ GoTo(r, IF Alive(Holder(r)) THEN "down" ELSE "remove")
  /\ Noticed(r)
  /\ UNCHANGED <<dir, pid, memoryVars>>

RemoveLock(r) ==
  /\ runner[r].at = "remove"
  /\ SetDir(r, FALSE)
  /\ SetPid(r, "none")
  /\ GoTo(r, "remake")
  /\ Noticed(r)
  /\ UNCHANGED memoryVars

RemakeLock(r) ==
  /\ runner[r].at = "remake"
  /\ IF Locked(r) THEN GoTo(r, "down") /\ UNCHANGED dir
            ELSE SetDir(r, TRUE) /\ GoTo(r, "writePid")
  /\ Noticed(r)
  /\ UNCHANGED <<pid, memoryVars>>

-----------------------------------------------------------------------------
(* release_lock, on EXIT and as the handler of a signal                    *)

Leave(r, then) ==
  /\ runner' = [runner EXCEPT ![r] = [at |-> "release", then |-> then]]
  /\ faults > 0
  /\ faults' = faults - 1
  /\ UNCHANGED <<lane, main, fetched, behind, stale, fresh, checkout, script, dir, pid>>

\* A command outside of `if ! run_cycle` fails: gh, or the sleep that an
\* interrupt ended.
Exits(r) ==
  /\ runner[r].at = "loop"
  /\ Leave(r, "down")
  /\ Noticed(r)

\* Bash runs the handler when the foreground command has ended.
Trapped(r) ==
  /\ runner[r].at \in {"loop", "cleanup"}
  /\ Leave(r, runner[r].at)
  /\ raced' = TRUE

Mine(r) == Holder(r) = r

ReleasePid(r) ==
  /\ runner[r].at = "release"
  /\ IF Locked(r) /\ Mine(r) THEN SetPid(r, "none") /\ GoTo(r, "rmdir")
                       ELSE GoTo(r, runner[r].then) /\ UNCHANGED pid
  /\ Noticed(r)
  /\ UNCHANGED <<dir, memoryVars>>

\* rmdir spares a directory in which there is a file.
Rmdir(r) ==
  /\ runner[r].at = "rmdir"
  /\ SetDir(r, Locked(r) /\ Holder(r) # "none")
  /\ GoTo(r, runner[r].then)
  /\ Noticed(r)
  /\ UNCHANGED <<pid, memoryVars>>

-----------------------------------------------------------------------------
(* run_cycle                                                               *)

BeginCycle(r) ==
  /\ runner[r].at = "loop"
  /\ \E fetches \in {TRUE} \union IF faults > 0 THEN {FALSE} ELSE {} :
       /\ OpenCheckout(r, fetches)
       /\ faults' = IF fetches THEN faults ELSE faults - 1
  /\ GoTo(r, "cycle")
  /\ UNCHANGED <<lane, main, fresh, dir, pid, raced>>

Work(r) ==
  /\ runner[r].at = "cycle"
  /\ AgentStep(r)
  /\ UNCHANGED lockVars

\* Codex is done or failed, or the bootstrap of the checkout did.
EndWork(r) ==
  /\ runner[r].at = "cycle"
  /\ script[r].at \in {"shell", "stopped"}
  /\ GoTo(r, "cleanup")
  /\ UNCHANGED <<memoryVars, dir, pid, raced>>

CleanupCycle(r) ==
  /\ runner[r].at = "cleanup"
  /\ DropCheckout(r)
  /\ GoTo(r, "loop")
  /\ UNCHANGED <<lane, main, fetched, stale, fresh, faults, dir, pid, raced>>

-----------------------------------------------------------------------------
\* The machine or the process group is killed: no trap runs.
Crash(r) ==
  /\ Up(r)
  /\ faults > 0
  /\ faults' = faults - 1
  /\ runner' = [runner EXCEPT ![r] = [at |-> "down", then |-> "down"]]
  /\ SetPid(r, IF Mine(r) THEN "dead" ELSE Holder(r))
  /\ DropCheckout(r)
  /\ UNCHANGED <<lane, main, fetched, stale, fresh, dir, raced>>

LockStep(r) ==
  \/ Start(r) \/ WritePid(r) \/ ReadPid(r) \/ RemoveLock(r) \/ RemakeLock(r)
  \/ Exits(r) \/ Trapped(r) \/ ReleasePid(r) \/ Rmdir(r)
  \/ BeginCycle(r) \/ EndWork(r) \/ CleanupCycle(r)

Next == \E r \in Agents : LockStep(r) \/ Work(r) \/ Crash(r)

Spec == Init /\ [][Next]_vars

-----------------------------------------------------------------------------
TypeOK ==
  /\ lane \in [Agents -> Agents]
  /\ main \in Tree /\ fetched \in [Agents -> Tree]
  /\ behind \subseteq Agents /\ stale \subseteq Agents
  /\ fresh \subseteq Lines
  /\ checkout \in [Agents -> Checkout]
  /\ script \in [Agents -> Script]
  /\ faults \in Nat
  /\ dir \in [Agents -> BOOLEAN] /\ pid \in [Agents -> Agents \union {"dead", "none"}]
  /\ runner \in [Agents -> [at : Places, then : {"down", "loop", "cleanup"}]]
  /\ raced \in BOOLEAN

\* A sync to main that exits with 0 has put every event its agent wrote on main,
\* over however many rebases; except after a script that stopped between two
\* writes, and after an earlier sync that failed (its commits stay behind).
SyncPublishes ==
  [][\A a \in Agents :
       /\ script[a].at = "push" /\ script'[a].at = "shell"
       /\ ~checkout'[a].unpushed /\ ~checkout'[a].work.torn
       => Ids(checkout[a].mine) \subseteq Known(main')]_vars

\* What is on main stays there, in a log or in an archive, whatever the lanes
\* push and compact; except after a script that stopped between two writes.
MemoryOnlyGrows == [][main'.torn \/ Known(main) \subseteq Known(main')]_vars

\* On main the index names the events of the logs, in whatever order additions,
\* compactions and rebases of several lanes are pushed; except for seeds dated
\* outside of their month, which the scripts file now here, now there: when one was
\* written, which git goes by, the model does not keep.
IndexAgrees ==
  ~main.torn => Ids(main.index) \ Strays = Ids(Logged(main)) \ Strays

\* What the guardrail of scripts:lint asks of main holds for each month that is not
\* in `composed`: one whose summary was rendered from its log, and neither merged
\* over another nor left behind by a compaction that emptied the month; as long
\* as no seed of another month's date is in its log or in its rows.
SummaryFresh ==
  ~main.torn => \A m \in Months \ (main.composed \union Strayed(main)) : Fresh(main, m)

\* One runner of a lane works, unless two of them acquired or released the
\* lock at the same time, or one was signalled and went on.
OneRunner ==
  ~raced => \A r \in Agents : Working(r) => \A q \in Rivals(r) : ~Working(q)

\* Whatever a crash left of the lock, a runner that starts alone gets in.  (When
\* two overlapped, the one that leaves may remove the directory of the other.)
LockRecoverable ==
  [][\A r \in Agents :
       /\ runner[r].at \in {"writePid", "readPid", "remove", "remake"}
       /\ \A q \in Rivals(r) : ~Up(q)
       /\ ~raced /\ faults' = faults
       => Up(r)']_vars
=============================================================================
