----------------------------- MODULE MemorySync -----------------------------
(***************************************************************************)
(* Agents that write workflow memory in checkouts of their own and publish *)
(* it with workflow-memory:sync (sync-git.ts), while other lanes publish   *)
(* to the same branch.                                                     *)
(*                                                                         *)
(* `main` is the tree at the tip of origin/main, `fetched` the             *)
(* remote-tracking branch of a lane's clone, which the checkouts of the    *)
(* lane share, `behind` and `stale` say who has a base and which clone has *)
(* a branch that is not the tip any more.  A checkout has the tree it      *)
(* started from, the commits on top of it and its files.  Git is external: *)
(* a file that both sides changed is taken to conflict.                    *)
(***************************************************************************)
EXTENDS MemoryStore, SequencesExt

CONSTANTS
  Agents,
  Coders,        \* agents whose branch also has commits of code
  Targets,       \* what --branch may name: "main", or the agent's own branch
  Setups,        \* which state directory each agent's runner is given, what
                 \* origin/main holds at first, which events there will be, and a
                 \* bound on what goes wrong: failing writes and commands, signals,
                 \* crashes, syncs to another branch than main
  MinPerWorkflow,
  MaxAttempts    \* --max-attempts

ASSUME SyncAssumption ==
  /\ Coders \subseteq Agents
  /\ Targets \subseteq {"main", "own"}
  /\ Setups \subseteq [lane : [Agents -> Agents], logged : SUBSET Lines,
                       fresh : SUBSET Lines, faults : Nat]
  /\ \A s \in Setups : \A k, l \in s.logged : k.id = l.id => k = l
  /\ MinPerWorkflow \in Nat /\ MaxAttempts \in Nat \ {0}

VARIABLES
  lane,      \* per agent: its lane, constant
  main,      \* origin/main
  fetched,   \* per lane: the clone's origin/main
  behind,    \* agents whose base is not main's tip
  stale,     \* lanes whose clone is not at main's tip
  fresh,     \* events nobody wrote yet
  checkout,  \* per agent: base, commits, files, its events, and whether
             \* commits were left behind
  script,    \* per agent: the script at work and where it is
  faults     \* what may still go wrong

memoryVars == <<lane, main, fetched, behind, stale, fresh, checkout, script, faults>>

Script == [at : {"away", "shell", "push", "rebase", "stopped"}, target : {"main", "own"},
           attempt : 0..MaxAttempts]
Checkout == [base : Tree, commits : Seq(Tree), work : Tree,
             mine : SUBSET Lines, unpushed : BOOLEAN]

At(p)  == [at |-> p, target |-> "main", attempt |-> 0]
Files(t) == <<t.log, t.archive, t.index, t.summary>>
Top(c)   == IF c.commits = <<>> THEN c.base ELSE Last(c.commits)

Recorded(S) ==
  Refreshed([EmptyTree EXCEPT !.log = [m \in Months |-> {l \in S : l.month = m}],
                              !.index = {IndexRow(l) : l \in S}],
            {l.month : l \in S})

FreshCheckout(tip) == [base |-> tip, commits |-> <<>>, work |-> tip,
                       mine |-> {}, unpushed |-> FALSE]
NoCheckout == FreshCheckout(EmptyTree)

MemoryInit ==
  /\ \E s \in Setups : /\ lane = s.lane
                       /\ main = Recorded(s.logged)
                       /\ fresh = s.fresh
                       /\ faults = s.faults
  /\ fetched = [l \in Agents |-> main]
  /\ behind = {}
  /\ stale = {}
  /\ checkout = [a \in Agents |-> NoCheckout]
  /\ script = [a \in Agents |-> At("away")]

-----------------------------------------------------------------------------
(* A checkout, as the lane runners make and remove it: `git fetch` may     *)
(* fail, and then the checkout starts from what was fetched before.        *)

OpenCheckout(a, fetches) ==
  /\ script[a].at = "away"
  /\ fetched' = IF fetches THEN [fetched EXCEPT ![lane[a]] = main] ELSE fetched
  /\ stale' = IF fetches THEN stale \ {lane[a]} ELSE stale
  /\ checkout' = [checkout EXCEPT ![a] = FreshCheckout(fetched'[lane[a]])]
  /\ script' = [script EXCEPT ![a] = At("shell")]
  /\ behind' = IF lane[a] \in stale' THEN behind \union {a} ELSE behind \ {a}

DropCheckout(a) ==
  /\ checkout' = [checkout EXCEPT ![a] = NoCheckout]
  /\ script' = [script EXCEPT ![a] = At("away")]
  /\ behind' = behind \ {a}

Step(a, p)  == script' = [script EXCEPT ![a].at = p]
Exit(a)     == script' = [script EXCEPT ![a] = At("shell")]

\* A script that makes its writes one after the other, each from the tree the
\* one before it left.  A write fails or the command is interrupted: what was
\* written stays, and the agent goes on.
Writes(a, trees, mine) ==
  /\ script[a].at = "shell"
  /\ \E k \in 1..Len(trees) :
       /\ k < Len(trees) => faults > 0
       /\ faults' = IF k < Len(trees) THEN faults - 1 ELSE faults
       /\ checkout' = [checkout EXCEPT
                         ![a].work = [trees[k] EXCEPT !.torn = @ \/ trees[k] # Last(trees)],
                         ![a].mine = @ \union mine]
  /\ UNCHANGED <<lane, main, fetched, behind, stale, script>>

-----------------------------------------------------------------------------
(* add-entry.ts                                                            *)

Entry(t, l) ==
  LET logged  == Appended(t, l)
      indexed == Indexed(logged, {l})
  IN  <<logged, indexed, Refreshed(indexed, {l.file})>>

AddEntry(a, l) ==
  LET t == checkout[a].work IN
  /\ l \in fresh
  /\ ~l.seed
  /\ Accepted(l)
  /\ Unused(t, l)
  /\ fresh' = fresh \ {l}
  /\ Writes(a, Entry(t, l), {l})

-----------------------------------------------------------------------------
(* bootstrap-coverage.ts                                                   *)

Bootstrapped(t, m, S) ==
  LET logged  == Seeded(t, m, S)
      indexed == Indexed(logged, S)
  IN  <<logged, indexed, Unrendered(indexed, {m})>>

Bootstrap(a, m) ==
  LET t == checkout[a].work IN
  /\ Missing(t, m, MinPerWorkflow) # {}
  /\ \E S \in Seeds(t, m, MinPerWorkflow) : Writes(a, Bootstrapped(t, m, S), S)
  /\ UNCHANGED fresh

-----------------------------------------------------------------------------
(* compact-memory.ts: every log is emptied before any is written again     *)

\* The summary of a month that it leaves without an event stays as it was.
Compacted(t, K, A) ==
  LET rewritten == Rewritten(t, K)
      archived  == Archived(rewritten, A)
      indexed   == Reindexed(archived, K)
      emptied   == {m \in Months : t.log[m] # {} /\ rewritten.log[m] = {}}
  IN  <<Truncated(t), rewritten, archived, indexed,
        Unrendered(Refreshed(indexed, {l.month : l \in K}), emptied)>>

Compact(a, archiveClosed) ==
  LET t == checkout[a].work IN
  /\ \E K \in Kept(t, archiveClosed) :
       Writes(a, Compacted(t, K, Old(t, archiveClosed)), {})
  /\ UNCHANGED fresh

-----------------------------------------------------------------------------
(* sync-git.ts                                                             *)

SyncNothing(a) ==
  /\ script[a].at = "shell"
  /\ Files(checkout[a].work) = Files(Top(checkout[a]))
  /\ UNCHANGED memoryVars

SyncCommit(a, target) ==
  /\ script[a].at = "shell"
  /\ target = "own" => faults > 0
  /\ Files(checkout[a].work) # Files(Top(checkout[a]))
  /\ checkout' = [checkout EXCEPT ![a].commits = Append(@, checkout[a].work)]
  /\ faults' = IF target = "own" THEN faults - 1 ELSE faults
  /\ script' = [script EXCEPT ![a] = [At("push") EXCEPT !.target = target, !.attempt = 1]]
  /\ UNCHANGED <<lane, main, fetched, behind, stale, fresh>>

\* git push origin HEAD:main is refused unless the tip is still the base.
Push(a) ==
  LET c == checkout[a] IN
  /\ script[a].at = "push"
  /\ script[a].target = "main"
  /\ a \notin behind
  /\ main' = c.work
  /\ fetched' = [fetched EXCEPT ![lane[a]] = main']
  /\ behind' = {b \in Agents \ {a} : script[b].at # "away"}
  /\ stale' = {lane[b] : b \in Agents} \ {lane[a]}
  /\ checkout' = [checkout EXCEPT ![a].base = main', ![a].commits = <<>>]
  /\ Exit(a)
  /\ UNCHANGED <<lane, fresh, faults>>

\* The commits stay where they are; nothing says so later.
CommitsStay(a) ==
  /\ checkout' = [checkout EXCEPT ![a].unpushed = TRUE]
  /\ Exit(a)
  /\ UNCHANGED <<lane, main, fetched, behind, stale, fresh>>

\* The default target is the current branch, which nobody else pushes to.
PushOwn(a) ==
  /\ script[a].at = "push"
  /\ script[a].target = "own"
  /\ CommitsStay(a)
  /\ UNCHANGED faults

\* Faulty variant: as many attempts as it takes.
PushRejectedAlways(a) ==
  /\ script[a].at = "push"
  /\ script[a].target = "main"
  /\ a \in behind
  /\ script' = [script EXCEPT ![a].at = "rebase", ![a].attempt = @ + 1]
  /\ UNCHANGED <<lane, main, fetched, behind, stale, fresh, checkout, faults>>

PushRejected(a) ==
  /\ script[a].at = "push"
  /\ script[a].target = "main"
  /\ a \in behind
  /\ script[a].attempt < MaxAttempts
  /\ script' = [script EXCEPT ![a].at = "rebase", ![a].attempt = @ + 1]
  /\ UNCHANGED <<lane, main, fetched, behind, stale, fresh, checkout, faults>>

AttemptsExhausted(a) ==
  /\ script[a].at = "push"
  /\ script[a].target = "main"
  /\ a \in behind
  /\ script[a].attempt = MaxAttempts
  /\ CommitsStay(a)
  /\ UNCHANGED faults

\* A push that fails for another reason, or a fetch before anything is rebased.
GitFails(a) ==
  /\ script[a].at \in {"push", "rebase"}
  /\ faults > 0
  /\ faults' = faults - 1
  /\ CommitsStay(a)

\* The fetch is done and the rebase is not.
RebaseFails(a) ==
  /\ script[a].at = "rebase"
  /\ faults > 0
  /\ faults' = faults - 1
  /\ fetched' = [fetched EXCEPT ![lane[a]] = main]
  /\ stale' = stale \ {lane[a]}
  /\ checkout' = [checkout EXCEPT ![a].unpushed = TRUE]
  /\ UNCHANGED <<lane, main, behind, fresh>>

\* Changes of code: git refuses to start, or a conflict outside of the memory has
\* it aborted.
RebaseAborted(a) == a \in Coders /\ RebaseFails(a) /\ Exit(a)

\* A command in the middle of it fails, and it stays in progress: HEAD is detached,
\* which every later sync refuses.  What is written there is published nowhere
\* and is left out.
RebaseStops(a) == RebaseFails(a) /\ Step(a, "stopped")

\* The commits of a checkout replayed one by one on another tip.
Replays(c, tip, mine) ==
  LET new[k \in 1..Len(c.commits)] ==
        Replayed(IF k = 1 THEN c.base ELSE c.commits[k - 1],
                 IF k = 1 THEN tip ELSE new[k - 1],
                 c.commits[k], mine)
  IN  new

\* fetchBranch and rebaseOnto.  Which commits end up on main is all that the
\* intermediate ones are kept for.
Rebase(a) ==
  LET c == checkout[a] IN
  /\ script[a].at = "rebase"
  /\ fetched' = [fetched EXCEPT ![lane[a]] = main]
  /\ stale' = stale \ {lane[a]}
  /\ behind' = behind \ {a}
  /\ \E mine \in SUBSET Months :
       LET replayed == Replays(c, main, mine)
       IN  checkout' = [checkout EXCEPT ![a].base = main, ![a].commits = replayed,
                                        ![a].work = Last(replayed)]
  /\ Step(a, "push")
  /\ UNCHANGED <<lane, main, fresh, faults>>

-----------------------------------------------------------------------------
AgentStep(a) ==
  \/ \E l \in Lines : AddEntry(a, l)
  \/ \E m \in Months : Bootstrap(a, m)
  \/ \E b \in BOOLEAN : Compact(a, b)
  \/ SyncNothing(a)
  \/ \E target \in Targets : SyncCommit(a, target)
  \/ Push(a) \/ PushOwn(a) \/ PushRejected(a) \/ AttemptsExhausted(a)
  \/ GitFails(a) \/ RebaseAborted(a) \/ RebaseStops(a) \/ Rebase(a)
=============================================================================
