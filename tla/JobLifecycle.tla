---------------------------- MODULE JobLifecycle ----------------------------
(***************************************************************************)
(* What a job's status promises to everyone who watches the job table,     *)
(* whatever workers, reapers and failures do: jobs are taken up in the     *)
(* order they were created, each one once, and end completed or failed.    *)
(*                                                                         *)
(* DocSpec is the lifecycle the documentation draws, in which completed    *)
(* and failed are final (pending -> processing -> completed|failed).  Spec *)
(* is what the code keeps: one terminal status may replace the other.      *)
(***************************************************************************)
EXTENDS Integers

CONSTANTS Jobs, Types

VARIABLES
  status,     \* status of each job, "absent" before it is created
  type,       \* its job type
  stamp       \* its place in the order of creation

Final == {"completed", "failed"}

LifecycleInit == status = [j \in Jobs |-> "absent"]

Create(j) ==
  /\ status[j] = "absent"
  /\ status' = [status EXCEPT ![j] = "pending"]
  /\ \A k \in Jobs \ {j} : /\ type'[k] = type[k]
                           /\ stamp'[k] = stamp[k]
                           /\ status[k] # "absent" => stamp[k] <= stamp'[j]

\* First created, first taken up, among the jobs of one type.
TakeUp(j) ==
  /\ status[j] = "pending"
  /\ \A k \in Jobs : status[k] = "pending" /\ type[k] = type[j] => stamp[j] <= stamp[k]
  /\ status' = [status EXCEPT ![j] = "processing"]
  /\ UNCHANGED <<type, stamp>>

Settled(from, done) ==
  /\ done \subseteq {j \in Jobs : status[j] \in from}
  /\ status' \in [Jobs -> {"absent", "pending", "processing"} \union Final]
  /\ \A j \in Jobs : IF j \in done THEN status'[j] \in Final ELSE status'[j] = status[j]
  /\ UNCHANGED <<type, stamp>>

\* A worker settles one job, the reaper several at once.
Finish == \E done \in SUBSET Jobs : Settled({"processing"}, done)

\* A terminal status gives way to another one.
Overwrite == \E j \in Jobs : Settled(Final, {j})

DocNext == (\E j \in Jobs : Create(j) \/ TakeUp(j)) \/ Finish

DocSpec == LifecycleInit /\ [][DocNext]_status
Spec == LifecycleInit /\ [][DocNext \/ Overwrite]_status
=============================================================================
