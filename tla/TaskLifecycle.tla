--------------------------- MODULE TaskLifecycle ---------------------------
(***************************************************************************)
(* What the task space promises, whatever the orchestrator does to reach   *)
(* it: a task moves pending -> running -> complete | failed, a closed task *)
(* stays closed, what a task waits for is fixed when the task is added,    *)
(* and no task runs before everything it waits for is closed.              *)
(*                                                                         *)
(* One step may move any number of tasks, because one handler of the       *)
(* orchestrator does: closing a task releases its dependents and starts    *)
(* the next queued subtask before the handler returns.                     *)
(***************************************************************************)
CONSTANT Tasks       \* every task id the graph may ever hold

VARIABLES
  status,            \* TaskNode.status, "absent" before add_task
  dependencies       \* TaskNode.dependencies

lifecycleVars == <<status, dependencies>>

Statuses == {"absent", "pending", "running", "complete", "failed"}
OpenStatuses == {"pending", "running"}
ClosedStatuses == {"complete", "failed"}

LifecycleInit ==
  /\ status \in [Tasks -> Statuses \ {"complete"}]
  /\ dependencies = [t \in Tasks |-> {}]

(* Where one handler may take a task that had status "from". A task that   *)
(* could not be started is added and closed in one handler, so absent and  *)
(* pending may both become failed; only a running task may complete.       *)
MayBecome(from) ==
  CASE from = "absent"  -> {"absent", "pending", "running", "failed"}
    [] from = "pending" -> {"pending", "running", "failed"}
    [] from = "running" -> {"running", "complete", "failed"}
    [] OTHER            -> {from}

LifecycleStep ==
  /\ status' \in [Tasks -> Statuses]
  /\ dependencies' \in [Tasks -> SUBSET Tasks]
  /\ \A t \in Tasks :
       /\ status'[t] \in MayBecome(status[t])
       /\ status[t] # "absent" => dependencies'[t] = dependencies[t]
       /\ status'[t] = "running" =>
            \A d \in dependencies'[t] : status'[d] \in ClosedStatuses

LifecycleSpec == LifecycleInit /\ [][LifecycleStep]_lifecycleVars
=============================================================================
