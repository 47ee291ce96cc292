------------------------------- MODULE Colony -------------------------------
(***************************************************************************)
(* The colony's shared state and the operations the orchestrator's         *)
(* handlers are built from: the agent registry (colony_state.py), the task *)
(* graph (task_graph.py), the mailbox (event_queue.py), the overflow       *)
(* queues, and the steps that start, close, respawn and abandon a task     *)
(* (orchestrator.py).  A handler chains several of them before it returns, *)
(* so each takes the colony record "c" and yields the next one.            *)
(*                                                                         *)
(* Energy is not counted.  "room" is how many more agents the colony can   *)
(* pay for; whether a task is over its ceiling, or a batch, a conversion   *)
(* or a respawn is admitted, is a choice of the step that asks.            *)
(***************************************************************************)
EXTENDS Integers, FiniteSets, SequencesExt

CONSTANTS
  MaxTasks,              \* task ids the bounded model can create
  MaxAgents,             \* agents the budget pays for
  MaxTaskAttempts,       \* MAX_TASK_ATTEMPTS
  MaxDerivedRejections,  \* MAX_DERIVED_REJECTIONS
  MaxNonTerminalCycles,  \* MAX_NON_TERMINAL_CYCLES
  MaxConsecutiveCrashes, \* MAX_CONSECUTIVE_CRASHES
  MaxSubtasksRoot,       \* MAX_SUBTASKS_ROOT
  MaxSubtasksNonRoot     \* MAX_SUBTASKS_NON_ROOT

ASSUME BoundsArePositive ==
  /\ {MaxTasks, MaxAgents, MaxTaskAttempts, MaxNonTerminalCycles,
      MaxConsecutiveCrashes, MaxSubtasksRoot, MaxSubtasksNonRoot}
       \subseteq Nat \ {0}
  /\ MaxDerivedRejections \in Nat

Tasks == 1 .. MaxTasks
Agents == 1 .. MaxAgents
None == 0                       \* Python's None, for a task and for an agent
Root == 1                       \* root_task_id
Roles == {"decomposer", "executor", "verifier"}

TG == INSTANCE TaskGraph WITH Nobody <- None

(* AgentNode and its live Agent, which share their fields by delegation.   *)
(* "started": it has text or cycles of its own; "informed": its context    *)
(* holds the results of the tasks its own task depends on; "warned": the   *)
(* judge has sent a report of its back once.                               *)
NoAgent == [role |-> "executor", parent |-> None, task |-> None,
            generation |-> 0, hasSpawned |-> FALSE, awaiting |-> FALSE,
            crashes |-> 0, cycles |-> 0, spawnClosed |-> FALSE,
            warned |-> FALSE, started |-> FALSE, informed |-> FALSE]

EmptyColony ==
  [graph |-> TG!EmptyGraph,
   parentTask |-> [t \in Tasks |-> None],
   requiredRole |-> [t \in Tasks |-> "decomposer"],
   agent |-> [a \in Agents |-> NoAgent],
   live |-> {},
   born |-> 0,
   room |-> MaxAgents,
   broke |-> FALSE,
   mailbox |-> <<>>,
   overflow |-> [a \in Agents |-> <<>>],
   made |-> 0,
   abandoned |-> {},
   unstarted |-> {},
   respawns |-> [t \in Tasks |-> 0],
   rejections |-> [t \in Tasks |-> 0],
   attempts |-> [t \in Tasks |-> 0]]

Push(c, e) == [c EXCEPT !.mailbox = Append(@, e)]

(* The payload a failure_request carries is a snapshot taken when it is    *)
(* pushed, the parent included.                                            *)
FailureRequest(c, a, tooLarge, derived) ==
  [type |-> "failure", from |-> a, task |-> c.agent[a].task,
   role |-> c.agent[a].role, parent |-> c.agent[a].parent,
   tooLarge |-> tooLarge, derived |-> derived]

Notification(p, t) == [type |-> "notification", to |-> p, task |-> t]

(* Mutant of Notify: the root has no parent to notify. *)
NotifyUnguarded(c, p, t) == Push(c, Notification(p, t))

Notify(c, p, t) == IF p = None THEN c ELSE Push(c, Notification(p, t))

----------------------------------------------------------------------------
(* What the colony records about tasks and agents *)

Children(c, a) == {x \in c.live : c.agent[x].parent = a}

DirectChildren(c, t) == {u \in Tasks : c.parentTask[u] = t}

HasCompletedDirectChild(c, t) ==
  \E u \in DirectChildren(c, t) : c.graph.status[u] = "complete"

IsOpen(c, t) == t \in TG!Open(c.graph)

(* Mutant of OpenChildTaskIds: a child adopted from a retired agent does   *)
(* not count.                                                              *)
DirectChildTaskIds(c, p) ==
  {kid.task : kid \in ToSet(c.overflow[p])} \cup
  {t \in Tasks : /\ p \in c.live
                 /\ IsOpen(c, t)
                 /\ c.parentTask[t] = c.agent[p].task}

(* _open_child_task_ids *)
OpenChildTaskIds(c, p) ==
  {kid.task : kid \in ToSet(c.overflow[p])} \cup
  {t \in Tasks :
     /\ p \in c.live
     /\ IsOpen(c, t)
     /\ \/ c.parentTask[t] = c.agent[p].task
        \/ \E x \in Children(c, p) : c.agent[x].task = t}

CyclesCapped(c, a) == c.agent[a].cycles >= MaxNonTerminalCycles
FinalOnly(c, a) == CyclesCapped(c, a) \/ c.agent[a].spawnClosed

----------------------------------------------------------------------------
(* Starting an agent *)

DependenciesClosed(c, t) == c.graph.dependencies[t] \subseteq TG!Closed(c.graph)

(* spawn_agent once the colony can pay for it.  An agent born to a parent  *)
(* that is not registered any more counts as generation 0.                 *)
SpawnAgent(c, role, t, p, informed) ==
  LET a == c.born + 1
      node == [NoAgent EXCEPT
                 !.role = role, !.parent = p, !.task = t,
                 !.generation = IF p \in c.live
                                  THEN c.agent[p].generation + 1 ELSE 0,
                 !.informed = informed]
      parent(x) == IF x = p /\ p \in c.live
                     THEN [c.agent[x] EXCEPT !.hasSpawned = TRUE] ELSE c.agent[x]
  IN [c EXCEPT
        !.born = a,
        !.room = @ - 1,
        !.live = @ \cup {a},
        !.agent = [x \in Agents |-> IF x = a THEN node ELSE parent(x)],
        !.graph = TG!AssignAgent(@, t, a),
        !.attempts[t] = @ + 1]

(* Mutant of ThreadResults: results stay where they are. *)
ThreadNothing(c, t) == c

(* _thread_results_to_unblocked_dependents *)
ThreadResults(c, t) ==
  LET unblocked == {u \in c.graph.dependents[t] : c.graph.inDegree[u] = 0}
      threaded(a) ==
        IF /\ a \in c.live
           /\ ~c.agent[a].started
           /\ \E u \in unblocked : c.graph.agent[u] = a
          THEN [c.agent[a] EXCEPT !.informed = DependenciesClosed(c, c.agent[a].task)]
          ELSE c.agent[a]
  IN IF unblocked = {} THEN c
     ELSE [c EXCEPT !.agent = [a \in Agents |-> threaded(a)]]

(* status 3, _release_dependents, then the threading. *)
CloseFailed(c, t) ==
  ThreadResults([c EXCEPT !.graph = TG!CloseFailed(@, t)], t)

AddChild(c, kid, p) ==
  [c EXCEPT !.graph = TG!AddTask(@, kid.task, kid.dependencies),
            !.parentTask[kid.task] = IF p \in c.live THEN c.agent[p].task
                                                     ELSE None,
            !.requiredRole[kid.task] = kid.role]

(* _close_unstartable_child, once the energy is gone.  It drains the next  *)
(* queued child, which cannot start either, before it tells the parent:    *)
(* the whole queue is closed in order and reported in reverse order.       *)
CloseUnstartable(c, kids, p) ==
  LET closed[n \in 0 .. Len(kids)] ==
        IF n = 0 THEN c
        ELSE CloseFailed(AddChild(closed[n - 1], kids[n], p), kids[n].task)
      reports == [i \in DOMAIN kids |->
                    Notification(p, kids[Len(kids) + 1 - i].task)]
  IN [closed[Len(kids)] EXCEPT
        !.unstarted = @ \cup {kids[i].task : i \in DOMAIN kids},
        !.broke = TRUE,
        !.mailbox = IF p = None THEN @ ELSE @ \o reports]

(* Mutant of SpawnChildTask: a child that cannot start is left pending. *)
SpawnChildTaskUnchecked(c, kid, p) ==
  LET added == AddChild(c, kid, p)
  IN IF c.room > 0
       THEN SpawnAgent(added, kid.role, kid.task, p,
                       DependenciesClosed(added, kid.task))
       ELSE [added EXCEPT !.broke = TRUE]

(* _spawn_child_task *)
SpawnChildTask(c, kid, p) ==
  IF c.room > 0
    THEN LET added == AddChild(c, kid, p)
         IN SpawnAgent(added, kid.role, kid.task, p,
                       DependenciesClosed(added, kid.task))
    ELSE LET queued == IF p = None THEN <<>> ELSE c.overflow[p]
         IN CloseUnstartable(
              IF p = None THEN c ELSE [c EXCEPT !.overflow[p] = <<>>],
              <<kid>> \o queued, p)

(* _drain_pending_overflow: one queued child takes the slot just freed. *)
DrainPendingOverflow(c, p) ==
  IF p = None THEN c
  ELSE IF c.overflow[p] = <<>> THEN c
  ELSE SpawnChildTask([c EXCEPT !.overflow[p] = Tail(@)],
                      Head(c.overflow[p]), p)

----------------------------------------------------------------------------
(* Ending an agent and a task *)

(* Mutant of RetireAgent: its children move, the agent stays registered. *)
RetireAgentInPlace(c, a) ==
  LET adopted == [x \in Agents |->
        IF x \in Children(c, a) THEN [c.agent[x] EXCEPT !.parent = c.agent[a].parent]
                                ELSE c.agent[x]]
  IN [c EXCEPT !.agent = adopted, !.overflow[a] = <<>>]

(* _retire_agent: the agent leaves the registry, its children now report   *)
(* to its own parent, and the children it had queued are dropped.          *)
RetireAgent(c, a) ==
  LET adopted(x) ==
        IF x \in c.live /\ c.agent[x].parent = a
          THEN [c.agent[x] EXCEPT !.parent = c.agent[a].parent] ELSE c.agent[x]
  IN IF a \notin c.live THEN c
     ELSE [c EXCEPT !.live = @ \ {a},
                    !.agent = [x \in Agents |-> IF x = a THEN NoAgent ELSE adopted(x)],
                    !.overflow[a] = <<>>]

(* Mutant of FreeSlotAndNotify: the parent is not told. *)
FreeSlotOnly(c, p, t) == DrainPendingOverflow(c, p)

(* What complete_task, and what closing a task by failure, do on its       *)
(* parent's side once the graph has been updated.                          *)
FreeSlotAndNotify(c, p, t) == Notify(DrainPendingOverflow(c, p), p, t)

AbandonTask(c, t, p) ==
  FreeSlotAndNotify(CloseFailed([c EXCEPT !.abandoned = @ \cup {t}], t), p, t)

CompleteTask(c, t) ==
  ThreadResults([c EXCEPT !.graph = TG!CompleteTask(@, t)], t)

(* _kill_and_respawn.  "fate" is what the cache, the ceiling and admission *)
(* say: the cache has an accepted answer (the root is never served one),   *)
(* the task must stop, or it may be respawned.                             *)
KillAndRespawn(c, a, t, role, p, counted, fate) ==
  LET retired == RetireAgent(c, a)
      capped == counted /\ c.respawns[t] >= MaxTaskAttempts
      counting == IF counted
                    THEN [retired EXCEPT !.respawns[t] = @ + 1]
                    ELSE retired
  IN IF fate = "cached" THEN FreeSlotAndNotify(CompleteTask(retired, t), p, t)
     ELSE IF capped \/ fate = "stop" THEN AbandonTask(retired, t, p)
     ELSE IF c.room > 0 THEN SpawnAgent(counting, role, t, p, FALSE)
     ELSE AbandonTask([counting EXCEPT !.broke = TRUE], t, p)

(* _enforce_task_energy_ceiling, when the task is over its ceiling.        *)
CeilingApplies(c, t) == t \notin c.abandoned /\ c.graph.status[t] = "running"

(* Mutant of StopAtCeiling: the parent is looked up once the agent is gone. *)
StopAtCeilingRetiringFirst(c, a) ==
  LET retired == RetireAgent(c, a)
  IN AbandonTask(retired, c.agent[a].task, retired.agent[a].parent)

StopAtCeiling(c, a) ==
  AbandonTask(RetireAgent(c, a), c.agent[a].task, c.agent[a].parent)
=============================================================================
