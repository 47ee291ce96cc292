------------------------------ MODULE TaskSpace ------------------------------
(***************************************************************************)
(* The task graph on its own, under the calls its one caller, the          *)
(* orchestrator, is entitled to make: any batch order, any dependencies,   *)
(* agents assigned early or late, tasks closed in any order.               *)
(***************************************************************************)
EXTENDS TaskGraph

VARIABLES
  graph,          \* TaskGraph.tasks
  cycleWarned     \* tasks add_task printed the cycle warning for

graphVars == <<graph, cycleWarned>>

Init == /\ graph = EmptyGraph
        /\ cycleWarned = {}

(* A SPAWN batch may name any sibling of the batch as a dependency, the    *)
(* ones not added yet and the task itself included.                        *)
Add(t, deps) ==
  /\ t \in Absent(graph)
  /\ graph' = AddTask(graph, t, deps)
  /\ cycleWarned' = IF CreatesCycle(graph', t) THEN cycleWarned \cup {t}
                                               ELSE cycleWarned

(* spawn_agent, for a task's first agent and for a respawn. *)
Assign(t, a) ==
  /\ \/ graph.status[t] = "running"
     \/ graph.status[t] = "pending" /\ graph.agent[t] = Nobody
  /\ graph' = AssignAgent(graph, t, a)
  /\ UNCHANGED cycleWarned

Complete(t) ==
  /\ graph.status[t] = "running"
  /\ graph' = CompleteTask(graph, t)
  /\ UNCHANGED cycleWarned

(* _abandon_task closes a running task, _close_unstartable_child one that  *)
(* never got an agent.                                                     *)
Close(t) ==
  /\ \/ graph.status[t] = "running"
     \/ graph.status[t] = "pending" /\ graph.agent[t] = Nobody
  /\ graph' = CloseFailed(graph, t)
  /\ UNCHANGED cycleWarned

(* fail_task is for a task that "was worked on and failed". *)
Fail(t) ==
  /\ graph.status[t] = "running"
  /\ graph' = FailTask(graph, t)
  /\ UNCHANGED cycleWarned

Next == \E t \in Tasks :
          \/ \E deps \in SUBSET Tasks : Add(t, deps)
          \/ \E a \in Agents : Assign(t, a)
          \/ Complete(t)
          \/ Close(t)
          \/ Fail(t)

Spec == Init /\ [][Next]_graphVars

----------------------------------------------------------------------------
(* Properties *)

(* The graph keeps its shape: every field maps every task to a value of    *)
(* the field's kind (TaskNode, TaskGraph.__init__).                        *)
TypeOK == /\ graph \in Graphs
          /\ cycleWarned \in SUBSET Tasks

(* The in-degree of an open task is exactly the number of dependencies     *)
(* that still block it: each closing takes off one, once, in whatever      *)
(* order tasks are added, closed and released (add_task, complete_task,    *)
(* _release_dependents).                                                   *)
InDegreeExact == InDegreesExact(graph)

(* FIX #5, both halves: a task is never running while a dependency is      *)
(* still open (assign_agent), and a task that has an agent is never left   *)
(* pending once nothing blocks it (complete_task).                         *)
GatedStart == StartsGated(graph)

(* The inductive invariant the proofs rest on (TaskSpaceProofs): the two   *)
(* above, with what a late release or a cascade may leave behind.          *)
GraphConsistent == Consistent(graph)

(* No closed task is reopened, by a release that comes late or by a        *)
(* cascade: complete and failed are final.                                 *)
ClosedForGood ==
  [][\A t \in Tasks : graph.status[t] \in {"complete", "failed"}
                        => graph'.status[t] = graph.status[t]]_graphVars

(* What the comment above add_task's cycle check promises: when every task *)
(* of a set waits for another of the set, no task of it can ever start,    *)
(* and add_task has said so for one of them.                               *)
CyclesSurfaced ==
  \A C \in SUBSET Open(graph) \ {{}} :
    (\A t \in C : graph.dependencies[t] \cap C # {})
      => C \cap cycleWarned # {}

Lifecycle == INSTANCE TaskLifecycle WITH
               status <- graph.status, dependencies <- graph.dependencies

(* The graph implements the life cycle every task is promised. *)
RefinesLifecycle == Lifecycle!LifecycleSpec
=============================================================================
