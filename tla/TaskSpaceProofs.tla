-------------------------- MODULE TaskSpaceProofs --------------------------
(***************************************************************************)
(* TaskSpace for every set of tasks and agents: Consistent is preserved by *)
(* every operation of the graph (TaskGraphProofs), so it holds in every    *)
(* state, and with it the properties a run checks on four tasks.           *)
(***************************************************************************)
EXTENDS TaskSpace, TaskGraphProofs

----------------------------------------------------------------------------
(* The specification *)

(* The empty graph of TaskGraph.__init__ is consistent.                    *)
LEMMA InitConsistent == ASSUME Init PROVE Consistent(graph)
<1>1. graph = EmptyGraph
  BY DEF Init
<1>2. graph \in Graphs
  BY <1>1 DEF EmptyGraph, Graphs, Statuses
<1>3. Closed(graph) = {} /\ Open(graph) = {}
  BY <1>1 DEF EmptyGraph, Closed, Open
<1>4. Linked(graph) /\ AbsentBlank(graph)
  BY <1>1 DEF EmptyGraph, Linked, AbsentBlank, Absent
<1>5. InDegreesExact(graph) /\ ClosedStaysDown(graph)
  BY <1>3 DEF InDegreesExact, ClosedStaysDown
<1>6. StartsGated(graph) /\ CompletedAfter(graph)
  BY <1>1 DEF EmptyGraph, StartsGated, CompletedAfter
<1>7. QED
  BY <1>2, <1>4, <1>5, <1>6 DEF Consistent

(* How far one operation may move a task. *)
Moved(from, to) ==
  \/ to = from
  \/ from = "absent" /\ to = "pending"
  \/ from = "pending" /\ to \in {"running", "failed"}
  \/ from = "running" /\ to \in {"complete", "failed"}

(* Every call the orchestrator may make keeps the graph consistent, moves  *)
(* each task along its life cycle, and leaves its dependencies alone.      *)
LEMMA NextConsistent ==
  ASSUME Consistent(graph), Next
  PROVE  /\ Consistent(graph')
         /\ \A u \in Tasks :
              /\ Moved(graph.status[u], graph'.status[u])
              /\ graph.status[u] # "absent" =>
                   graph'.dependencies[u] = graph.dependencies[u]
<1>1. PICK t \in Tasks : \/ \E deps \in SUBSET Tasks : Add(t, deps)
                         \/ \E a \in Agents : Assign(t, a)
                         \/ Complete(t)
                         \/ Close(t)
                         \/ Fail(t)
  BY DEF Next
<1>2. ASSUME NEW deps \in SUBSET Tasks, Add(t, deps)
      PROVE  /\ Consistent(graph')
             /\ \A u \in Tasks :
                  /\ Moved(graph.status[u], graph'.status[u])
                  /\ graph.status[u] # "absent" =>
                       graph'.dependencies[u] = graph.dependencies[u]
  <2>1. t \in Absent(graph) /\ graph' = AddTask(graph, t, deps)
    BY <1>2 DEF Add
  <2>2. graph.status[t] = "absent"
    BY <2>1 DEF Absent
  <2>3. QED
    BY <2>1, <2>2, AddConsistent DEF Moved
<1>3. ASSUME NEW a \in Agents, Assign(t, a)
      PROVE  /\ Consistent(graph')
             /\ \A u \in Tasks :
                  /\ Moved(graph.status[u], graph'.status[u])
                  /\ graph'.dependencies[u] = graph.dependencies[u]
  BY <1>3, AssignConsistent DEF Assign, Moved
<1>4. CASE Complete(t)
  <2>1. /\ graph.status[t] = "running"
        /\ graph' = ReleaseDependents(SetStatus(graph, t, "complete"), t)
    BY <1>4 DEF Complete, CompleteTask
  <2>2. QED
    BY <2>1, CloseConsistent DEF Moved
<1>5. CASE Close(t)
  <2>1. /\ \/ graph.status[t] = "running"
           \/ graph.status[t] = "pending" /\ graph.agent[t] = Nobody
        /\ graph' = ReleaseDependents(SetStatus(graph, t, "failed"), t)
    BY <1>5 DEF Close, CloseFailed
  <2>2. QED
    BY <2>1, CloseConsistent DEF Moved
<1>6. CASE Fail(t)
  <2>1. graph.status[t] = "running" /\ graph' = FailTask(graph, t)
    BY <1>6 DEF Fail
  <2>2. QED
    BY <2>1, FailConsistent DEF Moved
<1>7. QED
  BY <1>1, <1>2, <1>3, <1>4, <1>5, <1>6

(* The graph is consistent in every reachable state: TaskGraph keeps       *)
(* _in_degree, agent and dependents in step with the statuses, for any     *)
(* number of tasks, any dependencies and any order of calls.               *)
THEOREM ConsistentAlways == Spec => []GraphConsistent
<1>1. Init => GraphConsistent
  BY InitConsistent DEF GraphConsistent
<1>2. GraphConsistent /\ [Next]_graphVars => GraphConsistent'
  BY NextConsistent DEF GraphConsistent, graphVars
<1>3. QED
  BY <1>1, <1>2, PTL DEF Spec

(* Every field of every task keeps its kind; the cycle warnings name       *)
(* tasks.                                                                  *)
THEOREM TypeCorrect == Spec => []TypeOK
<1>1. Init => TypeOK
  BY InitConsistent DEF TypeOK, Consistent, Init
<1>2. TypeOK /\ GraphConsistent' /\ [Next]_graphVars => TypeOK'
  <2>1. ASSUME TypeOK, Next PROVE cycleWarned' \in SUBSET Tasks
    BY <2>1 DEF TypeOK, Next, Add, Assign, Complete, Close, Fail
  <2>2. QED
    BY <2>1 DEF TypeOK, GraphConsistent, Consistent, graphVars
<1>3. QED
  BY <1>1, <1>2, ConsistentAlways, PTL DEF Spec

(* The in-degree of an open task is the number of dependencies that block  *)
(* it: no closing is counted twice, and none is missed.                    *)
THEOREM InDegreeAlwaysExact == Spec => []InDegreeExact
<1>1. GraphConsistent => InDegreeExact
  BY DEF GraphConsistent, Consistent, InDegreeExact
<1>2. QED
  BY <1>1, ConsistentAlways, PTL

(* No task runs before everything it depends on is closed, and none that   *)
(* has an agent is left waiting once nothing blocks it.                    *)
THEOREM StartsAlwaysGated == Spec => []GatedStart
<1>1. GraphConsistent => GatedStart
  BY DEF GraphConsistent, Consistent, GatedStart
<1>2. QED
  BY <1>1, ConsistentAlways, PTL

(* complete and failed are final: neither a late release nor a cascade     *)
(* reopens a task.                                                         *)
THEOREM ClosedStaysClosed == Spec => ClosedForGood
<1>1. GraphConsistent /\ [Next]_graphVars =>
        [\A t \in Tasks : graph.status[t] \in {"complete", "failed"}
                            => graph'.status[t] = graph.status[t]]_graphVars
  BY NextConsistent DEF GraphConsistent, Moved
<1>2. QED
  BY <1>1, ConsistentAlways, PTL DEF Spec, ClosedForGood

(* The graph implements the life cycle of TaskLifecycle: whatever calls    *)
(* are made, a task only moves forward, what it waits for is fixed, and it *)
(* runs only after everything it waits for is closed.                      *)
THEOREM ImplementsLifecycle == Spec => RefinesLifecycle
<1>1. Init => Lifecycle!LifecycleInit
  BY DEF Init, EmptyGraph, Lifecycle!LifecycleInit, Lifecycle!Statuses
<1>2. ASSUME GraphConsistent, GraphConsistent', [Next]_graphVars
      PROVE  [Lifecycle!LifecycleStep]_(Lifecycle!lifecycleVars)
  <2>1. CASE UNCHANGED graphVars
    BY <2>1 DEF graphVars, Lifecycle!lifecycleVars
  <2>2. CASE Next
    <3>1. /\ graph'.status \in [Tasks -> Lifecycle!Statuses]
          /\ graph'.dependencies \in [Tasks -> SUBSET Tasks]
      BY <1>2 DEF GraphConsistent, Consistent, Graphs, Statuses,
                  Lifecycle!Statuses
    <3>2. ASSUME NEW u \in Tasks
          PROVE  /\ graph'.status[u] \in Lifecycle!MayBecome(graph.status[u])
                 /\ graph.status[u] # "absent" =>
                      graph'.dependencies[u] = graph.dependencies[u]
      BY <1>2, <2>2, NextConsistent
         DEF GraphConsistent, Moved, Lifecycle!MayBecome
    <3>3. ASSUME NEW u \in Tasks, graph'.status[u] = "running",
                 NEW d \in graph'.dependencies[u]
          PROVE  graph'.status[d] \in Lifecycle!ClosedStatuses
      BY <1>2, <3>3 DEF GraphConsistent, Consistent, StartsGated, Closed,
                        Lifecycle!ClosedStatuses
    <3>4. QED
      BY <3>1, <3>2, <3>3 DEF Lifecycle!LifecycleStep
  <2>3. QED
    BY <1>2, <2>1, <2>2
<1>3. QED
  BY <1>1, <1>2, ConsistentAlways, PTL
     DEF Spec, RefinesLifecycle, Lifecycle!LifecycleSpec
=============================================================================
