------------------------------ MODULE TaskGraph ------------------------------
(***************************************************************************)
(* task_graph.py: the colony's task space.  The graph is one record, one   *)
(* field per TaskNode field that gates a task, so that the orchestrator's  *)
(* handlers, which chain several graph calls, can compose the operators    *)
(* below.  Lists of task ids become sets: the code only counts them, walks *)
(* them and asks for membership, and what it does to one entry does not    *)
(* depend on the others.                                                   *)
(***************************************************************************)
EXTENDS Integers, FiniteSets

CONSTANTS
  Tasks,          \* task ids
  Agents,         \* agent ids
  Nobody          \* TaskNode.agent_id = None

ASSUME TasksFinite == IsFiniteSet(Tasks)
ASSUME NobodyIsNoAgent == Nobody \notin Agents

Statuses == {"absent", "pending", "running", "complete", "failed"}

Graphs == [status : [Tasks -> Statuses],
           dependencies : [Tasks -> SUBSET Tasks],
           dependents : [Tasks -> SUBSET Tasks],
           inDegree : [Tasks -> Int],
           agent : [Tasks -> Agents \cup {Nobody}]]

EmptyGraph == [status |-> [t \in Tasks |-> "absent"],
               dependencies |-> [t \in Tasks |-> {}],
               dependents |-> [t \in Tasks |-> {}],
               inDegree |-> [t \in Tasks |-> 0],
               agent |-> [t \in Tasks |-> Nobody]]

Absent(g) == {t \in Tasks : g.status[t] = "absent"}
Open(g) == {t \in Tasks : g.status[t] \in {"pending", "running"}}
Closed(g) == {t \in Tasks : g.status[t] \in {"complete", "failed"}}

----------------------------------------------------------------------------
(* The operations of TaskGraph *)

(* Mutant of AddTask: a dependency already closed is waited for as well.   *)
AddTaskCountingClosed(g, t, deps) ==
  LET known == {d \in Tasks : g.status[d] # "absent"} \cup {t}
  IN [g EXCEPT
       !.status = [@ EXCEPT ![t] = "pending"],
       !.dependencies = [@ EXCEPT ![t] = deps],
       !.dependents = [d \in Tasks |-> IF d \in deps \cap known
                                         THEN @[d] \cup {t} ELSE @[d]],
       !.inDegree = [@ EXCEPT ![t] = Cardinality(deps)]]

(* add_task.  A dependency already closed is not counted, yet its          *)
(* dependents list still gets the new task; an id not in the graph is      *)
(* counted, but there is no node whose dependents list could name it.      *)
AddTask(g, t, deps) ==
  LET known == {d \in Tasks : g.status[d] # "absent"} \cup {t}
  IN [g EXCEPT
       !.status = [@ EXCEPT ![t] = "pending"],
       !.dependencies = [@ EXCEPT ![t] = deps],
       !.dependents = [d \in Tasks |-> IF d \in deps \cap known
                                         THEN @[d] \cup {t} ELSE @[d]],
       !.inDegree = [@ EXCEPT ![t] = Cardinality(deps \ Closed(g))]]

(* Mutant of AssignAgent: the task runs at once, blocked or not. *)
AssignAgentUngated(g, t, a) ==
  [g EXCEPT !.agent = [@ EXCEPT ![t] = a],
            !.status = [@ EXCEPT ![t] = "running"]]

(* assign_agent: the task runs at once only if nothing blocks it. *)
AssignAgent(g, t, a) ==
  [g EXCEPT !.agent = [@ EXCEPT ![t] = a],
            !.status = [@ EXCEPT ![t] = IF g.inDegree[t] = 0
                                          THEN "running" ELSE g.status[t]]]

(* Mutant of ReleaseDependents: any closing starts a dependent. *)
ReleaseAtEachClosing(g, t) ==
  [g EXCEPT
     !.inDegree = [u \in Tasks |-> IF u \in g.dependents[t]
                                     THEN @[u] - 1 ELSE @[u]],
     !.status = [u \in Tasks |-> IF /\ u \in g.dependents[t]
                                    /\ g.agent[u] # Nobody
                                   THEN "running" ELSE @[u]]]

(* The loop complete_task and _release_dependents share: every dependent   *)
(* of t loses one from its in-degree, and one that reaches zero and has an *)
(* agent waiting starts.                                                   *)
ReleaseDependents(g, t) ==
  [g EXCEPT
     !.inDegree = [u \in Tasks |-> IF u \in g.dependents[t]
                                     THEN @[u] - 1 ELSE @[u]],
     !.status = [u \in Tasks |-> IF /\ u \in g.dependents[t]
                                    /\ g.inDegree[u] = 1
                                    /\ g.agent[u] # Nobody
                                   THEN "running" ELSE @[u]]]

SetStatus(g, t, s) == [g EXCEPT !.status = [@ EXCEPT ![t] = s]]

(* Mutant of CompleteTask: a status no reader of the graph knows. *)
CompleteTaskMislabelled(g, t) ==
  ReleaseDependents(SetStatus(g, t, "completed"), t)

CompleteTask(g, t) == ReleaseDependents(SetStatus(g, t, "complete"), t)

(* How the orchestrator fails a task: status 3, then _release_dependents. *)
CloseFailed(g, t) == ReleaseDependents(SetStatus(g, t, "failed"), t)

(* fail_task: the cascade the orchestrator avoids.  The tasks it dooms are *)
(* the least set that holds t's dependents not yet failed and, with a      *)
(* task, that task's dependents not yet failed.                            *)
Cascade(g, t, D) ==
  \A u \in Tasks : /\ u \in g.dependents[t]
                        \/ \E d \in D : u \in g.dependents[d]
                   /\ g.status[u] # "failed"
                   => u \in D

Doomed(g, t) ==
  LET failed == SetStatus(g, t, "failed")
  IN {u \in Tasks : \A D \in SUBSET Tasks : Cascade(failed, t, D) => u \in D}

(* Mutant of FailTask: the failed task releases its dependents as well. *)
FailTaskReleasing(g, t) ==
  ReleaseDependents(
    [g EXCEPT !.status = [u \in Tasks |-> IF u = t \/ u \in Doomed(g, t)
                                            THEN "failed" ELSE @[u]]], t)

FailTask(g, t) ==
  [g EXCEPT !.status = [u \in Tasks |-> IF u = t \/ u \in Doomed(g, t)
                                          THEN "failed" ELSE @[u]]]

ReadyTasks(g) == {t \in Tasks : g.inDegree[t] = 0 /\ g.status[t] = "pending"}

(* _creates_cycle: is t reachable from its own dependents?                 *)
CreatesCycle(g, t) ==
  \A D \in SUBSET Tasks :
    (\A u \in Tasks : (u \in g.dependents[t]
                         \/ \E d \in D : u \in g.dependents[d]) => u \in D)
      => t \in D

----------------------------------------------------------------------------
(* What a graph promises *)

(* What an open task still waits for: a dependency that is not closed, or  *)
(* one whose node was not there when the task was added.                   *)
Blocking(g, t) == {d \in g.dependencies[t] : \/ d \notin Closed(g)
                                             \/ t \notin g.dependents[d]}

InDegreesExact(g) ==
  \A t \in Open(g) : g.inDegree[t] = Cardinality(Blocking(g, t))

StartsGated(g) ==
  \A t \in Tasks :
    /\ g.status[t] = "running" => g.dependencies[t] \subseteq Closed(g)
    /\ g.status[t] = "pending" /\ g.agent[t] # Nobody => Blocking(g, t) # {}

(* What makes those two inductive.  A dependents entry mirrors a           *)
(* dependency; a task not in the graph has no trace in it; a completed     *)
(* task ran, so what it waited for is closed.                              *)
Linked(g) ==
  \A d \in Tasks : \A t \in g.dependents[d] : d \in g.dependencies[t]

AbsentBlank(g) ==
  \A t \in Absent(g) : /\ g.dependencies[t] = {}
                        /\ g.dependents[t] = {}
                        /\ g.agent[t] = Nobody

CompletedAfter(g) ==
  \A t \in Tasks : g.status[t] = "complete" => g.dependencies[t] \subseteq Closed(g)

(* A task failed by the cascade keeps its agent and its in-degree, and the *)
(* release of its other dependencies must not bring it back: it can never  *)
(* count down to the release that would start it.                          *)
LinkedOpen(g, t) == {d \in Open(g) : t \in g.dependents[d]}

ClosedStaysDown(g) ==
  \A t \in Closed(g) : g.agent[t] # Nobody /\ LinkedOpen(g, t) # {}
                          => g.inDegree[t] > Cardinality(LinkedOpen(g, t))

Consistent(g) ==
  /\ g \in Graphs
  /\ Linked(g)
  /\ AbsentBlank(g)
  /\ InDegreesExact(g)
  /\ StartsGated(g)
  /\ CompletedAfter(g)
  /\ ClosedStaysDown(g)
=============================================================================
