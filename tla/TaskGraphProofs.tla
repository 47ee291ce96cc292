-------------------------- MODULE TaskGraphProofs --------------------------
(***************************************************************************)
(* What each operation of the task graph does to its fields, and that each *)
(* keeps the graph consistent, for every set of tasks and agents and any   *)
(* dependencies.  One lemma an operation; it first says what the operation *)
(* does to each field, then takes the conjuncts of Consistent one by one.  *)
(***************************************************************************)
EXTENDS TaskGraph, FiniteSetTheorems, TLAPS

(* Any set of tasks is finite, and its cardinality says whether it is      *)
(* empty (the only facts about counting the in-degree needs).              *)
LEMMA TaskSetSize ==
  ASSUME NEW S \in SUBSET Tasks
  PROVE  /\ IsFiniteSet(S)
         /\ Cardinality(S) \in Nat
         /\ Cardinality(S) = 0 <=> S = {}
<1>1. IsFiniteSet(S)
  BY TasksFinite, FS_Subset
<1>2. QED
  BY <1>1, FS_CardinalityType, FS_EmptySet

(* Taking one task from a set of tasks that holds it takes one off its     *)
(* size.                                                                   *)
LEMMA TaskSetRemove ==
  ASSUME NEW S \in SUBSET Tasks, NEW t \in S
  PROVE  Cardinality(S \ {t}) = Cardinality(S) - 1
BY TaskSetSize, FS_RemoveElement

(* A proper subset of a set of tasks is smaller.                           *)
LEMMA TaskSetProper ==
  ASSUME NEW S \in SUBSET Tasks, NEW T \in SUBSET S, NEW x \in S \ T
  PROVE  Cardinality(T) < Cardinality(S)
<1>1. IsFiniteSet(S)
  BY TaskSetSize
<1>2. Cardinality(T) <= Cardinality(S) /\ Cardinality(T) # Cardinality(S)
  BY <1>1, FS_Subset
<1>3. Cardinality(T) \in Nat /\ Cardinality(S) \in Nat
  BY TaskSetSize
<1>4. QED
  BY <1>2, <1>3

(* A blocking task is one of the dependencies, so it can be counted.       *)
LEMMA BlockingIsTasks ==
  ASSUME NEW g \in Graphs, NEW t \in Tasks
  PROVE  /\ Blocking(g, t) \in SUBSET Tasks
         /\ Cardinality(Blocking(g, t)) \in Nat
         /\ Cardinality(Blocking(g, t)) = 0 <=> Blocking(g, t) = {}
<1>1. Blocking(g, t) \in SUBSET Tasks
  BY DEF Blocking, Graphs
<1>2. QED
  BY <1>1, TaskSetSize

----------------------------------------------------------------------------
(* What each operation does, field by field *)

(* ReleaseDependents touches the in-degree of t's dependents and the status *)
(* of those that were blocked by t alone and have an agent (complete_task). *)
LEMMA ReleaseFields ==
  ASSUME NEW g \in Graphs, NEW t \in Tasks
  PROVE  LET h == ReleaseDependents(g, t)
         IN /\ h \in Graphs
            /\ h.dependencies = g.dependencies
            /\ h.dependents = g.dependents
            /\ h.agent = g.agent
            /\ \A u \in Tasks :
                 /\ h.inDegree[u] = IF u \in g.dependents[t]
                                      THEN g.inDegree[u] - 1 ELSE g.inDegree[u]
                 /\ h.status[u] = IF /\ u \in g.dependents[t]
                                     /\ g.inDegree[u] = 1
                                     /\ g.agent[u] # Nobody
                                    THEN "running" ELSE g.status[u]
<1> DEFINE h == ReleaseDependents(g, t)
<1>1. /\ h.dependencies = g.dependencies
      /\ h.dependents = g.dependents
      /\ h.agent = g.agent
  BY DEF ReleaseDependents, Graphs
<1>2. \A u \in Tasks :
        h.inDegree[u] = IF u \in g.dependents[t]
                          THEN g.inDegree[u] - 1 ELSE g.inDegree[u]
  BY DEF ReleaseDependents, Graphs
<1>3. \A u \in Tasks :
        h.status[u] = IF /\ u \in g.dependents[t]
                         /\ g.inDegree[u] = 1
                         /\ g.agent[u] # Nobody
                        THEN "running" ELSE g.status[u]
  BY DEF ReleaseDependents, Graphs
<1>4. h.inDegree \in [Tasks -> Int]
  BY DEF ReleaseDependents, Graphs
<1>5. h.status \in [Tasks -> Statuses]
  BY DEF ReleaseDependents, Graphs, Statuses
<1>6. h \in Graphs
  BY <1>4, <1>5 DEF ReleaseDependents, Graphs
<1>7. QED
  BY <1>1, <1>2, <1>3, <1>6

(* SetStatus touches the status of t and nothing else.                     *)
LEMMA SetStatusFields ==
  ASSUME NEW g \in Graphs, NEW t \in Tasks, NEW s \in Statuses
  PROVE  LET h == SetStatus(g, t, s)
         IN /\ h \in Graphs
            /\ h.dependencies = g.dependencies
            /\ h.dependents = g.dependents
            /\ h.agent = g.agent
            /\ h.inDegree = g.inDegree
            /\ \A u \in Tasks : h.status[u] = IF u = t THEN s ELSE g.status[u]
BY DEF SetStatus, Graphs

(* h is g after add_task(t, deps). *)
Added(g, t, deps, h) ==
  /\ h \in Graphs
  /\ h.agent = g.agent
  /\ \A u \in Tasks :
       /\ h.status[u] = IF u = t THEN "pending" ELSE g.status[u]
       /\ h.dependencies[u] = IF u = t THEN deps ELSE g.dependencies[u]
       /\ h.inDegree[u] = IF u = t THEN Cardinality(deps \ Closed(g))
                                   ELSE g.inDegree[u]
       /\ h.dependents[u] =
            IF u \in deps /\ (g.status[u] # "absent" \/ u = t)
              THEN g.dependents[u] \cup {t} ELSE g.dependents[u]

(* AddTask writes the node of t and puts t on the dependents lists of its  *)
(* dependencies that are in the graph (add_task).                          *)
LEMMA AddFields ==
  ASSUME NEW g \in Graphs, NEW t \in Tasks, NEW deps \in SUBSET Tasks
  PROVE  Added(g, t, deps, AddTask(g, t, deps))
<1>1. Cardinality(deps \ Closed(g)) \in Int
  BY TaskSetSize, deps \ Closed(g) \in SUBSET Tasks
<1>2. QED
  BY <1>1 DEF Added, AddTask, Graphs, Statuses

(* AssignAgent gives t an agent and, if nothing blocks it, starts it       *)
(* (assign_agent).                                                         *)
LEMMA AssignFields ==
  ASSUME NEW g \in Graphs, NEW t \in Tasks, NEW a \in Agents
  PROVE  LET h == AssignAgent(g, t, a)
         IN /\ h \in Graphs
            /\ h.dependencies = g.dependencies
            /\ h.dependents = g.dependents
            /\ h.inDegree = g.inDegree
            /\ \A u \in Tasks :
                 /\ h.agent[u] = IF u = t THEN a ELSE g.agent[u]
                 /\ h.status[u] = IF u = t /\ g.inDegree[t] = 0
                                    THEN "running" ELSE g.status[u]
<1> DEFINE h == AssignAgent(g, t, a)
<1>1. /\ h.dependencies = g.dependencies
      /\ h.dependents = g.dependents
      /\ h.inDegree = g.inDegree
  BY DEF AssignAgent, Graphs
<1>2. /\ h.agent \in [Tasks -> Agents \cup {Nobody}]
      /\ \A u \in Tasks : h.agent[u] = IF u = t THEN a ELSE g.agent[u]
  BY DEF AssignAgent, Graphs
<1>3. /\ h.status \in [Tasks -> Statuses]
      /\ \A u \in Tasks : h.status[u] = IF u = t /\ g.inDegree[t] = 0
                                          THEN "running" ELSE g.status[u]
  BY DEF AssignAgent, Graphs, Statuses
<1>4. h \in Graphs
  BY <1>2, <1>3 DEF AssignAgent, Graphs
<1>5. QED
  BY <1>1, <1>2, <1>3, <1>4

----------------------------------------------------------------------------
(* Closing a task *)

(* complete_task and a failure closed with _release_dependents keep the    *)
(* graph consistent: the closed task takes one off each dependent, starts  *)
(* exactly those nothing else blocks, and wakes none that is closed.       *)
LEMMA CloseConsistent ==
  ASSUME NEW g, Consistent(g), NEW t \in Tasks,
         NEW s \in {"complete", "failed"},
         \/ g.status[t] = "running"
         \/ g.status[t] = "pending" /\ g.agent[t] = Nobody /\ s = "failed"
  PROVE  LET h == ReleaseDependents(SetStatus(g, t, s), t)
         IN /\ Consistent(h)
            /\ h.dependencies = g.dependencies
            /\ h.status[t] = s
            /\ \A u \in Tasks \ {t} :
                 \/ h.status[u] = g.status[u]
                 \/ g.status[u] = "pending" /\ h.status[u] = "running"
<1> DEFINE k == SetStatus(g, t, s)
           h == ReleaseDependents(k, t)
<1>g. /\ g \in Graphs /\ Linked(g) /\ AbsentBlank(g) /\ InDegreesExact(g)
      /\ StartsGated(g) /\ CompletedAfter(g) /\ ClosedStaysDown(g)
  BY DEF Consistent
<1>k. /\ k \in Graphs
      /\ k.dependencies = g.dependencies
      /\ k.dependents = g.dependents
      /\ k.agent = g.agent
      /\ k.inDegree = g.inDegree
      /\ \A u \in Tasks : k.status[u] = IF u = t THEN s ELSE g.status[u]
  <2>1. s \in Statuses /\ g \in Graphs
    BY <1>g DEF Statuses
  <2>2. QED
    BY <2>1, SetStatusFields
<1>h. /\ h \in Graphs
      /\ h.dependencies = g.dependencies
      /\ h.dependents = g.dependents
      /\ h.agent = g.agent
      /\ \A u \in Tasks :
           /\ h.inDegree[u] = IF u \in g.dependents[t]
                                THEN g.inDegree[u] - 1 ELSE g.inDegree[u]
           /\ h.status[u] = IF /\ u \in g.dependents[t]
                               /\ g.inDegree[u] = 1
                               /\ g.agent[u] # Nobody
                              THEN "running" ELSE k.status[u]
  BY <1>k, ReleaseFields
<1> HIDE DEF k, h
<1>t. t \in Open(g) /\ t \notin Closed(g)
  BY DEF Open, Closed
<1>d. \A u \in Tasks : u \in g.dependents[t] => t \in g.dependencies[u]
  BY <1>g DEF Linked
<1>1. ASSUME NEW u \in Tasks, u \in g.dependents[t], g.inDegree[u] = 1,
             g.agent[u] # Nobody
      PROVE  g.status[u] = "pending" /\ u # t
  <2>1. g.status[u] \notin {"absent", "running", "complete"}
    BY <1>1, <1>g, <1>t, <1>d DEF AbsentBlank, Absent, StartsGated, CompletedAfter
  <2>2. ASSUME g.status[u] = "failed" PROVE FALSE
    <3>1. u \in Closed(g) /\ t \in LinkedOpen(g, u)
      BY <2>2, <1>1, <1>t DEF Closed, LinkedOpen
    <3>2. LinkedOpen(g, u) \in SUBSET Tasks
      BY DEF LinkedOpen, Open
    <3>3. Cardinality(LinkedOpen(g, u)) \in Nat /\ Cardinality(LinkedOpen(g, u)) # 0
      BY <3>1, <3>2, TaskSetSize
    <3>4. g.inDegree[u] > Cardinality(LinkedOpen(g, u))
      BY <3>1, <1>1, <1>g DEF ClosedStaysDown
    <3>5. QED
      BY <3>3, <3>4, <1>1
  <2>3. g.status[u] \in Statuses
    BY <1>g DEF Graphs
  <2>4. QED
    BY <2>1, <2>2, <2>3, <1>1 DEF Statuses
<1>2. \A u \in Tasks \ {t} :
        \/ h.status[u] = g.status[u]
        \/ g.status[u] = "pending" /\ h.status[u] = "running"
  BY <1>h, <1>k, <1>1
<1>3. h.status[t] = s
  BY <1>h, <1>k, <1>1
<1>4. /\ Closed(h) = Closed(g) \cup {t}
      /\ Open(h) = Open(g) \ {t}
      /\ Absent(h) = Absent(g)
  BY <1>2, <1>3, <1>t DEF Closed, Open, Absent
<1>5. ASSUME NEW u \in Tasks
      PROVE  Blocking(h, u) = IF u \in g.dependents[t] THEN Blocking(g, u) \ {t}
                                                       ELSE Blocking(g, u)
  BY <1>h, <1>4 DEF Blocking
<1>6. ASSUME NEW u \in Tasks
      PROVE  /\ Cardinality(Blocking(h, u)) \in Nat
             /\ Cardinality(Blocking(g, u)) \in Nat
             /\ Cardinality(Blocking(h, u)) = 0 <=> Blocking(h, u) = {}
             /\ Cardinality(Blocking(h, u)) =
                  IF u \in g.dependents[t] THEN Cardinality(Blocking(g, u)) - 1
                                           ELSE Cardinality(Blocking(g, u))
  <2>1. u \in g.dependents[t] => t \in Blocking(g, u)
    BY <1>d, <1>t DEF Blocking
  <2>2. Blocking(g, u) \in SUBSET Tasks
    BY <1>g, BlockingIsTasks
  <2>3. u \in g.dependents[t] =>
          Cardinality(Blocking(g, u) \ {t}) = Cardinality(Blocking(g, u)) - 1
    BY <2>1, <2>2, TaskSetRemove
  <2>4. QED
    BY <2>3, <1>5, <1>g, <1>h, BlockingIsTasks
<1>7. Linked(h)
  BY <1>g, <1>h DEF Linked
<1>8. AbsentBlank(h)
  BY <1>g, <1>h, <1>4 DEF AbsentBlank
<1>9. InDegreesExact(h)
  <2>1. ASSUME NEW u \in Open(h)
        PROVE  h.inDegree[u] = Cardinality(Blocking(h, u))
    <3>1. u \in Open(g) /\ u \in Tasks
      BY <1>4 DEF Open
    <3>2. g.inDegree[u] = Cardinality(Blocking(g, u))
      BY <3>1, <1>g DEF InDegreesExact
    <3>3. QED
      BY <3>1, <3>2, <1>6, <1>h
  <2>2. QED
    BY <2>1 DEF InDegreesExact
<1>10. StartsGated(h)
  <2>1. ASSUME NEW u \in Tasks, h.status[u] = "running"
        PROVE  h.dependencies[u] \subseteq Closed(h)
    <3>1. CASE g.status[u] = "running"
      BY <3>1, <1>g, <1>h, <1>4 DEF StartsGated
    <3>2. CASE g.status[u] # "running"
      <4>1. /\ u # t /\ g.status[u] = "pending"
            /\ u \in g.dependents[t] /\ g.inDegree[u] = 1
        BY <3>2, <2>1, <1>h, <1>k, <1>1, <1>3
      <4>2. Cardinality(Blocking(h, u)) = 0
        BY <4>1, <1>6, <1>g DEF InDegreesExact, Open
      <4>3. QED
        BY <4>2, <1>6, <1>h DEF Blocking
    <3>3. QED
      BY <3>1, <3>2
  <2>2. ASSUME NEW u \in Tasks, h.status[u] = "pending", h.agent[u] # Nobody
        PROVE  Blocking(h, u) # {}
    <3>1. g.status[u] = "pending" /\ u \in Open(g) /\ g.agent[u] # Nobody
      BY <2>2, <1>2, <1>3, <1>h DEF Open
    <3>2. Blocking(g, u) # {} /\ g.inDegree[u] = Cardinality(Blocking(g, u))
      BY <3>1, <1>g DEF StartsGated, InDegreesExact
    <3>3. u \in g.dependents[t] => g.inDegree[u] # 1
      BY <3>1, <2>2, <1>h
    <3>4. QED
      BY <3>2, <3>3, <1>5, <1>6
  <2>3. QED
    BY <2>1, <2>2 DEF StartsGated
<1>11. CompletedAfter(h)
  <2>1. ASSUME NEW u \in Tasks, h.status[u] = "complete"
        PROVE  g.dependencies[u] \subseteq Closed(g)
    BY <2>1, <1>2, <1>3, <1>g DEF CompletedAfter, StartsGated
  <2>2. QED
    BY <2>1, <1>4, <1>h DEF CompletedAfter
<1>12. ClosedStaysDown(h)
  <2>1. ASSUME NEW u \in Closed(h), h.agent[u] # Nobody, LinkedOpen(h, u) # {}
        PROVE  h.inDegree[u] > Cardinality(LinkedOpen(h, u))
    <3>0. u \in Tasks
      BY DEF Closed
    <3>1. LinkedOpen(h, u) = LinkedOpen(g, u) \ {t}
      BY <1>4, <1>h DEF LinkedOpen
    <3>2. u # t
      <4>1. SUFFICES ASSUME u = t PROVE FALSE
        OBVIOUS
      <4>2. g.dependencies[t] \subseteq Closed(g)
        BY <4>1, <2>1, <1>h, <1>g DEF StartsGated
      <4>3. PICK d \in Open(g) : t \in g.dependents[d]
        BY <4>1, <2>1, <3>1 DEF LinkedOpen
      <4>4. QED
        BY <4>2, <4>3, <1>g DEF Linked, Open, Closed
    <3>3. g.inDegree[u] > Cardinality(LinkedOpen(g, u))
      BY <3>1, <3>2, <2>1, <1>4, <1>h, <1>g DEF ClosedStaysDown
    <3>4. LinkedOpen(g, u) \in SUBSET Tasks
      BY DEF LinkedOpen, Open
    <3>5. Cardinality(LinkedOpen(g, u)) \in Nat
      BY <3>4, TaskSetSize
    <3>6. g.inDegree[u] \in Int
      BY <3>0, <1>g DEF Graphs
    <3>7. CASE u \in g.dependents[t]
      <4>1. t \in LinkedOpen(g, u)
        BY <3>7, <1>t DEF LinkedOpen
      <4>2. Cardinality(LinkedOpen(h, u)) = Cardinality(LinkedOpen(g, u)) - 1
        BY <4>1, <3>1, <3>4, TaskSetRemove
      <4>3. QED
        BY <4>2, <3>0, <3>3, <3>5, <3>6, <3>7, <1>h
    <3>8. CASE u \notin g.dependents[t]
      <4>1. LinkedOpen(h, u) = LinkedOpen(g, u)
        BY <3>8, <3>1 DEF LinkedOpen
      <4>2. QED
        BY <4>1, <3>0, <3>3, <3>8, <1>h
    <3>9. QED
      BY <3>7, <3>8
  <2>2. QED
    BY <2>1 DEF ClosedStaysDown
<1>13. Consistent(h)
  BY <1>h, <1>7, <1>8, <1>9, <1>10, <1>11, <1>12 DEF Consistent
<1>14. QED
  BY <1>2, <1>3, <1>13, <1>h DEF h, k

----------------------------------------------------------------------------
(* Adding a task, and giving it an agent *)

(* add_task keeps the graph consistent for any list of dependencies: open, *)
(* closed, not in the graph, or the task itself.                           *)
LEMMA AddConsistent ==
  ASSUME NEW g, Consistent(g), NEW t \in Absent(g), NEW deps \in SUBSET Tasks
  PROVE  LET h == AddTask(g, t, deps)
         IN /\ Consistent(h)
            /\ \A u \in Tasks \ {t} : /\ h.status[u] = g.status[u]
                                      /\ h.dependencies[u] = g.dependencies[u]
            /\ h.status[t] = "pending"
<1> DEFINE h == AddTask(g, t, deps)
<1>g. /\ g \in Graphs /\ Linked(g) /\ AbsentBlank(g) /\ InDegreesExact(g)
      /\ StartsGated(g) /\ CompletedAfter(g) /\ ClosedStaysDown(g)
  BY DEF Consistent
<1>t. t \in Tasks /\ g.status[t] = "absent"
  BY DEF Absent
<1>h. Added(g, t, deps, h)
  BY <1>g, <1>t, AddFields
<1> HIDE DEF h
<1> USE DEF Added
<1>1. /\ Closed(h) = Closed(g)
      /\ Open(h) = Open(g) \cup {t}
      /\ Absent(h) = Absent(g) \ {t}
  BY <1>h, <1>t DEF Closed, Open, Absent
<1>2. /\ \A d \in Tasks : t \notin g.dependents[d]
      /\ g.dependents[t] = {} /\ g.agent[t] = Nobody
  BY <1>g, <1>t DEF Linked, AbsentBlank
<1>3. \A u \in Tasks \ {t} : Blocking(h, u) = Blocking(g, u)
  <2>1. ASSUME NEW u \in Tasks, u # t
        PROVE  Blocking(h, u) = Blocking(g, u)
    <3>1. h.dependencies[u] = g.dependencies[u] /\ g.dependencies[u] \subseteq Tasks
      BY <2>1, <1>h, <1>g DEF Graphs
    <3>2. \A d \in Tasks : u \in h.dependents[d] <=> u \in g.dependents[d]
      BY <2>1, <1>h
    <3>3. QED
      BY <3>1, <3>2, <1>1 DEF Blocking
  <2>2. QED
    BY <2>1
<1>4. Blocking(h, t) = deps \ Closed(g)
  <2>1. \A d \in deps : d \in Closed(g) => t \in h.dependents[d]
    BY <1>h DEF Closed
  <2>2. QED
    BY <2>1, <1>h, <1>t, <1>1 DEF Blocking
<1>5. Linked(h)
  <2>1. ASSUME NEW d \in Tasks, NEW u \in h.dependents[d]
        PROVE  d \in h.dependencies[u]
    <3>1. CASE u \in g.dependents[d]
      <4>1. u \in Tasks /\ u # t /\ d \in g.dependencies[u]
        BY <3>1, <1>2, <1>g DEF Linked, Graphs
      <4>2. QED
        BY <4>1, <1>h
    <3>2. CASE u \notin g.dependents[d]
      <4>1. u = t /\ d \in deps
        BY <3>2, <2>1, <1>h
      <4>2. QED
        BY <4>1, <1>h, <1>t
    <3>3. QED
      BY <3>1, <3>2
  <2>2. QED
    BY <2>1 DEF Linked
<1>6. AbsentBlank(h)
  <2>1. ASSUME NEW u \in Absent(h)
        PROVE  /\ h.dependencies[u] = {} /\ h.dependents[u] = {}
               /\ h.agent[u] = Nobody
    <3>1. u \in Absent(g) /\ u # t /\ u \in Tasks /\ g.status[u] = "absent"
      BY <1>1 DEF Absent
    <3>2. QED
      BY <3>1, <1>h, <1>g DEF AbsentBlank
  <2>2. QED
    BY <2>1 DEF AbsentBlank
<1>7. InDegreesExact(h)
  <2>1. ASSUME NEW u \in Open(h)
        PROVE  h.inDegree[u] = Cardinality(Blocking(h, u))
    <3>1. CASE u = t
      BY <3>1, <1>4, <1>h, <1>t
    <3>2. CASE u # t
      BY <3>2, <1>1, <1>3, <1>h, <1>g, ZenonT(40) DEF InDegreesExact, Open
    <3>3. QED
      BY <3>1, <3>2
  <2>2. QED
    BY <2>1 DEF InDegreesExact
<1>8. StartsGated(h)
  <2>1. ASSUME NEW u \in Tasks, h.status[u] = "running"
        PROVE  h.dependencies[u] \subseteq Closed(h)
    BY <2>1, <1>h, <1>1, <1>g DEF StartsGated
  <2>2. ASSUME NEW u \in Tasks, h.status[u] = "pending", h.agent[u] # Nobody
        PROVE  Blocking(h, u) # {}
    <3>1. u # t
      BY <2>2, <1>2, <1>h
    <3>2. QED
      BY <3>1, <2>2, <1>3, <1>h, <1>g DEF StartsGated
  <2>3. QED
    BY <2>1, <2>2 DEF StartsGated
<1>9. CompletedAfter(h)
  BY <1>1, <1>h, <1>g DEF CompletedAfter
<1>10. ClosedStaysDown(h)
  <2>1. ASSUME NEW u \in Closed(h)
        PROVE  LinkedOpen(h, u) = LinkedOpen(g, u) /\ u # t /\ u \in Tasks
    <3>1. u # t /\ u \in Tasks
      BY <1>1, <1>t DEF Closed
    <3>2. \A d \in Tasks : u \in h.dependents[d] <=> u \in g.dependents[d]
      BY <3>1, <1>h
    <3>3. u \notin g.dependents[t] /\ Open(g) \subseteq Tasks
      BY <1>2 DEF Open
    <3>4. QED
      BY <3>1, <3>2, <3>3, <1>1, <1>t DEF LinkedOpen
  <2>2. QED
    BY <2>1, <1>1, <1>h, <1>g DEF ClosedStaysDown
<1>11. Consistent(h)
  BY <1>h, <1>5, <1>6, <1>7, <1>8, <1>9, <1>10 DEF Consistent
<1>12. QED
  BY <1>11, <1>h, <1>t DEF h

(* assign_agent keeps the graph consistent, for a task's first agent and   *)
(* for the one that replaces it.                                           *)
LEMMA AssignConsistent ==
  ASSUME NEW g, Consistent(g), NEW t \in Tasks, NEW a \in Agents,
         \/ g.status[t] = "running"
         \/ g.status[t] = "pending" /\ g.agent[t] = Nobody
  PROVE  LET h == AssignAgent(g, t, a)
         IN /\ Consistent(h)
            /\ h.dependencies = g.dependencies
            /\ \A u \in Tasks :
                 \/ h.status[u] = g.status[u]
                 \/ g.status[u] = "pending" /\ h.status[u] = "running"
<1> DEFINE h == AssignAgent(g, t, a)
<1>g. /\ g \in Graphs /\ Linked(g) /\ AbsentBlank(g) /\ InDegreesExact(g)
      /\ StartsGated(g) /\ CompletedAfter(g) /\ ClosedStaysDown(g)
  BY DEF Consistent
<1>h. /\ h \in Graphs
      /\ h.dependencies = g.dependencies
      /\ h.dependents = g.dependents
      /\ h.inDegree = g.inDegree
      /\ \A u \in Tasks :
           /\ h.agent[u] = IF u = t THEN a ELSE g.agent[u]
           /\ h.status[u] = IF u = t /\ g.inDegree[t] = 0
                              THEN "running" ELSE g.status[u]
  BY <1>g, AssignFields
<1> HIDE DEF h
<1>1. \A u \in Tasks : \/ h.status[u] = g.status[u]
                       \/ g.status[u] = "pending" /\ h.status[u] = "running"
  BY <1>h
<1>2. Closed(h) = Closed(g) /\ Open(h) = Open(g) /\ Absent(h) = Absent(g)
  BY <1>1 DEF Closed, Open, Absent
<1>3. \A u \in Tasks : /\ Blocking(h, u) = Blocking(g, u)
                       /\ LinkedOpen(h, u) = LinkedOpen(g, u)
  BY <1>2, <1>h DEF Blocking, LinkedOpen
<1>4. t \in Open(g) /\ t \notin Closed(g) /\ t \notin Absent(g)
  BY DEF Open, Closed, Absent
<1>5. g.inDegree[t] = Cardinality(Blocking(g, t))
  BY <1>4, <1>g DEF InDegreesExact
<1>6. g.inDegree[t] = 0 <=> Blocking(g, t) = {}
  BY <1>5, <1>g, BlockingIsTasks
<1>7. Linked(h) /\ CompletedAfter(h) /\ InDegreesExact(h)
  <2>1. Linked(h)
    BY <1>g, <1>h DEF Linked
  <2>2. CompletedAfter(h)
    BY <1>1, <1>2, <1>g, <1>h DEF CompletedAfter
  <2>3. InDegreesExact(h)
    BY <1>2, <1>3, <1>g, <1>h DEF InDegreesExact, Open
  <2>4. QED
    BY <2>1, <2>2, <2>3
<1>8. AbsentBlank(h)
  BY <1>2, <1>4, <1>g, <1>h DEF AbsentBlank, Absent
<1>9. StartsGated(h)
  <2>1. ASSUME NEW u \in Tasks, h.status[u] = "running"
        PROVE  h.dependencies[u] \subseteq Closed(h)
    <3>1. CASE g.status[u] = "running"
      BY <3>1, <1>2, <1>g, <1>h DEF StartsGated
    <3>2. CASE g.status[u] # "running"
      <4>1. u = t /\ Blocking(g, t) = {}
        BY <3>2, <2>1, <1>h, <1>6
      <4>2. QED
        BY <4>1, <1>2, <1>h DEF Blocking
    <3>3. QED
      BY <3>1, <3>2
  <2>2. ASSUME NEW u \in Tasks, h.status[u] = "pending", h.agent[u] # Nobody
        PROVE  Blocking(h, u) # {}
    <3>1. CASE u = t
      BY <3>1, <2>2, <1>h, <1>3, <1>6
    <3>2. CASE u # t
      BY <3>2, <2>2, <1>h, <1>3, <1>g DEF StartsGated
    <3>3. QED
      BY <3>1, <3>2
  <2>3. QED
    BY <2>1, <2>2 DEF StartsGated
<1>10. ClosedStaysDown(h)
  BY <1>2, <1>3, <1>4, <1>g, <1>h DEF ClosedStaysDown, Closed
<1>11. Consistent(h)
  BY <1>h, <1>7, <1>8, <1>9, <1>10 DEF Consistent
<1>12. QED
  BY <1>1, <1>11, <1>h DEF h

----------------------------------------------------------------------------
(* The cascade of fail_task *)

(* What the cascade reaches, for a running task: only pending tasks, every *)
(* open dependent of what it fails, and nothing it has no reason to fail.  *)
LEMMA DoomedFacts ==
  ASSUME NEW g, Consistent(g), NEW t \in Tasks, g.status[t] = "running"
  PROVE  /\ \A u \in Doomed(g, t) : u \in Tasks /\ g.status[u] = "pending"
         /\ \A u \in Tasks, d \in Doomed(g, t) \cup {t} :
              u \in g.dependents[d] =>
                u \in Doomed(g, t) \/ u = t \/ g.status[u] = "failed"
         /\ \A u \in Doomed(g, t) :
              \E d \in Doomed(g, t) \cup {t} : u \in g.dependents[d]
<1> DEFINE f == SetStatus(g, t, "failed")
           D == Doomed(g, t)
           Pending == {u \in Tasks : g.status[u] = "pending"}
<1>g. /\ g \in Graphs /\ Linked(g) /\ AbsentBlank(g)
      /\ StartsGated(g) /\ CompletedAfter(g)
  BY DEF Consistent
<1>f. /\ f.dependents = g.dependents
      /\ \A u \in Tasks : f.status[u] = IF u = t THEN "failed" ELSE g.status[u]
  <2>1. "failed" \in Statuses /\ g \in Graphs
    BY <1>g DEF Statuses
  <2>2. QED
    BY <2>1, SetStatusFields
<1>D. D = {u \in Tasks : \A X \in SUBSET Tasks : Cascade(f, t, X) => u \in X}
  BY DEF Doomed
<1> HIDE DEF f, D
<1>c. ASSUME NEW X \in SUBSET Tasks
      PROVE  Cascade(f, t, X) <=>
               \A u \in Tasks, d \in X \cup {t} :
                 u \in g.dependents[d] => u \in X \/ u = t \/ g.status[u] = "failed"
  BY <1>f DEF Cascade
<1>1. D \in SUBSET Tasks
  BY <1>D
<1>2. Cascade(f, t, D)
  <2>1. ASSUME NEW u \in Tasks, NEW d \in D \cup {t}, u \in g.dependents[d],
               u # t, g.status[u] # "failed", NEW X \in SUBSET Tasks,
               Cascade(f, t, X)
        PROVE  u \in X
    <3>1. d \in X \cup {t}
      BY <2>1, <1>D
    <3>2. QED
      BY <3>1, <2>1, <1>c
  <2>2. QED
    BY <2>1, <1>1, <1>c, <1>D
<1>3. Cascade(f, t, Pending)
  <2>1. ASSUME NEW u \in Tasks, NEW d \in Pending \cup {t}, u \in g.dependents[d],
               u # t, g.status[u] # "failed"
        PROVE  u \in Pending
    <3>1. d \in g.dependencies[u] /\ d \notin Closed(g)
      BY <2>1, <1>g DEF Linked, Closed
    <3>2. g.status[u] \notin {"absent", "running", "complete"}
      BY <3>1, <1>g DEF AbsentBlank, Absent, StartsGated, CompletedAfter
    <3>3. g.status[u] \in Statuses
      BY <1>g DEF Graphs
    <3>4. QED
      BY <3>2, <3>3, <2>1 DEF Statuses
  <2>2. Pending \in SUBSET Tasks
    OBVIOUS
  <2>3. QED
    BY <2>1, <2>2, <1>c
<1>4. \A u \in D : u \in Tasks /\ g.status[u] = "pending"
  BY <1>3, <1>D
<1>5. ASSUME NEW u \in D
      PROVE  \E d \in D \cup {t} : u \in g.dependents[d]
  <2>1. SUFFICES ASSUME \A d \in D \cup {t} : u \notin g.dependents[d]
                 PROVE  FALSE
    OBVIOUS
  <2>2. D \ {u} \in SUBSET Tasks
    BY <1>1
  <2>3. Cascade(f, t, D \ {u})
    <3>1. \A v \in Tasks, d \in D \cup {t} :
            v \in g.dependents[d] => v \in D \/ v = t \/ g.status[v] = "failed"
      BY <1>1, <1>2, <1>c
    <3>2. \A v \in Tasks, d \in (D \ {u}) \cup {t} :
            v \in g.dependents[d] => v \in D \ {u} \/ v = t \/ g.status[v] = "failed"
      BY <3>1, <2>1
    <3>3. QED
      BY <3>2, <2>2, <1>c
  <2>4. QED
    BY <2>2, <2>3, <1>D
<1>6. \A u \in Tasks, d \in D \cup {t} :
        u \in g.dependents[d] => u \in D \/ u = t \/ g.status[u] = "failed"
  BY <1>1, <1>2, <1>c
<1>7. QED
  BY <1>4, <1>5, <1>6 DEF D

(* fail_task keeps the graph consistent: what it fails could not have      *)
(* started, what it leaves open waits for nothing it failed, and a task it *)
(* dooms never counts down to the release that would start it again.       *)
LEMMA FailConsistent ==
  ASSUME NEW g, Consistent(g), NEW t \in Tasks, g.status[t] = "running"
  PROVE  LET h == FailTask(g, t)
         IN /\ Consistent(h)
            /\ h.dependencies = g.dependencies
            /\ h.status[t] = "failed"
            /\ \A u \in Tasks \ {t} :
                 \/ h.status[u] = g.status[u]
                 \/ g.status[u] = "pending" /\ h.status[u] = "failed"
<1> DEFINE h == FailTask(g, t)
           D == Doomed(g, t)
<1>g. /\ g \in Graphs /\ Linked(g) /\ AbsentBlank(g) /\ InDegreesExact(g)
      /\ StartsGated(g) /\ CompletedAfter(g) /\ ClosedStaysDown(g)
  BY DEF Consistent
<1>D. /\ \A u \in D : u \in Tasks /\ g.status[u] = "pending"
      /\ \A u \in Tasks, d \in D \cup {t} :
           u \in g.dependents[d] => u \in D \/ u = t \/ g.status[u] = "failed"
      /\ \A u \in D : \E d \in D \cup {t} : u \in g.dependents[d]
  BY DoomedFacts
<1>h. /\ h \in Graphs
      /\ h.dependencies = g.dependencies
      /\ h.dependents = g.dependents
      /\ h.agent = g.agent
      /\ h.inDegree = g.inDegree
      /\ \A u \in Tasks : h.status[u] = IF u = t \/ u \in D THEN "failed"
                                                          ELSE g.status[u]
  BY <1>g DEF FailTask, Graphs, Statuses
<1> HIDE DEF h, D
<1>1. \A u \in Tasks \ {t} : \/ h.status[u] = g.status[u]
                             \/ g.status[u] = "pending" /\ h.status[u] = "failed"
  BY <1>h, <1>D
<1>2. /\ Closed(h) = Closed(g) \cup D \cup {t}
      /\ Open(h) = Open(g) \ (D \cup {t})
      /\ Absent(h) = Absent(g)
      /\ D \cup {t} \subseteq Open(g)
      /\ Open(g) \cap Closed(g) = {}
      /\ Open(g) \subseteq Tasks
  BY <1>h, <1>D DEF Closed, Open, Absent
<1>3. ASSUME NEW u \in Open(h)
      PROVE  Blocking(h, u) = Blocking(g, u) /\ u \in Open(g)
  <2>1. u \in Open(g) /\ u \in Tasks /\ g.status[u] # "failed" /\ u \notin D \cup {t}
    BY <1>2 DEF Open
  <2>2. \A d \in D \cup {t} : u \notin g.dependents[d]
    BY <2>1, <1>D
  <2>3. QED
    BY <2>1, <2>2, <1>2, <1>h DEF Blocking
<1>4. ASSUME NEW u \in Tasks, NEW d \in LinkedOpen(g, u)
      PROVE  d \in Blocking(g, u)
  <2>1. d \in Open(g) /\ u \in g.dependents[d] /\ d \in Tasks
    BY DEF LinkedOpen, Open
  <2>2. QED
    BY <2>1, <1>2, <1>g DEF Blocking, Linked
<1>5. Linked(h) /\ AbsentBlank(h)
  BY <1>g, <1>h, <1>2 DEF Linked, AbsentBlank
<1>6. InDegreesExact(h)
  BY <1>3, <1>h, <1>g DEF InDegreesExact
<1>7. StartsGated(h)
  <2>1. ASSUME NEW u \in Tasks, h.status[u] = "running"
        PROVE  h.dependencies[u] \subseteq Closed(h)
    BY <2>1, <1>h, <1>2, <1>g DEF StartsGated
  <2>2. ASSUME NEW u \in Tasks, h.status[u] = "pending", h.agent[u] # Nobody
        PROVE  Blocking(h, u) # {}
    <3>1. u \in Open(h) /\ g.status[u] = "pending" /\ g.agent[u] # Nobody
      BY <2>2, <1>h DEF Open
    <3>2. QED
      BY <3>1, <1>3, <1>g DEF StartsGated
  <2>3. QED
    BY <2>1, <2>2 DEF StartsGated
<1>8. CompletedAfter(h)
  BY <1>h, <1>2, <1>g DEF CompletedAfter
<1>9. ClosedStaysDown(h)
  <2>1. ASSUME NEW u \in Closed(h), h.agent[u] # Nobody, LinkedOpen(h, u) # {}
        PROVE  h.inDegree[u] > Cardinality(LinkedOpen(h, u))
    <3>0. u \in Tasks /\ g.inDegree[u] \in Int /\ h.inDegree[u] = g.inDegree[u]
      BY <1>g, <1>h DEF Closed, Graphs
    <3>1. LinkedOpen(h, u) = LinkedOpen(g, u) \ (D \cup {t})
      BY <1>2, <1>h DEF LinkedOpen
    <3>2. LinkedOpen(g, u) \in SUBSET Tasks /\ LinkedOpen(h, u) \in SUBSET Tasks
      BY <3>1, <1>2 DEF LinkedOpen
    <3>3. CASE u = t
      <4>1. PICK d \in LinkedOpen(g, t) : TRUE
        BY <3>3, <3>1, <2>1
      <4>2. d \in Blocking(g, t) /\ d \in Open(g)
        BY <1>4 DEF LinkedOpen
      <4>3. QED
        BY <4>2, <1>2, <1>g DEF Blocking, StartsGated
    <3>4. CASE u \in D
      <4>1. u \in Open(g) /\ Blocking(g, u) \in SUBSET Tasks
        BY <3>4, <3>0, <1>2, <1>g, BlockingIsTasks
      <4>2. PICK d \in D \cup {t} : u \in g.dependents[d]
        BY <3>4, <1>D
      <4>3. d \in Blocking(g, u) \ LinkedOpen(h, u)
        BY <4>2, <3>0, <3>1, <1>2, <1>4 DEF LinkedOpen
      <4>4. LinkedOpen(h, u) \in SUBSET Blocking(g, u)
        BY <3>0, <3>1, <1>4
      <4>5. Cardinality(LinkedOpen(h, u)) < Cardinality(Blocking(g, u))
        BY <4>1, <4>3, <4>4, TaskSetProper
      <4>6. g.inDegree[u] = Cardinality(Blocking(g, u))
        BY <4>1, <1>g DEF InDegreesExact
      <4>7. /\ Cardinality(LinkedOpen(h, u)) \in Nat
            /\ Cardinality(Blocking(g, u)) \in Nat
        BY <3>2, <4>1, TaskSetSize
      <4>8. QED
        BY <4>5, <4>6, <4>7, <3>0
    <3>5. CASE u \in Closed(g)
      <4>1. g.inDegree[u] > Cardinality(LinkedOpen(g, u))
        BY <3>5, <3>1, <2>1, <1>h, <1>g DEF ClosedStaysDown
      <4>2. Cardinality(LinkedOpen(h, u)) <= Cardinality(LinkedOpen(g, u))
        BY <3>1, <3>2, TaskSetSize, FS_Subset
      <4>3. /\ Cardinality(LinkedOpen(h, u)) \in Nat
            /\ Cardinality(LinkedOpen(g, u)) \in Nat
        BY <3>2, TaskSetSize
      <4>4. QED
        BY <4>1, <4>2, <4>3, <3>0
    <3>6. QED
      BY <3>3, <3>4, <3>5, <1>2
  <2>2. QED
    BY <2>1 DEF ClosedStaysDown
<1>10. Consistent(h)
  BY <1>h, <1>5, <1>6, <1>7, <1>8, <1>9 DEF Consistent
<1>11. QED
  BY <1>1, <1>10, <1>h DEF h
=============================================================================
