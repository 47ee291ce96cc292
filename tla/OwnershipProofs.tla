------------------------- MODULE OwnershipProofs -------------------------
(***************************************************************************)
(* Who works on what, for colonies of every size and any batches: an open  *)
(* task has one agent, a report that is judged comes from it, and no task  *)
(* completes over an open child.  And the tick loop implements             *)
(* TaskLifecycle.  All of it under the condition that no batch is screened *)
(* out ("screen"): with it, MCStaleEvents shows an event that outlives its *)
(* task.                                                                   *)
(***************************************************************************)
EXTENDS OrchestratorProofs

(***************************************************************************)
(* What the colony is between two handlers                                 *)
(***************************************************************************)
StatusOf(c, a) == c.graph.status[c.agent[a].task]
StillOpen(c, t) == c.graph.status[t] \in {"pending", "running"}

(* _open_child_task_ids finds none.                                        *)
Childless(c, a) ==
  /\ c.overflow[a] = <<>>
  /\ \A u \in Tasks : StillOpen(c, u) => c.parentTask[u] # c.agent[a].task
  /\ \A x \in c.live : c.agent[x].parent = a => ~StillOpen(c, c.agent[x].task)

(* An agent's task is open until it is judged, and is assigned to that     *)
(* agent alone.  Agents are numbered as they are born.                     *)
Assigned(c) ==
  /\ \A a \in c.live :
       /\ StatusOf(c, a) \in {"pending", "running", "complete"}
       /\ StillOpen(c, c.agent[a].task) => c.graph.agent[c.agent[a].task] = a
       /\ c.agent[a].parent < a
  /\ \A t \in Tasks :
       /\ c.graph.agent[t] <= c.born
       /\ c.graph.agent[t] \in c.live => c.agent[c.graph.agent[t]].task = t

(* A queued child waits for a registered decomposer at work, and is not in *)
(* the graph; ids beyond the counter are of no task yet.                   *)
Queued(c) ==
  /\ \A t \in Tasks : t > c.made => c.graph.status[t] = "absent"
  /\ \A a \in Agents : \A i \in DOMAIN c.overflow[a] :
       /\ a \in c.live /\ c.agent[a].role = "decomposer"
       /\ StatusOf(c, a) = "running"
       /\ c.graph.status[c.overflow[a][i].task] = "absent"
       /\ c.overflow[a][i].task <= c.made
       /\ \A b \in Agents : \A j \in DOMAIN c.overflow[b] :
            c.overflow[b][j].task = c.overflow[a][i].task => b = a /\ j = i

(* Only a decomposer that ran has children, whether its task's or adopted. *)
(* Tasks in "S" are being added: their parent is not marked yet.           *)
Family(c, S) ==
  /\ \A x \in c.live : c.agent[x].parent \in c.live =>
       /\ c.agent[c.agent[x].parent].role = "decomposer"
       /\ StatusOf(c, c.agent[x].parent) # "pending"
  /\ \A u \in Tasks : c.parentTask[u] # None =>
       c.graph.status[u] # "absent" /\ c.graph.status[c.parentTask[u]] # "absent"
  /\ \A a \in c.live, u \in Tasks : c.parentTask[u] = c.agent[a].task =>
       /\ StatusOf(c, a) # "pending"
       /\ StatusOf(c, a) = "running" => c.agent[a].role = "decomposer"
       /\ StillOpen(c, u) => u \in S \/ c.agent[a].hasSpawned

(* Nothing below a completed task is open.                                 *)
Finished(c) ==
  /\ \A t, u \in Tasks : c.graph.status[t] = "complete" /\ c.parentTask[u] = t
                           => ~StillOpen(c, u)
  /\ \A a \in c.live : StatusOf(c, a) = "complete" => Childless(c, a)

(* The first agent of a task that could start has the results of all it    *)
(* depends on; before, it has not run and nobody has written to it.        *)
Briefed(c) ==
  \A a \in c.live :
    /\ c.attempts[c.agent[a].task] >= 1
    /\ c.agent[a].started => StatusOf(c, a) # "pending"
    /\ c.attempts[c.agent[a].task] = 1 /\ StatusOf(c, a) # "pending"
         => c.agent[a].informed

House(c, S) ==
  /\ Sound(c)
  /\ TG!Consistent(c.graph)
  /\ Assigned(c)
  /\ Queued(c)
  /\ Family(c, S)
  /\ Finished(c)
  /\ Briefed(c)

(***************************************************************************)
(* What a handler may do to the rest of the colony.  "k" says what it may  *)
(* disturb: the tasks it settles or reassigns, the agents it notifies,     *)
(* those that may gain a child, those whose parking may change, and the    *)
(* tasks it takes on that were in no queue and not in the graph.           *)
(***************************************************************************)
Unseen(c, u) ==
  /\ c.graph.status[u] = "absent"
  /\ \A a \in Agents : \A i \in DOMAIN c.overflow[a] : c.overflow[a][i].task # u

Moves(c, d, settled) ==
  \A t \in Tasks :
    /\ c.graph.status[t] \in {"complete", "failed"} => d.graph.status[t] = c.graph.status[t]
    /\ d.graph.status[t] = "complete" => c.graph.status[t] = "complete" \/ t \in settled
    /\ c.graph.status[t] # "absent" =>
         /\ d.graph.status[t] # "absent"
         /\ d.graph.dependencies[t] = c.graph.dependencies[t]
    /\ c.graph.status[t] = "running" /\ t \notin settled =>
         d.graph.status[t] = "running" /\ d.graph.agent[t] = c.graph.agent[t]
    /\ d.graph.status[t] = "pending" => c.graph.status[t] \in {"absent", "pending"}

Kin(c, d, waking) ==
  \A x \in c.live \cap d.live :
    /\ d.agent[x].role = c.agent[x].role /\ d.agent[x].task = c.agent[x].task
    /\ x \notin waking => d.agent[x].awaiting = c.agent[x].awaiting
    /\ \/ d.agent[x].parent = c.agent[x].parent
       \/ c.agent[x].parent \in (1 .. c.born) \ d.live

Told(q, r, told) ==
  /\ r \in Seq(Messages)
  /\ Len(q) <= Len(r)
  /\ \A i \in 1 .. Len(q) : r[i] = q[i]
  /\ \A i \in Len(q) + 1 .. Len(r) : r[i].type = "notification" /\ r[i].to \in told

Carries(c, d, k) ==
  /\ c.born <= d.born
  /\ \A x \in d.live : x \in c.live \/ x > c.born
  /\ \A x \in c.live : x \in d.live \/ c.agent[x].task \in k.settled
  /\ c.abandoned \subseteq d.abandoned
  /\ Kin(c, d, k.waking)
  /\ Moves(c, d, k.settled)
  /\ \A b \in d.live \ k.growing : (b \in c.live => Childless(c, b)) => Childless(d, b)
  /\ \A u \in Tasks \ k.adding : Unseen(c, u) => Unseen(d, u)
  /\ Told(c.mailbox, d.mailbox, k.told)

Keeps(c, d, S, k) == House(d, S) /\ Carries(c, d, k)

LEMMA ToldTwice ==
  ASSUME NEW q \in Seq(Messages), NEW r, NEW s, NEW P, Told(q, r, P), Told(r, s, P)
  PROVE  Told(q, s, P)
<1>1. r \in Seq(Messages) /\ s \in Seq(Messages) /\ Len(q) <= Len(r) /\ Len(r) <= Len(s)
  BY DEF Told
<1>2. Len(q) \in Nat /\ Len(r) \in Nat /\ Len(s) \in Nat
  BY <1>1
<1>3. ASSUME NEW i \in 1 .. Len(q) PROVE s[i] = q[i]
  <2>1. i \in 1 .. Len(r)
    BY <1>1, <1>2
  <2>2. QED
    BY <2>1 DEF Told
<1>4. ASSUME NEW i \in Len(q) + 1 .. Len(s)
      PROVE  s[i].type = "notification" /\ s[i].to \in P
  <2>1. CASE i \in 1 .. Len(r)
    <3>1. s[i] = r[i] /\ i \in Len(q) + 1 .. Len(r)
      BY <1>1, <1>2, <2>1 DEF Told
    <3>2. QED
      BY <3>1 DEF Told
  <2>2. CASE i \notin 1 .. Len(r)
    <3>1. i \in Len(r) + 1 .. Len(s)
      BY <1>1, <1>2, <2>2
    <3>2. QED
      BY <3>1 DEF Told
  <2>3. QED
    BY <2>1, <2>2
<1>5. QED
  BY <1>1, <1>2, <1>3, <1>4 DEF Told

LEMMA ToldNothing ==
  ASSUME NEW q \in Seq(Messages), NEW P
  PROVE  Told(q, q, P)
BY DEF Told

(* An agent born later is not one of those there were.                     *)
LEMMA Numbers ==
  ASSUME NEW c, Sound(c)
  PROVE  /\ c \in Colonies /\ c.born \in Nat /\ MaxAgents \in Nat /\ c.born <= MaxAgents
         /\ \A x \in c.live : x \in Agents /\ x \in Nat /\ x >= 1 /\ x <= c.born
                              /\ c.agent[x] \in AgentNodes /\ c.agent[x].task \in Tasks
         /\ \A x \in Agents : x \in Nat /\ x >= 1 /\ c.agent[x] \in AgentNodes
                              /\ c.overflow[x] \in Seq(QueuedChildren)
         /\ c.mailbox \in Seq(Messages) /\ c.graph \in TG!Graphs
         /\ c.made \in Nat /\ c.made <= MaxTasks
         /\ \A u \in Tasks : u \in Nat
<1>1. c \in Colonies /\ c.live \subseteq 1 .. c.born /\ \A x \in c.live : c.agent[x].task \in Tasks
  BY DEF Sound
<1>2. /\ c.graph \in TG!Graphs /\ c.agent \in [Agents -> AgentNodes] /\ c.live \in SUBSET Agents
      /\ c.born \in 0 .. MaxAgents /\ c.mailbox \in Seq(Messages)
      /\ c.overflow \in [Agents -> Seq(QueuedChildren)]
      /\ c.made \in 0 .. MaxTasks
  BY <1>1, ColonyFields
<1>3. MaxAgents \in Nat /\ MaxTasks \in Nat
  BY BoundsArePositive
<1>4. \A x \in Agents : x \in Nat /\ x >= 1
  BY <1>3 DEF Agents
<1>5. \A u \in Tasks : u \in Nat
  BY <1>3 DEF Tasks
<1>6. QED
  BY <1>1, <1>2, <1>3, <1>4, <1>5

LEMMA QueueMembers ==
  ASSUME NEW c, Sound(c), NEW a \in Agents, NEW i \in DOMAIN c.overflow[a]
  PROVE  /\ c.overflow[a][i] \in QueuedChildren /\ c.overflow[a][i].task \in Tasks
         /\ c.overflow[a][i].dependencies \in SUBSET Tasks
         /\ c.overflow[a][i].role \in Roles
         /\ DOMAIN c.overflow[a] = 1 .. Len(c.overflow[a]) /\ Len(c.overflow[a]) \in Nat
<1> DEFINE q == c.overflow[a]
<1>1. q \in Seq(QueuedChildren)
  BY Numbers
<1>2. i \in DOMAIN q
  OBVIOUS
<1> HIDE DEF q
<1>3. q[i] \in QueuedChildren /\ DOMAIN q = 1 .. Len(q) /\ Len(q) \in Nat
  BY <1>1, <1>2
<1>4. q[i].task \in Tasks /\ q[i].dependencies \in SUBSET Tasks /\ q[i].role \in Roles
  BY <1>3 DEF QueuedChildren
<1>5. QED
  BY <1>3, <1>4 DEF q

LEMMA CarriesTwice ==
  ASSUME NEW c, NEW d, NEW e, NEW k, Sound(c), Sound(d), Sound(e), Assigned(c),
         Carries(c, d, k), Carries(d, e, k)
  PROVE  Carries(c, e, k)
<1>1. /\ c.born \in Nat /\ d.born \in Nat /\ e.born \in Nat
      /\ \A x \in c.live : x \in Nat /\ x <= c.born
      /\ \A x \in d.live : x \in Nat /\ x <= d.born
      /\ \A x \in e.live : x \in Nat /\ x <= e.born
      /\ c.mailbox \in Seq(Messages)
  BY Numbers
<1>2. /\ c.born <= d.born /\ d.born <= e.born
      /\ \A x \in d.live : x \in c.live \/ x > c.born
      /\ \A x \in e.live : x \in d.live \/ x > d.born
  BY DEF Carries
<1>3. c.born <= e.born /\ \A x \in e.live : x \in c.live \/ x > c.born
  BY <1>1, <1>2
<1>4. \A x \in c.live \cap e.live : x \in d.live
  BY <1>1, <1>2
<1>5. Kin(c, e, k.waking)
  <2>1. Kin(c, d, k.waking) /\ Kin(d, e, k.waking)
    BY DEF Carries
  <2>2. \A p \in (1 .. c.born) \ d.live : p \in (1 .. c.born) \ e.live
    BY <1>1, <1>2
  <2>3. \A x \in c.live : c.agent[x].parent \in (1 .. d.born) \ e.live
                            => c.agent[x].parent \in (1 .. c.born) \ e.live
    BY <1>1 DEF Assigned
  <2> SUFFICES ASSUME NEW x \in c.live \cap e.live
               PROVE  /\ e.agent[x].role = c.agent[x].role /\ e.agent[x].task = c.agent[x].task
                      /\ x \notin k.waking => e.agent[x].awaiting = c.agent[x].awaiting
                      /\ \/ e.agent[x].parent = c.agent[x].parent
                         \/ c.agent[x].parent \in (1 .. c.born) \ e.live
    BY DEF Kin
  <2>4. x \in c.live \cap d.live /\ x \in d.live \cap e.live
    BY <1>4
  <2>5. QED
    BY <2>1, <2>2, <2>3, <2>4 DEF Kin
<1>6. Moves(c, e, k.settled)
  <2>1. Moves(c, d, k.settled) /\ Moves(d, e, k.settled)
    BY DEF Carries
  <2>2. QED
    BY <2>1 DEF Moves
<1>7. ASSUME NEW b \in e.live \ k.growing, b \in c.live => Childless(c, b)
      PROVE  Childless(e, b)
  <2>1. b \in d.live => Childless(d, b)
    <3>1. SUFFICES ASSUME b \in d.live PROVE Childless(d, b)
      OBVIOUS
    <3>2. QED
      BY <1>7, <3>1 DEF Carries
  <2>2. QED
    BY <2>1 DEF Carries
<1>8. ASSUME NEW u \in Tasks \ k.adding, Unseen(c, u) PROVE Unseen(e, u)
  BY <1>8 DEF Carries
<1>9. Told(c.mailbox, e.mailbox, k.told)
  BY <1>1, ToldTwice DEF Carries
<1>10. c.abandoned \subseteq e.abandoned
  BY DEF Carries
<1>11. ASSUME NEW x \in c.live PROVE x \in e.live \/ c.agent[x].task \in k.settled
  <2>1. x \in d.live => d.agent[x].task = c.agent[x].task
    BY DEF Carries, Kin
  <2>2. QED
    BY <2>1 DEF Carries
<1>12. QED
  BY <1>3, <1>5, <1>6, <1>7, <1>8, <1>9, <1>10, <1>11 DEF Carries

----------------------------------------------------------------------------
(* The graph's operations, on a consistent graph *)

LEMMA SameConsistent == \A g : TG!Consistent(g) <=> GP!Consistent(g)
<1>1. \A g : TG!Open(g) = GP!Open(g) /\ TG!Closed(g) = GP!Closed(g)
             /\ TG!Absent(g) = GP!Absent(g)
  BY DEF TG!Open, GP!Open, TG!Closed, GP!Closed, TG!Absent, GP!Absent
<1>2. \A g, t : TG!Blocking(g, t) = GP!Blocking(g, t)
                /\ TG!LinkedOpen(g, t) = GP!LinkedOpen(g, t)
  BY <1>1 DEF TG!Blocking, GP!Blocking, TG!LinkedOpen, GP!LinkedOpen
<1>a. \A S : TG!Cardinality(S) = GP!Cardinality(S)
  BY DEF TG!Cardinality, GP!Cardinality, TG!IsFiniteSet, GP!IsFiniteSet
<1>3. \A g : TG!Linked(g) <=> GP!Linked(g)
  BY DEF TG!Linked, GP!Linked
<1>4. \A g : TG!AbsentBlank(g) <=> GP!AbsentBlank(g)
  BY <1>1 DEF TG!AbsentBlank, GP!AbsentBlank
<1>5. \A g : TG!InDegreesExact(g) <=> GP!InDegreesExact(g)
  BY <1>1, <1>2, <1>a DEF TG!InDegreesExact, GP!InDegreesExact
<1>6. \A g : TG!StartsGated(g) <=> GP!StartsGated(g)
  BY <1>1, <1>2 DEF TG!StartsGated, GP!StartsGated
<1>7. \A g : TG!CompletedAfter(g) <=> GP!CompletedAfter(g)
  BY <1>1 DEF TG!CompletedAfter, GP!CompletedAfter
<1>8. \A g : TG!ClosedStaysDown(g) <=> GP!ClosedStaysDown(g)
  BY <1>1, <1>2, <1>a DEF TG!ClosedStaysDown, GP!ClosedStaysDown
<1>9. QED
  BY <1>3, <1>4, <1>5, <1>6, <1>7, <1>8, SameGraph, Zenon DEF TG!Consistent, GP!Consistent

LEMMA ConsistentShape ==
  ASSUME NEW g, TG!Consistent(g)
  PROVE  /\ g \in TG!Graphs /\ g \in GP!Graphs
         /\ \A t \in Tasks : g.status[t] \in {"absent", "pending", "running", "complete", "failed"}
         /\ \A t \in Tasks : g.agent[t] \in Agents \cup {None}
         /\ \A t \in Tasks : g.status[t] = "absent" => g.agent[t] = None
<1>1. g \in TG!Graphs
  BY DEF TG!Consistent
<1>2. QED
  BY <1>1, SameGraph DEF TG!Consistent, TG!Graphs, TG!Statuses, TG!AbsentBlank, TG!Absent

(* What a closing does: it starts pending tasks that have an agent.        *)
Closes(g, t, s, h) ==
  /\ TG!Consistent(h)
  /\ h.dependencies = g.dependencies
  /\ h.agent = g.agent
  /\ h.status[t] = s
  /\ \A u \in Tasks \ {t} : \/ h.status[u] = g.status[u]
                            \/ g.status[u] = "pending" /\ h.status[u] = "running"

LEMMA ClosingKeeps ==
  ASSUME NEW g, TG!Consistent(g), NEW t \in Tasks,
         g.status[t] = "running" \/ (g.status[t] = "pending" /\ g.agent[t] = None)
  PROVE  /\ g.status[t] = "running" => Closes(g, t, "complete", TG!CompleteTask(g, t))
         /\ Closes(g, t, "failed", TG!CloseFailed(g, t))
<1>1. GP!Consistent(g) /\ g \in TG!Graphs
  BY SameConsistent, ConsistentShape
<1>2. ASSUME NEW s \in {"complete", "failed"}, g.status[t] = "running" \/ s = "failed"
      PROVE  Closes(g, t, s, GP!ReleaseDependents(GP!SetStatus(g, t, s), t))
  <2> DEFINE h == GP!ReleaseDependents(GP!SetStatus(g, t, s), t)
  <2>1. /\ GP!Consistent(h)
        /\ h.dependencies = g.dependencies
        /\ h.status[t] = s
        /\ \A u \in Tasks \ {t} :
             \/ h.status[u] = g.status[u]
             \/ g.status[u] = "pending" /\ h.status[u] = "running"
    BY <1>1, <1>2, GraphSetting, GP!CloseConsistent
  <2>2. h.agent = g.agent
    BY <1>1, GraphRelease DEF Released
  <2> HIDE DEF h
  <2>3. QED
    BY <2>1, <2>2, SameConsistent DEF Closes, h
<1>3. QED
  BY <1>2, SameGraph

LEMMA AddingKeeps ==
  ASSUME NEW g, TG!Consistent(g), NEW t \in Tasks, g.status[t] = "absent",
         NEW deps \in SUBSET Tasks
  PROVE  LET h == TG!AddTask(g, t, deps)
         IN /\ TG!Consistent(h) /\ h.agent = g.agent /\ h.status[t] = "pending"
            /\ \A u \in Tasks \ {t} : /\ h.status[u] = g.status[u]
                                      /\ h.dependencies[u] = g.dependencies[u]
<1> DEFINE h == GP!AddTask(g, t, deps)
<1>1. GP!Consistent(g) /\ g \in TG!Graphs /\ t \in GP!Absent(g)
  BY SameConsistent, ConsistentShape DEF GP!Absent
<1>2. GP!Consistent(h) /\ h.status[t] = "pending"
      /\ \A u \in Tasks \ {t} : /\ h.status[u] = g.status[u]
                                /\ h.dependencies[u] = g.dependencies[u]
  BY <1>1, GraphSetting, GP!AddConsistent
<1>3. TG!AddTask(g, t, deps) = h
  BY SameGraph
<1>4. h.agent = g.agent
  BY <1>1, <1>3, GraphAdd
<1> HIDE DEF h
<1>5. QED
  BY <1>2, <1>3, <1>4, SameConsistent

LEMMA AssigningKeeps ==
  ASSUME NEW g, TG!Consistent(g), NEW t \in Tasks, NEW a \in Agents,
         g.status[t] = "running" \/ (g.status[t] = "pending" /\ g.agent[t] = None)
  PROVE  LET h == TG!AssignAgent(g, t, a)
         IN /\ TG!Consistent(h) /\ h.dependencies = g.dependencies
            /\ h.agent[t] = a /\ h.status[t] \in {"pending", "running"}
            /\ g.status[t] = "running" => h.status[t] = "running"
            /\ \A u \in Tasks \ {t} : h.agent[u] = g.agent[u] /\ h.status[u] = g.status[u]
<1> DEFINE h == GP!AssignAgent(g, t, a)
<1>1. GP!Consistent(g) /\ g \in TG!Graphs
  BY SameConsistent, ConsistentShape
<1>2. GP!Consistent(h) /\ h.dependencies = g.dependencies
  BY <1>1, GraphSetting, GP!AssignConsistent
<1>3. TG!AssignAgent(g, t, a) = h
  BY SameGraph
<1>4. \A u \in Tasks :
        /\ h.agent[u] = IF u = t THEN a ELSE g.agent[u]
        /\ h.status[u] = IF u = t /\ g.inDegree[t] = 0 THEN "running" ELSE g.status[u]
  BY <1>1, <1>3, GraphAssign
<1> HIDE DEF h
<1>5. QED
  BY <1>2, <1>3, <1>4, SameConsistent

----------------------------------------------------------------------------
(* The steps handlers are made of *)

(* Everything but counters, flags and messages is left alone.              *)
Alike(n, m) ==
  /\ m.role = n.role /\ m.task = n.task /\ m.parent = n.parent
  /\ m.hasSpawned = n.hasSpawned /\ m.informed = n.informed

Resembles(c, d, waking) ==
  /\ d.graph = c.graph /\ d.live = c.live /\ d.born = c.born
  /\ d.overflow = c.overflow /\ d.parentTask = c.parentTask
  /\ c.made <= d.made
  /\ c.abandoned \subseteq d.abandoned /\ d.attempts = c.attempts
  /\ \A x \in Agents : /\ Alike(c.agent[x], d.agent[x])
                       /\ x \notin waking => d.agent[x].awaiting = c.agent[x].awaiting
  /\ \A x \in c.live : d.agent[x].started
                          => c.agent[x].started \/ StatusOf(c, x) # "pending"

LEMMA ResemblesHouse ==
  ASSUME NEW c, NEW d, NEW S, NEW W, House(c, S), Sound(d), Resembles(c, d, W)
  PROVE  House(d, S) /\ \A a \in Agents : Childless(c, a) <=> Childless(d, a)
<1>1. /\ d.graph = c.graph /\ d.live = c.live /\ d.born = c.born
      /\ d.overflow = c.overflow /\ d.parentTask = c.parentTask
      /\ c.made <= d.made /\ c.made \in Nat /\ d.made \in Nat
      /\ c.live \subseteq Agents /\ c.born \in Nat
      /\ \A u \in Tasks : u \in Nat
  BY Numbers DEF House, Resembles
<1>2. \A x \in Agents : /\ d.agent[x].role = c.agent[x].role
                        /\ d.agent[x].task = c.agent[x].task
                        /\ d.agent[x].parent = c.agent[x].parent
                        /\ d.agent[x].hasSpawned = c.agent[x].hasSpawned
  BY DEF Resembles, Alike
<1>3. \A a \in Agents : Childless(c, a) <=> Childless(d, a)
  BY <1>1, <1>2 DEF Childless, StillOpen
<1>4. Assigned(d)
  <2>1. Assigned(c)
    BY DEF House
  <2>2. \A t \in Tasks : d.graph.agent[t] \in d.live => d.graph.agent[t] \in Agents
    BY <1>1
  <2>3. QED
    BY <2>1, <2>2, <1>1, <1>2 DEF Assigned, StatusOf, StillOpen
<1>5. Queued(d)
  <2>1. Queued(c)
    BY DEF House
  <2>2. \A t \in Tasks : t > d.made => d.graph.status[t] = "absent"
    BY <2>1, <1>1 DEF Queued
  <2>3. \A a \in c.live : StatusOf(d, a) = StatusOf(c, a)
    BY <1>1, <1>2 DEF StatusOf
  <2>4. ASSUME NEW a \in Agents, NEW i \in DOMAIN d.overflow[a]
        PROVE  /\ a \in d.live /\ d.agent[a].role = "decomposer"
               /\ StatusOf(d, a) = "running"
               /\ d.graph.status[d.overflow[a][i].task] = "absent"
               /\ d.overflow[a][i].task <= d.made
    <3>2. c.overflow[a][i].task \in Nat
      BY <1>1, QueueMembers DEF House
    <3>3. QED
      BY <2>1, <2>3, <3>2, <1>1, <1>2 DEF Queued
  <2>5. QED
    BY <2>1, <2>2, <2>4, <1>1 DEF Queued
<1>6. Family(d, S)
  <2>1. ASSUME NEW x \in d.live, d.agent[x].parent \in d.live
        PROVE  /\ d.agent[d.agent[x].parent].role = "decomposer"
               /\ StatusOf(d, d.agent[x].parent) # "pending"
    <3>1. x \in c.live /\ x \in Agents /\ c.agent[x].parent = d.agent[x].parent
          /\ c.agent[x].parent \in c.live /\ c.agent[x].parent \in Agents
      BY <2>1, <1>1, <1>2
    <3>2. c.agent[c.agent[x].parent].role = "decomposer"
          /\ StatusOf(c, c.agent[x].parent) # "pending"
      BY <3>1 DEF House, Family
    <3>3. QED
      BY <3>1, <3>2, <1>1, <1>2 DEF StatusOf
  <2>2. \A u \in Tasks : d.parentTask[u] # None =>
          d.graph.status[u] # "absent" /\ d.graph.status[d.parentTask[u]] # "absent"
    BY <1>1, <1>2 DEF House, Family
  <2>3. \A x \in d.live, u \in Tasks : d.parentTask[u] = d.agent[x].task =>
          /\ StatusOf(d, x) # "pending"
          /\ StatusOf(d, x) = "running" => d.agent[x].role = "decomposer"
          /\ StillOpen(d, u) => u \in S \/ d.agent[x].hasSpawned
    BY <1>1, <1>2 DEF House, Family, StatusOf, StillOpen
  <2>4. QED
    BY <2>1, <2>2, <2>3 DEF Family
<1>7. Finished(d)
  BY <1>1, <1>2, <1>3 DEF House, Finished, StatusOf, StillOpen
<1>a. Briefed(d)
  <2>1. \A x \in c.live : StatusOf(d, x) = StatusOf(c, x)
    BY <1>1, <1>2 DEF StatusOf
  <2>2. \A x \in c.live : d.agent[x].informed = c.agent[x].informed
    BY <1>1 DEF Resembles, Alike
  <2>3. QED
    BY <2>1, <2>2, <1>1, <1>2 DEF House, Briefed, Resembles
<1>8. House(d, S)
  BY <1>1, <1>4, <1>5, <1>6, <1>7, <1>a DEF House
<1>9. QED
  BY <1>3, <1>8

LEMMA ResemblesKeeps ==
  ASSUME NEW c, NEW d, NEW S, NEW k, House(c, S), Sound(d), Resembles(c, d, k.waking),
         Told(c.mailbox, d.mailbox, k.told)
  PROVE  Keeps(c, d, S, k)
<1>1. /\ d.graph = c.graph /\ d.live = c.live /\ d.born = c.born
      /\ d.overflow = c.overflow /\ d.parentTask = c.parentTask
      /\ c.live \subseteq Agents /\ c.born \in Nat
  BY Numbers DEF House, Resembles
<1>2. \A x \in Agents : /\ d.agent[x].role = c.agent[x].role
                        /\ d.agent[x].task = c.agent[x].task
                        /\ d.agent[x].parent = c.agent[x].parent
  BY DEF Resembles, Alike
<1>3. House(d, S) /\ \A a \in Agents : Childless(c, a) <=> Childless(d, a)
  BY ResemblesHouse
<1>9. Kin(c, d, k.waking) /\ Moves(c, d, k.settled)
  <2>1. Kin(c, d, k.waking)
    BY <1>1, <1>2 DEF Kin, Resembles
  <2>2. Moves(c, d, k.settled)
    BY <1>1 DEF Moves
  <2>3. QED
    BY <2>1, <2>2
<1>10. \A u \in Tasks : Unseen(c, u) => Unseen(d, u)
  BY <1>1 DEF Unseen
<1>11. Carries(c, d, k)
  BY <1>1, <1>3, <1>9, <1>10 DEF Carries, Resembles
<1>12. QED
  BY <1>3, <1>11 DEF Keeps

(* Two steps, one after the other.                                         *)
LEMMA KeepsTwice ==
  ASSUME NEW c, NEW d, NEW e, NEW S, NEW R, NEW T, NEW k, House(c, S),
         Keeps(c, d, R, k), Keeps(d, e, T, k)
  PROVE  Keeps(c, e, T, k)
BY CarriesTwice DEF Keeps, House

(* _retire_agent: what an adopter gains was below it before.               *)
LEMMA RetiringKeeps ==
  ASSUME NEW c, NEW d, NEW S, NEW k, House(c, S), NEW a \in c.live, Retired(c, d, a),
         c.agent[a].task \in k.settled
  PROVE  Keeps(c, d, S, k)
<1> DEFINE p == c.agent[a].parent
<1>1. /\ Sound(c) /\ Sound(d) /\ Assigned(c) /\ Queued(c) /\ Family(c, S) /\ Finished(c)
      /\ TG!Consistent(c.graph)
  BY DEF House, Retired
<1>2. /\ d.graph = c.graph /\ d.live = c.live \ {a} /\ d.born = c.born
      /\ d.parentTask = c.parentTask /\ d.made = c.made /\ d.mailbox = c.mailbox
      /\ d.abandoned = c.abandoned
      /\ \A x \in Agents : d.overflow[x] = IF x = a THEN <<>> ELSE c.overflow[x]
  BY DEF Retired
<1>3. /\ c.live \subseteq Agents /\ a \in Agents /\ c.born \in Nat
      /\ \A x \in c.live : x \in Nat /\ x >= 1 /\ x <= c.born
      /\ c.mailbox \in Seq(Messages)
  BY <1>1, Numbers
<1>4. \A x \in c.live : c.agent[x].parent < x /\ c.agent[x].parent \in Nat
  <2>1. \A x \in c.live : c.agent[x].parent \in Agents \cup {None}
    BY <1>1, Numbers DEF AgentNodes
  <2>2. QED
    BY <2>1, <1>1, <1>3, Numbers DEF Assigned, None
<1>5. \A x \in d.live : /\ x \in c.live /\ x # a
                        /\ d.agent[x].role = c.agent[x].role
                        /\ d.agent[x].task = c.agent[x].task
                        /\ d.agent[x].awaiting = c.agent[x].awaiting
                        /\ d.agent[x].hasSpawned = c.agent[x].hasSpawned
                        /\ d.agent[x].parent = IF c.agent[x].parent = a THEN p
                                                 ELSE c.agent[x].parent
  BY <1>2, <1>3 DEF Retired, SameAgent
<1>6. \A x \in d.live : StatusOf(d, x) = StatusOf(c, x)
  BY <1>2, <1>5 DEF StatusOf
<1>7. ASSUME NEW b \in d.live, Childless(c, b) PROVE Childless(d, b)
  <2>1. b \in Agents /\ b \in c.live /\ b # a /\ d.overflow[b] = <<>>
    BY <1>2, <1>3, <1>5, <1>7 DEF Childless
  <2>2. ASSUME NEW x \in d.live, d.agent[x].parent = b
        PROVE  ~StillOpen(d, d.agent[x].task)
    <3>1. CASE c.agent[x].parent = a
      <4>1. p = b
        BY <3>1, <2>2, <1>5
      <4>2. ~StillOpen(c, c.agent[a].task)
        BY <4>1, <1>7 DEF Childless
      <4>3. StatusOf(c, a) = "complete"
        BY <4>2, <1>1 DEF Assigned, StatusOf, StillOpen
      <4>4. Childless(c, a)
        BY <4>3, <1>1 DEF Finished
      <4>5. QED
        BY <4>4, <3>1, <1>2, <1>5 DEF Childless, StillOpen
    <3>2. CASE c.agent[x].parent # a
      BY <3>2, <2>2, <1>2, <1>5, <1>7 DEF Childless, StillOpen
    <3>3. QED
      BY <3>1, <3>2
  <2>3. QED
    BY <2>1, <2>2, <1>2, <1>5, <1>7 DEF Childless, StillOpen
<1>8. Assigned(d)
  <2>1. \A x \in d.live : d.agent[x].parent < x
    BY <1>3, <1>4, <1>5
  <2>2. QED
    BY <2>1, <1>1, <1>2, <1>5, <1>6 DEF Assigned, StillOpen
<1>9. Queued(d)
  <2>1. \A x \in Agents : \A i \in DOMAIN d.overflow[x] :
          x # a /\ i \in DOMAIN c.overflow[x] /\ d.overflow[x][i] = c.overflow[x][i]
    BY <1>2
  <2>2. QED
    BY <2>1, <1>1, <1>2, <1>5, <1>6 DEF Queued
<1>10. Family(d, S)
  <2>1. ASSUME NEW x \in d.live, d.agent[x].parent \in d.live
        PROVE  /\ d.agent[d.agent[x].parent].role = "decomposer"
               /\ StatusOf(d, d.agent[x].parent) # "pending"
    <3>1. PICK y \in c.live : d.agent[x].parent = c.agent[y].parent
      BY <1>5
    <3>2. QED
      BY <2>1, <3>1, <1>1, <1>5, <1>6 DEF Family
  <2>2. QED
    BY <2>1, <1>1, <1>2, <1>5, <1>6 DEF Family, StillOpen
<1>11. Finished(d)
  BY <1>1, <1>2, <1>5, <1>6, <1>7 DEF Finished, StillOpen
<1>a. Briefed(d)
  <2>1. \A x \in d.live : /\ d.agent[x].started = c.agent[x].started
                          /\ d.agent[x].informed = c.agent[x].informed
    BY <1>3, <1>5 DEF Retired, SameAgent
  <2>2. d.attempts = c.attempts
    BY DEF Retired
  <2>3. QED
    BY <2>1, <2>2, <1>5, <1>6 DEF House, Briefed
<1>12. House(d, S)
  BY <1>1, <1>2, <1>8, <1>9, <1>10, <1>11, <1>a DEF House
<1>13. Carries(c, d, k)
  <2>1. Kin(c, d, k.waking)
    BY <1>2, <1>3, <1>5 DEF Kin
  <2>2. Moves(c, d, k.settled)
    BY <1>2 DEF Moves
  <2>3. \A u \in Tasks : Unseen(c, u) => Unseen(d, u)
    BY <1>2 DEF Unseen
  <2>4. Told(c.mailbox, d.mailbox, k.told)
    BY <1>2, <1>3, ToldNothing
  <2>5. QED
    BY <2>1, <2>2, <2>3, <2>4, <1>2, <1>3, <1>7 DEF Carries
<1>14. QED
  BY <1>12, <1>13 DEF Keeps


(* A task is closed: running, or failed before it had an agent, and with   *)
(* nothing open below it.                                                  *)
Closable(c, t, s) ==
  /\ \/ c.graph.status[t] = "running"
     \/ s = "failed" /\ c.graph.status[t] = "pending" /\ c.graph.agent[t] = None
  /\ s = "failed" => \A a \in c.live : c.agent[a].task # t
  /\ s = "complete" => /\ \A a \in c.live : c.agent[a].task = t => Childless(c, a)
                       /\ \A u \in Tasks : c.parentTask[u] = t => ~StillOpen(c, u)

LEMMA SettlingKeeps ==
  ASSUME NEW c, NEW d, NEW S, NEW k, House(c, S), NEW t \in Tasks,
         NEW s \in {"complete", "failed"}, Settled(c, d, t, s), Closable(c, t, s),
         c.graph.status[t] = "running" => t \in k.settled
  PROVE  Keeps(c, d, S \ {t}, k)
<1>1. /\ Sound(c) /\ Sound(d) /\ Assigned(c) /\ Queued(c) /\ Family(c, S) /\ Finished(c)
      /\ TG!Consistent(c.graph)
  BY DEF House, Settled
<1>2. /\ d.live = c.live /\ d.born = c.born /\ d.overflow = c.overflow
      /\ d.parentTask = c.parentTask /\ d.made = c.made /\ d.mailbox = c.mailbox
      /\ d.abandoned = c.abandoned
  BY DEF Settled
<1>3. Closes(c.graph, t, s, d.graph)
  <2>1. d.graph = IF s = "complete" THEN TG!CompleteTask(c.graph, t)
                                    ELSE TG!CloseFailed(c.graph, t)
    BY DEF Settled
  <2>2. /\ c.graph.status[t] = "running" => Closes(c.graph, t, "complete", TG!CompleteTask(c.graph, t))
        /\ Closes(c.graph, t, "failed", TG!CloseFailed(c.graph, t))
    <3>1. c.graph.status[t] = "running" \/ (c.graph.status[t] = "pending" /\ c.graph.agent[t] = None)
      BY DEF Closable
    <3>2. QED
      BY <1>1, <3>1, ClosingKeeps, Zenon
  <2>3. s = "complete" => c.graph.status[t] = "running"
    BY DEF Closable
  <2>4. QED
    BY <2>1, <2>2, <2>3, Zenon
<1>4. /\ TG!Consistent(d.graph) /\ d.graph.dependencies = c.graph.dependencies
      /\ d.graph.agent = c.graph.agent /\ d.graph.status[t] = s
      /\ \A u \in Tasks \ {t} : \/ d.graph.status[u] = c.graph.status[u]
                                \/ /\ c.graph.status[u] = "pending"
                                   /\ d.graph.status[u] = "running"
  BY <1>3 DEF Closes
<1>5. /\ c.live \subseteq Agents /\ c.born \in Nat /\ c.mailbox \in Seq(Messages)
      /\ \A x \in c.live : c.agent[x].task \in Tasks
  BY <1>1, Numbers
<1>6. \A x \in Agents : /\ d.agent[x].role = c.agent[x].role
                        /\ d.agent[x].task = c.agent[x].task
                        /\ d.agent[x].parent = c.agent[x].parent
                        /\ d.agent[x].awaiting = c.agent[x].awaiting
                        /\ d.agent[x].hasSpawned = c.agent[x].hasSpawned
  BY DEF Settled, SameAgent
<1>7. \A u \in Tasks : StillOpen(d, u) => StillOpen(c, u) /\ u # t
  BY <1>4 DEF StillOpen
<1>8. \A u \in Tasks : c.graph.status[u] = "absent" <=> d.graph.status[u] = "absent"
  BY <1>4 DEF Closable
<1>9. \A b \in c.live : Childless(c, b) => Childless(d, b)
  BY <1>2, <1>5, <1>6, <1>7 DEF Childless
<1>10. \A a \in c.live : \/ StatusOf(d, a) = StatusOf(c, a)
                         \/ StatusOf(c, a) = "pending" /\ StatusOf(d, a) = "running"
                         \/ c.agent[a].task = t /\ s = "complete" /\ StatusOf(c, a) = "running"
                            /\ StatusOf(d, a) = "complete" /\ Childless(c, a)
  BY <1>4, <1>5, <1>6 DEF StatusOf, Closable
<1>11. Assigned(d)
  <2>1. \A t1 \in Tasks : d.graph.agent[t1] \in d.live => d.graph.agent[t1] \in Agents
    BY <1>2, <1>5
  <2>2. QED
    BY <2>1, <1>1, <1>2, <1>4, <1>5, <1>6, <1>7, <1>10 DEF Assigned
<1>12. Queued(d)
  <2>1. ASSUME NEW a \in Agents, NEW i \in DOMAIN d.overflow[a]
        PROVE  /\ a \in d.live /\ d.agent[a].role = "decomposer"
               /\ StatusOf(d, a) = "running"
               /\ d.graph.status[d.overflow[a][i].task] = "absent"
               /\ d.overflow[a][i].task <= d.made
    <3>1. /\ a \in c.live /\ c.agent[a].role = "decomposer" /\ StatusOf(c, a) = "running"
          /\ c.graph.status[c.overflow[a][i].task] = "absent"
          /\ c.overflow[a][i].task <= c.made
      BY <1>1, <1>2, <2>1 DEF Queued
    <3>2. c.overflow[a][i].task \in Tasks
      BY <1>1, <1>2, <2>1, QueueMembers
    <3>3. c.overflow[a] # <<>>
      BY <1>2, <2>1
    <3>4. ~Childless(c, a)
      BY <3>3 DEF Childless
    <3>5. QED
      BY <3>1, <3>2, <3>4, <1>2, <1>6, <1>8, <1>10
  <2>2. QED
    BY <2>1, <1>1, <1>2, <1>8 DEF Queued
<1>13. Family(d, S \ {t})
  <2>1. \A x \in d.live : d.agent[x].parent \in d.live =>
          /\ d.agent[d.agent[x].parent].role = "decomposer"
          /\ StatusOf(d, d.agent[x].parent) # "pending"
    BY <1>1, <1>2, <1>5, <1>6, <1>10 DEF Family
  <2>2. \A u \in Tasks : d.parentTask[u] # None =>
          d.graph.status[u] # "absent" /\ d.graph.status[d.parentTask[u]] # "absent"
    <3>1. \A u \in Tasks : c.parentTask[u] # None => c.parentTask[u] \in Tasks
      BY <1>1, ColonyFields, Numbers
    <3>2. QED
      BY <3>1, <1>1, <1>2, <1>8 DEF Family
  <2>3. ASSUME NEW a \in d.live, NEW u \in Tasks, d.parentTask[u] = d.agent[a].task
        PROVE  /\ StatusOf(d, a) # "pending"
               /\ StatusOf(d, a) = "running" => d.agent[a].role = "decomposer"
               /\ StillOpen(d, u) => u \in S \ {t} \/ d.agent[a].hasSpawned
    <3>1. /\ StatusOf(c, a) # "pending"
          /\ StatusOf(c, a) = "running" => c.agent[a].role = "decomposer"
          /\ StillOpen(c, u) => u \in S \/ c.agent[a].hasSpawned
      BY <1>1, <1>2, <1>5, <1>6, <2>3 DEF Family
    <3>2. QED
      BY <3>1, <1>2, <1>5, <1>6, <1>7, <1>10
  <2>4. QED
    BY <2>1, <2>2, <2>3 DEF Family
<1>14. Finished(d)
  <2>1. ASSUME NEW v \in Tasks, NEW u \in Tasks, d.graph.status[v] = "complete",
               d.parentTask[u] = v
        PROVE  ~StillOpen(d, u)
    <3>1. CASE v = t
      BY <3>1, <2>1, <1>2, <1>4, <1>7 DEF Closable
    <3>2. CASE v # t
      BY <3>2, <2>1, <1>1, <1>2, <1>4, <1>7 DEF Finished
    <3>3. QED
      BY <3>1, <3>2
  <2>2. ASSUME NEW a \in d.live, StatusOf(d, a) = "complete" PROVE Childless(d, a)
    BY <2>2, <1>1, <1>2, <1>9, <1>10 DEF Finished
  <2>3. QED
    BY <2>1, <2>2 DEF Finished
<1>a. Briefed(d)
  <2>1. ASSUME NEW x \in d.live, StatusOf(d, x) # "pending"
        PROVE  DependenciesClosed(d, d.agent[x].task)
    <3>1. x \in c.live /\ d.agent[x].task \in Tasks
      BY <2>1, <1>2, <1>5, <1>6
    <3>2. StatusOf(d, x) \in {"running", "complete"}
      BY <2>1, <3>1, <1>11, <1>2 DEF Assigned
    <3>3. TG!StartsGated(d.graph) /\ TG!CompletedAfter(d.graph)
      BY <1>4 DEF TG!Consistent
    <3>4. QED
      BY <3>1, <3>2, <3>3 DEF StatusOf, DependenciesClosed, TG!StartsGated, TG!CompletedAfter
  <2>2. ASSUME NEW x \in d.live
        PROVE  /\ x \in Agents /\ x \in c.live
               /\ d.agent[x].started = c.agent[x].started
               /\ StatusOf(c, x) # "pending" => StatusOf(d, x) # "pending"
    BY <1>2, <1>5, <1>10 DEF Settled, SameAgent
  <2>3. ASSUME NEW x \in d.live, d.attempts[d.agent[x].task] = 1, StatusOf(d, x) # "pending"
        PROVE  d.agent[x].informed
    <3> DEFINE u == c.agent[x].task
    <3>1. d.agent[x].task = u /\ u \in Tasks /\ d.attempts = c.attempts
      BY <2>2, <1>5, <1>6 DEF Settled
    <3>2. CASE StatusOf(c, x) # "pending"
      <4>1. c.agent[x].informed
        BY <3>1, <3>2, <2>2, <2>3 DEF House, Briefed
      <4>2. QED
        BY <4>1, <3>1, <2>1, <2>2, <2>3 DEF Settled
    <3>3. CASE StatusOf(c, x) = "pending"
      <4>1. /\ ~c.agent[x].started /\ c.graph.status[u] = "pending"
            /\ c.graph.agent[u] = x
        BY <3>3, <2>2, <1>1 DEF House, Briefed, Assigned, StatusOf, StillOpen
      <4>2. d.graph.status[u] # "pending"
        BY <3>1, <2>3 DEF StatusOf
      <4>3. u # t
        BY <4>1, <2>2, GraphSetting DEF Closable
      <4>4. u \in d.graph.dependents[t] /\ d.graph.inDegree[u] = 0
        BY <3>1, <4>1, <4>2, <4>3 DEF Settled, Released
      <4>5. Unblocked(d.graph, t, x)
        BY <4>1, <4>4, <1>4 DEF Unblocked
      <4>6. d.agent[x].informed = DependenciesClosed(d, u)
        BY <4>1, <4>5, <2>2 DEF Settled
      <4>7. QED
        BY <4>6, <3>1, <2>1, <2>3
    <3>4. QED
      BY <3>2, <3>3
  <2>4. QED
    BY <2>2, <2>3, <1>6 DEF House, Briefed, Settled
<1>15. House(d, S \ {t})
  BY <1>1, <1>4, <1>11, <1>12, <1>13, <1>14, <1>a DEF House
<1>16. Carries(c, d, k)
  <2>1. Kin(c, d, k.waking)
    BY <1>2, <1>5, <1>6 DEF Kin
  <2>2. Moves(c, d, k.settled)
    <3>1. ASSUME NEW u \in Tasks, u # t
          PROVE  /\ c.graph.status[u] \in {"complete", "failed"} => d.graph.status[u] = c.graph.status[u]
                 /\ d.graph.status[u] = "complete" => c.graph.status[u] = "complete"
                 /\ c.graph.status[u] = "running" => d.graph.status[u] = "running"
                 /\ d.graph.status[u] = "pending" => c.graph.status[u] = "pending"
      BY <1>4, <3>1
    <3>2. QED
      BY <3>1, <1>4, <1>8 DEF Moves, Closable
  <2>3. \A u \in Tasks : Unseen(c, u) => Unseen(d, u)
    BY <1>2, <1>8 DEF Unseen
  <2>4. Told(c.mailbox, d.mailbox, k.told)
    BY <1>2, <1>5, ToldNothing
  <2>5. QED
    BY <2>1, <2>2, <2>3, <2>4, <1>2, <1>5, <1>9 DEF Carries
<1>17. QED
  BY <1>15, <1>16 DEF Keeps


LEMMA EmptyQueue ==
  ASSUME NEW q \in Seq(QueuedChildren), \A i \in DOMAIN q : FALSE
  PROVE  q = <<>>
<1>1. Len(q) \in Nat /\ DOMAIN q = 1 .. Len(q)
  OBVIOUS
<1>2. Len(q) = 0
  <2>1. Len(q) # 0 => 1 \in DOMAIN q
    BY <1>1
  <2>2. QED
    BY <2>1
<1>3. QED
  BY <1>2

(* spawn_agent for a task no registered agent works on and that has no     *)
(* open child, reporting to a decomposer at work or to nobody registered.  *)
Spawnable(c, S, role, t, p) ==
  /\ c.graph.status[t] = "running" \/ (c.graph.status[t] = "pending" /\ c.graph.agent[t] = None)
  /\ \A a \in c.live : c.agent[a].task # t
  /\ p <= c.born
  /\ p \in c.live => c.agent[p].role = "decomposer" /\ StatusOf(c, p) = "running"
  /\ \A u \in Tasks : c.parentTask[u] = t =>
       role = "decomposer" /\ c.graph.status[t] = "running" /\ ~StillOpen(c, u)
  /\ t \in S => \A a \in c.live : c.parentTask[t] = c.agent[a].task
                                    => a = p \/ c.agent[a].hasSpawned

LEMMA SpawningKeeps ==
  ASSUME NEW c, NEW d, NEW S, NEW k, House(c, S), NEW t \in Tasks, NEW role, NEW informed,
         NEW p \in AnyAgent, Spawned(c, d, role, t, p, informed), Spawnable(c, S, role, t, p),
         c.graph.status[t] = "running" => t \in k.settled,
         p \in c.live => p \in k.growing,
         c.attempts[t] >= 1 \/ informed = DependenciesClosed(c, t)
  PROVE  Keeps(c, d, S \ {t}, k)
<1> DEFINE n == c.born + 1
<1>1. /\ Sound(c) /\ Sound(d) /\ Assigned(c) /\ Queued(c) /\ Family(c, S) /\ Finished(c)
      /\ TG!Consistent(c.graph)
  BY DEF House, Spawned
<1>2. /\ d.live = c.live \cup {n} /\ d.born = n /\ d.overflow = c.overflow
      /\ d.parentTask = c.parentTask /\ d.made = c.made /\ d.mailbox = c.mailbox
      /\ d.abandoned = c.abandoned /\ n \in Agents /\ n \notin c.live
      /\ d.graph = TG!AssignAgent(c.graph, t, n)
  BY DEF Spawned
<1>3. /\ d.agent[n].role = role /\ d.agent[n].task = t /\ d.agent[n].parent = p
      /\ \A x \in Agents \ {n} :
           /\ d.agent[x].role = c.agent[x].role /\ d.agent[x].task = c.agent[x].task
           /\ d.agent[x].parent = c.agent[x].parent
           /\ d.agent[x].awaiting = c.agent[x].awaiting
           /\ d.agent[x].hasSpawned = IF x = p /\ p \in c.live THEN TRUE
                                                               ELSE c.agent[x].hasSpawned
  BY DEF Spawned, SameAgent
<1>4. /\ TG!Consistent(d.graph) /\ d.graph.dependencies = c.graph.dependencies
      /\ d.graph.agent[t] = n /\ d.graph.status[t] \in {"pending", "running"}
      /\ c.graph.status[t] = "running" => d.graph.status[t] = "running"
      /\ \A u \in Tasks \ {t} : /\ d.graph.agent[u] = c.graph.agent[u]
                                /\ d.graph.status[u] = c.graph.status[u]
  BY <1>1, <1>2, AssigningKeeps DEF Spawnable
<1>5. /\ c.live \subseteq Agents /\ c.born \in Nat /\ c.mailbox \in Seq(Messages)
      /\ \A x \in c.live : /\ c.agent[x].task \in Tasks /\ x \in Nat /\ x <= c.born
                           /\ c.agent[x].task # t /\ x # n
      /\ c.graph.status[t] \in {"pending", "running"}
  BY <1>1, <1>2, Numbers DEF Spawnable
<1>a. p \in Nat /\ \A x \in c.live : c.agent[x].parent \in Nat
  <2>1. \A x \in c.live : c.agent[x].parent \in Agents \cup {None}
    BY <1>1, Numbers DEF AgentNodes
  <2>2. QED
    BY <2>1, <1>1, Numbers DEF None, AnyAgent
<1>b. \A u \in Tasks : c.graph.agent[u] \in Nat
  <2>1. \A u \in Tasks : c.graph.agent[u] \in Agents \cup {None}
    BY <1>1, ConsistentShape
  <2>2. QED
    BY <2>1, <1>1, Numbers DEF None
<1> HIDE DEF n
<1>c. n \in Nat /\ c.born < n
  BY <1>5 DEF n
<1>d. ASSUME NEW x \in c.live
      PROVE  /\ d.agent[x].role = c.agent[x].role /\ d.agent[x].task = c.agent[x].task
             /\ d.agent[x].parent = c.agent[x].parent
             /\ d.agent[x].hasSpawned = IF x = p THEN TRUE ELSE c.agent[x].hasSpawned
             /\ d.agent[x].awaiting = c.agent[x].awaiting
  <2>1. x \in Agents \ {n}
    BY <1>5
  <2>2. QED
    BY <2>1, <1>3
<1>e. p < n /\ \A x \in c.live : c.agent[x].parent < x /\ c.agent[x].parent # n
  <2>1. p <= c.born /\ \A x \in c.live : c.agent[x].parent < x
    BY <1>1 DEF Assigned, Spawnable
  <2>2. ASSUME NEW x \in c.live PROVE c.agent[x].parent # n
    BY <2>1, <1>5, <1>a, <1>c
  <2>3. QED
    BY <2>1, <2>2, <1>5, <1>a, <1>c
<1>6. \A u \in Tasks : StillOpen(d, u) <=> StillOpen(c, u)
  BY <1>4, <1>5 DEF StillOpen
<1>7. \A a \in c.live : StatusOf(d, a) = StatusOf(c, a)
  BY <1>3, <1>4, <1>5 DEF StatusOf
<1>8. StatusOf(d, n) = d.graph.status[t]
  BY <1>3 DEF StatusOf
<1>9. \A b \in c.live : b # p /\ Childless(c, b) => Childless(d, b)
  <2>1. SUFFICES ASSUME NEW b \in c.live, b # p, Childless(c, b) PROVE Childless(d, b)
    OBVIOUS
  <2>2. d.overflow[b] = <<>> /\ d.agent[b].task = c.agent[b].task
    BY <2>1, <1>2, <1>d DEF Childless
  <2>3. \A u \in Tasks : StillOpen(d, u) => d.parentTask[u] # d.agent[b].task
    BY <2>1, <2>2, <1>2, <1>6 DEF Childless
  <2>4. ASSUME NEW x \in d.live, d.agent[x].parent = b PROVE ~StillOpen(d, d.agent[x].task)
    <3>1. x \in c.live
      BY <2>1, <2>4, <1>2, <1>3
    <3>2. c.agent[x].parent = b /\ d.agent[x].task = c.agent[x].task /\ c.agent[x].task \in Tasks
      BY <3>1, <2>4, <1>5, <1>d
    <3>3. QED
      BY <3>1, <3>2, <2>1, <1>6 DEF Childless
  <2>5. QED
    BY <2>2, <2>3, <2>4 DEF Childless
<1>10. Childless(d, n)
  <2>1. d.overflow[n] = <<>>
    <3>1. c.overflow[n] \in Seq(QueuedChildren)
      BY <1>1, <1>2, Numbers
    <3>2. \A i \in DOMAIN c.overflow[n] : FALSE
      BY <1>1, <1>2 DEF Queued
    <3>3. c.overflow[n] = <<>>
      BY <3>1, <3>2, EmptyQueue
    <3>4. QED
      BY <3>3, <1>2
  <2>2. \A u \in Tasks : StillOpen(d, u) => d.parentTask[u] # d.agent[n].task
    BY <1>2, <1>3, <1>6 DEF Spawnable
  <2>3. \A x \in d.live : d.agent[x].parent # n
    <3>1. p # n
      BY <1>e, <1>a, <1>c
    <3>2. \A x \in c.live : d.agent[x].parent # n
      BY <1>d, <1>e
    <3>3. QED
      BY <3>1, <3>2, <1>2, <1>3
  <2>4. QED
    BY <2>1, <2>2, <2>3 DEF Childless
<1>11. Assigned(d)
  <2>1. ASSUME NEW a \in d.live
        PROVE  /\ StatusOf(d, a) \in {"pending", "running", "complete"}
               /\ StillOpen(d, d.agent[a].task) => d.graph.agent[d.agent[a].task] = a
               /\ d.agent[a].parent < a
    <3>1. CASE a = n
      BY <3>1, <1>3, <1>4, <1>8, <1>e
    <3>2. CASE a # n
      <4>1. a \in c.live /\ d.agent[a].task = c.agent[a].task
            /\ c.agent[a].task \in Tasks \ {t} /\ d.agent[a].parent < a
        BY <3>2, <1>2, <1>5, <1>d, <1>e
      <4>2. /\ StatusOf(c, a) \in {"pending", "running", "complete"}
            /\ StillOpen(c, c.agent[a].task) => c.graph.agent[c.agent[a].task] = a
        BY <4>1, <1>1 DEF Assigned
      <4>3. QED
        BY <4>1, <4>2, <1>4, <1>6, <1>7
    <3>3. QED
      BY <3>1, <3>2
  <2>2. ASSUME NEW u \in Tasks
        PROVE  /\ d.graph.agent[u] <= d.born
               /\ d.graph.agent[u] \in d.live => d.agent[d.graph.agent[u]].task = u
    <3>1. CASE u = t
      BY <3>1, <1>2, <1>3, <1>4, <1>c
    <3>2. CASE u # t
      <4>1. c.graph.agent[u] <= c.born
            /\ (c.graph.agent[u] \in c.live => c.agent[c.graph.agent[u]].task = u)
        BY <1>1 DEF Assigned
      <4>2. d.graph.agent[u] = c.graph.agent[u] /\ c.graph.agent[u] # n
        BY <3>2, <4>1, <1>4, <1>5, <1>b, <1>c
      <4>3. d.graph.agent[u] <= d.born
        BY <4>1, <4>2, <1>2, <1>5, <1>b, <1>c
      <4>4. d.graph.agent[u] \in d.live => d.graph.agent[u] \in c.live
        BY <4>2, <1>2
      <4>5. QED
        BY <4>1, <4>2, <4>3, <4>4, <1>d
    <3>3. QED
      BY <3>1, <3>2
  <2>3. QED
    BY <2>1, <2>2 DEF Assigned
<1>12. Queued(d)
  <2>1. ASSUME NEW a \in Agents, NEW i \in DOMAIN d.overflow[a]
        PROVE  /\ a \in d.live /\ d.agent[a].role = "decomposer"
               /\ StatusOf(d, a) = "running"
               /\ d.graph.status[d.overflow[a][i].task] = "absent"
               /\ d.overflow[a][i].task <= d.made
    <3>1. /\ a \in c.live /\ c.agent[a].role = "decomposer" /\ StatusOf(c, a) = "running"
          /\ c.graph.status[c.overflow[a][i].task] = "absent"
          /\ c.overflow[a][i].task <= c.made
      BY <1>1, <1>2, <2>1 DEF Queued
    <3>2. c.overflow[a][i].task \in Tasks
      BY <1>1, <1>2, <2>1, QueueMembers
    <3>3. a \in d.live /\ d.agent[a].role = "decomposer" /\ StatusOf(d, a) = "running"
      BY <3>1, <1>2, <1>d, <1>5, <1>7
    <3>4. d.graph.status[c.overflow[a][i].task] = "absent"
      BY <3>1, <3>2, <1>4, <1>5
    <3>5. QED
      BY <3>1, <3>3, <3>4, <1>2, <1>d, <1>5
  <2>2. \A u \in Tasks : u > d.made => d.graph.status[u] = "absent"
    BY <1>1, <1>2, <1>4, <1>5 DEF Queued
  <2>3. QED
    BY <2>1, <2>2, <1>1, <1>2 DEF Queued
<1>13. Family(d, S \ {t})
  <2>1. ASSUME NEW x \in d.live, d.agent[x].parent \in d.live
        PROVE  /\ d.agent[d.agent[x].parent].role = "decomposer"
               /\ StatusOf(d, d.agent[x].parent) # "pending"
    <3>1. CASE x = n
      <4>1. p \in c.live
        BY <3>1, <2>1, <1>2, <1>3, <1>e, <1>a, <1>c
      <4>2. QED
        BY <3>1, <4>1, <1>3, <1>d, <1>7 DEF Spawnable
    <3>2. CASE x # n
      <4>1. x \in c.live /\ c.agent[x].parent = d.agent[x].parent
            /\ c.agent[x].parent \in c.live
        BY <3>2, <2>1, <1>2, <1>d, <1>e
      <4>2. QED
        <5>1. /\ c.agent[c.agent[x].parent].role = "decomposer"
              /\ StatusOf(c, c.agent[x].parent) # "pending"
          BY <4>1, <1>1 DEF Family
        <5>2. \A y \in c.live : d.agent[y].role = c.agent[y].role
          BY <1>d
        <5>3. QED
          BY <4>1, <5>1, <5>2, <1>7
    <3>3. QED
      BY <3>1, <3>2
  <2>2. \A u \in Tasks : d.parentTask[u] # None =>
          d.graph.status[u] # "absent" /\ d.graph.status[d.parentTask[u]] # "absent"
    <3>1. \A u \in Tasks : c.parentTask[u] # None => c.parentTask[u] \in Tasks
      BY <1>1, ColonyFields, Numbers
    <3>2. QED
      BY <3>1, <1>1, <1>2, <1>4 DEF Family
  <2>3. ASSUME NEW a \in d.live, NEW u \in Tasks, d.parentTask[u] = d.agent[a].task
        PROVE  /\ StatusOf(d, a) # "pending"
               /\ StatusOf(d, a) = "running" => d.agent[a].role = "decomposer"
               /\ StillOpen(d, u) => u \in S \ {t} \/ d.agent[a].hasSpawned
    <3>1. CASE a = n
      <4>1. role = "decomposer" /\ c.graph.status[t] = "running" /\ ~StillOpen(c, u)
        BY <3>1, <2>3, <1>2, <1>3 DEF Spawnable
      <4>2. QED
        BY <3>1, <4>1, <1>3, <1>4, <1>6, <1>8
    <3>2. CASE a # n
      <4>1. a \in c.live /\ c.parentTask[u] = c.agent[a].task
        BY <3>2, <2>3, <1>2, <1>3, <1>5
      <4>2. /\ StatusOf(c, a) # "pending"
            /\ StatusOf(c, a) = "running" => c.agent[a].role = "decomposer"
            /\ StillOpen(c, u) => u \in S \/ c.agent[a].hasSpawned
        BY <4>1, <1>1 DEF Family
      <4>3. StillOpen(d, u) => u \in S \ {t} \/ d.agent[a].hasSpawned
        BY <4>1, <4>2, <3>2, <1>3, <1>5, <1>6 DEF Spawnable
      <4>4. QED
        BY <4>1, <4>2, <4>3, <3>2, <1>3, <1>5, <1>7
    <3>3. QED
      BY <3>1, <3>2
  <2>4. QED
    BY <2>1, <2>2, <2>3 DEF Family
<1>14. Finished(d)
  <2>1. ASSUME NEW v \in Tasks, NEW u \in Tasks, d.graph.status[v] = "complete",
               d.parentTask[u] = v
        PROVE  ~StillOpen(d, u)
    BY <2>1, <1>1, <1>2, <1>4, <1>6 DEF Finished
  <2>2. ASSUME NEW a \in d.live, StatusOf(d, a) = "complete" PROVE Childless(d, a)
    <3>1. a # n /\ a \in c.live
      BY <2>2, <1>2, <1>4, <1>8
    <3>2. Childless(c, a) /\ a # p
      BY <2>2, <3>1, <1>1, <1>7 DEF Finished, Spawnable
    <3>3. QED
      BY <3>1, <3>2, <1>9
  <2>3. QED
    BY <2>1, <2>2 DEF Finished
<1>f. Briefed(d)
  <2>1. /\ \A u \in Tasks : c.attempts[u] \in Nat
        /\ d.attempts[t] = c.attempts[t] + 1
        /\ \A u \in Tasks \ {t} : d.attempts[u] = c.attempts[u]
    <3>1. c.attempts \in [Tasks -> Nat]
      BY <1>1, Zenon DEF Sound, Colonies
    <3>2. d.attempts = [c.attempts EXCEPT ![t] = c.attempts[t] + 1]
      BY DEF Spawned
    <3>3. QED
      BY <3>1, <3>2
  <2>2. ASSUME NEW x \in c.live
        PROVE  /\ d.attempts[d.agent[x].task] >= 1
               /\ d.agent[x].started => StatusOf(d, x) # "pending"
               /\ d.attempts[d.agent[x].task] = 1 /\ StatusOf(d, x) # "pending"
                    => d.agent[x].informed
    <3>1. /\ d.agent[x].started = c.agent[x].started
          /\ d.agent[x].informed = c.agent[x].informed
      BY <1>2, <1>5 DEF Spawned, SameAgent
    <3>2. d.agent[x].task = c.agent[x].task /\ c.agent[x].task \in Tasks \ {t}
      BY <1>5, <1>d
    <3>3. QED
      BY <3>1, <3>2, <2>1, <1>7 DEF House, Briefed
  <2>3. /\ d.attempts[d.agent[n].task] >= 1
        /\ ~d.agent[n].started
        /\ d.attempts[d.agent[n].task] = 1 /\ StatusOf(d, n) # "pending"
             => d.agent[n].informed
    <3>1. ~d.agent[n].started /\ d.agent[n].informed = informed
      BY DEF Spawned, n
    <3>2. ASSUME d.attempts[t] = 1, StatusOf(d, n) # "pending" PROVE informed
      <4>1. informed = DependenciesClosed(c, t)
        BY <2>1, <3>2
      <4>2. d.graph.status[t] = "running"
        BY <3>2, <1>4, <1>8
      <4>3. d.graph.dependencies[t] \subseteq TG!Closed(d.graph)
        BY <4>2, <1>4 DEF TG!Consistent, TG!StartsGated
      <4>4. TG!Closed(d.graph) \subseteq TG!Closed(c.graph)
        BY <1>4 DEF TG!Closed
      <4>5. QED
        BY <4>1, <4>3, <4>4, <1>4 DEF DependenciesClosed
    <3>3. QED
      BY <3>1, <3>2, <2>1, <1>3
  <2>4. QED
    BY <2>2, <2>3, <1>2 DEF Briefed
<1>15. House(d, S \ {t})
  BY <1>1, <1>4, <1>11, <1>12, <1>13, <1>14, <1>f DEF House
<1>16. Carries(c, d, k)
  <2>1. Kin(c, d, k.waking)
    BY <1>2, <1>3, <1>5 DEF Kin
  <2>2. Moves(c, d, k.settled)
    <3>1. ASSUME NEW u \in Tasks, u # t
          PROVE  d.graph.status[u] = c.graph.status[u] /\ d.graph.agent[u] = c.graph.agent[u]
      BY <1>4, <3>1
    <3>2. QED
      BY <3>1, <1>4, <1>5 DEF Moves
  <2>3. \A u \in Tasks : Unseen(c, u) => Unseen(d, u)
    BY <1>2, <1>4, <1>5 DEF Unseen
  <2>4. Told(c.mailbox, d.mailbox, k.told)
    BY <1>2, <1>5, ToldNothing
  <2>5. \A x \in d.live : x \in c.live \/ x > c.born
    BY <1>2, <1>c
  <2>6. \A b \in d.live \ k.growing : (b \in c.live => Childless(c, b)) => Childless(d, b)
    BY <1>2, <1>9, <1>10, <1>5
  <2>7. QED
    BY <2>1, <2>2, <2>3, <2>4, <2>5, <2>6, <1>2, <1>5, <1>c DEF Carries
<1>17. QED
  BY <1>15, <1>16 DEF Keeps


(* add_task of a subtask that is nowhere yet, under a decomposer at work   *)
(* or under nobody registered.                                             *)
Addable(c, u, p) ==
  /\ Unseen(c, u)
  /\ u <= c.made
  /\ p \in c.live => c.agent[p].role = "decomposer" /\ StatusOf(c, p) = "running"

(* Once added it waits for an agent, and p alone is above it.              *)
Fresh(c, u, p) ==
  /\ c.graph.status[u] = "pending" /\ c.graph.agent[u] = None
  /\ \A a \in c.live : /\ c.agent[a].task # u
                       /\ c.parentTask[u] = c.agent[a].task => a = p
  /\ \A v \in Tasks : c.parentTask[v] # u
  /\ p \in c.live => c.agent[p].role = "decomposer" /\ StatusOf(c, p) = "running"

(* An open task is assigned to one agent, so two at work differ in task.   *)
LEMMA OneOwner ==
  ASSUME NEW c, Assigned(c), NEW a \in c.live, NEW b \in c.live,
         c.agent[a].task = c.agent[b].task, StillOpen(c, c.agent[a].task)
  PROVE  a = b
BY DEF Assigned

LEMMA GrowingKeeps ==
  ASSUME NEW c, NEW d, NEW S, NEW k, House(c, S), NEW kid \in QueuedChildren,
         NEW p \in AnyAgent, Grown(c, d, kid, p), Addable(c, kid.task, p),
         kid.task \in k.adding, p \in c.live => p \in k.growing
  PROVE  Keeps(c, d, S \cup {kid.task}, k) /\ Fresh(d, kid.task, p)
<1> DEFINE u == kid.task
<1>1. /\ Sound(c) /\ Sound(d) /\ Assigned(c) /\ Queued(c) /\ Family(c, S) /\ Finished(c)
      /\ TG!Consistent(c.graph)
  BY DEF House, Grown
<1>2. /\ d.live = c.live /\ d.born = c.born /\ d.overflow = c.overflow /\ d.agent = c.agent
      /\ d.made = c.made /\ d.mailbox = c.mailbox /\ d.abandoned = c.abandoned
      /\ d.graph = TG!AddTask(c.graph, u, kid.dependencies)
      /\ d.parentTask = [c.parentTask EXCEPT ![u] = IF p \in c.live THEN c.agent[p].task
                                                                    ELSE None]
  BY DEF Grown
<1>3. u \in Tasks /\ kid.dependencies \in SUBSET Tasks
  BY DEF QueuedChildren
<1>4. c.parentTask \in [Tasks -> Tasks \cup {None}]
  BY <1>1, ColonyFields, Numbers
<1>5. /\ d.parentTask[u] = IF p \in c.live THEN c.agent[p].task ELSE None
      /\ \A v \in Tasks \ {u} : d.parentTask[v] = c.parentTask[v]
  BY <1>2, <1>3, <1>4
<1>6. /\ Unseen(c, u) /\ c.graph.status[u] = "absent" /\ u <= c.made
      /\ p \in c.live => c.agent[p].role = "decomposer" /\ StatusOf(c, p) = "running"
      /\ u \in k.adding
  BY DEF Addable, Unseen
<1> HIDE DEF u
<1>7. /\ TG!Consistent(d.graph) /\ d.graph.agent = c.graph.agent
      /\ d.graph.status[u] = "pending"
      /\ \A v \in Tasks \ {u} : /\ d.graph.status[v] = c.graph.status[v]
                                /\ d.graph.dependencies[v] = c.graph.dependencies[v]
      /\ c.graph.agent[u] = None
  <2>1. c.graph.agent[u] = None
    BY <1>1, <1>3, <1>6, ConsistentShape
  <2>2. QED
    BY <2>1, <1>1, <1>2, <1>3, <1>6, AddingKeeps
<1>8. /\ c.live \subseteq Agents /\ c.born \in Nat /\ c.mailbox \in Seq(Messages)
      /\ \A x \in c.live : c.agent[x].task \in Tasks /\ c.agent[x].task # u
      /\ None \notin Tasks
  <2>1. \A x \in c.live : c.agent[x].task # u
    BY <1>1, <1>6 DEF Assigned, StatusOf
  <2>2. QED
    BY <2>1, <1>1, Numbers DEF Tasks, None
<1>9. \A v \in Tasks \ {u} : StillOpen(d, v) <=> StillOpen(c, v)
  BY <1>7 DEF StillOpen
<1>10. \A a \in c.live : StatusOf(d, a) = StatusOf(c, a)
  BY <1>2, <1>7, <1>8 DEF StatusOf
<1>11. \A a \in c.live : p \in c.live /\ c.agent[a].task = c.agent[p].task => a = p
  <2>1. ASSUME p \in c.live PROVE StillOpen(c, c.agent[p].task)
    BY <2>1, <1>6 DEF StillOpen, StatusOf
  <2>2. QED
    BY <2>1, <1>1, OneOwner
<1>12. \A a \in c.live : d.parentTask[u] = c.agent[a].task => p \in c.live /\ a = p
  BY <1>5, <1>8, <1>11
<1>13. ASSUME NEW b \in c.live, b # p, Childless(c, b) PROVE Childless(d, b)
  <2>1. d.overflow[b] = <<>>
    BY <1>2, <1>13 DEF Childless
  <2>2. ASSUME NEW v \in Tasks, StillOpen(d, v) PROVE d.parentTask[v] # d.agent[b].task
    <3>1. CASE v = u
      BY <3>1, <1>2, <1>12, <1>13
    <3>2. CASE v # u
      BY <3>2, <2>2, <1>2, <1>5, <1>9, <1>13 DEF Childless
    <3>3. QED
      BY <3>1, <3>2
  <2>3. \A x \in d.live : d.agent[x].parent = b => ~StillOpen(d, d.agent[x].task)
    BY <1>2, <1>8, <1>9, <1>13 DEF Childless
  <2>4. QED
    BY <2>1, <2>2, <2>3 DEF Childless
<1>14. Assigned(d)
  <2>1. \A a \in c.live : StillOpen(d, d.agent[a].task) <=> StillOpen(c, c.agent[a].task)
    BY <1>2, <1>8, <1>9
  <2>2. QED
    BY <2>1, <1>1, <1>2, <1>7, <1>10 DEF Assigned
<1>15. Queued(d)
  <2>1. ASSUME NEW a \in Agents, NEW i \in DOMAIN d.overflow[a]
        PROVE  /\ a \in d.live /\ d.agent[a].role = "decomposer"
               /\ StatusOf(d, a) = "running"
               /\ d.graph.status[d.overflow[a][i].task] = "absent"
               /\ d.overflow[a][i].task <= d.made
    <3>1. /\ a \in c.live /\ c.agent[a].role = "decomposer" /\ StatusOf(c, a) = "running"
          /\ c.graph.status[c.overflow[a][i].task] = "absent"
          /\ c.overflow[a][i].task <= c.made
      BY <1>1, <1>2, <2>1 DEF Queued
    <3>2. c.overflow[a][i].task \in Tasks
      BY <1>1, <1>2, <2>1, QueueMembers
    <3>3. c.overflow[a][i].task # u
      BY <1>2, <1>6, <2>1 DEF Unseen
    <3>4. QED
      BY <3>1, <3>2, <3>3, <1>2, <1>7, <1>10
  <2>2. \A v \in Tasks : v > d.made => d.graph.status[v] = "absent"
    <3>1. c.made \in Nat /\ u \in Nat
      BY <1>1, <1>3, Numbers
    <3>2. QED
      BY <3>1, <1>1, <1>2, <1>6, <1>7 DEF Queued
  <2>3. QED
    BY <2>1, <2>2, <1>1, <1>2 DEF Queued
<1>16. Family(d, S \cup {u})
  <2>1. \A x \in d.live : d.agent[x].parent \in d.live =>
          /\ d.agent[d.agent[x].parent].role = "decomposer"
          /\ StatusOf(d, d.agent[x].parent) # "pending"
    BY <1>1, <1>2, <1>10 DEF Family
  <2>2. ASSUME NEW v \in Tasks, d.parentTask[v] # None
        PROVE  d.graph.status[v] # "absent" /\ d.graph.status[d.parentTask[v]] # "absent"
    <3>1. CASE v = u
      <4>1. p \in c.live /\ d.parentTask[v] = c.agent[p].task
        BY <3>1, <2>2, <1>5
      <4>2. c.graph.status[c.agent[p].task] = "running" /\ c.agent[p].task \in Tasks \ {u}
        BY <4>1, <1>6, <1>8 DEF StatusOf
      <4>3. QED
        BY <3>1, <4>1, <4>2, <1>7
    <3>2. CASE v # u
      <4>1. /\ c.parentTask[v] = d.parentTask[v] /\ c.parentTask[v] \in Tasks
            /\ c.graph.status[v] # "absent" /\ c.graph.status[c.parentTask[v]] # "absent"
        BY <3>2, <2>2, <1>1, <1>4, <1>5 DEF Family
      <4>2. QED
        BY <3>2, <4>1, <1>6, <1>7
    <3>3. QED
      BY <3>1, <3>2
  <2>3. ASSUME NEW a \in d.live, NEW v \in Tasks, d.parentTask[v] = d.agent[a].task
        PROVE  /\ StatusOf(d, a) # "pending"
               /\ StatusOf(d, a) = "running" => d.agent[a].role = "decomposer"
               /\ StillOpen(d, v) => v \in S \cup {u} \/ d.agent[a].hasSpawned
    <3>1. CASE v = u
      <4>1. p \in c.live /\ a = p
        BY <3>1, <2>3, <1>2, <1>12
      <4>2. QED
        BY <3>1, <4>1, <1>2, <1>6, <1>10
    <3>2. CASE v # u
      <4>1. c.parentTask[v] = c.agent[a].task /\ a \in c.live
        BY <3>2, <2>3, <1>2, <1>5
      <4>2. QED
        BY <3>2, <4>1, <1>1, <1>2, <1>9, <1>10 DEF Family
    <3>3. QED
      BY <3>1, <3>2
  <2>4. QED
    BY <2>1, <2>2, <2>3 DEF Family
<1>17. Finished(d)
  <2>1. ASSUME NEW v \in Tasks, NEW w \in Tasks, d.graph.status[v] = "complete",
               d.parentTask[w] = v
        PROVE  ~StillOpen(d, w)
    <3>1. v # u /\ c.graph.status[v] = "complete"
      BY <2>1, <1>7
    <3>2. w # u
      <4>1. w = u => p \in c.live /\ v = c.agent[p].task
        BY <2>1, <1>5, <1>8
      <4>2. QED
        BY <4>1, <3>1, <1>6 DEF StatusOf
    <3>3. QED
      BY <2>1, <3>1, <3>2, <1>1, <1>5, <1>9 DEF Finished
  <2>2. ASSUME NEW a \in d.live, StatusOf(d, a) = "complete" PROVE Childless(d, a)
    <3>1. StatusOf(c, a) = "complete" /\ a \in c.live
      BY <2>2, <1>2, <1>10
    <3>2. Childless(c, a) /\ a # p
      BY <3>1, <1>1, <1>6 DEF Finished
    <3>3. QED
      BY <3>1, <3>2, <1>13
  <2>3. QED
    BY <2>1, <2>2 DEF Finished
<1>a. Briefed(d)
  BY <1>2, <1>10 DEF House, Briefed, Grown
<1>18. House(d, S \cup {u})
  BY <1>1, <1>7, <1>14, <1>15, <1>16, <1>17, <1>a DEF House
<1>19. Carries(c, d, k)
  <2>1. Kin(c, d, k.waking)
    BY <1>2 DEF Kin
  <2>2. Moves(c, d, k.settled)
    BY <1>6, <1>7 DEF Moves
  <2>3. \A v \in Tasks \ k.adding : Unseen(c, v) => Unseen(d, v)
    BY <1>2, <1>6, <1>7 DEF Unseen
  <2>4. Told(c.mailbox, d.mailbox, k.told)
    BY <1>2, <1>8, ToldNothing
  <2>5. \A b \in d.live \ k.growing : (b \in c.live => Childless(c, b)) => Childless(d, b)
    BY <1>2, <1>13
  <2>6. QED
    BY <2>1, <2>2, <2>3, <2>4, <2>5, <1>2, <1>8 DEF Carries
<1>20. Fresh(d, u, p)
  <2>1. ASSUME NEW v \in Tasks PROVE d.parentTask[v] # u
    <3>1. CASE v = u
      BY <3>1, <1>3, <1>5, <1>8
    <3>2. CASE v # u
      BY <3>2, <1>1, <1>3, <1>5, <1>6, <1>8 DEF Family
    <3>3. QED
      BY <3>1, <3>2
  <2>2. QED
    BY <2>1, <1>2, <1>6, <1>7, <1>8, <1>10, <1>12 DEF Fresh
<1>21. QED
  BY <1>18, <1>19, <1>20 DEF Keeps, u


(* A change to one agent's queue of children.                              *)
Requeued(c, d, p) ==
  /\ Sound(d)
  /\ d.graph = c.graph /\ d.agent = c.agent /\ d.live = c.live /\ d.born = c.born
  /\ d.parentTask = c.parentTask /\ d.made = c.made /\ d.mailbox = c.mailbox
  /\ d.abandoned = c.abandoned /\ d.attempts = c.attempts
  /\ \A x \in Agents : x # p => d.overflow[x] = c.overflow[x]

(* What does not depend on queues stays.                                   *)
LEMMA RequeuingKeeps ==
  ASSUME NEW c, NEW d, NEW S, NEW k, House(c, S), NEW p \in Agents, Requeued(c, d, p),
         Queued(d), p \notin k.growing => (Childless(c, p) => Childless(d, p)),
         p \in c.live /\ StatusOf(c, p) = "complete" => d.overflow[p] = <<>>,
         \A u \in Tasks \ k.adding : Unseen(c, u) => Unseen(d, u)
  PROVE  Keeps(c, d, S, k)
<1>1. /\ Sound(c) /\ Sound(d) /\ Assigned(c) /\ Family(c, S) /\ Finished(c)
      /\ TG!Consistent(c.graph)
  BY DEF House, Requeued
<1>2. /\ d.graph = c.graph /\ d.agent = c.agent /\ d.live = c.live /\ d.born = c.born
      /\ d.parentTask = c.parentTask /\ d.made = c.made /\ d.mailbox = c.mailbox
      /\ d.abandoned = c.abandoned
      /\ \A x \in Agents : x # p => d.overflow[x] = c.overflow[x]
  BY DEF Requeued
<1>3. c.live \subseteq Agents /\ c.born \in Nat /\ c.mailbox \in Seq(Messages)
  BY <1>1, Numbers
<1>4. \A b \in c.live : Childless(c, b) /\ d.overflow[b] = <<>> => Childless(d, b)
  BY <1>2 DEF Childless, StillOpen
<1>5. \A b \in c.live : b # p /\ Childless(c, b) => Childless(d, b)
  <2>1. \A b \in c.live : b # p /\ Childless(c, b) => d.overflow[b] = <<>>
    BY <1>2, <1>3 DEF Childless
  <2>2. QED
    BY <2>1, <1>4
<1>6. Assigned(d)
  BY <1>1, <1>2 DEF Assigned, StatusOf, StillOpen
<1>7. Family(d, S)
  <2>1. \A x \in d.live : d.agent[x].parent \in d.live =>
          /\ d.agent[d.agent[x].parent].role = "decomposer"
          /\ StatusOf(d, d.agent[x].parent) # "pending"
    BY <1>1, <1>2 DEF Family, StatusOf
  <2>2. \A u \in Tasks : d.parentTask[u] # None =>
          d.graph.status[u] # "absent" /\ d.graph.status[d.parentTask[u]] # "absent"
    BY <1>1, <1>2 DEF Family
  <2>3. \A x \in d.live, u \in Tasks : d.parentTask[u] = d.agent[x].task =>
          /\ StatusOf(d, x) # "pending"
          /\ StatusOf(d, x) = "running" => d.agent[x].role = "decomposer"
          /\ StillOpen(d, u) => u \in S \/ d.agent[x].hasSpawned
    BY <1>1, <1>2 DEF Family, StatusOf, StillOpen
  <2>4. QED
    BY <2>1, <2>2, <2>3 DEF Family
<1>8. Finished(d)
  <2>1. ASSUME NEW a \in d.live, StatusOf(d, a) = "complete" PROVE Childless(d, a)
    <3>1. StatusOf(c, a) = "complete" /\ a \in c.live
      BY <2>1, <1>2 DEF StatusOf
    <3>2. Childless(c, a)
      BY <3>1, <1>1 DEF Finished
    <3>3. QED
      BY <3>1, <3>2, <1>4, <1>5
  <2>2. \A v, u \in Tasks : d.graph.status[v] = "complete" /\ d.parentTask[u] = v
                              => ~StillOpen(d, u)
    BY <1>1, <1>2 DEF Finished, StillOpen
  <2>3. QED
    BY <2>1, <2>2 DEF Finished
<1>a. Briefed(d)
  BY <1>2 DEF House, Briefed, StatusOf, Requeued
<1>9. House(d, S)
  BY <1>1, <1>2, <1>6, <1>7, <1>8, <1>a DEF House
<1>10. Carries(c, d, k)
  <2>1. Kin(c, d, k.waking) /\ Moves(c, d, k.settled)
    BY <1>2 DEF Kin, Moves
  <2>2. Told(c.mailbox, d.mailbox, k.told)
    BY <1>2, <1>3, ToldNothing
  <2>3. \A b \in d.live \ k.growing : (b \in c.live => Childless(c, b)) => Childless(d, b)
    BY <1>2, <1>5
  <2>4. QED
    BY <2>1, <2>2, <2>3, <1>2, <1>3 DEF Carries
<1>11. QED
  BY <1>9, <1>10 DEF Keeps

(* Children leave a queue: they are nowhere then, and another each.        *)
LEMMA DequeuingKeeps ==
  ASSUME NEW c, NEW d, NEW S, NEW k, House(c, S), NEW p \in Agents, Requeued(c, d, p),
         \/ d.overflow[p] = <<>>
         \/ c.overflow[p] # <<>> /\ d.overflow[p] = Tail(c.overflow[p])
  PROVE  /\ Keeps(c, d, S, k)
         /\ d.overflow[p] = <<>> => \A i \in DOMAIN c.overflow[p] : Unseen(d, c.overflow[p][i].task)
         /\ c.overflow[p] # <<>> => Unseen(d, c.overflow[p][1].task)
<1> DEFINE q == c.overflow[p]
<1>1. Queued(c) /\ Sound(c)
  BY DEF House
<1>2. /\ d.graph = c.graph /\ d.agent = c.agent /\ d.live = c.live /\ d.made = c.made
      /\ \A x \in Agents : x # p => d.overflow[x] = c.overflow[x]
  BY DEF Requeued
<1>3. q \in Seq(QueuedChildren)
  BY <1>1, Numbers
<1>4. \/ d.overflow[p] = <<>>
      \/ q # <<>> /\ d.overflow[p] = Tail(q)
  OBVIOUS
<1>5. \A a \in Agents : \A i \in DOMAIN c.overflow[a] :
        /\ a \in c.live /\ c.agent[a].role = "decomposer" /\ StatusOf(c, a) = "running"
        /\ c.graph.status[c.overflow[a][i].task] = "absent"
        /\ c.overflow[a][i].task <= c.made
        /\ \A b \in Agents : \A j \in DOMAIN c.overflow[b] :
             c.overflow[b][j].task = c.overflow[a][i].task => b = a /\ j = i
  BY <1>1 DEF Queued
<1> HIDE DEF q
<1>6. \A i \in DOMAIN d.overflow[p] : \E j \in DOMAIN q : d.overflow[p][i] = q[j] /\ j = i + 1 /\ i \in Nat
  BY <1>3, <1>4
<1>7. ASSUME NEW a \in Agents, NEW i \in DOMAIN d.overflow[a]
      PROVE  \E j \in DOMAIN c.overflow[a] :
               /\ d.overflow[a][i] = c.overflow[a][j]
               /\ IF a = p THEN j = i + 1 /\ i \in Nat ELSE j = i
  BY <1>2, <1>6 DEF q
<1>8. Queued(d)
  <2>1. ASSUME NEW a \in Agents, NEW i \in DOMAIN d.overflow[a]
        PROVE  /\ a \in d.live /\ d.agent[a].role = "decomposer" /\ StatusOf(d, a) = "running"
               /\ d.graph.status[d.overflow[a][i].task] = "absent"
               /\ d.overflow[a][i].task <= d.made
               /\ \A b \in Agents : \A j \in DOMAIN d.overflow[b] :
                    d.overflow[b][j].task = d.overflow[a][i].task => b = a /\ j = i
    <3>1. PICK m \in DOMAIN c.overflow[a] :
            /\ d.overflow[a][i] = c.overflow[a][m]
            /\ IF a = p THEN m = i + 1 /\ i \in Nat ELSE m = i
      BY <1>7
    <3>2. ASSUME NEW b \in Agents, NEW j \in DOMAIN d.overflow[b],
                 d.overflow[b][j].task = d.overflow[a][i].task
          PROVE  b = a /\ j = i
      <4>1. PICK l \in DOMAIN c.overflow[b] :
              /\ d.overflow[b][j] = c.overflow[b][l]
              /\ IF b = p THEN l = j + 1 /\ j \in Nat ELSE l = j
        BY <1>7
      <4>2. b = a /\ l = m
        BY <3>1, <3>2, <4>1, <1>5
      <4>3. QED
        BY <3>1, <4>1, <4>2
    <3>3. QED
      BY <3>1, <3>2, <1>2, <1>5 DEF StatusOf
  <2>2. \A u \in Tasks : u > d.made => d.graph.status[u] = "absent"
    BY <1>1, <1>2 DEF Queued
  <2>3. QED
    BY <2>1, <2>2 DEF Queued
<1>9. \A u : Unseen(c, u) => Unseen(d, u)
  BY <1>2, <1>7 DEF Unseen
<1>10. Childless(c, p) => Childless(d, p)
  <2>1. c.overflow[p] = <<>> => d.overflow[p] = <<>>
    BY <1>4 DEF q
  <2>2. QED
    BY <2>1, <1>2 DEF Childless, StillOpen, Requeued
<1>11. p \in c.live /\ StatusOf(c, p) = "complete" => d.overflow[p] = <<>>
  <2>1. ASSUME p \in c.live, StatusOf(c, p) = "complete" PROVE c.overflow[p] = <<>>
    BY <2>1 DEF House, Finished, Childless
  <2>2. QED
    BY <2>1, <1>4 DEF q
<1>12. Keeps(c, d, S, k)
  BY <1>8, <1>9, <1>10, <1>11, RequeuingKeeps
<1>13. ASSUME NEW i \in DOMAIN c.overflow[p], d.overflow[p] = <<>> \/ i = 1
       PROVE  Unseen(d, c.overflow[p][i].task)
  <2>1. ASSUME NEW a \in Agents, NEW j \in DOMAIN d.overflow[a]
        PROVE  d.overflow[a][j].task # c.overflow[p][i].task
    <3>1. PICK m \in DOMAIN c.overflow[a] :
            /\ d.overflow[a][j] = c.overflow[a][m]
            /\ IF a = p THEN m = j + 1 /\ j \in Nat ELSE m = j
      BY <1>7
    <3>2. CASE a # p
      BY <3>1, <3>2, <1>5
    <3>3. CASE a = p
      <4>1. i = 1 /\ m # 1
        <5>1. d.overflow[p] # <<>>
          BY <2>1, <3>3
        <5>2. j >= 1
          <6>1. d.overflow[p] \in Seq(QueuedChildren)
            BY Numbers DEF Requeued
          <6>2. QED
            BY <6>1, <3>3
        <5>3. QED
          BY <5>1, <5>2, <3>1, <3>3, <1>13
      <4>2. QED
        BY <4>1, <3>1, <3>3, <1>5
    <3>4. QED
      BY <3>2, <3>3
  <2>2. c.graph.status[c.overflow[p][i].task] = "absent"
    BY <1>5
  <2>3. QED
    BY <2>1, <2>2, <1>2 DEF Unseen
<1>14. c.overflow[p] # <<>> => 1 \in DOMAIN c.overflow[p]
  BY <1>3 DEF q
<1>15. QED
  BY <1>12, <1>13, <1>14


(* A child joins the queue of a decomposer at work.                        *)
LEMMA QueuingKeeps ==
  ASSUME NEW c, NEW d, NEW S, NEW k, House(c, S), NEW p \in c.live, NEW kid \in QueuedChildren,
         Requeued(c, d, p), d.overflow[p] = Append(c.overflow[p], kid),
         Addable(c, kid.task, p), kid.task \in k.adding, p \in k.growing
  PROVE  Keeps(c, d, S, k)
<1> DEFINE q == c.overflow[p]
           u == kid.task
<1>1. Queued(c) /\ Sound(c)
  BY DEF House
<1>2. /\ d.graph = c.graph /\ d.agent = c.agent /\ d.live = c.live /\ d.made = c.made
      /\ \A x \in Agents : x # p => d.overflow[x] = c.overflow[x]
  BY DEF Requeued
<1>3. q \in Seq(QueuedChildren) /\ d.overflow[p] = Append(q, kid) /\ p \in Agents
  BY <1>1, Numbers
<1>4. /\ c.graph.status[u] = "absent" /\ u <= c.made
      /\ \A a \in Agents : \A i \in DOMAIN c.overflow[a] : c.overflow[a][i].task # u
      /\ c.agent[p].role = "decomposer" /\ StatusOf(c, p) = "running"
  BY DEF Addable, Unseen
<1>5. \A a \in Agents : \A i \in DOMAIN c.overflow[a] :
        /\ a \in c.live /\ c.agent[a].role = "decomposer" /\ StatusOf(c, a) = "running"
        /\ c.graph.status[c.overflow[a][i].task] = "absent"
        /\ c.overflow[a][i].task <= c.made
        /\ \A b \in Agents : \A j \in DOMAIN c.overflow[b] :
             c.overflow[b][j].task = c.overflow[a][i].task => b = a /\ j = i
  BY <1>1 DEF Queued
<1> HIDE DEF q, u
<1>6. \A i \in DOMAIN d.overflow[p] : \/ i \in DOMAIN q /\ d.overflow[p][i] = q[i]
                                      \/ i = Len(q) + 1 /\ d.overflow[p][i] = kid
  BY <1>3
<1>7. ASSUME NEW a \in Agents, NEW i \in DOMAIN d.overflow[a]
      PROVE  \/ i \in DOMAIN c.overflow[a] /\ d.overflow[a][i] = c.overflow[a][i]
             \/ a = p /\ i = Len(q) + 1 /\ d.overflow[a][i].task = u
  BY <1>2, <1>6 DEF q, u
<1>8. Queued(d)
  <2>1. ASSUME NEW a \in Agents, NEW i \in DOMAIN d.overflow[a]
        PROVE  /\ a \in d.live /\ d.agent[a].role = "decomposer" /\ StatusOf(d, a) = "running"
               /\ d.graph.status[d.overflow[a][i].task] = "absent"
               /\ d.overflow[a][i].task <= d.made
               /\ \A b \in Agents : \A j \in DOMAIN d.overflow[b] :
                    d.overflow[b][j].task = d.overflow[a][i].task => b = a /\ j = i
    <3>1. ASSUME NEW b \in Agents, NEW j \in DOMAIN d.overflow[b],
                 d.overflow[b][j].task = d.overflow[a][i].task
          PROVE  b = a /\ j = i
      BY <3>1, <1>4, <1>5, <1>7
    <3>2. /\ a \in d.live /\ d.agent[a].role = "decomposer" /\ StatusOf(d, a) = "running"
          /\ d.graph.status[d.overflow[a][i].task] = "absent"
          /\ d.overflow[a][i].task <= d.made
      BY <1>2, <1>4, <1>5, <1>7 DEF StatusOf
    <3>3. QED
      BY <3>1, <3>2
  <2>2. \A v \in Tasks : v > d.made => d.graph.status[v] = "absent"
    BY <1>1, <1>2 DEF Queued
  <2>3. QED
    BY <2>1, <2>2 DEF Queued
<1>9. \A v \in Tasks \ k.adding : Unseen(c, v) => Unseen(d, v)
  <2>1. u \in k.adding
    BY DEF u
  <2>2. QED
    BY <2>1, <1>2, <1>7 DEF Unseen
<1>10. QED
  BY <1>3, <1>4, <1>8, <1>9, RequeuingKeeps


----------------------------------------------------------------------------
(* The operations *)

LEMMA StartKeeps ==
  ASSUME NEW c, NEW k, House(c, {}), NEW kid \in QueuedChildren, NEW p \in AnyAgent,
         p <= c.born, Addable(c, kid.task, p), kid.task \in k.adding,
         p \in c.live => p \in k.growing, c.room > 0
  PROVE  LET added == AddChild(c, kid, p)
             e == SpawnAgent(added, kid.role, kid.task, p, DependenciesClosed(added, kid.task))
         IN /\ Keeps(c, e, {}, k) /\ e.made = c.made /\ e.mailbox = c.mailbox
            /\ \A x \in e.live : x \in c.live \/ x > c.born
<1> DEFINE d == AddChild(c, kid, p)
           u == kid.task
           informed == DependenciesClosed(d, kid.task)
           e == SpawnAgent(d, kid.role, kid.task, p, informed)
<1>1. Sound(c) /\ u \in Tasks /\ kid.role \in Roles /\ informed \in BOOLEAN
  BY DEF House, QueuedChildren, DependenciesClosed
<1>2. Grown(c, d, kid, p)
  BY <1>1, AddChildFields
<1>a. informed = DependenciesClosed(d, u)
  OBVIOUS
<1> HIDE DEF d, informed
<1>3. Keeps(c, d, {u}, k) /\ Fresh(d, u, p)
  <2>1. Keeps(c, d, {} \cup {kid.task}, k) /\ Fresh(d, kid.task, p)
    BY <1>2, GrowingKeeps
  <2>2. QED
    BY <2>1
<1>4. Sound(d) /\ d.room > 0 /\ d.born = c.born /\ d.live = c.live /\ d.made = c.made
      /\ d.mailbox = c.mailbox
  BY <1>2 DEF Grown
<1>5. Spawned(d, e, kid.role, u, p, informed)
  BY <1>1, <1>4, SpawnFields
<1> HIDE DEF e, u
<1>6. Spawnable(d, {u}, kid.role, u, p)
  BY <1>3, <1>4 DEF Fresh, Spawnable
<1>7. d.graph.status[u] # "running" /\ House(d, {u})
  BY <1>3 DEF Fresh, Keeps
<1>8. Keeps(d, e, {u} \ {u}, k)
  BY <1>1, <1>4, <1>5, <1>6, <1>7, <1>a, SpawningKeeps
<1>9. Keeps(d, e, {}, k)
  BY <1>8
<1>10. Keeps(c, e, {}, k)
  BY <1>3, <1>9, KeepsTwice
<1>11. e.made = c.made /\ e.mailbox = c.mailbox
  BY <1>4, <1>5 DEF Spawned
<1>12. QED
  BY <1>10, <1>11 DEF d, e, informed, u, Keeps, Carries

LEMMA CloseOneKeeps ==
  ASSUME NEW c, NEW k, House(c, {}), NEW kid \in QueuedChildren, NEW p \in AnyAgent,
         Addable(c, kid.task, p), kid.task \in k.adding, p \in c.live => p \in k.growing
  PROVE  LET e == CloseOne(c, kid, p)
         IN /\ Keeps(c, e, {}, k) /\ e.made = c.made /\ e.mailbox = c.mailbox
            /\ e.live = c.live
<1> DEFINE d == AddChild(c, kid, p)
           u == kid.task
           e == CloseFailed(d, u)
<1>1. Sound(c) /\ u \in Tasks
  BY DEF House, QueuedChildren
<1>2. Grown(c, d, kid, p)
  BY <1>1, AddChildFields
<1> HIDE DEF d
<1>3. Keeps(c, d, {u}, k) /\ Fresh(d, u, p)
  <2>1. Keeps(c, d, {} \cup {kid.task}, k) /\ Fresh(d, kid.task, p)
    BY <1>2, GrowingKeeps
  <2>2. QED
    BY <2>1
<1>4. Sound(d) /\ d.live = c.live /\ d.made = c.made /\ d.mailbox = c.mailbox
  BY <1>2 DEF Grown
<1>5. Settled(d, e, u, "failed")
  BY <1>1, <1>4, SettleFields
<1> HIDE DEF e, u
<1>6. Closable(d, u, "failed")
  BY <1>3 DEF Fresh, Closable
<1>7. d.graph.status[u] # "running" /\ House(d, {u})
  BY <1>3 DEF Fresh, Keeps
<1>8. Keeps(d, e, {u} \ {u}, k)
  <2>1. "failed" \in {"complete", "failed"}
    OBVIOUS
  <2>2. QED
    BY <2>1, <1>1, <1>4, <1>5, <1>6, <1>7, SettlingKeeps
<1>9. Keeps(d, e, {}, k)
  BY <1>8
<1>10. Keeps(c, e, {}, k)
  BY <1>3, <1>9, KeepsTwice
<1>11. e.made = c.made /\ e.mailbox = c.mailbox /\ e.live = c.live
  BY <1>4, <1>5 DEF Settled
<1>12. QED
  BY <1>10, <1>11 DEF d, e, u, CloseOne

(* A subtask stays addable while others are added.                         *)
LEMMA AddableStays ==
  ASSUME NEW c, NEW d, NEW k, Sound(c), Carries(c, d, k), c.made <= d.made, c.made \in Nat,
         d.made \in Nat, NEW u \in Tasks, NEW p \in AnyAgent, p <= c.born,
         Addable(c, u, p), u \notin k.adding, p \in c.live => c.agent[p].task \notin k.settled
  PROVE  Addable(d, u, p)
<1>1. Unseen(d, u)
  BY DEF Addable, Carries
<1>2. u \in Nat /\ c.born \in Nat /\ \A x \in c.live : c.agent[x].task \in Tasks
  BY Numbers
<1>3. u <= d.made
  BY <1>2 DEF Addable
<1>4. p \in Nat
  BY Numbers DEF AnyAgent, None
<1>5. p \in d.live => p \in c.live
  BY <1>2, <1>4 DEF Carries
<1>6. ASSUME p \in d.live
      PROVE  d.agent[p].role = "decomposer" /\ StatusOf(d, p) = "running"
  <2>1. /\ d.agent[p].role = c.agent[p].role /\ d.agent[p].task = c.agent[p].task
        /\ c.agent[p].role = "decomposer" /\ c.graph.status[c.agent[p].task] = "running"
    BY <1>5, <1>6 DEF Carries, Kin, Addable, StatusOf
  <2>2. d.graph.status[c.agent[p].task] = "running"
    BY <2>1, <1>2, <1>5, <1>6 DEF Carries, Moves
  <2>3. QED
    BY <2>1, <2>2 DEF StatusOf
<1>7. QED
  BY <1>1, <1>3, <1>6 DEF Addable

(* What the children lost for want of energy leave in the mailbox.         *)
LEMMA LostKeeps ==
  ASSUME NEW c, NEW S, NEW k, House(c, S), NEW kids \in Seq(QueuedChildren),
         NEW p \in AnyAgent, p # None => p \in k.told, Sound(Lost(c, kids, p))
  PROVE  /\ Keeps(c, Lost(c, kids, p), S, k)
         /\ Lost(c, kids, p).live = c.live /\ Lost(c, kids, p).made = c.made
<1> DEFINE d == Lost(c, kids, p)
           lost == {kids[i].task : i \in DOMAIN kids}
<1>1. Sound(c) /\ c \in Colonies /\ c.mailbox \in Seq(Messages)
  BY Numbers DEF House
<1>2. /\ d.graph = c.graph /\ d.live = c.live /\ d.born = c.born /\ d.agent = c.agent
      /\ d.overflow = c.overflow /\ d.parentTask = c.parentTask /\ d.made = c.made
      /\ d.abandoned = c.abandoned /\ d.attempts = c.attempts
      /\ d.mailbox = IF p = None THEN c.mailbox ELSE c.mailbox \o Reports(kids, p)
  BY <1>1 DEF Colonies, Lost
<1> HIDE DEF d
<1>3. Told(c.mailbox, d.mailbox, k.told)
  <2>1. CASE p = None
    BY <1>1, <1>2, <2>1, ToldNothing
  <2>2. CASE p # None
    <3>1. p \in Agents
      BY <2>2 DEF AnyAgent
    <3> DEFINE n == Len(kids)
               q == [i \in 1 .. n |-> Notification(p, kids[n + 1 - i].task)]
    <3>2. Reports(kids, p) = q
      BY DEF Reports
    <3>3. Reports(kids, p) \in Seq(Messages)
      BY <3>1, ReportsAreMessages
    <3>4. q \in Seq(Messages) /\ Len(q) = n /\ n \in Nat
      BY <3>2, <3>3
    <3>5. \A i \in 1 .. n : q[i].type = "notification" /\ q[i].to = p
      BY DEF Notification
    <3> HIDE DEF q, n
    <3>6. d.mailbox = c.mailbox \o q
      BY <1>2, <2>2, <3>2
    <3>7. /\ c.mailbox \o q \in Seq(Messages) /\ Len(c.mailbox \o q) = Len(c.mailbox) + n
          /\ Len(c.mailbox) \in Nat
          /\ \A i \in 1 .. Len(c.mailbox) : (c.mailbox \o q)[i] = c.mailbox[i]
          /\ \A i \in Len(c.mailbox) + 1 .. Len(c.mailbox) + n :
               (c.mailbox \o q)[i] = q[i - Len(c.mailbox)] /\ i - Len(c.mailbox) \in 1 .. n
      BY <1>1, <3>4, SMTT(30)
    <3>8. QED
      BY <2>2, <3>4, <3>5, <3>6, <3>7 DEF Told
  <2>3. QED
    BY <2>1, <2>2
<1>4. Resembles(c, d, k.waking)
  BY <1>1, <1>2, Numbers DEF Resembles, Alike
<1>5. Keeps(c, d, S, k)
  BY <1>3, <1>4, ResemblesKeeps DEF d
<1>6. QED
  BY <1>2, <1>5 DEF d

LEMMA CloseUnstartableKeeps ==
  ASSUME NEW c, NEW k, House(c, {}), NEW kids \in Seq(QueuedChildren), NEW p \in AnyAgent,
         p <= c.born, p \in c.live => p \in k.growing, p # None => p \in k.told,
         \A i \in 1 .. Len(kids) : kids[i].task \in k.adding /\ Addable(c, kids[i].task, p),
         \A i, j \in 1 .. Len(kids) : i # j => kids[i].task # kids[j].task
  PROVE  LET e == CloseUnstartable(c, kids, p)
         IN Keeps(c, e, {}, k) /\ e.live = c.live /\ e.made = c.made
<1> DEFINE n == Len(kids)
           Good(b, i) == /\ Keeps(c, b, {}, k) /\ b.live = c.live /\ b.made = c.made
                         /\ \A j \in i + 1 .. n : Addable(b, kids[j].task, p)
           S == [i \in 0 .. n |-> {b \in Colonies : Good(b, i)}]
<1>1. Sound(c) /\ c \in Colonies /\ n \in Nat /\ c.made \in Nat
  BY Numbers DEF House
<1>2. c \in S[0]
  <2>1. Keeps(c, c, {}, k)
    <3>1. Resembles(c, c, k.waking)
      BY <1>1, Numbers DEF Resembles, Alike
    <3>2. Told(c.mailbox, c.mailbox, k.told)
      BY <1>1, Numbers, ToldNothing
    <3>3. QED
      BY <1>1, <3>1, <3>2, ResemblesKeeps
  <2>2. QED
    BY <1>1, <2>1
<1>3. ASSUME NEW i \in 1 .. n, NEW b \in S[i - 1]
      PROVE  CloseOne(b, kids[i], p) \in S[i]
  <2> DEFINE e == CloseOne(b, kids[i], p)
             k0 == [settled |-> {}, told |-> {}, growing |-> {p}, waking |-> {},
                    adding |-> {kids[i].task}]
  <2>1. i - 1 \in 0 .. n /\ i \in 0 .. n /\ i \in (i - 1) + 1 .. n
    BY <1>1
  <2>2. b \in Colonies /\ Good(b, i - 1)
    BY <2>1
  <2> HIDE DEF S
  <2>3. House(b, {}) /\ Sound(b) /\ Keeps(c, b, {}, k) /\ b.live = c.live /\ b.made = c.made
        /\ kids[i] \in QueuedChildren /\ kids[i].task \in k.adding
        /\ Addable(b, kids[i].task, p) /\ c.born <= b.born
    BY <2>1, <2>2 DEF Keeps, House, Carries
  <2>4. p <= b.born
    <3>1. p \in Nat /\ c.born \in Nat /\ b.born \in Nat
      BY <1>1, <2>3, Numbers DEF AnyAgent, None
    <3>2. QED
      BY <2>3, <3>1
  <2>5. Keeps(b, e, {}, k) /\ e.made = b.made /\ e.live = b.live
    BY <2>3, CloseOneKeeps
  <2>6. Keeps(b, e, {}, k0)
    <3>1. kids[i].task \in k0.adding /\ p \in k0.growing
      OBVIOUS
    <3> HIDE DEF k0
    <3>2. QED
      BY <2>3, <3>1, CloseOneKeeps
  <2>7. k0.settled = {} /\ k0.adding = {kids[i].task}
    OBVIOUS
  <2> HIDE DEF e, k0
  <2>8. Keeps(c, e, {}, k) /\ Sound(e) /\ e \in Colonies
    <3>1. Keeps(c, e, {}, k)
      BY <2>3, <2>5, KeepsTwice
    <3>2. Sound(e)
      BY <3>1 DEF Keeps, House
    <3>3. QED
      BY <3>1, <3>2 DEF Sound
  <2>9. ASSUME NEW j \in i + 1 .. n PROVE Addable(e, kids[j].task, p)
    <3>1. j \in (i - 1) + 1 .. n /\ j \in 1 .. n /\ i # j
      BY <1>1
    <3>2. Addable(b, kids[j].task, p) /\ kids[j].task # kids[i].task /\ kids[j] \in QueuedChildren
      BY <2>2, <3>1
    <3>3. kids[j].task \in Tasks /\ kids[j].task \notin k0.adding
      BY <2>7, <3>2 DEF QueuedChildren
    <3>4. Carries(b, e, k0) /\ b.made <= e.made /\ b.made \in Nat /\ e.made \in Nat
      BY <1>1, <2>3, <2>5, <2>6 DEF Keeps
    <3>5. QED
      BY <2>3, <2>4, <2>7, <3>2, <3>3, <3>4, AddableStays
  <2>10. e.live = c.live /\ e.made = c.made
    BY <2>3, <2>5
  <2>11. QED
    BY <2>1, <2>8, <2>9, <2>10 DEF S, e
<1>4. S[n] \subseteq {b \in Colonies : Keeps(c, b, {}, k) /\ b.live = c.live /\ b.made = c.made}
  BY <1>1
<1> HIDE DEF S
<1>5. PICK b \in S[n] : CloseUnstartable(c, kids, p) = Lost(b, kids, p)
  BY <1>2, <1>3, CloseUnstartableLoop DEF n
<1>6. Keeps(c, b, {}, k) /\ b.live = c.live /\ b.made = c.made
  BY <1>4, <1>5
<1>7. Sound(Lost(b, kids, p))
  BY <1>1, <1>5, CloseUnstartableEvolves DEF Builds, Evolves
<1>8. /\ Keeps(b, Lost(b, kids, p), {}, k)
      /\ Lost(b, kids, p).live = b.live /\ Lost(b, kids, p).made = b.made
  BY <1>6, <1>7, LostKeeps DEF Keeps
<1>9. Keeps(c, Lost(b, kids, p), {}, k)
  BY <1>6, <1>8, KeepsTwice
<1>10. QED
  BY <1>5, <1>6, <1>8, <1>9

(* An exemption nothing made use of is dropped: an agent that had a child  *)
(* open gains none by one more, and a task in a queue was not unseen.      *)
LEMMA Exempted ==
  ASSUME NEW c, NEW d, NEW j, NEW k, Carries(c, d, j),
         j.settled \subseteq k.settled, j.told \subseteq k.told, j.waking \subseteq k.waking,
         \A b \in j.growing \ k.growing : b \in d.live => b \in c.live /\ ~Childless(c, b),
         \A u \in j.adding \ k.adding : ~Unseen(c, u)
  PROVE  Carries(c, d, k)
<1>1. Kin(c, d, k.waking)
  BY DEF Carries, Kin
<1>2. Moves(c, d, k.settled)
  BY DEF Carries, Moves
<1>3. Told(c.mailbox, d.mailbox, k.told)
  BY DEF Carries, Told
<1>4. ASSUME NEW b \in d.live \ k.growing, b \in c.live => Childless(c, b)
      PROVE  Childless(d, b)
  <2>1. b \notin j.growing
    BY <1>4
  <2>2. QED
    BY <1>4, <2>1 DEF Carries
<1>5. \A u \in Tasks \ k.adding : Unseen(c, u) => Unseen(d, u)
  BY DEF Carries
<1>6. QED
  BY <1>1, <1>2, <1>3, <1>4, <1>5 DEF Carries

(* A queue of a colony changes, and nothing else.                          *)
WithQueue(c, p, q) == [c EXCEPT !.overflow[p] = q]

LEMMA RequeueFields ==
  ASSUME NEW c, Sound(c), NEW p \in Agents, NEW q \in Seq(QueuedChildren),
         NEW d, d = WithQueue(c, p, q)
  PROVE  Requeued(c, d, p) /\ d.overflow[p] = q /\ d.room = c.room
<1>1. c \in Colonies /\ c.overflow \in [Agents -> Seq(QueuedChildren)]
  BY DEF Sound, Colonies
<1>2. [c.overflow EXCEPT ![p] = q] \in [Agents -> Seq(QueuedChildren)]
  BY <1>1
<1>3. d = [c EXCEPT !.overflow = [c.overflow EXCEPT ![p] = q]]
  BY <1>1 DEF Colonies, WithQueue
<1>4. /\ d \in Colonies /\ d.overflow = [c.overflow EXCEPT ![p] = q]
      /\ d.graph = c.graph /\ d.agent = c.agent /\ d.live = c.live /\ d.born = c.born
      /\ d.parentTask = c.parentTask /\ d.made = c.made /\ d.mailbox = c.mailbox
      /\ d.abandoned = c.abandoned /\ d.room = c.room /\ d.attempts = c.attempts
  BY <1>1, <1>2, <1>3 DEF Colonies
<1>5. Sound(d)
  BY <1>4 DEF Sound
<1>6. d.overflow[p] = q /\ \A x \in Agents : x # p => d.overflow[x] = c.overflow[x]
  BY <1>1, <1>4
<1>7. QED
  BY <1>4, <1>5, <1>6 DEF Requeued

LEMMA EmptiedFields ==
  ASSUME NEW c, Sound(c), NEW p \in Agents, NEW d, d = WithQueue(c, p, <<>>)
  PROVE  Requeued(c, d, p) /\ d.overflow[p] = <<>>
<1> DEFINE nil == <<>>
<1>1. nil \in Seq(QueuedChildren) /\ d = WithQueue(c, p, nil)
  OBVIOUS
<1> HIDE DEF nil
<1>2. Requeued(c, d, p) /\ d.overflow[p] = nil
  BY <1>1, RequeueFields
<1>3. QED
  BY <1>2 DEF nil

(* The children a parent had queued, once they are taken out of its queue. *)
LEMMA QueueTaken ==
  ASSUME NEW c, NEW d, NEW k, House(c, {}), NEW p \in Agents, Requeued(c, d, p),
         d.overflow[p] = <<>>
  PROVE  /\ Keeps(c, d, {}, k)
         /\ \A i \in DOMAIN c.overflow[p] : Addable(d, c.overflow[p][i].task, p)
<1>1. Keeps(c, d, {}, k) /\ \A i \in DOMAIN c.overflow[p] : Unseen(d, c.overflow[p][i].task)
  BY DequeuingKeeps
<1>2. ASSUME NEW i \in DOMAIN c.overflow[p] PROVE Addable(d, c.overflow[p][i].task, p)
  BY <1>1, <1>2 DEF House, Queued, Addable, Requeued, StatusOf
<1>3. QED
  BY <1>1, <1>2

LEMMA SpawnChildKeeps ==
  ASSUME NEW c, NEW k, House(c, {}), NEW kid \in QueuedChildren, NEW p \in AnyAgent,
         p <= c.born, Addable(c, kid.task, p), kid.task \in k.adding,
         p \in c.live => p \in k.growing, p # None => p \in k.told
  PROVE  LET e == SpawnChildTask(c, kid, p) IN Keeps(c, e, {}, k) /\ e.made = c.made
<1>1. CASE c.room > 0
  BY <1>1, StartKeeps DEF SpawnChildTask
<1>2. CASE ~(c.room > 0)
  <2> DEFINE queued == IF p = None THEN <<>> ELSE c.overflow[p]
             b == IF p = None THEN c ELSE [c EXCEPT !.overflow[p] = <<>>]
             kids == <<kid>> \o queued
             ids == {queued[i].task : i \in 1 .. Len(queued)}
             j == [settled |-> k.settled, told |-> k.told, growing |-> k.growing,
                   waking |-> k.waking, adding |-> k.adding \cup ids]
             e == CloseUnstartable(b, kids, p)
  <2>1. SpawnChildTask(c, kid, p) = e
    BY <1>2 DEF SpawnChildTask
  <2>2. Sound(c) /\ kid.task \in Tasks
    BY DEF House, QueuedChildren
  <2>3. p # None => p \in Agents
    BY DEF AnyAgent
  <2>4. /\ Keeps(c, b, {}, k) /\ b.live = c.live /\ b.born = c.born /\ b.made = c.made
        /\ queued \in Seq(QueuedChildren)
        /\ \A i \in 1 .. Len(queued) : Addable(b, queued[i].task, p) /\ ~Unseen(c, queued[i].task)
        /\ \A i, l \in 1 .. Len(queued) : i # l => queued[i].task # queued[l].task
        /\ \A u \in Tasks : Unseen(c, u) => Unseen(b, u)
    <3>1. CASE p = None
      <4>1. Keeps(c, c, {}, k)
        <5>1. Resembles(c, c, k.waking)
          BY <2>2, Numbers DEF Resembles, Alike
        <5>2. Told(c.mailbox, c.mailbox, k.told)
          BY <2>2, Numbers, ToldNothing
        <5>3. QED
          BY <2>2, <5>1, <5>2, ResemblesKeeps
      <4>2. QED
        BY <3>1, <4>1
    <3>2. CASE p # None
      <4>1. <<>> \in Seq(QueuedChildren) /\ p \in Agents /\ queued = c.overflow[p]
        BY <2>3, <3>2
      <4>2. Requeued(c, b, p) /\ b.overflow[p] = <<>>
        <5>1. b = WithQueue(c, p, <<>>)
          BY <3>2 DEF WithQueue
        <5> HIDE DEF b
        <5>2. QED
          BY <2>2, <4>1, <5>1, EmptiedFields
      <4>3. queued \in Seq(QueuedChildren)
        BY <2>2, <4>1, Numbers
      <4>4. DOMAIN c.overflow[p] = 1 .. Len(queued)
        BY <4>1, <4>3
      <4> HIDE DEF b, queued
      <4>5. Keeps(c, b, {}, k) /\ \A i \in 1 .. Len(queued) : Addable(b, queued[i].task, p)
        BY <4>1, <4>2, <4>4, QueueTaken
      <4>6. \A i \in 1 .. Len(queued) : ~Unseen(c, queued[i].task)
        BY <4>1, <4>4 DEF Unseen
      <4>7. \A i, l \in 1 .. Len(queued) : i # l => queued[i].task # queued[l].task
        BY <4>1, <4>4 DEF House, Queued
      <4>8. \A u \in Tasks : Unseen(c, u) => Unseen(b, u)
        <5> DEFINE k0 == [settled |-> {}, told |-> {}, growing |-> {}, waking |-> {},
                          adding |-> {}]
        <5>1. k0.adding = {}
          OBVIOUS
        <5> HIDE DEF k0
        <5>2. Keeps(c, b, {}, k0)
          BY <4>1, <4>2, QueueTaken
        <5>3. QED
          BY <5>1, <5>2 DEF Keeps, Carries
      <4>9. b.live = c.live /\ b.born = c.born /\ b.made = c.made
        BY <4>2 DEF Requeued
      <4>10. QED
        BY <4>3, <4>5, <4>6, <4>7, <4>8, <4>9
    <3>3. QED
      BY <3>1, <3>2
  <2> HIDE DEF b, queued
  <2>5. /\ kids \in Seq(QueuedChildren) /\ Len(kids) = 1 + Len(queued) /\ Len(queued) \in Nat
        /\ kids[1] = kid
        /\ \A i \in 2 .. Len(kids) : kids[i] = queued[i - 1] /\ i - 1 \in 1 .. Len(queued)
    BY <2>4
  <2>6. Addable(b, kid.task, p)
    <3>1. Unseen(b, kid.task)
      BY <2>2, <2>4 DEF Addable
    <3>2. p \in c.live => b.agent[p].role = "decomposer" /\ StatusOf(b, p) = "running"
      <4> DEFINE k0 == [settled |-> {}, told |-> {}, growing |-> {}, waking |-> {},
                        adding |-> {}]
      <4>1. p = None => p \notin c.live
        BY <2>2, GraphSetting DEF Sound, Colonies
      <4>2. p # None => b.agent = c.agent /\ b.graph = c.graph
        <5>1. <<>> \in Seq(QueuedChildren)
          OBVIOUS
        <5>2. p # None => b = WithQueue(c, p, <<>>)
          BY DEF b, WithQueue
        <5>3. QED
          BY <2>2, <2>3, <5>1, <5>2, EmptiedFields DEF Requeued
      <4>3. QED
        BY <4>1, <4>2 DEF Addable, StatusOf
    <3>3. QED
      BY <2>4, <3>1, <3>2 DEF Addable
  <2>7. \A i \in 1 .. Len(queued) : queued[i].task # kid.task
    BY <2>4 DEF Addable
  <2> HIDE DEF kids
  <2>8. /\ j.settled = k.settled /\ j.told = k.told /\ j.waking = k.waking
        /\ j.growing = k.growing /\ j.adding = k.adding \cup ids
    OBVIOUS
  <2>9. kid.task \in j.adding /\ \A i \in 1 .. Len(queued) : queued[i].task \in j.adding
    BY <2>8
  <2> HIDE DEF j
  <2>10. \A i \in 1 .. Len(kids) : kids[i].task \in j.adding /\ Addable(b, kids[i].task, p)
    <3>1. ASSUME NEW i \in 1 .. Len(kids)
          PROVE  kids[i].task \in j.adding /\ Addable(b, kids[i].task, p)
      <4>1. CASE i = 1
        BY <2>5, <2>6, <2>9, <4>1
      <4>2. CASE i # 1
        <5>1. i \in 2 .. Len(kids)
          BY <2>5, <4>2
        <5>2. kids[i] = queued[i - 1] /\ i - 1 \in 1 .. Len(queued)
          BY <2>5, <5>1
        <5>3. QED
          BY <2>4, <2>9, <5>2
      <4>3. QED
        BY <4>1, <4>2
    <3>2. QED
      BY <3>1
  <2>11. \A i, l \in 1 .. Len(kids) : i # l => kids[i].task # kids[l].task
    <3>1. ASSUME NEW i \in 1 .. Len(kids), NEW l \in 1 .. Len(kids), i # l
          PROVE  kids[i].task # kids[l].task
      <4>1. CASE i = 1
        <5>1. l \in 2 .. Len(kids)
          BY <2>5, <3>1, <4>1
        <5>2. kids[l] = queued[l - 1] /\ l - 1 \in 1 .. Len(queued)
          BY <2>5, <5>1
        <5>3. QED
          BY <2>5, <2>7, <4>1, <5>2
      <4>2. CASE l = 1
        <5>1. i \in 2 .. Len(kids)
          BY <2>5, <3>1, <4>2
        <5>2. kids[i] = queued[i - 1] /\ i - 1 \in 1 .. Len(queued)
          BY <2>5, <5>1
        <5>3. QED
          BY <2>5, <2>7, <4>2, <5>2
      <4>3. CASE i # 1 /\ l # 1
        <5>1. i \in 2 .. Len(kids) /\ l \in 2 .. Len(kids)
          BY <2>5, <4>3
        <5>2. /\ kids[i] = queued[i - 1] /\ i - 1 \in 1 .. Len(queued)
              /\ kids[l] = queued[l - 1] /\ l - 1 \in 1 .. Len(queued)
              /\ i - 1 # l - 1
          BY <2>5, <3>1, <5>1
        <5>3. QED
          BY <2>4, <5>2
      <4>4. QED
        BY <4>1, <4>2, <4>3
    <3>2. QED
      BY <3>1
  <2>12. House(b, {}) /\ p <= b.born
    BY <2>4 DEF Keeps
  <2>13. /\ p \in b.live => p \in j.growing
         /\ p # None => p \in j.told
    BY <2>4, <2>8
  <2>14. Keeps(b, e, {}, j) /\ e.made = b.made
    BY <2>5, <2>10, <2>11, <2>12, <2>13, CloseUnstartableKeeps
  <2> HIDE DEF e
  <2>15. Keeps(c, b, {}, j)
    <3>1. \A u \in k.adding \ j.adding : ~Unseen(c, u)
      BY <2>8
    <3>2. QED
      BY <2>4, <2>8, <3>1, Exempted DEF Keeps
  <2>16. Keeps(c, e, {}, j)
    BY <2>14, <2>15, KeepsTwice
  <2>17. Carries(c, e, k)
    <3>1. \A u \in j.adding \ k.adding : ~Unseen(c, u)
      BY <2>4, <2>8
    <3>2. QED
      BY <2>8, <2>16, <3>1, Exempted DEF Keeps
  <2>18. QED
    BY <2>1, <2>4, <2>14, <2>16, <2>17 DEF Keeps
<1>3. QED
  BY <1>1, <1>2

(* A colony a step left as it was.                                         *)
LEMMA KeepsSame == ASSUME NEW c, NEW S, NEW k, House(c, S) PROVE Keeps(c, c, S, k)
<1>1. Sound(c)
  BY DEF House
<1>2. Resembles(c, c, k.waking) /\ Told(c.mailbox, c.mailbox, k.told)
  BY <1>1, Numbers, ToldNothing DEF Resembles, Alike
<1>3. QED
  BY <1>1, <1>2, ResemblesKeeps

(* _drain_pending_overflow asks for no exemption: the child it starts was  *)
(* its parent's already.                                                   *)
LEMMA DrainKeeps ==
  ASSUME NEW c, NEW k, House(c, {}), NEW p \in AnyAgent, p <= c.born, p # None => p \in k.told
  PROVE  LET e == DrainPendingOverflow(c, p) IN Keeps(c, e, {}, k) /\ e.made = c.made
<1>1. CASE p = None \/ c.overflow[p] = <<>>
  BY <1>1, KeepsSame DEF DrainPendingOverflow
<1>2. CASE p # None /\ c.overflow[p] # <<>>
  <2> DEFINE q == c.overflow[p]
             b == [c EXCEPT !.overflow[p] = Tail(@)]
             u == Head(q).task
             j == [settled |-> k.settled, told |-> k.told, growing |-> k.growing \cup {p},
                   waking |-> k.waking, adding |-> k.adding \cup {u}]
             e == SpawnChildTask(b, Head(q), p)
  <2>1. Sound(c) /\ p \in Agents /\ DrainPendingOverflow(c, p) = e
    BY <1>2 DEF House, AnyAgent, DrainPendingOverflow
  <2>2. q \in Seq(QueuedChildren) /\ q # <<>>
    BY <1>2, <2>1, Numbers
  <2>3. Head(q) \in QueuedChildren /\ Head(q) = q[1] /\ 1 \in DOMAIN q
        /\ Tail(q) \in Seq(QueuedChildren)
    BY <2>2
  <2>4. b = [c EXCEPT !.overflow[p] = Tail(q)]
    BY <2>1 DEF Sound, Colonies
  <2> HIDE DEF b
  <2>5. Requeued(c, b, p) /\ b.overflow[p] = Tail(q)
    <3> DEFINE r == Tail(q)
    <3>1. r \in Seq(QueuedChildren) /\ b = WithQueue(c, p, r)
      BY <2>3, <2>4 DEF WithQueue
    <3> HIDE DEF r
    <3>2. Requeued(c, b, p) /\ b.overflow[p] = r
      BY <2>1, <3>1, RequeueFields
    <3>3. QED
      BY <3>2 DEF r
  <2>6. Keeps(c, b, {}, j) /\ Unseen(b, c.overflow[p][1].task)
    BY <1>2, <2>1, <2>5, DequeuingKeeps
  <2>7. /\ p \in c.live /\ c.agent[p].role = "decomposer" /\ StatusOf(c, p) = "running"
        /\ u <= c.made
    BY <2>1, <2>3 DEF House, Queued
  <2>8. Addable(b, u, p)
    BY <2>3, <2>5, <2>6, <2>7 DEF Addable, Requeued, StatusOf
  <2>9. /\ j.settled = k.settled /\ j.told = k.told /\ j.waking = k.waking
        /\ j.growing = k.growing \cup {p} /\ j.adding = k.adding \cup {u}
    OBVIOUS
  <2> HIDE DEF j
  <2>10. House(b, {}) /\ p <= b.born /\ b.made = c.made
    BY <2>5, <2>6 DEF Keeps, Requeued
  <2>11. Keeps(b, e, {}, j) /\ e.made = b.made
    <3>1. u \in j.adding /\ p \in j.growing /\ p \in j.told
      BY <1>2, <2>9
    <3>2. QED
      BY <2>3, <2>8, <2>10, <3>1, SpawnChildKeeps
  <2> HIDE DEF e
  <2>12. Keeps(c, e, {}, j)
    BY <2>6, <2>11, KeepsTwice
  <2>13. Carries(c, e, k)
    <3>1. ~Unseen(c, u) /\ ~Childless(c, p)
      BY <1>2, <2>1, <2>3 DEF Unseen, Childless
    <3>2. /\ \A x \in j.growing \ k.growing : x \in c.live /\ ~Childless(c, x)
          /\ \A v \in j.adding \ k.adding : ~Unseen(c, v)
      BY <2>7, <2>9, <3>1
    <3>3. QED
      BY <2>9, <2>12, <3>2, Exempted DEF Keeps
  <2>14. QED
    BY <2>1, <2>10, <2>11, <2>12, <2>13 DEF Keeps
<1>3. QED
  BY <1>1, <1>2

(* A notification is all that is pushed.                                   *)
LEMMA NotifyKeeps ==
  ASSUME NEW c, NEW S, NEW k, House(c, S), NEW p \in AnyAgent, NEW t \in Tasks,
         p # None => p \in k.told
  PROVE  Keeps(c, Notify(c, p, t), S, k) /\ Notify(c, p, t).made = c.made
<1>1. CASE p = None
  BY <1>1, KeepsSame DEF Notify
<1>2. CASE p # None
  <2> DEFINE e == Notification(p, t)
             d == Push(c, e)
  <2>1. p \in Agents /\ Sound(c) /\ Notify(c, p, t) = d
    BY <1>2 DEF AnyAgent, House, Notify
  <2>2. e \in Messages /\ e.type = "notification" /\ e.to = p
    BY <2>1, NotificationIsMessage DEF Notification
  <2> HIDE DEF e
  <2>3. Sound(d) /\ OnlyPushes(c, d) /\ d.mailbox = Append(c.mailbox, e)
    BY <2>1, <2>2, PushFields
  <2> HIDE DEF d
  <2>4. Resembles(c, d, k.waking)
    <3>1. c.made <= d.made
      BY <2>1, <2>3, Numbers DEF OnlyPushes
    <3>2. QED
      BY <2>3, <3>1 DEF OnlyPushes, Resembles, Alike
  <2>5. Told(c.mailbox, d.mailbox, k.told)
    <3>1. c.mailbox \in Seq(Messages)
      BY <2>1, Numbers
    <3>2. QED
      BY <1>2, <2>2, <2>3, <3>1 DEF Told
  <2>6. QED
    BY <2>1, <2>3, <2>4, <2>5, ResemblesKeeps DEF OnlyPushes
<1>3. QED
  BY <1>1, <1>2

LEMMA FreeSlotKeeps ==
  ASSUME NEW c, NEW k, House(c, {}), NEW p \in AnyAgent, p <= c.born, NEW t \in Tasks,
         p # None => p \in k.told
  PROVE  LET e == FreeSlotAndNotify(c, p, t) IN Keeps(c, e, {}, k) /\ e.made = c.made
<1> DEFINE b == DrainPendingOverflow(c, p)
<1>1. Keeps(c, b, {}, k) /\ b.made = c.made
  BY DrainKeeps
<1> HIDE DEF b
<1>2. Keeps(b, Notify(b, p, t), {}, k) /\ Notify(b, p, t).made = b.made
  BY <1>1, NotifyKeeps DEF Keeps
<1>3. Keeps(c, Notify(b, p, t), {}, k)
  BY <1>1, <1>2, KeepsTwice
<1>4. QED
  BY <1>1, <1>2, <1>3 DEF FreeSlotAndNotify, b

(* A task is failed for good, and its parent gets the slot.                *)
LEMMA AbandonKeeps ==
  ASSUME NEW c, NEW k, House(c, {}), NEW t \in Tasks, NEW p \in AnyAgent, p <= c.born,
         p # None => p \in k.told, Closable(c, t, "failed"),
         c.graph.status[t] = "running" => t \in k.settled
  PROVE  LET e == AbandonTask(c, t, p)
         IN Keeps(c, e, {}, k) /\ e.made = c.made /\ t \in e.abandoned
<1> DEFINE b == [c EXCEPT !.abandoned = @ \cup {t}]
           d == CloseFailed(b, t)
           e == FreeSlotAndNotify(d, p, t)
<1>1. Sound(c) /\ c \in Colonies /\ AbandonTask(c, t, p) = e
  BY DEF House, Sound, AbandonTask
<1>2. /\ b \in Colonies /\ b.graph = c.graph /\ b.agent = c.agent /\ b.live = c.live
      /\ b.born = c.born /\ b.room = c.room /\ b.made = c.made /\ b.mailbox = c.mailbox
      /\ b.overflow = c.overflow /\ b.parentTask = c.parentTask
      /\ c.abandoned \subseteq b.abandoned /\ t \in b.abandoned /\ b.attempts = c.attempts
  BY <1>1 DEF Colonies
<1> HIDE DEF b
<1>3. Sound(b)
  BY <1>1, <1>2 DEF Sound
<1>4. Keeps(c, b, {}, k)
  <2>1. Resembles(c, b, k.waking) /\ Told(c.mailbox, b.mailbox, k.told)
    BY <1>1, <1>2, Numbers, ToldNothing DEF Resembles, Alike
  <2>2. QED
    BY <1>3, <2>1, ResemblesKeeps
<1>5. Closable(b, t, "failed")
  BY <1>2 DEF Closable
<1>6. Settled(b, d, t, "failed")
  BY <1>3, SettleFields
<1> HIDE DEF d
<1>7. Keeps(b, d, {}, k)
  <2>1. "failed" \in {"complete", "failed"} /\ {} \ {t} = {}
    OBVIOUS
  <2>2. House(b, {}) /\ (b.graph.status[t] = "running" => t \in k.settled)
    BY <1>2, <1>4 DEF Keeps
  <2>3. Keeps(b, d, {} \ {t}, k)
    BY <2>1, <2>2, <1>5, <1>6, SettlingKeeps
  <2>4. QED
    BY <2>1, <2>3
<1>8. Keeps(c, d, {}, k) /\ d.made = c.made /\ d.born = c.born
  BY <1>2, <1>4, <1>6, <1>7, KeepsTwice DEF Settled
<1>9. Keeps(d, e, {}, k) /\ e.made = d.made
  <2>1. House(d, {}) /\ p <= d.born
    BY <1>8 DEF Keeps
  <2>2. QED
    BY <2>1, FreeSlotKeeps
<1>10. t \in e.abandoned
  BY <1>2, <1>7, <1>9 DEF Keeps, Carries
<1> HIDE DEF e
<1>11. QED
  BY <1>1, <1>8, <1>9, <1>10, KeepsTwice

(* The parent an agent at work reports to is a decomposer at work too.     *)
LEMMA ParentAtWork ==
  ASSUME NEW c, NEW S, House(c, S), NEW a \in c.live, StillOpen(c, c.agent[a].task),
         c.agent[a].parent \in c.live
  PROVE  LET p == c.agent[a].parent
         IN c.agent[p].role = "decomposer" /\ StatusOf(c, p) = "running" /\ ~Childless(c, p)
<1> DEFINE p == c.agent[a].parent
<1>1. c.agent[p].role = "decomposer" /\ StatusOf(c, p) # "pending"
  BY DEF House, Family
<1>2. ~Childless(c, p)
  BY DEF Childless
<1>3. StatusOf(c, p) # "complete"
  BY <1>2 DEF House, Finished
<1>4. StatusOf(c, p) \in {"pending", "running", "complete"}
  BY DEF House, Assigned
<1>5. QED
  BY <1>1, <1>2, <1>3, <1>4

(* Once the agent at work on a task is retired, nobody works on it.        *)
LEMMA RetireKeeps ==
  ASSUME NEW c, NEW k, House(c, {}), NEW a \in c.live, StatusOf(c, a) = "running",
         c.agent[a].task \in k.settled
  PROVE  LET d == RetireAgent(c, a)
         IN /\ Keeps(c, d, {}, k) /\ Retired(c, d, a)
            /\ \A x \in d.live : d.agent[x].task # c.agent[a].task
<1> DEFINE d == RetireAgent(c, a)
<1>1. Sound(c) /\ \A x \in c.live : x \in Agents
  BY Numbers DEF House
<1>2. Retired(c, d, a)
  BY <1>1, RetireFields
<1> HIDE DEF d
<1>3. Keeps(c, d, {}, k)
  BY <1>2, RetiringKeeps
<1>4. ASSUME NEW x \in d.live PROVE d.agent[x].task # c.agent[a].task
  <2>1. x \in c.live /\ x # a /\ d.agent[x].task = c.agent[x].task
    BY <1>1, <1>2 DEF Retired, SameAgent
  <2>2. QED
    BY <2>1, OneOwner DEF House, StillOpen, StatusOf
<1>5. QED
  BY <1>2, <1>3, <1>4 DEF d

LEMMA StopKeeps ==
  ASSUME NEW c, NEW k, House(c, {}), NEW a \in c.live, StatusOf(c, a) = "running",
         c.agent[a].task \in k.settled,
         c.agent[a].parent # None => c.agent[a].parent \in k.told
  PROVE  LET e == StopAtCeiling(c, a)
         IN /\ Keeps(c, e, {}, k) /\ e.made = c.made
            /\ a \notin e.live /\ c.agent[a].task \in e.abandoned
<1> DEFINE t == c.agent[a].task
           p == c.agent[a].parent
           b == RetireAgent(c, a)
           e == AbandonTask(b, t, p)
<1>1. /\ t \in Tasks /\ p \in AnyAgent /\ p < a /\ a <= c.born /\ a \in Nat /\ c.born \in Nat
      /\ p \in Nat
  <2>1. Sound(c) /\ p < a
    BY DEF House, Assigned
  <2>2. /\ a \in Nat /\ a <= c.born /\ c.born \in Nat /\ t \in Tasks
        /\ c.agent[a] \in AgentNodes /\ \A x \in Agents : x \in Nat
    BY <2>1, Numbers
  <2>3. p \in Agents \cup {None}
    BY <2>2 DEF AgentNodes
  <2>4. QED
    BY <2>1, <2>2, <2>3 DEF AnyAgent, None
<1>2. StopAtCeiling(c, a) = e
  BY DEF StopAtCeiling
<1>3. Keeps(c, b, {}, k) /\ Retired(c, b, a) /\ \A x \in b.live : b.agent[x].task # t
  BY RetireKeeps
<1> HIDE DEF b
<1>4. Closable(b, t, "failed") /\ b.graph.status[t] = "running" /\ b.born = c.born
      /\ b.made = c.made
  BY <1>3 DEF Closable, Retired, StatusOf
<1>5. House(b, {}) /\ p <= b.born
  BY <1>1, <1>3, <1>4 DEF Keeps
<1>6. Keeps(b, e, {}, k) /\ e.made = b.made /\ t \in e.abandoned
  BY <1>1, <1>4, <1>5, AbandonKeeps
<1>7. a \notin e.live
  <2>1. a \notin b.live
    BY <1>3 DEF Retired
  <2>2. \A x \in e.live : x \in b.live \/ x > b.born
    BY <1>6 DEF Keeps, Carries
  <2>3. QED
    BY <1>1, <1>4, <2>1, <2>2
<1>8. QED
  BY <1>2, <1>3, <1>4, <1>6, <1>7, KeepsTwice

(* An agent ends for good while its task is open: it has nothing open      *)
(* below it, and its parent is the one it reports to, or one retired since *)
(* its event was pushed.                                                   *)
Ending(c, a, t, role, p) ==
  /\ a \in c.live /\ c.agent[a].task = t /\ StatusOf(c, a) = "running"
  /\ Childless(c, a)
  /\ p = c.agent[a].parent \/ p \notin c.live \cup {None}
  /\ p <= c.born
  /\ role = c.agent[a].role \/ role = "decomposer"

(* _kill_and_respawn, whatever the cache, the ceiling and admission say.   *)
LEMMA RespawnKeeps ==
  ASSUME NEW c, NEW k, House(c, {}), NEW a, NEW t, NEW role \in Roles, NEW p \in AnyAgent,
         NEW counted \in BOOLEAN, NEW fate, Ending(c, a, t, role, p), t \in k.settled,
         p # None => p \in k.told
  PROVE  LET e == KillAndRespawn(c, a, t, role, p, counted, fate)
         IN Keeps(c, e, {}, k) /\ e.made = c.made
<1> DEFINE b == RetireAgent(c, a)
           m == IF counted THEN [b EXCEPT !.respawns[t] = @ + 1] ELSE b
           capped == counted /\ c.respawns[t] >= MaxTaskAttempts
           e == KillAndRespawn(c, a, t, role, p, counted, fate)
<1>1. a \in c.live /\ c.agent[a].task = t /\ StatusOf(c, a) = "running" /\ t \in Tasks
      /\ Sound(c) /\ c \in Colonies /\ p <= c.born
  BY Numbers DEF Ending, House, Sound
<1>2. Keeps(c, b, {}, k) /\ Retired(c, b, a) /\ \A x \in b.live : b.agent[x].task # t
  BY <1>1, RetireKeeps
<1>3. e = IF fate = "cached" THEN FreeSlotAndNotify(CompleteTask(b, t), p, t)
          ELSE IF capped \/ fate = "stop" THEN AbandonTask(b, t, p)
          ELSE IF c.room > 0 THEN SpawnAgent(m, role, t, p, FALSE)
          ELSE AbandonTask([m EXCEPT !.broke = TRUE], t, p)
  BY DEF KillAndRespawn
<1> HIDE DEF b, e, capped
<1>4. /\ b.graph = c.graph /\ b.born = c.born /\ b.made = c.made /\ b.room = c.room
      /\ b.live = c.live \ {a} /\ b.parentTask = c.parentTask /\ b.mailbox = c.mailbox
      /\ b.respawns = c.respawns /\ Sound(b) /\ b \in Colonies
  BY <1>2 DEF Retired, Sound
<1>5. House(b, {}) /\ p <= b.born /\ b.graph.status[t] = "running"
  BY <1>1, <1>2, <1>4 DEF Keeps, StatusOf
<1>6. \A u \in Tasks : b.parentTask[u] = t => ~StillOpen(b, u)
  BY <1>1, <1>4 DEF Ending, Childless, StillOpen
<1>7. Closable(b, t, "failed") /\ Closable(b, t, "complete")
  BY <1>2, <1>5, <1>6 DEF Closable
<1>8. CASE fate = "cached"
  <2> DEFINE d == CompleteTask(b, t)
  <2>1. Settled(b, d, t, "complete")
    BY <1>1, <1>4, SettleFields
  <2> HIDE DEF d
  <2>2. Keeps(b, d, {}, k)
    <3>1. "complete" \in {"complete", "failed"} /\ {} \ {t} = {}
      OBVIOUS
    <3>2. Keeps(b, d, {} \ {t}, k)
      BY <3>1, <1>1, <1>5, <1>7, <2>1, SettlingKeeps
    <3>3. QED
      BY <3>1, <3>2
  <2>3. House(d, {}) /\ p <= d.born /\ d.made = b.made
    BY <1>5, <2>1, <2>2 DEF Keeps, Settled
  <2> DEFINE f == FreeSlotAndNotify(d, p, t)
  <2>4. Keeps(d, f, {}, k) /\ f.made = d.made
    BY <1>1, <2>3, FreeSlotKeeps
  <2>5. e = f
    BY <1>3, <1>8 DEF d
  <2> HIDE DEF f
  <2>6. Keeps(c, d, {}, k)
    BY <1>2, <2>2, KeepsTwice
  <2>7. Keeps(c, f, {}, k)
    BY <2>4, <2>6, KeepsTwice
  <2>8. QED
    BY <1>4, <2>3, <2>4, <2>5, <2>7 DEF e
<1>9. CASE fate # "cached" /\ (capped \/ fate = "stop")
  <2> DEFINE f == AbandonTask(b, t, p)
  <2>1. Keeps(b, f, {}, k) /\ f.made = b.made
    BY <1>1, <1>5, <1>7, AbandonKeeps
  <2>2. e = f
    BY <1>3, <1>9
  <2> HIDE DEF f
  <2>3. Keeps(c, f, {}, k)
    BY <1>2, <2>1, KeepsTwice
  <2>4. QED
    BY <1>4, <2>1, <2>2, <2>3 DEF e
<1> HIDE DEF m
<1>10. /\ m \in Colonies /\ m.graph = b.graph /\ m.agent = b.agent /\ m.live = b.live
       /\ m.born = b.born /\ m.room = b.room /\ m.made = b.made /\ m.mailbox = b.mailbox
       /\ m.overflow = b.overflow /\ m.parentTask = b.parentTask /\ m.abandoned = b.abandoned
       /\ m.attempts = b.attempts
  <2>1. CASE ~counted
    BY <1>4, <2>1 DEF m
  <2>2. CASE counted
    <3>1. b.respawns \in [Tasks -> Nat] /\ [b.respawns EXCEPT ![t] = @ + 1] \in [Tasks -> Nat]
      BY <1>1, <1>4 DEF Colonies
    <3>2. m = [b EXCEPT !.respawns = [b.respawns EXCEPT ![t] = @ + 1]]
      BY <1>4, <2>2 DEF m, Colonies
    <3>3. QED
      BY <1>4, <3>1, <3>2 DEF Colonies
  <2>3. QED
    BY <2>1, <2>2
<1>11. Keeps(b, m, {}, k) /\ Sound(m)
  <2>1. Sound(m)
    BY <1>4, <1>10 DEF Sound
  <2>2. Resembles(b, m, k.waking) /\ Told(b.mailbox, m.mailbox, k.told)
    BY <1>4, <1>10, Numbers, ToldNothing DEF Resembles, Alike
  <2>3. QED
    BY <1>5, <2>1, <2>2, ResemblesKeeps
<1>12. Keeps(c, m, {}, k)
  BY <1>2, <1>11, KeepsTwice
<1>13. CASE fate # "cached" /\ ~(capped \/ fate = "stop") /\ c.room > 0
  <2> DEFINE d == SpawnAgent(m, role, t, p, FALSE)
             j == [settled |-> k.settled, told |-> k.told, growing |-> k.growing \cup {p},
                   waking |-> k.waking, adding |-> k.adding]
  <2>1. e = d
    BY <1>3, <1>13 DEF m
  <2>2. Spawned(m, d, role, t, p, FALSE)
    BY <1>1, <1>4, <1>10, <1>11, <1>13, SpawnFields
  <2> HIDE DEF d
  <2>3. ASSUME p \in c.live
        PROVE  c.agent[p].role = "decomposer" /\ StatusOf(c, p) = "running" /\ ~Childless(c, p)
               /\ p # a
    <3>1. p = c.agent[a].parent
      BY <2>3 DEF Ending
    <3>2. StillOpen(c, c.agent[a].task)
      BY <1>1 DEF StillOpen, StatusOf
    <3>3. p # a
      <4>1. a \in Nat /\ c.agent[a].parent < a
        BY <1>1, Numbers DEF House, Assigned
      <4>2. QED
        BY <3>1, <4>1
    <3>4. QED
      BY <1>1, <2>3, <3>1, <3>2, <3>3, ParentAtWork
  <2>4. Spawnable(m, {}, role, t, p)
    <3>1. m.graph.status[t] = "running" /\ p <= m.born /\ \A x \in m.live : m.agent[x].task # t
      BY <1>2, <1>5, <1>10
    <3>2. p \in m.live => m.agent[p].role = "decomposer" /\ StatusOf(m, p) = "running"
      <4>1. SUFFICES ASSUME p \in m.live
                     PROVE  m.agent[p].role = "decomposer" /\ StatusOf(m, p) = "running"
        OBVIOUS
      <4>2. p \in c.live /\ p # a /\ p \in Agents
        BY <1>1, <1>4, <1>10, <4>1, Numbers
      <4>3. b.agent[p].role = c.agent[p].role /\ b.agent[p].task = c.agent[p].task
        BY <1>2, <4>2 DEF Retired, SameAgent
      <4>4. QED
        BY <1>4, <1>10, <2>3, <4>2, <4>3 DEF StatusOf
    <3>3. \A u \in Tasks : m.parentTask[u] = t => role = "decomposer" /\ ~StillOpen(m, u)
      <4>1. ASSUME NEW u \in Tasks, c.parentTask[u] = t PROVE role = "decomposer"
        BY <1>1, <4>1 DEF House, Family, Ending
      <4>2. QED
        BY <1>4, <1>6, <1>10, <4>1 DEF StillOpen
    <3>4. QED
      BY <3>1, <3>2, <3>3 DEF Spawnable
  <2>5. /\ j.settled = k.settled /\ j.told = k.told /\ j.waking = k.waking
        /\ j.growing = k.growing \cup {p} /\ j.adding = k.adding
    OBVIOUS
  <2> HIDE DEF j
  <2>6. Keeps(m, d, {}, j)
    <3>1. {} \ {t} = {} /\ t \in j.settled /\ p \in j.growing /\ House(m, {})
      BY <1>11, <2>5 DEF Keeps
    <3>2. Keeps(m, d, {} \ {t}, j)
      <4>1. m.attempts[t] >= 1
        BY <1>1, <1>2, <1>10 DEF Ending, House, Briefed, Retired
      <4>2. QED
        BY <1>1, <2>2, <2>4, <3>1, <4>1, SpawningKeeps
    <3>3. QED
      BY <3>1, <3>2
  <2>7. Keeps(c, m, {}, j)
    <3>1. \A x \in k.growing \ j.growing : x \in m.live => x \in c.live /\ ~Childless(c, x)
      BY <2>5
    <3>2. QED
      BY <1>12, <2>5, <3>1, Exempted DEF Keeps
  <2>8. Keeps(c, d, {}, j)
    BY <2>6, <2>7, KeepsTwice
  <2>9. Carries(c, d, k)
    <3>1. ASSUME p \in d.live PROVE p \in c.live
      <4>1. p \in c.live \/ p > c.born
        BY <2>8, <3>1 DEF Keeps, Carries
      <4>2. p \in Nat /\ c.born \in Nat
        BY <1>1, Numbers DEF AnyAgent, None
      <4>3. QED
        BY <1>1, <4>1, <4>2
    <3>2. \A x \in j.growing \ k.growing : x \in d.live => x \in c.live /\ ~Childless(c, x)
      BY <2>3, <2>5, <3>1
    <3>3. QED
      BY <2>5, <2>8, <3>2, Exempted DEF Keeps
  <2>10. d.made = c.made
    BY <1>4, <1>10, <2>2 DEF Spawned
  <2>11. QED
    BY <2>1, <2>8, <2>9, <2>10 DEF Keeps, e
<1>14. CASE fate # "cached" /\ ~(capped \/ fate = "stop") /\ ~(c.room > 0)
  <2> DEFINE d == [m EXCEPT !.broke = TRUE]
             f == AbandonTask(d, t, p)
  <2>1. /\ d \in Colonies /\ d.graph = m.graph /\ d.agent = m.agent /\ d.live = m.live
        /\ d.born = m.born /\ d.room = m.room /\ d.made = m.made /\ d.mailbox = m.mailbox
        /\ d.overflow = m.overflow /\ d.parentTask = m.parentTask /\ d.abandoned = m.abandoned
        /\ d.attempts = m.attempts
    BY <1>10 DEF Colonies
  <2> HIDE DEF d
  <2>2. Sound(d)
    BY <1>11, <2>1 DEF Sound
  <2>3. Keeps(m, d, {}, k)
    <3>1. Resembles(m, d, k.waking) /\ Told(m.mailbox, d.mailbox, k.told)
      BY <1>11, <2>1, Numbers, ToldNothing DEF Resembles, Alike
    <3>2. QED
      BY <1>11, <2>2, <3>1, ResemblesKeeps DEF Keeps
  <2>4. Closable(d, t, "failed") /\ House(d, {}) /\ p <= d.born
    BY <1>5, <1>7, <1>10, <2>1, <2>3 DEF Closable, Keeps
  <2>5. Keeps(d, f, {}, k) /\ f.made = d.made
    BY <1>1, <2>4, AbandonKeeps
  <2>6. e = f
    BY <1>3, <1>14 DEF d, m
  <2> HIDE DEF f
  <2>7. Keeps(c, d, {}, k)
    BY <1>12, <2>3, KeepsTwice
  <2>8. Keeps(c, f, {}, k)
    BY <2>5, <2>7, KeepsTwice
  <2>9. QED
    BY <1>4, <1>10, <2>1, <2>5, <2>6, <2>8 DEF e
<1>15. QED
  BY <1>8, <1>9, <1>13, <1>14

(* What the code asks and what is argued about here are the same.          *)
LEMMA OpenMeans ==
  ASSUME NEW c, NEW t \in Tasks
  PROVE  IsOpen(c, t) <=> StillOpen(c, t)
BY DEF IsOpen, StillOpen, TG!Open

LEMMA ChildlessMeans ==
  ASSUME NEW c, Sound(c), NEW a \in c.live
  PROVE  OpenChildTaskIds(c, a) = {} <=> Childless(c, a)
<1>1. a \in Agents /\ c.overflow[a] \in Seq(QueuedChildren)
      /\ \A x \in c.live : c.agent[x].task \in Tasks
  BY Numbers
<1> DEFINE q == c.overflow[a]
           below == {t \in Tasks : /\ a \in c.live
                                   /\ IsOpen(c, t)
                                   /\ \/ c.parentTask[t] = c.agent[a].task
                                      \/ \E x \in Children(c, a) : c.agent[x].task = t}
<1>2. OpenChildTaskIds(c, a) = {kid.task : kid \in ToSet(q)} \cup below
  BY DEF OpenChildTaskIds
<1>3. {kid.task : kid \in ToSet(q)} = {} <=> q = <<>>
  <2>1. ASSUME q # <<>> PROVE {kid.task : kid \in ToSet(q)} # {}
    <3>1. 1 \in DOMAIN q
      BY <1>1, <2>1
    <3>2. q[1] \in ToSet(q)
      BY <3>1 DEF ToSet
    <3>3. QED
      BY <3>2
  <2>2. ASSUME q = <<>> PROVE {kid.task : kid \in ToSet(q)} = {}
    <3>1. DOMAIN q = {}
      BY <2>2
    <3>2. ToSet(q) = {}
      BY <3>1 DEF ToSet
    <3>3. QED
      BY <3>2
  <2>3. QED
    BY <2>1, <2>2
<1> HIDE DEF q
<1>4. below = {} <=> /\ \A u \in Tasks : StillOpen(c, u) => c.parentTask[u] # c.agent[a].task
                     /\ \A x \in c.live : c.agent[x].parent = a => ~StillOpen(c, c.agent[x].task)
  <2>1. \A t \in Tasks : IsOpen(c, t) <=> StillOpen(c, t)
    BY OpenMeans
  <2>2. QED
    BY <1>1, <2>1 DEF Children
<1> HIDE DEF below
<1>5. QED
  BY <1>2, <1>3, <1>4 DEF Childless, q

(* What a registered agent's record is changed to, but for its role, task, *)
(* parent and mark.                                                        *)
LEMMA EditKeeps ==
  ASSUME NEW c, NEW S, NEW k, House(c, S), NEW a \in Agents, NEW node \in AgentNodes,
         Alike(c.agent[a], node), a \in k.waking \/ node.awaiting = c.agent[a].awaiting,
         a \in c.live /\ node.started => c.agent[a].started \/ StatusOf(c, a) # "pending"
  PROVE  LET d == [c EXCEPT !.agent[a] = node]
         IN /\ Keeps(c, d, S, k) /\ Resembles(c, d, {a}) /\ d.made = c.made
            /\ d.mailbox = c.mailbox /\ d.agent = [c.agent EXCEPT ![a] = node]
            /\ d.abandoned = c.abandoned
<1> DEFINE d == [c EXCEPT !.agent[a] = node]
<1>1. Sound(c) /\ c \in Colonies /\ c.agent \in [Agents -> AgentNodes]
      /\ node.task = c.agent[a].task /\ c.made \in Nat
  BY Numbers, ColonyFields DEF House, Sound, Alike
<1>2. Sound(d)
  BY <1>1, EditEvolves DEF Evolves
<1>3. d = [c EXCEPT !.agent = [c.agent EXCEPT ![a] = node]]
  BY <1>1 DEF Colonies
<1> HIDE DEF d
<1>4. /\ d.graph = c.graph /\ d.live = c.live /\ d.born = c.born /\ d.overflow = c.overflow
      /\ d.parentTask = c.parentTask /\ d.made = c.made /\ d.mailbox = c.mailbox
      /\ d.abandoned = c.abandoned /\ d.agent = [c.agent EXCEPT ![a] = node]
      /\ d.attempts = c.attempts
  BY <1>1, <1>3 DEF Colonies
<1>5. /\ \A x \in Agents : /\ Alike(c.agent[x], d.agent[x])
                           /\ x # a => d.agent[x].awaiting = c.agent[x].awaiting
                           /\ d.agent[a] = node
      /\ \A x \in c.live : d.agent[x].started
                              => c.agent[x].started \/ StatusOf(c, x) # "pending"
  BY <1>1, <1>4 DEF Alike
<1>6. Resembles(c, d, {a}) /\ Resembles(c, d, k.waking)
  BY <1>1, <1>4, <1>5 DEF Resembles
<1>7. Told(c.mailbox, d.mailbox, k.told)
  BY <1>1, <1>4, Numbers, ToldNothing
<1>8. Keeps(c, d, S, k)
  BY <1>2, <1>6, <1>7, ResemblesKeeps
<1>9. QED
  BY <1>4, <1>6, <1>8 DEF d

(* An agent gives up: nothing is open below it, and it stays parked.       *)
Failing(c, a) ==
  /\ a \in c.live /\ StatusOf(c, a) = "running" /\ Childless(c, a) /\ c.agent[a].awaiting

(* A handler of an event of "a" settles what it has to, and may end with   *)
(* the failure of "a".                                                     *)
Ends(c, d, k, a) ==
  \/ Keeps(c, d, {}, k)
  \/ \E b : \E big \in BOOLEAN :
       Keeps(c, b, {}, k) /\ Failing(b, a) /\ d = Push(b, FailureRequest(b, a, big, FALSE))

LEMMA KeepsEnds ==
  ASSUME NEW c, NEW d, NEW e, NEW k, NEW a, House(c, {}), Keeps(c, d, {}, k), Ends(d, e, k, a)
  PROVE  Ends(c, e, k, a)
<1>1. CASE Keeps(d, e, {}, k)
  BY <1>1, KeepsTwice DEF Ends
<1>2. CASE ~Keeps(d, e, {}, k)
  <2>1. PICK b : \E big \in BOOLEAN :
          Keeps(d, b, {}, k) /\ Failing(b, a) /\ e = Push(b, FailureRequest(b, a, big, FALSE))
    BY <1>2 DEF Ends
  <2>2. Keeps(c, b, {}, k)
    BY <2>1, KeepsTwice
  <2>3. QED
    BY <2>1, <2>2 DEF Ends
<1>3. QED
  BY <1>1, <1>2

LEMMA ReleaseEnds ==
  ASSUME NEW c, NEW k, House(c, {}), NEW p \in Agents, NEW outOfEnergy \in BOOLEAN,
         p \in c.live => StatusOf(c, p) = "running", p \in k.waking
  PROVE  Ends(c, ReleaseSpawner(c, p, outOfEnergy), k, p)
<1> DEFINE d == ReleaseSpawner(c, p, outOfEnergy)
           node == [c.agent[p] EXCEPT !.awaiting = FALSE,
                                      !.spawnClosed = @ \/ outOfEnergy,
                                      !.cycles = @ + 1]
<1>1. Sound(c) /\ c \in Colonies /\ c.agent \in [Agents -> AgentNodes] /\ c.agent[p] \in AgentNodes
  BY Numbers, ColonyFields DEF House, Sound
<1>2. node \in AgentNodes /\ Alike(c.agent[p], node)
  <2> DEFINE closing == c.agent[p].spawnClosed \/ outOfEnergy
             counted == c.agent[p].cycles + 1
  <2>1. closing \in BOOLEAN /\ counted \in Nat
    BY <1>1 DEF AgentNodes
  <2>2. node = [c.agent[p] EXCEPT !.awaiting = FALSE, !.spawnClosed = closing,
                                  !.cycles = counted]
    OBVIOUS
  <2> HIDE DEF closing, counted, node, d
  <2>3. node \in AgentNodes
    BY <1>1, <2>1, <2>2 DEF AgentNodes
  <2>4. QED
    BY <1>1, <2>2, <2>3 DEF AgentNodes, Alike
<1>3. [c EXCEPT !.agent[p].awaiting = FALSE,
                !.agent[p].spawnClosed = @ \/ outOfEnergy,
                !.agent[p].cycles = @ + 1] = [c EXCEPT !.agent[p] = node]
  <2>1. "agent" \in DOMAIN c /\ p \in DOMAIN c.agent
    BY <1>1 DEF Colonies
  <2>2. QED
    BY <2>1
<1> HIDE DEF node
<1>4. \/ d = c
      \/ /\ p \in c.live /\ c.agent[p].awaiting /\ OpenChildTaskIds(c, p) = {}
         /\ d = Push(c, FailureRequest(c, p, FALSE, FALSE))
      \/ d = [c EXCEPT !.agent[p] = node]
  BY <1>3 DEF ReleaseSpawner
<1> HIDE DEF d
<1>5. CASE d = c
  BY <1>5, KeepsSame DEF Ends, d
<1>6. CASE /\ p \in c.live /\ c.agent[p].awaiting /\ OpenChildTaskIds(c, p) = {}
           /\ d = Push(c, FailureRequest(c, p, FALSE, FALSE))
  <2>1. Keeps(c, c, {}, k) /\ Failing(c, p) /\ FALSE \in BOOLEAN
    BY <1>1, <1>6, KeepsSame, ChildlessMeans DEF Failing
  <2>2. Ends(c, d, k, p)
    BY <1>6, <2>1 DEF Ends
  <2>3. QED
    BY <2>2 DEF d
<1>7. CASE d = [c EXCEPT !.agent[p] = node]
  <2>1. Keeps(c, d, {}, k)
    BY <1>2, <1>7, EditKeeps
  <2>2. QED
    BY <2>1 DEF d, Ends
<1>8. QED
  BY <1>4, <1>5, <1>6, <1>7

(* A batch of subtasks nobody has seen yet, for a decomposer at work or    *)
(* for nobody registered.                                                  *)
LEMMA StartBatchKeeps ==
  ASSUME NEW c, NEW k, House(c, {}), NEW kids \in Seq(QueuedChildren), NEW p \in Agents,
         p <= c.born, p \in k.growing, p \in k.told, Tasks \subseteq k.adding,
         p \in c.live => c.agent[p].role = "decomposer" /\ StatusOf(c, p) = "running",
         \A i \in 1 .. Len(kids) : kids[i].task = c.made + i,
         c.made + Len(kids) <= MaxTasks
  PROVE  Keeps(c, StartBatch(c, kids, p), {}, k)
<1> DEFINE n == Len(kids)
           first == [c EXCEPT !.made = @ + Len(kids)]
           Good(b, i) == /\ Keeps(c, b, {}, k) /\ c.live \subseteq b.live /\ b.made = c.made + n
                         /\ \A j \in i + 1 .. n : Addable(b, kids[j].task, p)
           S == [i \in 0 .. n |-> {b \in Colonies : Good(b, i)}]
<1>1. n \in Nat /\ MaxTasks \in Nat /\ Sound(c) /\ c \in Colonies /\ c.made \in Nat
      /\ p \in Nat /\ c.born \in Nat /\ p \in AnyAgent
  BY Numbers, BoundsArePositive DEF House, AnyAgent
<1>2. first \in S[0]
  <2>1. c.made + n \in 0 .. MaxTasks
    BY <1>1
  <2>2. /\ first \in Colonies /\ first.graph = c.graph /\ first.agent = c.agent
        /\ first.live = c.live /\ first.born = c.born /\ first.room = c.room
        /\ first.made = c.made + n /\ first.mailbox = c.mailbox
        /\ first.overflow = c.overflow /\ first.parentTask = c.parentTask
        /\ first.abandoned = c.abandoned /\ first.attempts = c.attempts
    BY <1>1, <2>1 DEF Colonies
  <2> HIDE DEF first
  <2>3. Sound(first)
    BY <1>1, <2>2 DEF Sound
  <2>4. Keeps(c, first, {}, k)
    <3>1. c.made <= first.made
      BY <1>1, <2>2
    <3>2. Resembles(c, first, k.waking) /\ Told(c.mailbox, first.mailbox, k.told)
      BY <1>1, <2>2, <3>1, Numbers, ToldNothing DEF Resembles, Alike
    <3>3. QED
      BY <2>3, <3>2, ResemblesKeeps
  <2>5. ASSUME NEW j \in 0 + 1 .. n PROVE Addable(first, kids[j].task, p)
    <3>1. j \in 1 .. n /\ j \in Nat /\ j >= 1 /\ kids[j] \in QueuedChildren
      BY <1>1
    <3>2. kids[j].task = c.made + j /\ kids[j].task \in Tasks
      BY <3>1 DEF QueuedChildren
    <3>3. kids[j].task > c.made /\ kids[j].task <= first.made
      BY <1>1, <2>2, <3>1, <3>2
    <3>4. first.graph.status[kids[j].task] = "absent"
      BY <2>2, <3>2, <3>3 DEF House, Queued
    <3>5. ASSUME NEW a \in Agents, NEW i \in DOMAIN first.overflow[a]
          PROVE  first.overflow[a][i].task # kids[j].task
      <4>1. c.overflow[a][i].task <= c.made /\ c.overflow[a][i].task \in Tasks
        BY <1>1, <2>2, QueueMembers DEF House, Queued
      <4>2. c.overflow[a][i].task \in Nat
        BY <1>1, <4>1, Numbers
      <4>3. QED
        BY <1>1, <2>2, <3>2, <3>3, <4>1, <4>2
    <3>6. QED
      BY <2>2, <3>3, <3>4, <3>5 DEF Addable, Unseen, StatusOf
  <2>6. Good(first, 0)
    BY <2>2, <2>4, <2>5
  <2>7. QED
    BY <1>1, <2>2, <2>6
<1> HIDE DEF first
<1>3. ASSUME NEW i \in 1 .. n, NEW b \in S[i - 1]
      PROVE  StartOne(b, kids[i], p, i > SubtaskCap(c, p)) \in S[i]
  <2> DEFINE e == StartOne(b, kids[i], p, i > SubtaskCap(c, p))
             k0 == [settled |-> {}, told |-> {p}, growing |-> {p}, waking |-> {},
                    adding |-> {kids[i].task}]
  <2>1. i - 1 \in 0 .. n /\ i \in 0 .. n /\ i \in (i - 1) + 1 .. n /\ i \in Nat /\ i <= n
    BY <1>1
  <2>2. b \in Colonies /\ Good(b, i - 1)
    BY <2>1
  <2> HIDE DEF S
  <2>3. House(b, {}) /\ Sound(b) /\ Keeps(c, b, {}, k) /\ c.live \subseteq b.live
        /\ b.made = c.made + n /\ kids[i] \in QueuedChildren /\ kids[i].task \in k.adding
        /\ Addable(b, kids[i].task, p) /\ c.born <= b.born
    <3>1. kids[i] \in QueuedChildren
      BY <2>1
    <3>2. kids[i].task \in Tasks
      BY <3>1 DEF QueuedChildren
    <3>3. Keeps(c, b, {}, k)
      BY <2>2
    <3>4. House(b, {}) /\ Sound(b) /\ c.born <= b.born
      BY <3>3 DEF Keeps, House, Carries
    <3>5. QED
      BY <2>1, <2>2, <3>1, <3>2, <3>3, <3>4
  <2>4. p <= b.born /\ b.made \in Nat
    <3>1. b.born \in Nat /\ b.made \in Nat
      BY <2>3, Numbers
    <3>2. QED
      BY <1>1, <2>3, <3>1
  <2>5. ASSUME NEW m, p \in m.growing, p \in m.told, kids[i].task \in m.adding
        PROVE  Keeps(b, e, {}, m) /\ e.made = b.made /\ b.live \subseteq e.live
    <3>1. CASE i > SubtaskCap(c, p)
      <4>1. p \in c.live
        BY <1>1, <2>1, <3>1 DEF SubtaskCap
      <4> DEFINE q == Append(b.overflow[p], kids[i])
      <4>2. q \in Seq(QueuedChildren) /\ b.overflow \in [Agents -> Seq(QueuedChildren)]
        BY <2>3, Numbers DEF Colonies, Sound
      <4>3. e = WithQueue(b, p, q)
        BY <3>1 DEF StartOne, WithQueue
      <4> HIDE DEF q, e
      <4>4. Requeued(b, e, p) /\ e.overflow[p] = q
        BY <2>3, <4>2, <4>3, RequeueFields
      <4>5. Keeps(b, e, {}, m)
        <5>1. e.overflow[p] = Append(b.overflow[p], kids[i]) /\ p \in b.live
          BY <2>3, <4>1, <4>4 DEF q
        <5>2. QED
          BY <2>3, <2>5, <4>4, <5>1, QueuingKeeps
      <4>6. QED
        BY <4>4, <4>5 DEF Requeued
    <3>2. CASE ~(i > SubtaskCap(c, p))
      <4> DEFINE f == SpawnChildTask(b, kids[i], p)
      <4>1. e = f
        BY <3>2 DEF StartOne
      <4>2. Keeps(b, f, {}, m) /\ f.made = b.made
        BY <1>1, <2>3, <2>4, <2>5, SpawnChildKeeps
      <4>3. b.live \subseteq f.live
        BY <1>1, <2>3, SpawnChildEvolves DEF Builds
      <4>4. QED
        BY <4>1, <4>2, <4>3
    <3>3. QED
      BY <3>1, <3>2
  <2>6. Keeps(b, e, {}, k) /\ e.made = b.made /\ b.live \subseteq e.live
    BY <2>3, <2>5
  <2>7. k0.settled = {} /\ k0.adding = {kids[i].task} /\ k0.told = {p} /\ k0.growing = {p}
    OBVIOUS
  <2> HIDE DEF e, k0
  <2>8. Keeps(b, e, {}, k0)
    BY <2>5, <2>7
  <2>9. Keeps(c, e, {}, k) /\ Sound(e) /\ e \in Colonies
    <3>1. Keeps(c, e, {}, k)
      BY <2>3, <2>6, KeepsTwice
    <3>2. Sound(e)
      BY <3>1 DEF Keeps, House
    <3>3. QED
      BY <3>1, <3>2 DEF Sound
  <2>10. ASSUME NEW j \in i + 1 .. n PROVE Addable(e, kids[j].task, p)
    <3>1. j \in (i - 1) + 1 .. n /\ j \in 1 .. n /\ i # j /\ j \in Nat
      BY <1>1
    <3>2. Addable(b, kids[j].task, p) /\ kids[j] \in QueuedChildren
      BY <2>2, <3>1
    <3>3. kids[j].task # kids[i].task
      <4>1. kids[j].task = c.made + j /\ kids[i].task = c.made + i
        BY <3>1
      <4>2. QED
        BY <1>1, <2>1, <3>1, <4>1
    <3>4. kids[j].task \in Tasks /\ kids[j].task \notin k0.adding
      BY <2>7, <3>2, <3>3 DEF QueuedChildren
    <3>5. Carries(b, e, k0) /\ b.made <= e.made /\ e.made \in Nat
      BY <2>4, <2>6, <2>8 DEF Keeps
    <3>6. QED
      BY <1>1, <2>3, <2>4, <2>7, <3>2, <3>4, <3>5, AddableStays
  <2>11. c.live \subseteq e.live /\ e.made = c.made + n
    BY <2>3, <2>6
  <2>12. QED
    BY <2>1, <2>9, <2>10, <2>11 DEF S, e
<1>4. S[n] \subseteq {b \in Colonies : Keeps(c, b, {}, k)}
  BY <1>1
<1> HIDE DEF S
<1>5. StartBatch(c, kids, p) \in S[n]
  BY <1>2, <1>3, StartBatchLoop DEF n, first
<1>6. QED
  BY <1>4, <1>5

(* A sender, while registered, still works on the task it speaks of and    *)
(* has nothing open below it; a failure names its role, and its parent or  *)
(* one retired since; only decomposers are told of children.               *)
Sent(e) == e.type # "notification"

Standing(c, e) ==
  /\ Sent(e) => e.from <= c.born
  /\ e.type \in {"completion", "failure"} /\ e.task \notin c.abandoned =>
       /\ e.from \in c.live
       /\ c.agent[e.from].task = e.task
       /\ c.graph.status[e.task] = "running"
       /\ Childless(c, e.from)
  /\ e.type = "failure" /\ e.task \notin c.abandoned =>
       /\ e.role = c.agent[e.from].role
       /\ e.parent <= c.born
       /\ e.parent = c.agent[e.from].parent \/ e.parent \notin c.live \cup {None}
  /\ e.type = "spawn" /\ e.from \in c.live =>
       /\ StatusOf(c, e.from) = "running"
       /\ Childless(c, e.from)
       /\ c.agent[e.from].role = "decomposer" \/ c.agent[e.from].awaiting
  /\ e.type = "notification" =>
       /\ e.to <= c.born
       /\ e.to \in c.live => c.agent[e.to].role = "decomposer" /\ StatusOf(c, e.to) # "pending"

(* handle_spawn, when nothing is screened out.                             *)
LEMMA SpawnHandled ==
  ASSUME NEW c, NEW k, House(c, {}), NEW e \in Messages, e.type = "spawn", Standing(c, e),
         NEW kept \in SUBSET DOMAIN e.batch, NEW ruling, ruling # "screened",
         c.made + Len(e.batch) <= MaxTasks,
         (e.from \in c.live => c.agent[e.from].role = "decomposer") => e.from \in k.told,
         e.from \in k.growing, e.from \in k.waking, Tasks \subseteq k.adding,
         k.settled = {}
  PROVE  Ends(c, HandleSpawn(c, e, kept, ruling), k, e.from)
<1> DEFINE p == e.from
           kids == Prepared(c, e.batch, kept, p)
           b == StartBatch(c, kids, p)
           d == HandleSpawn(c, e, kept, ruling)
<1>1. p \in Agents /\ e.batch \in Batches /\ Sound(c) /\ p <= c.born
  BY DEF Messages, Standing, Sent, House
<1>2. e.batch \in Seq(Entries)
  BY <1>1, BatchesAreBatches DEF Entries
<1>3. Len(e.batch) \in Nat /\ c.made \in Nat /\ MaxTasks \in Nat
  BY <1>1, <1>2, BoundsArePositive, Numbers
<1>4. DOMAIN e.batch = 1 .. Len(e.batch)
  BY <1>2
<1>5. Cardinality(kept) \in 0 .. Len(e.batch)
  BY <1>3, <1>4, Ranks
<1>6. c.made + Cardinality(kept) <= MaxTasks
  BY <1>3, <1>5
<1>7. /\ kids \in Seq(QueuedChildren) /\ Len(kids) = Cardinality(kept)
      /\ \A i \in 1 .. Len(kids) : kids[i].task = c.made + i
  BY <1>1, <1>2, <1>6, PreparedBatch
<1>8. d = IF p \in c.live /\ c.agent[p].role # "decomposer"
            THEN Push(c, FailureRequest(c, p, TRUE, FALSE))
          ELSE IF ruling = "screened" THEN Push(c, FailureRequest(c, p, FALSE, TRUE))
          ELSE IF ruling = "refused" THEN ReleaseSpawner(c, p, TRUE)
          ELSE ReleaseSpawner(b, p, b.unstarted # c.unstarted)
  BY DEF HandleSpawn
<1>9. /\ p \in c.live => StatusOf(c, p) = "running" /\ Childless(c, p)
      /\ p \in c.live => c.agent[p].role = "decomposer" \/ c.agent[p].awaiting
      /\ p \in k.growing /\ p \in k.waking
      /\ (p \in c.live => c.agent[p].role = "decomposer") => p \in k.told
  BY DEF Standing
<1> HIDE DEF kids, d, p
<1>10. CASE p \in c.live /\ c.agent[p].role # "decomposer"
  <2>1. Keeps(c, c, {}, k) /\ Failing(c, p) /\ TRUE \in BOOLEAN
        /\ d = Push(c, FailureRequest(c, p, TRUE, FALSE))
    BY <1>8, <1>9, <1>10, KeepsSame DEF Failing
  <2>2. Ends(c, d, k, p)
    BY <2>1 DEF Ends
  <2>3. QED
    BY <2>2 DEF d, p
<1>11. CASE ~(p \in c.live /\ c.agent[p].role # "decomposer") /\ ruling = "refused"
  <2>1. d = ReleaseSpawner(c, p, TRUE)
    BY <1>8, <1>11
  <2>2. Ends(c, d, k, p)
    BY <1>1, <1>9, <2>1, ReleaseEnds DEF p
  <2>3. QED
    BY <2>2 DEF d, p
<1>12. CASE ~(p \in c.live /\ c.agent[p].role # "decomposer") /\ ruling # "refused"
  <2>1. d = ReleaseSpawner(b, p, b.unstarted # c.unstarted)
    BY <1>8, <1>12
  <2>2. Keeps(c, b, {}, k)
    BY <1>1, <1>6, <1>7, <1>9, <1>12, StartBatchKeeps DEF p
  <2> HIDE DEF b
  <2>3. p \in b.live => StatusOf(b, p) = "running"
    <3>1. SUFFICES ASSUME p \in b.live PROVE StatusOf(b, p) = "running"
      OBVIOUS
    <3>2. p \in c.live
      <4>1. p \in c.live \/ p > c.born
        BY <2>2, <3>1 DEF Keeps, Carries
      <4>2. p \in Nat /\ c.born \in Nat /\ p <= c.born
        BY <1>1, Numbers DEF p
      <4>3. QED
        BY <4>1, <4>2
    <3>3. b.agent[p].task = c.agent[p].task /\ c.agent[p].task \in Tasks
      BY <1>1, <2>2, <3>1, <3>2, Numbers DEF Keeps, Carries, Kin
    <3>4. b.graph.status[c.agent[p].task] = "running"
      BY <1>9, <2>2, <3>2, <3>3 DEF Keeps, Carries, Moves, StatusOf
    <3>5. QED
      BY <3>3, <3>4 DEF StatusOf
  <2>4. House(b, {}) /\ (b.unstarted # c.unstarted) \in BOOLEAN /\ p \in Agents
    BY <1>1, <2>2 DEF Keeps, p
  <2>5. Ends(b, d, k, p)
    BY <1>9, <2>1, <2>3, <2>4, ReleaseEnds
  <2>6. Ends(c, d, k, p)
    BY <2>2, <2>5, KeepsEnds
  <2>7. QED
    BY <2>6 DEF d, p
<1>13. QED
  BY <1>10, <1>11, <1>12

(* What a standing report or failure says of its sender.                   *)
Reporting(c, e) ==
  /\ e.from \in c.live /\ e.from \in Agents
  /\ c.agent[e.from].task = e.task /\ e.task \in Tasks
  /\ StatusOf(c, e.from) = "running" /\ Childless(c, e.from)
  /\ c.agent[e.from].role \in Roles /\ c.agent[e.from].parent \in AnyAgent
  /\ c.agent[e.from].parent <= c.born

LEMMA SenderReports ==
  ASSUME NEW c, NEW S, House(c, S), NEW e \in Messages, e.type \in {"completion", "failure"},
         Standing(c, e), e.task \notin c.abandoned
  PROVE  Reporting(c, e)
<1>1. /\ e.from \in c.live /\ c.agent[e.from].task = e.task
      /\ c.graph.status[e.task] = "running" /\ Childless(c, e.from)
  BY DEF Standing
<1>2. Sound(c) /\ c.agent[e.from].parent < e.from
  BY <1>1 DEF House, Assigned
<1>3. /\ e.from \in Agents /\ e.from \in Nat /\ e.from <= c.born /\ c.born \in Nat
      /\ c.agent[e.from] \in AgentNodes /\ c.agent[e.from].task \in Tasks
      /\ \A x \in Agents : x \in Nat
  BY <1>1, <1>2, Numbers
<1>4. c.agent[e.from].role \in Roles /\ c.agent[e.from].parent \in AnyAgent
  BY <1>3 DEF AgentNodes, AnyAgent
<1>5. c.agent[e.from].parent \in Nat
  BY <1>3, <1>4 DEF AnyAgent, None
<1>6. c.agent[e.from].parent <= c.born
  BY <1>2, <1>3, <1>5
<1>7. QED
  BY <1>1, <1>3, <1>4, <1>6 DEF Reporting, StatusOf

(* A report that is accepted closes its task over nothing open.            *)
LEMMA PromoteKeeps ==
  ASSUME NEW c, NEW k, House(c, {}), NEW e \in Messages, Reporting(c, e),
         e.task \in k.settled, c.agent[e.from].parent # None => c.agent[e.from].parent \in k.told
  PROVE  Keeps(c, PromoteReport(c, e), {}, k)
<1> DEFINE t == e.task
           p == c.agent[e.from].parent
           b == CompleteTask(c, t)
           f == FreeSlotAndNotify(b, p, t)
<1>1. /\ Sound(c) /\ t \in Tasks /\ p \in AnyAgent /\ p <= c.born
      /\ c.graph.status[t] = "running" /\ c.agent[e.from].task = t /\ e.from \in c.live
  BY DEF House, Reporting, StatusOf
<1>2. Settled(c, b, t, "complete")
  BY <1>1, SettleFields
<1> HIDE DEF b
<1>3. Closable(c, t, "complete")
  <2>1. ASSUME NEW x \in c.live, c.agent[x].task = t PROVE Childless(c, x)
    <3>1. StillOpen(c, c.agent[x].task) /\ c.agent[x].task = c.agent[e.from].task
      BY <1>1, <2>1 DEF StillOpen
    <3>2. x = e.from
      BY <1>1, <3>1, OneOwner DEF House
    <3>3. QED
      BY <3>2 DEF Reporting
  <2>2. \A u \in Tasks : c.parentTask[u] = t => ~StillOpen(c, u)
    BY <1>1 DEF Reporting, Childless
  <2>3. QED
    BY <1>1, <2>1, <2>2 DEF Closable
<1>4. Keeps(c, b, {}, k)
  <2>1. "complete" \in {"complete", "failed"} /\ {} \ {t} = {}
    OBVIOUS
  <2>2. Keeps(c, b, {} \ {t}, k)
    BY <1>1, <1>2, <1>3, <2>1, SettlingKeeps
  <2>3. QED
    BY <2>1, <2>2
<1>5. Keeps(b, f, {}, k)
  <2>1. House(b, {}) /\ p <= b.born
    BY <1>1, <1>2, <1>4 DEF Keeps, Settled
  <2>2. QED
    BY <1>1, <2>1, FreeSlotKeeps
<1>6. PromoteReport(c, e) = IF t = Root \/ e.from \notin c.live THEN b ELSE f
  BY DEF PromoteReport, b
<1> HIDE DEF f
<1>7. Keeps(c, f, {}, k)
  BY <1>4, <1>5, KeepsTwice
<1>8. QED
  BY <1>4, <1>6, <1>7

LEMMA RejectKeeps ==
  ASSUME NEW c, NEW k, House(c, {}), NEW e \in Messages, Reporting(c, e), NEW fate,
         e.task \in k.settled, c.agent[e.from].parent # None => c.agent[e.from].parent \in k.told
  PROVE  Keeps(c, RejectReport(c, e, fate), {}, k)
<1> DEFINE a == e.from
           role == c.agent[a].role
           p == c.agent[a].parent
           d == KillAndRespawn(c, a, e.task, role, p, TRUE, fate)
<1>1. Ending(c, a, e.task, role, p) /\ role \in Roles /\ p \in AnyAgent
  BY DEF Reporting, Ending
<1>2. RejectReport(c, e, fate) = d
  BY DEF RejectReport
<1> HIDE DEF role, p
<1>3. p # None => p \in k.told
  BY DEF p
<1>4. TRUE \in BOOLEAN
  OBVIOUS
<1>5. Keeps(c, d, {}, k)
  BY <1>1, <1>3, <1>4, RespawnKeeps
<1>6. QED
  BY <1>2, <1>5

LEMMA CompletionHandled ==
  ASSUME NEW c, NEW k, House(c, {}), NEW e \in Messages, Reporting(c, e),
         NEW verdict \in {"promote", "warn", "execute"}, NEW repeated, NEW over, NEW fate,
         e.task \in k.settled, c.agent[e.from].parent # None => c.agent[e.from].parent \in k.told
  PROVE  Keeps(c, HandleCompletion(c, e, verdict, repeated, over, fate), {}, k)
<1> DEFINE d == HandleCompletion(c, e, verdict, repeated, over, fate)
<1>1. CASE verdict = "promote"
  <2>1. d = PromoteReport(c, e)
    BY <1>1 DEF HandleCompletion
  <2>2. QED
    BY <2>1, PromoteKeeps
<1>2. CASE verdict = "execute"
  <2>1. d = RejectReport(c, e, fate)
    BY <1>2 DEF HandleCompletion
  <2>2. QED
    BY <2>1, RejectKeeps
<1>3. CASE verdict = "warn"
  <2> DEFINE a == e.from
             node == [c.agent[a] EXCEPT !.cycles = @ + 1, !.warned = TRUE]
             warned == [c EXCEPT !.agent[a].cycles = @ + 1, !.agent[a].warned = TRUE]
  <2>1. d = IF repeated \/ CyclesCapped(warned, a) THEN RejectReport(warned, e, fate)
            ELSE IF over /\ CeilingApplies(warned, e.task) THEN StopAtCeiling(warned, a)
            ELSE warned
    BY <1>3 DEF HandleCompletion, SendReportBack
  <2>2. Sound(c) /\ c \in Colonies /\ c.agent \in [Agents -> AgentNodes]
        /\ a \in Agents /\ a \in c.live /\ c.agent[a] \in AgentNodes
    BY Numbers, ColonyFields DEF House, Sound, Reporting
  <2> HIDE DEF d, a
  <2>3. c.agent[a].cycles + 1 \in Nat
    BY <2>2 DEF AgentNodes
  <2>4. node \in AgentNodes /\ Alike(c.agent[a], node) /\ node.awaiting = c.agent[a].awaiting
        /\ node.started = c.agent[a].started
    BY <2>2, <2>3 DEF AgentNodes, Alike
  <2>5. warned = [c EXCEPT !.agent[a] = node]
    <3>1. "agent" \in DOMAIN c /\ a \in DOMAIN c.agent
      BY <2>2 DEF Colonies
    <3>2. QED
      BY <3>1
  <2> HIDE DEF node, warned
  <2>6. Keeps(c, warned, {}, k) /\ Resembles(c, warned, {a})
    BY <2>2, <2>4, <2>5, EditKeeps
  <2>7. Reporting(warned, e) /\ warned.agent[a].parent = c.agent[a].parent
        /\ warned.agent[a].task = e.task
    <3>1. Alike(c.agent[a], warned.agent[a]) /\ warned.graph = c.graph /\ warned.live = c.live
          /\ warned.born = c.born /\ warned.overflow = c.overflow
          /\ warned.parentTask = c.parentTask
          /\ \A x \in c.live : /\ warned.agent[x].task = c.agent[x].task
                               /\ warned.agent[x].parent = c.agent[x].parent
      BY <2>2, <2>6, Numbers DEF Resembles, Alike
    <3>2. QED
      BY <2>2, <3>1 DEF Reporting, StatusOf, Childless, StillOpen, Alike, a
  <2>8. c.agent[a].parent # None => c.agent[a].parent \in k.told
    BY DEF a
  <2>9. Keeps(warned, RejectReport(warned, e, fate), {}, k)
    BY <2>6, <2>7, <2>8, RejectKeeps DEF Keeps, a
  <2>10. Keeps(warned, StopAtCeiling(warned, a), {}, k)
    <3>1. a \in warned.live /\ StatusOf(warned, a) = "running"
      BY <2>7 DEF Reporting, a
    <3>2. QED
      BY <2>6, <2>7, <2>8, <3>1, StopKeeps DEF Keeps
  <2>11. Keeps(c, RejectReport(warned, e, fate), {}, k)
         /\ Keeps(c, StopAtCeiling(warned, a), {}, k)
    BY <2>6, <2>9, <2>10, KeepsTwice
  <2>12. QED
    BY <2>1, <2>6, <2>11 DEF d
<1>4. QED
  BY <1>1, <1>2, <1>3

(* handle_failure.                                                         *)
LEMMA FailureHandled ==
  ASSUME NEW c, NEW k, House(c, {}), NEW e \in Messages, e.type = "failure", Standing(c, e),
         e.task \notin c.abandoned, NEW converts, NEW fate, e.task \in k.settled,
         e.parent # None => e.parent \in k.told
  PROVE  Keeps(c, HandleFailure(c, e, converts, fate), {}, k)
<1> DEFINE a == e.from
           t == e.task
           p == e.parent
           conversion == e.role = "executor" /\ e.tooLarge
           role == IF conversion THEN "decomposer" ELSE e.role
           uncounted == e.derived /\ c.rejections[t] < MaxDerivedRejections
           m == IF uncounted THEN [c EXCEPT !.rejections[t] = @ + 1] ELSE c
           b == RetireAgent(c, a)
           f == AbandonTask(b, t, p)
           g == KillAndRespawn(m, a, t, role, p, ~uncounted, fate)
           d == HandleFailure(c, e, converts, fate)
<1>1. d = IF conversion /\ ~converts THEN f ELSE g
  BY DEF HandleFailure
<1>2. Reporting(c, e)
  BY SenderReports
<1>3. /\ Sound(c) /\ c \in Colonies /\ t \in Tasks /\ role \in Roles /\ p \in AnyAgent
      /\ (~uncounted) \in BOOLEAN
  <2>1. e.role \in Roles /\ e.parent \in Agents \cup {None} /\ e.task \in Tasks
    BY DEF Messages
  <2>2. QED
    BY <2>1 DEF House, Sound, Roles, AnyAgent
<1>4. /\ a \in c.live /\ c.agent[a].task = t /\ StatusOf(c, a) = "running" /\ Childless(c, a)
      /\ p <= c.born /\ e.role = c.agent[a].role
      /\ p = c.agent[a].parent \/ p \notin c.live \cup {None}
  BY <1>2 DEF Reporting, Standing
<1>5. role = c.agent[a].role \/ role = "decomposer"
  BY <1>4
<1> HIDE DEF d, f, g, m, role, p, uncounted, conversion
<1>6. Keeps(c, f, {}, k)
  <2>1. /\ Keeps(c, b, {}, k) /\ Retired(c, b, a)
        /\ \A x \in b.live : b.agent[x].task # c.agent[a].task
    BY <1>4, RetireKeeps DEF f
  <2> HIDE DEF b
  <2>2. Closable(b, t, "failed") /\ House(b, {}) /\ p <= b.born
    BY <1>4, <2>1 DEF Retired, Closable, StatusOf, Keeps
  <2>3. p # None => p \in k.told
    BY DEF p
  <2>4. Keeps(b, f, {}, k)
    BY <1>3, <2>2, <2>3, AbandonKeeps DEF f
  <2>5. QED
    BY <2>1, <2>4, KeepsTwice
<1>7. /\ m \in Colonies /\ m.graph = c.graph /\ m.agent = c.agent /\ m.live = c.live
      /\ m.born = c.born /\ m.room = c.room /\ m.made = c.made /\ m.mailbox = c.mailbox
      /\ m.overflow = c.overflow /\ m.parentTask = c.parentTask /\ m.abandoned = c.abandoned
      /\ m.attempts = c.attempts
  <2>1. CASE ~uncounted
    BY <1>3, <2>1 DEF m
  <2>2. CASE uncounted
    <3>1. c.rejections \in [Tasks -> Nat] /\ [c.rejections EXCEPT ![t] = @ + 1] \in [Tasks -> Nat]
      BY <1>3 DEF Colonies
    <3>2. m = [c EXCEPT !.rejections = [c.rejections EXCEPT ![t] = @ + 1]]
      BY <1>3, <2>2 DEF m, Colonies
    <3>3. QED
      BY <1>3, <3>1, <3>2 DEF Colonies
  <2>3. QED
    BY <2>1, <2>2
<1>8. Keeps(c, m, {}, k)
  <2>1. Sound(m)
    BY <1>3, <1>7 DEF Sound
  <2>2. Resembles(c, m, k.waking) /\ Told(c.mailbox, m.mailbox, k.told)
    BY <1>3, <1>7, Numbers, ToldNothing DEF Resembles, Alike
  <2>3. QED
    BY <2>1, <2>2, ResemblesKeeps
<1>9. Keeps(m, g, {}, k)
  <2>1. Ending(m, a, t, role, p)
    BY <1>4, <1>5, <1>7 DEF Ending, StatusOf, Childless, StillOpen
  <2>2. House(m, {}) /\ t \in k.settled /\ (p # None => p \in k.told)
    BY <1>8 DEF Keeps, p
  <2>3. QED
    BY <1>3, <2>1, <2>2, RespawnKeeps DEF g
<1>10. Keeps(c, g, {}, k)
  BY <1>8, <1>9, KeepsTwice
<1>11. QED
  BY <1>1, <1>6, <1>10 DEF d

(* handle_parent_notification: a parent over its ceiling is stopped, or it *)
(* is woken once it has nothing open below it.                             *)
LEMMA NotificationHandled ==
  ASSUME NEW c, NEW k, House(c, {}), NEW e \in Messages, e.type = "notification", NEW over,
         e.to \in k.waking, Standing(c, e)
  PROVE  LET d == HandleNotification(c, e, over)
         IN \/ Keeps(c, d, {}, k)
            \/ e.to \in c.live /\ StatusOf(c, e.to) = "running" /\ d = StopAtCeiling(c, e.to)
<1> DEFINE p == e.to
           awaits == c.agent[p].awaiting /\ OpenChildTaskIds(c, p) # {}
           node == [c.agent[p] EXCEPT !.started = TRUE, !.awaiting = awaits]
           d == HandleNotification(c, e, over)
<1>1. p \in Agents /\ Sound(c) /\ c \in Colonies /\ c.agent \in [Agents -> AgentNodes]
      /\ c.agent[p] \in AgentNodes
  BY DEF Messages, House, Sound, Colonies
<1>2. d = IF p \notin c.live THEN c
          ELSE IF over /\ CeilingApplies(c, c.agent[p].task) THEN StopAtCeiling(c, p)
          ELSE [c EXCEPT !.agent[p].started = TRUE,
                         !.agent[p].awaiting = @ /\ OpenChildTaskIds(c, p) # {}]
  BY DEF HandleNotification
<1>a. p \in c.live => StatusOf(c, p) # "pending"
  BY DEF Standing
<1> HIDE DEF d, p
<1>3. awaits \in BOOLEAN
  OBVIOUS
<1>4. [c EXCEPT !.agent[p].started = TRUE,
                !.agent[p].awaiting = @ /\ OpenChildTaskIds(c, p) # {}] =
        [c EXCEPT !.agent[p] = node]
  <2>1. [c EXCEPT !.agent[p].started = TRUE,
                  !.agent[p].awaiting = @ /\ OpenChildTaskIds(c, p) # {}] =
          [c EXCEPT !.agent[p].started = TRUE, !.agent[p].awaiting = awaits]
    BY <1>1 DEF Colonies, AgentNodes
  <2> HIDE DEF awaits
  <2>2. [c EXCEPT !.agent[p].started = TRUE, !.agent[p].awaiting = awaits] =
          [c EXCEPT !.agent[p] = node]
    BY <1>1, <1>3, Zenon
  <2>3. QED
    BY <2>1, <2>2
<1> HIDE DEF awaits
<1>5. node \in AgentNodes /\ Alike(c.agent[p], node)
  BY <1>1, <1>3 DEF AgentNodes, Alike
<1> HIDE DEF node
<1>6. p \in k.waking
  BY DEF p
<1>7. CASE d = c
  BY <1>7, KeepsSame DEF d
<1>8. CASE p \in c.live /\ over /\ CeilingApplies(c, c.agent[p].task) /\ d = StopAtCeiling(c, p)
  BY <1>8 DEF d, p, CeilingApplies, StatusOf
<1>9. CASE d = [c EXCEPT !.agent[p] = node]
  <2>1. Keeps(c, d, {}, k)
    BY <1>1, <1>5, <1>6, <1>9, <1>a, EditKeeps
  <2>2. QED
    BY <2>1 DEF d
<1>10. QED
  BY <1>2, <1>4, <1>7, <1>8, <1>9

----------------------------------------------------------------------------
(* The events under way *)

(* A registered agent has at most one event of its own under way.          *)
Apart(c, q) ==
  \A i, j \in DOMAIN q :
    i # j /\ Sent(q[i]) /\ Sent(q[j]) /\ q[i].from = q[j].from => q[i].from \notin c.live

Distinct(c, q, r) ==
  \A i \in DOMAIN q, j \in DOMAIN r :
    Sent(q[i]) /\ Sent(r[j]) /\ q[i].from = r[j].from => q[i].from \notin c.live

(* No notification of a registered agent follows its SPAWN.                *)
Ordered(c, q) ==
  \A i, j \in DOMAIN q :
    i < j /\ q[i].type = "spawn" /\ q[j].type = "notification" /\ q[i].from \in c.live
      => q[j].to # q[i].from

(* "q" is what is left to route, and "r" the mailbox.                      *)
InOrder(c, q, r) ==
  /\ q \in Seq(Messages) /\ r \in Seq(Messages)
  /\ \A i \in DOMAIN q : Standing(c, q[i])
  /\ \A i \in DOMAIN r : Standing(c, r[i])
  /\ Apart(c, q) /\ Apart(c, r) /\ Distinct(c, q, r)
  /\ Ordered(c, q) /\ Ordered(c, r)

(* While events are routed, an agent that pushes one stays parked.         *)
Quiet(c, q, r) ==
  \A j \in DOMAIN r : Sent(r[j]) =>
    /\ r[j].type # "spawn"
    /\ r[j].from \in c.live =>
         /\ c.agent[r[j].from].awaiting
         /\ \A i \in DOMAIN q : q[i].type = "notification" => q[i].to # r[j].from

(* While agents run, one that pushed an event has had its turn.            *)
Spoken(c, r, S) ==
  \A j \in DOMAIN r : Sent(r[j]) => r[j].from \notin S \/ c.agent[r[j].from].awaiting

(* An agent at work that is neither parked nor about to run has nothing    *)
(* open below it.                                                          *)
Settling(c, S) ==
  \A a \in c.live \ S : StatusOf(c, a) = "running" /\ ~c.agent[a].awaiting => Childless(c, a)

(* What a step may disturb of an event's sender: a decomposer may be woken *)
(* or parked, one retired may gain a child, and what it says of a task     *)
(* that is settled is stale.                                               *)
Spared(c, d, k, e) ==
  /\ Sent(e) /\ e.from \in d.live =>
       /\ e.from \notin k.growing
       /\ e.from \in k.waking => c.agent[e.from].role = "decomposer"
  /\ e.type \in {"completion", "failure"} /\ e.task \in k.settled => e.task \in d.abandoned
  /\ e.type = "spawn" /\ e.from \in c.live /\ c.agent[e.from].task \in k.settled
       => e.from \notin d.live

(* Whom a step may notify. *)
Parental(c, p) ==
  /\ p <= c.born
  /\ p \in c.live => c.agent[p].role = "decomposer" /\ StatusOf(c, p) # "pending"

LEMMA SameLive ==
  ASSUME NEW c, NEW d, NEW k, NEW R, NEW S, House(c, R), Keeps(c, d, S, k), NEW x \in Nat,
         x <= c.born
  PROVE  /\ x \in d.live => x \in c.live
         /\ x <= d.born
<1>1. Sound(c) /\ Sound(d) /\ c.born <= d.born /\ \A y \in d.live : y \in c.live \/ y > c.born
  BY DEF House, Keeps, Carries
<1>2. c.born \in Nat /\ d.born \in Nat
  BY <1>1, Numbers
<1>3. QED
  BY <1>1, <1>2

LEMMA MessageFields ==
  ASSUME NEW e \in Messages
  PROVE  /\ e.type \in {"spawn", "completion", "failure", "notification"}
         /\ Sent(e) => e.from \in Agents
         /\ e.type \in {"completion", "failure"} => Sent(e) /\ e.task \in Tasks
         /\ e.type = "failure" => e.role \in Roles /\ e.parent \in AnyAgent
         /\ e.type = "spawn" => Sent(e)
         /\ e.type = "notification" => ~Sent(e) /\ e.to \in Agents
BY DEF Messages, Sent, AnyAgent

(* An event that is spared still stands.                                   *)
LEMMA StandingStays ==
  ASSUME NEW c, NEW d, NEW k, House(c, {}), Keeps(c, d, {}, k), NEW e \in Messages,
         Standing(c, e), Spared(c, d, k, e)
  PROVE  Standing(d, e)
<1>1. Sound(c) /\ House(d, {}) /\ Carries(c, d, k) /\ Kin(c, d, k.waking)
      /\ Moves(c, d, k.settled) /\ c.abandoned \subseteq d.abandoned
  BY DEF House, Keeps, Carries
<1>2. \A x \in Agents \cup {None} : x \in Nat
  BY Numbers, <1>1 DEF None
<1>3. ASSUME Sent(e)
      PROVE  e.from <= d.born /\ (e.from \in d.live => e.from \in c.live)
             /\ e.from \in Agents
  <2>1. e.from \in Agents /\ e.from <= c.born
    BY <1>3, MessageFields DEF Standing
  <2>2. QED
    BY <1>2, <2>1, SameLive
<1>4. ASSUME NEW x \in d.live, x \in c.live
      PROVE  /\ d.agent[x].role = c.agent[x].role /\ d.agent[x].task = c.agent[x].task
             /\ x \notin k.waking => d.agent[x].awaiting = c.agent[x].awaiting
             /\ d.agent[x].parent = c.agent[x].parent
                  \/ c.agent[x].parent \in (1 .. c.born) \ d.live
             /\ x \notin k.growing /\ Childless(c, x) => Childless(d, x)
             /\ StatusOf(c, x) = "running" /\ c.agent[x].task \notin k.settled =>
                  StatusOf(d, x) = "running"
             /\ StatusOf(c, x) # "pending" => StatusOf(d, x) # "pending"
  <2>1. /\ d.agent[x].role = c.agent[x].role /\ d.agent[x].task = c.agent[x].task
        /\ x \notin k.waking => d.agent[x].awaiting = c.agent[x].awaiting
        /\ d.agent[x].parent = c.agent[x].parent \/ c.agent[x].parent \in (1 .. c.born) \ d.live
    BY <1>1, <1>4 DEF Kin
  <2>2. x \notin k.growing /\ Childless(c, x) => Childless(d, x)
    BY <1>1 DEF Carries
  <2>3. c.agent[x].task \in Tasks
    BY <1>1, <1>4, Numbers
  <2>4. StatusOf(c, x) = "running" /\ c.agent[x].task \notin k.settled => StatusOf(d, x) = "running"
    BY <1>1, <2>1, <2>3 DEF Moves, StatusOf
  <2>5. StatusOf(c, x) # "pending" => StatusOf(d, x) # "pending"
    <3>1. StatusOf(c, x) # "absent"
      BY <1>4 DEF House, Assigned
    <3>2. QED
      BY <1>1, <2>1, <2>3, <3>1 DEF Moves, StatusOf
  <2>6. QED
    BY <2>1, <2>2, <2>4, <2>5
<1>5. ASSUME e.type \in {"completion", "failure"}, e.task \notin d.abandoned
      PROVE  /\ e.from \in d.live /\ e.from \in c.live /\ d.agent[e.from].task = e.task
             /\ d.graph.status[e.task] = "running" /\ Childless(d, e.from)
             /\ e.task \notin c.abandoned
  <2>1. Sent(e) /\ e.task \notin c.abandoned /\ e.task \notin k.settled
    BY <1>1, <1>5, MessageFields DEF Spared
  <2>2. /\ e.from \in c.live /\ c.agent[e.from].task = e.task
        /\ c.graph.status[e.task] = "running" /\ Childless(c, e.from)
    BY <1>5, <2>1 DEF Standing
  <2>3. e.from \in d.live
    BY <1>1, <2>1, <2>2 DEF Carries
  <2>4. e.from \notin k.growing
    BY <2>1, <2>3 DEF Spared
  <2>5. QED
    BY <1>4, <2>1, <2>2, <2>3, <2>4 DEF StatusOf
<1>6. ASSUME e.type = "failure", e.task \notin d.abandoned
      PROVE  /\ e.role = d.agent[e.from].role
             /\ e.parent <= d.born
             /\ e.parent = d.agent[e.from].parent \/ e.parent \notin d.live \cup {None}
  <2>1. e.type \in {"completion", "failure"} /\ e.parent \in AnyAgent /\ e.parent \in Nat
    BY <1>2, <1>6, MessageFields DEF AnyAgent
  <2>2. e.from \in d.live /\ e.from \in c.live /\ e.task \notin c.abandoned
    BY <1>5, <1>6, <2>1
  <2>3. /\ e.role = c.agent[e.from].role /\ e.parent <= c.born
        /\ e.parent = c.agent[e.from].parent \/ e.parent \notin c.live \cup {None}
    BY <1>6, <2>2 DEF Standing
  <2>4. e.parent <= d.born /\ (e.parent \in d.live => e.parent \in c.live)
    BY <2>1, <2>3, SameLive
  <2>5. None \notin 1 .. c.born
    BY DEF None
  <2>6. QED
    BY <1>4, <2>2, <2>3, <2>4, <2>5
<1>7. ASSUME e.type = "spawn", e.from \in d.live
      PROVE  /\ StatusOf(d, e.from) = "running" /\ Childless(d, e.from)
             /\ d.agent[e.from].role = "decomposer" \/ d.agent[e.from].awaiting
  <2>1. Sent(e) /\ e.from \in c.live
    BY <1>3, <1>7, MessageFields
  <2>2. /\ StatusOf(c, e.from) = "running" /\ Childless(c, e.from)
        /\ c.agent[e.from].role = "decomposer" \/ c.agent[e.from].awaiting
    BY <1>7, <2>1 DEF Standing
  <2>3. /\ e.from \notin k.growing /\ c.agent[e.from].task \notin k.settled
        /\ e.from \in k.waking => c.agent[e.from].role = "decomposer"
    BY <1>7, <2>1 DEF Spared
  <2>4. QED
    BY <1>4, <1>7, <2>1, <2>2, <2>3
<1>8. ASSUME e.type = "notification"
      PROVE  /\ e.to <= d.born
             /\ e.to \in d.live => d.agent[e.to].role = "decomposer" /\ StatusOf(d, e.to) # "pending"
  <2>1. /\ e.to \in Agents /\ e.to <= c.born
        /\ e.to \in c.live => c.agent[e.to].role = "decomposer" /\ StatusOf(c, e.to) # "pending"
    BY <1>8, MessageFields DEF Standing
  <2>2. e.to <= d.born /\ (e.to \in d.live => e.to \in c.live)
    BY <1>2, <2>1, SameLive
  <2>3. QED
    BY <1>4, <2>1, <2>2
<1>9. QED
  BY <1>3, <1>5, <1>6, <1>7, <1>8 DEF Standing

LEMMA ParentalStays ==
  ASSUME NEW c, NEW d, NEW k, House(c, {}), Keeps(c, d, {}, k), NEW p \in Agents, Parental(c, p)
  PROVE  Parental(d, p)
<1>1. Sound(c) /\ Carries(c, d, k) /\ Kin(c, d, k.waking) /\ Moves(c, d, k.settled) /\ Assigned(c)
  BY DEF House, Keeps, Carries
<1>2. p \in Nat /\ p <= c.born
  BY <1>1, Numbers DEF Parental
<1>3. (p \in d.live => p \in c.live) /\ p <= d.born
  BY <1>2, SameLive
<1>4. ASSUME p \in d.live PROVE d.agent[p].role = "decomposer" /\ StatusOf(d, p) # "pending"
  <2>1. /\ p \in c.live /\ c.agent[p].role = "decomposer" /\ StatusOf(c, p) # "pending"
        /\ StatusOf(c, p) # "absent"
    BY <1>1, <1>3, <1>4 DEF Parental, Assigned
  <2>2. d.agent[p].role = c.agent[p].role /\ d.agent[p].task = c.agent[p].task
    BY <1>1, <1>4, <2>1 DEF Kin
  <2>3. c.agent[p].task \in Tasks
    BY <1>1, <2>1, Numbers
  <2>4. QED
    BY <1>1, <2>1, <2>2, <2>3 DEF Moves, StatusOf
<1>5. QED
  BY <1>3, <1>4 DEF Parental

LEMMA InOrderStays ==
  ASSUME NEW c, NEW d, NEW k, NEW q, House(c, {}), Keeps(c, d, {}, k),
         InOrder(c, q, c.mailbox),
         \A i \in DOMAIN q : Spared(c, d, k, q[i]),
         \A i \in DOMAIN c.mailbox : Spared(c, d, k, c.mailbox[i]),
         \A p \in k.told : Parental(c, p),
         \A i \in DOMAIN c.mailbox :
           c.mailbox[i].type = "spawn" /\ c.mailbox[i].from \in c.live
             => c.mailbox[i].from \notin k.told
  PROVE  InOrder(d, q, d.mailbox)
<1> DEFINE old == c.mailbox
           r == d.mailbox
<1>1. /\ q \in Seq(Messages) /\ old \in Seq(Messages) /\ r \in Seq(Messages)
      /\ House(d, {}) /\ Sound(c) /\ Kin(c, d, k.waking) /\ Told(old, r, k.told)
  BY DEF InOrder, Keeps, Carries, Told, House
<1>2. \A e \in Messages : Sent(e) /\ Standing(c, e) /\ e.from \in d.live => e.from \in c.live
  <2>1. ASSUME NEW e \in Messages, Sent(e), Standing(c, e), e.from \in d.live
        PROVE  e.from \in c.live
    <3>1. e.from \in Agents /\ e.from <= c.born
      BY <2>1, MessageFields DEF Standing
    <3>2. e.from \in Nat
      BY <1>1, <3>1, Numbers
    <3>3. QED
      BY <2>1, <3>1, <3>2, SameLive
  <2>2. QED
    BY <2>1
<1>3. \A i \in DOMAIN q : q[i] \in Messages /\ Standing(c, q[i])
  BY <1>1 DEF InOrder
<1>4. \A i \in DOMAIN old : old[i] \in Messages /\ Standing(c, old[i])
  BY <1>1 DEF InOrder
<1>5. ASSUME NEW j \in DOMAIN r
      PROVE  /\ r[j] \in Messages /\ j \in Nat
             /\ \/ j \in DOMAIN old /\ r[j] = old[j]
                \/ /\ j \notin DOMAIN old /\ r[j].type = "notification" /\ r[j].to \in k.told
                   /\ \A i \in DOMAIN old : i < j
  <2>1. j \in 1 .. Len(r) /\ DOMAIN old = 1 .. Len(old) /\ Len(old) \in Nat /\ Len(r) \in Nat
    BY <1>1
  <2>2. CASE j <= Len(old)
    <3>1. j \in 1 .. Len(old)
      BY <2>1, <2>2
    <3>2. QED
      BY <1>1, <2>1, <3>1 DEF Told
  <2>3. CASE ~(j <= Len(old))
    <3>1. j \in Len(old) + 1 .. Len(r)
      BY <2>1, <2>3
    <3>2. QED
      BY <1>1, <2>1, <2>3, <3>1 DEF Told
  <2>4. QED
    BY <2>2, <2>3
<1> HIDE DEF r, old
<1>6. \A j \in DOMAIN r : Sent(r[j]) => j \in DOMAIN old /\ r[j] = old[j]
  BY <1>5 DEF Sent
<1>7. ASSUME NEW i \in DOMAIN q PROVE Standing(d, q[i])
  BY <1>3, StandingStays
<1>8. ASSUME NEW j \in DOMAIN r PROVE Standing(d, r[j])
  <2>1. CASE j \in DOMAIN old /\ r[j] = old[j]
    BY <1>4, <2>1, StandingStays DEF old
  <2>2. CASE r[j].type = "notification" /\ r[j].to \in k.told
    <3>1. r[j].to \in Agents /\ ~Sent(r[j]) /\ Parental(c, r[j].to)
      BY <1>5, <2>2, MessageFields
    <3>2. Parental(d, r[j].to)
      BY <3>1, ParentalStays
    <3>3. QED
      BY <2>2, <3>1, <3>2 DEF Standing, Parental
  <2>3. QED
    BY <1>5, <2>1, <2>2
<1>9. Apart(d, q)
  BY <1>2, <1>3 DEF Apart, InOrder
<1>10. Apart(d, r)
  <2>1. Apart(c, old)
    BY DEF InOrder, old
  <2>2. SUFFICES ASSUME NEW i \in DOMAIN r, NEW j \in DOMAIN r, i # j, Sent(r[i]), Sent(r[j]),
                        r[i].from = r[j].from, r[i].from \in d.live
                 PROVE  FALSE
    BY DEF Apart
  <2>3. i \in DOMAIN old /\ r[i] = old[i] /\ j \in DOMAIN old /\ r[j] = old[j]
    BY <1>6, <2>2
  <2>4. old[i].from \in c.live
    BY <1>2, <1>4, <2>2, <2>3
  <2>5. QED
    BY <2>1, <2>2, <2>3, <2>4 DEF Apart
<1>11. Distinct(d, q, r)
  <2>1. Distinct(c, q, old)
    BY DEF InOrder, old
  <2>2. SUFFICES ASSUME NEW i \in DOMAIN q, NEW j \in DOMAIN r, Sent(q[i]), Sent(r[j]),
                        q[i].from = r[j].from, q[i].from \in d.live
                 PROVE  FALSE
    BY DEF Distinct
  <2>3. j \in DOMAIN old /\ r[j] = old[j]
    BY <1>6, <2>2
  <2>4. q[i].from \in c.live
    BY <1>2, <1>3, <2>2
  <2>5. QED
    BY <2>1, <2>2, <2>3, <2>4 DEF Distinct
<1>12. Ordered(d, q)
  <2>1. Ordered(c, q)
    BY DEF InOrder
  <2>2. \A i \in DOMAIN q : q[i].type = "spawn" /\ q[i].from \in d.live => q[i].from \in c.live
    BY <1>2, <1>3, MessageFields
  <2>3. QED
    BY <2>1, <2>2 DEF Ordered
<1>13. Ordered(d, r)
  <2>1. Ordered(c, old) /\ \A i \in DOMAIN old : old[i].type = "spawn" /\ old[i].from \in c.live
                                                   => old[i].from \notin k.told
    BY DEF InOrder, old
  <2>2. SUFFICES ASSUME NEW i \in DOMAIN r, NEW j \in DOMAIN r, i < j, r[i].type = "spawn",
                        r[j].type = "notification", r[i].from \in d.live
                 PROVE  r[j].to # r[i].from
    BY DEF Ordered
  <2>3. Sent(r[i])
    BY <1>5, <2>2, MessageFields
  <2>4. i \in DOMAIN old /\ r[i] = old[i]
    BY <1>6, <2>3
  <2>5. r[i].from \in c.live
    BY <1>2, <1>4, <2>2, <2>3, <2>4
  <2>6. CASE j \in DOMAIN old /\ r[j] = old[j]
    BY <2>1, <2>2, <2>4, <2>5, <2>6 DEF Ordered
  <2>7. CASE r[j].to \in k.told
    BY <2>1, <2>2, <2>4, <2>5, <2>7
  <2>8. QED
    BY <1>5, <2>6, <2>7
<1>14. QED
  BY <1>1, <1>7, <1>8, <1>9, <1>10, <1>11, <1>12, <1>13 DEF InOrder, r

(* The first event is taken out.                                           *)
LEMMA TailInOrder ==
  ASSUME NEW c, NEW q, NEW r, InOrder(c, q, r), q # <<>>
  PROVE  /\ InOrder(c, Tail(q), r) /\ Head(q) \in Messages /\ Standing(c, Head(q))
         /\ Sent(Head(q)) /\ Head(q).from \in c.live =>
              /\ \A i \in DOMAIN Tail(q) : Sent(Tail(q)[i]) => Tail(q)[i].from # Head(q).from
              /\ \A i \in DOMAIN r : Sent(r[i]) => r[i].from # Head(q).from
         /\ Head(q).type = "spawn" /\ Head(q).from \in c.live =>
              \A i \in DOMAIN Tail(q) :
                Tail(q)[i].type = "notification" => Tail(q)[i].to # Head(q).from
         /\ \A i \in DOMAIN Tail(q) : \E j \in DOMAIN q : Tail(q)[i] = q[j]
<1> DEFINE s == Tail(q)
<1>1. q \in Seq(Messages) /\ s \in Seq(Messages) /\ Len(q) \in Nat /\ Len(s) = Len(q) - 1
      /\ Head(q) = q[1] /\ 1 \in DOMAIN q /\ DOMAIN q = 1 .. Len(q) /\ DOMAIN s = 1 .. Len(s)
  BY DEF InOrder
<1>2. \A i \in DOMAIN s : i + 1 \in DOMAIN q /\ s[i] = q[i + 1] /\ i + 1 # 1 /\ 1 < i + 1
                          /\ i \in Nat
  BY <1>1
<1> HIDE DEF s
<1>3. \A i, j \in DOMAIN s : (i # j => i + 1 # j + 1) /\ (i < j => i + 1 < j + 1)
  BY <1>2
<1>4. \A i \in DOMAIN s : Standing(c, s[i])
  BY <1>2 DEF InOrder
<1>5. Apart(c, s) /\ Distinct(c, s, r) /\ Ordered(c, s)
  <2>1. Apart(c, q) /\ Distinct(c, q, r) /\ Ordered(c, q)
    BY DEF InOrder
  <2>2. Apart(c, s)
    BY <1>2, <1>3, <2>1 DEF Apart
  <2>3. Distinct(c, s, r)
    BY <1>2, <2>1 DEF Distinct
  <2>4. Ordered(c, s)
    BY <1>2, <1>3, <2>1 DEF Ordered
  <2>5. QED
    BY <2>2, <2>3, <2>4
<1>6. InOrder(c, s, r)
  BY <1>1, <1>4, <1>5 DEF InOrder
<1>7. Head(q) \in Messages /\ Standing(c, Head(q))
  BY <1>1 DEF InOrder
<1>8. Sent(Head(q)) /\ Head(q).from \in c.live =>
        /\ \A i \in DOMAIN s : Sent(s[i]) => s[i].from # Head(q).from
        /\ \A i \in DOMAIN r : Sent(r[i]) => r[i].from # Head(q).from
  BY <1>1, <1>2 DEF InOrder, Apart, Distinct
<1>9. Head(q).type = "spawn" /\ Head(q).from \in c.live =>
        \A i \in DOMAIN s : s[i].type = "notification" => s[i].to # Head(q).from
  BY <1>1, <1>2 DEF InOrder, Ordered
<1>10. QED
  BY <1>2, <1>6, <1>7, <1>8, <1>9 DEF s

(***************************************************************************)
(* Routing                                                                 *)
(***************************************************************************)
Routing(c, q) == House(c, {}) /\ InOrder(c, q, c.mailbox) /\ Quiet(c, q, c.mailbox)

(* How far one handler may take the tasks.                                 *)
Forward(c, d) ==
  \A t \in Tasks :
    /\ c.graph.status[t] \in {"complete", "failed"} => d.graph.status[t] = c.graph.status[t]
    /\ d.graph.status[t] = "complete" => c.graph.status[t] \in {"running", "complete"}
    /\ d.graph.status[t] = "pending" => c.graph.status[t] \in {"absent", "pending"}
    /\ c.graph.status[t] # "absent" =>
         /\ d.graph.status[t] # "absent"
         /\ d.graph.dependencies[t] = c.graph.dependencies[t]

(* What a handler settles was running.                                     *)
LEMMA KeepsForward ==
  ASSUME NEW c, NEW d, NEW S, NEW k, Keeps(c, d, S, k),
         \A t \in k.settled : c.graph.status[t] = "running"
  PROVE  Forward(c, d)
<1>1. Moves(c, d, k.settled)
  BY DEF Keeps, Carries
<1>2. QED
  BY <1>1 DEF Moves, Forward

(* The senders among what a step leaves in the mailbox were in it before.  *)
LEMMA SentBefore ==
  ASSUME NEW c, NEW d, NEW k, NEW q, House(c, {}), Keeps(c, d, {}, k),
         InOrder(c, q, c.mailbox)
  PROVE  \A j \in DOMAIN d.mailbox : Sent(d.mailbox[j]) =>
           /\ j \in DOMAIN c.mailbox /\ d.mailbox[j] = c.mailbox[j]
           /\ d.mailbox[j].from \in Agents
           /\ d.mailbox[j].from \in d.live => d.mailbox[j].from \in c.live
<1> SUFFICES ASSUME NEW j \in DOMAIN d.mailbox, Sent(d.mailbox[j])
             PROVE  /\ j \in DOMAIN c.mailbox /\ d.mailbox[j] = c.mailbox[j]
                    /\ d.mailbox[j].from \in Agents
                    /\ d.mailbox[j].from \in d.live => d.mailbox[j].from \in c.live
  OBVIOUS
<1> DEFINE old == c.mailbox
           r == d.mailbox
<1>1. old \in Seq(Messages) /\ r \in Seq(Messages) /\ Told(old, r, k.told)
      /\ Sent(r[j]) /\ j \in DOMAIN r
      /\ (j \in DOMAIN old => Standing(c, old[j]))
  BY DEF InOrder, Keeps, Carries, Told
<1> HIDE DEF old, r
<1>2. j \in 1 .. Len(r) /\ DOMAIN old = 1 .. Len(old) /\ Len(old) \in Nat /\ Len(r) \in Nat
  BY <1>1
<1>3. j \in DOMAIN old /\ r[j] = old[j]
  <2>1. CASE j <= Len(old)
    <3>1. j \in 1 .. Len(old)
      BY <1>2, <2>1
    <3>2. QED
      BY <1>1, <1>2, <3>1 DEF Told
  <2>2. CASE ~(j <= Len(old))
    <3>1. j \in Len(old) + 1 .. Len(r)
      BY <1>2, <2>2
    <3>2. QED
      BY <1>1, <3>1 DEF Told, Sent
  <2>3. QED
    BY <2>1, <2>2
<1>4. r[j].from \in Agents /\ r[j].from <= c.born
  BY <1>1, <1>3, MessageFields DEF Standing
<1>5. r[j].from \in Nat
  BY <1>4, Numbers DEF House
<1>6. r[j].from \in d.live => r[j].from \in c.live
  BY <1>4, <1>5, SameLive DEF r
<1>7. QED
  BY <1>3, <1>4, <1>6 DEF old, r

LEMMA RoutingStays ==
  ASSUME NEW c, NEW d, NEW k, NEW q, Routing(c, q), Keeps(c, d, {}, k),
         \A i \in DOMAIN q : Spared(c, d, k, q[i]),
         \A i \in DOMAIN c.mailbox : Spared(c, d, k, c.mailbox[i]),
         \A p \in k.told : Parental(c, p),
         \A i \in DOMAIN c.mailbox :
           Sent(c.mailbox[i]) /\ c.mailbox[i].from \in d.live
             => c.mailbox[i].from \notin k.waking
  PROVE  Routing(d, q)
<1>1. House(c, {}) /\ InOrder(c, q, c.mailbox) /\ Quiet(c, q, c.mailbox) /\ House(d, {})
      /\ Kin(c, d, k.waking)
  BY DEF Routing, Keeps, Carries
<1>2. \A i \in DOMAIN c.mailbox : c.mailbox[i].type # "spawn"
  BY <1>1 DEF Quiet, Sent
<1>3. InOrder(d, q, d.mailbox)
  BY <1>1, <1>2, InOrderStays
<1>4. ASSUME NEW j \in DOMAIN d.mailbox, Sent(d.mailbox[j])
      PROVE  /\ d.mailbox[j].type # "spawn"
             /\ d.mailbox[j].from \in d.live =>
                  /\ d.agent[d.mailbox[j].from].awaiting
                  /\ \A i \in DOMAIN q : q[i].type = "notification" => q[i].to # d.mailbox[j].from
  <2>1. /\ j \in DOMAIN c.mailbox /\ d.mailbox[j] = c.mailbox[j]
        /\ d.mailbox[j].from \in d.live => d.mailbox[j].from \in c.live
    <3>1. \A i \in DOMAIN d.mailbox : Sent(d.mailbox[i]) =>
            /\ i \in DOMAIN c.mailbox /\ d.mailbox[i] = c.mailbox[i]
            /\ d.mailbox[i].from \in Agents
            /\ d.mailbox[i].from \in d.live => d.mailbox[i].from \in c.live
      BY <1>1, SentBefore
    <3>2. QED
      BY <1>4, <3>1
  <2> DEFINE e == c.mailbox[j]
  <2>2. Sent(e)
    BY <1>4, <2>1
  <2> HIDE DEF e
  <2>3. /\ e.type # "spawn"
        /\ e.from \in c.live =>
             /\ c.agent[e.from].awaiting
             /\ \A i \in DOMAIN q : q[i].type = "notification" => q[i].to # e.from
    BY <1>1, <2>1, <2>2 DEF Quiet, e
  <2>4. e.from \in d.live => e.from \notin k.waking
    BY <2>1, <2>2 DEF e
  <2>5. e.from \in d.live => d.agent[e.from].awaiting
    BY <1>1, <2>1, <2>3, <2>4 DEF Kin, e
  <2>6. QED
    BY <2>1, <2>3, <2>5 DEF e
<1>5. Quiet(d, q, d.mailbox)
  BY <1>4 DEF Quiet
<1>6. QED
  BY <1>1, <1>3, <1>5 DEF Routing

(* Room comes and goes.                                                    *)
LEMMA Unspoiled ==
  ASSUME NEW c, NEW d, House(c, {}), Sound(d), Resembles(c, d, {}), d.mailbox = c.mailbox
  PROVE  /\ House(d, {})
         /\ \A q : InOrder(c, q, c.mailbox) => InOrder(d, q, d.mailbox)
         /\ \A q : Routing(c, q) => Routing(d, q)
<1> DEFINE k == [settled |-> {}, told |-> {}, growing |-> {}, waking |-> {}, adding |-> {}]
<1>1. k.settled = {} /\ k.told = {} /\ k.growing = {} /\ k.waking = {} /\ k.adding = {}
  OBVIOUS
<1> HIDE DEF k
<1>2. Told(c.mailbox, d.mailbox, k.told)
  BY Numbers, ToldNothing DEF House
<1>3. Keeps(c, d, {}, k)
  BY <1>1, <1>2, ResemblesKeeps
<1>4. \A e : Spared(c, d, k, e)
  BY <1>1 DEF Spared
<1>5. ASSUME NEW q, InOrder(c, q, c.mailbox) PROVE InOrder(d, q, d.mailbox)
  BY <1>1, <1>3, <1>4, <1>5, InOrderStays
<1>6. ASSUME NEW q, Routing(c, q) PROVE Routing(d, q)
  BY <1>1, <1>3, <1>4, <1>6, RoutingStays
<1>7. QED
  BY <1>3, <1>5, <1>6 DEF Keeps

(* Pushing an event changes nothing but the mailbox.                       *)
LEMMA PushStands ==
  ASSUME NEW c, NEW d, House(c, {}), Sound(d), OnlyPushes(c, d)
  PROVE  /\ House(d, {})
         /\ \A e : Standing(c, e) <=> Standing(d, e)
         /\ \A q : Apart(c, q) <=> Apart(d, q)
         /\ \A q : Ordered(c, q) <=> Ordered(d, q)
         /\ \A q, r : Distinct(c, q, r) <=> Distinct(d, q, r)
         /\ \A q, r : Quiet(c, q, r) <=> Quiet(d, q, r)
         /\ \A a : Childless(c, a) <=> Childless(d, a)
<1>1. /\ d.graph = c.graph /\ d.agent = c.agent /\ d.live = c.live /\ d.born = c.born
      /\ d.made = c.made /\ d.parentTask = c.parentTask /\ d.overflow = c.overflow
      /\ d.abandoned = c.abandoned /\ d.attempts = c.attempts /\ c.made \in Nat
  BY Numbers DEF OnlyPushes, House
<1>2. Resembles(c, d, {})
  BY <1>1 DEF Resembles, Alike
<1>3. House(d, {})
  BY <1>2, ResemblesHouse
<1>4. \A a : Childless(c, a) <=> Childless(d, a)
  BY <1>1 DEF Childless, StillOpen
<1>5. ASSUME NEW e PROVE Standing(c, e) <=> Standing(d, e)
  BY <1>1, <1>4 DEF Standing, StatusOf
<1>6. QED
  BY <1>1, <1>3, <1>4, <1>5 DEF Apart, Ordered, Distinct, Quiet

LEMMA PushInOrder ==
  ASSUME NEW c, NEW q, NEW e \in Messages, House(c, {}), InOrder(c, q, c.mailbox),
         Sent(e), Standing(c, e),
         e.from \in c.live => \A i \in DOMAIN q : Sent(q[i]) => q[i].from # e.from,
         e.from \in c.live =>
           \A i \in DOMAIN c.mailbox : Sent(c.mailbox[i]) => c.mailbox[i].from # e.from
  PROVE  /\ House(Push(c, e), {}) /\ OnlyPushes(c, Push(c, e)) /\ Sound(Push(c, e))
         /\ InOrder(Push(c, e), q, Push(c, e).mailbox)
         /\ Push(c, e).mailbox = Append(c.mailbox, e)
<1> DEFINE old == c.mailbox
           r == Append(old, e)
           d == Push(c, e)
<1>1. Sound(d) /\ OnlyPushes(c, d) /\ d.mailbox = r
  BY PushFields DEF House
<1>2. q \in Seq(Messages) /\ old \in Seq(Messages) /\ r \in Seq(Messages)
  BY DEF InOrder
<1>3. \A j \in DOMAIN r : /\ j \in Nat
                          /\ \/ j \in DOMAIN old /\ r[j] = old[j] /\ j <= Len(old)
                             \/ j = Len(old) + 1 /\ r[j] = e
  BY <1>2
<1>4. Len(old) \in Nat
  BY <1>2
<1> HIDE DEF d, r
<1>5. /\ House(d, {})
      /\ \A x : Standing(c, x) => Standing(d, x)
      /\ \A s : Apart(c, s) => Apart(d, s)
      /\ \A s : Ordered(c, s) => Ordered(d, s)
      /\ \A s, u : Distinct(c, s, u) => Distinct(d, s, u)
  BY <1>1, PushStands
<1>6. \A j \in DOMAIN r : Standing(c, r[j])
  BY <1>3 DEF InOrder
<1>7. Apart(c, r)
  <2>1. Apart(c, old)
    BY DEF InOrder
  <2>2. SUFFICES ASSUME NEW i \in DOMAIN r, NEW j \in DOMAIN r, i # j, Sent(r[i]), Sent(r[j]),
                        r[i].from = r[j].from, r[i].from \in c.live
                 PROVE  FALSE
    BY DEF Apart
  <2>3. CASE i = Len(old) + 1 \/ j = Len(old) + 1
    BY <1>3, <1>4, <2>2, <2>3
  <2>4. CASE i # Len(old) + 1 /\ j # Len(old) + 1
    BY <1>3, <2>1, <2>2, <2>4 DEF Apart
  <2>5. QED
    BY <2>3, <2>4
<1>8. Distinct(c, q, r)
  <2>1. Distinct(c, q, old)
    BY DEF InOrder
  <2>2. SUFFICES ASSUME NEW i \in DOMAIN q, NEW j \in DOMAIN r, Sent(q[i]), Sent(r[j]),
                        q[i].from = r[j].from, q[i].from \in c.live
                 PROVE  FALSE
    BY DEF Distinct
  <2>3. QED
    BY <1>3, <2>1, <2>2 DEF Distinct
<1>9. Ordered(c, r)
  <2>1. Ordered(c, old)
    BY DEF InOrder
  <2>2. SUFFICES ASSUME NEW i \in DOMAIN r, NEW j \in DOMAIN r, i < j, r[i].type = "spawn",
                        r[j].type = "notification", r[i].from \in c.live
                 PROVE  r[j].to # r[i].from
    BY DEF Ordered
  <2>3. j \in DOMAIN old /\ r[j] = old[j] /\ j <= Len(old)
    BY <1>3, <2>2 DEF Sent
  <2>4. i \in DOMAIN old /\ r[i] = old[i]
    BY <1>3, <1>4, <2>2, <2>3
  <2>5. QED
    BY <2>1, <2>2, <2>3, <2>4 DEF Ordered
<1>10. InOrder(d, q, r)
  <2>1. Apart(c, q) /\ Ordered(c, q) /\ \A i \in DOMAIN q : Standing(c, q[i])
    BY DEF InOrder
  <2>2. QED
    BY <1>2, <1>5, <1>6, <1>7, <1>8, <1>9, <2>1 DEF InOrder
<1>11. QED
  BY <1>1, <1>5, <1>10 DEF d, r

(* An agent that gives up says so while nothing else of it is under way.   *)
LEMMA FailingStands ==
  ASSUME NEW c, NEW S, House(c, S), NEW a \in c.live, StatusOf(c, a) = "running",
         Childless(c, a), NEW big \in BOOLEAN
  PROVE  LET e == FailureRequest(c, a, big, FALSE)
         IN e \in Messages /\ Sent(e) /\ Standing(c, e) /\ e.from = a /\ e.type = "failure"
<1> DEFINE e == FailureRequest(c, a, big, FALSE)
<1>1. Sound(c) /\ FALSE \in BOOLEAN /\ c.agent[a].parent < a
  BY DEF House, Assigned
<1>2. e \in Messages
  BY <1>1, FailureIsMessage
<1>3. /\ e.type = "failure" /\ e.from = a /\ e.task = c.agent[a].task
      /\ e.role = c.agent[a].role /\ e.parent = c.agent[a].parent
  BY DEF FailureRequest
<1> HIDE DEF e
<1>4. a \in Nat /\ a <= c.born /\ c.born \in Nat /\ c.agent[a] \in AgentNodes
      /\ \A x \in Agents : x \in Nat
  BY <1>1, Numbers
<1>5. c.agent[a].parent \in Nat
  BY <1>4 DEF AgentNodes, None
<1>6. c.agent[a].parent <= c.born
  BY <1>1, <1>4, <1>5
<1>7. Standing(c, e) /\ Sent(e)
  BY <1>3, <1>4, <1>6 DEF Standing, Sent, StatusOf
<1>8. QED
  BY <1>2, <1>3, <1>7 DEF e

LEMMA RoutingPush ==
  ASSUME NEW c, NEW q, NEW a, NEW big \in BOOLEAN, Routing(c, q), Failing(c, a),
         \A i \in DOMAIN q : Sent(q[i]) => q[i].from # a,
         \A i \in DOMAIN q : q[i].type = "notification" => q[i].to # a,
         \A i \in DOMAIN c.mailbox : Sent(c.mailbox[i]) => c.mailbox[i].from # a
  PROVE  /\ Routing(Push(c, FailureRequest(c, a, big, FALSE)), q)
         /\ Push(c, FailureRequest(c, a, big, FALSE)).graph = c.graph
<1> DEFINE e == FailureRequest(c, a, big, FALSE)
           d == Push(c, e)
<1>1. House(c, {}) /\ InOrder(c, q, c.mailbox) /\ Quiet(c, q, c.mailbox)
  BY DEF Routing
<1>2. e \in Messages /\ Sent(e) /\ Standing(c, e) /\ e.from = a /\ e.type = "failure"
  BY <1>1, FailingStands DEF Failing
<1> HIDE DEF e
<1>3. House(d, {}) /\ OnlyPushes(c, d) /\ InOrder(d, q, d.mailbox) /\ Sound(d)
      /\ d.mailbox = Append(c.mailbox, e)
  BY <1>1, <1>2, PushInOrder
<1> HIDE DEF d
<1>4. c.mailbox \in Seq(Messages)
  BY <1>1 DEF InOrder
<1>5. \A j \in DOMAIN d.mailbox : \/ j \in DOMAIN c.mailbox /\ d.mailbox[j] = c.mailbox[j]
                                  \/ d.mailbox[j] = e
  BY <1>3, <1>4
<1>6. Quiet(c, q, d.mailbox)
  BY <1>1, <1>2, <1>5 DEF Quiet, Failing
<1>7. Quiet(d, q, d.mailbox)
  BY <1>1, <1>3, <1>6, PushStands
<1>8. Routing(d, q)
  BY <1>3, <1>7 DEF Routing
<1>9. QED
  BY <1>3, <1>8 DEF d, e, OnlyPushes

(* What settling the task of "a" leaves of another's event.                *)
LEMMA SettledSpared ==
  ASSUME NEW c, NEW d, NEW k, NEW a \in c.live, House(c, {}), StatusOf(c, a) = "running",
         k.settled \subseteq {c.agent[a].task}, k.growing = {}, k.waking = {},
         NEW f \in Messages, Standing(c, f), c.abandoned \subseteq d.abandoned,
         (Sent(f) => f.from # a) \/ (c.agent[a].task \in d.abandoned /\ a \notin d.live)
  PROVE  Spared(c, d, k, f)
<1>1. Assigned(c) /\ StillOpen(c, c.agent[a].task)
  BY DEF House, StatusOf, StillOpen
<1>2. ASSUME f.type \in {"completion", "failure"}, f.task \in k.settled,
             f.task \notin d.abandoned
      PROVE  FALSE
  <2>1. f.task = c.agent[a].task /\ f.task \notin c.abandoned
    BY <1>2
  <2>2. f.from \in c.live /\ c.agent[f.from].task = c.agent[a].task
    BY <1>2, <2>1 DEF Standing
  <2>3. f.from = a
    BY <1>1, <2>2, OneOwner
  <2>4. Sent(f)
    BY <1>2 DEF Sent
  <2>5. QED
    BY <1>2, <2>1, <2>3, <2>4
<1>3. ASSUME f.type = "spawn", f.from \in c.live, c.agent[f.from].task \in k.settled,
             f.from \in d.live
      PROVE  FALSE
  <2>1. c.agent[f.from].task = c.agent[a].task
    BY <1>3
  <2>2. f.from = a
    BY <1>1, <1>3, <2>1, OneOwner
  <2>3. Sent(f)
    BY <1>3 DEF Sent
  <2>4. QED
    BY <1>3, <2>2, <2>3
<1>4. QED
  BY <1>2, <1>3 DEF Spared

(* An agent's parent, if any, is a decomposer while it is registered.      *)
LEMMA ParentIsParental ==
  ASSUME NEW c, NEW S, House(c, S), NEW a \in c.live
  PROVE  Parental(c, c.agent[a].parent)
<1>1. Sound(c) /\ c.agent[a].parent < a /\ Family(c, S)
  BY DEF House, Assigned
<1>2. a \in Nat /\ a <= c.born /\ c.born \in Nat /\ c.agent[a] \in AgentNodes
      /\ \A x \in Agents : x \in Nat
  BY <1>1, Numbers
<1>3. c.agent[a].parent \in Nat
  BY <1>2 DEF AgentNodes, None
<1>4. c.agent[a].parent <= c.born
  BY <1>1, <1>2, <1>3
<1>5. QED
  BY <1>1, <1>4 DEF Parental, Family

(* What a step settles while events are routed: the task of "a", and it    *)
(* tells "a"'s parent, or one retired since.                               *)
LEMMA RoutingSettles ==
  ASSUME NEW c, NEW d, NEW k, NEW q, NEW a \in c.live, Routing(c, q), Keeps(c, d, {}, k),
         StatusOf(c, a) = "running",
         k.settled \subseteq {c.agent[a].task}, k.growing = {}, k.waking = {},
         \A p \in k.told : Parental(c, p),
         \/ /\ \A i \in DOMAIN q : Sent(q[i]) => q[i].from # a
            /\ \A i \in DOMAIN c.mailbox : Sent(c.mailbox[i]) => c.mailbox[i].from # a
         \/ c.agent[a].task \in d.abandoned /\ a \notin d.live
  PROVE  Routing(d, q)
<1>1. House(c, {}) /\ c.abandoned \subseteq d.abandoned
      /\ q \in Seq(Messages) /\ c.mailbox \in Seq(Messages)
      /\ (\A i \in DOMAIN q : Standing(c, q[i]))
      /\ (\A i \in DOMAIN c.mailbox : Standing(c, c.mailbox[i]))
  BY DEF Routing, InOrder, Keeps, Carries
<1>2. \A i \in DOMAIN q : q[i] \in Messages
  BY <1>1
<1>3. \A i \in DOMAIN c.mailbox : c.mailbox[i] \in Messages
  BY <1>1
<1>4. ASSUME NEW i \in DOMAIN q PROVE Spared(c, d, k, q[i])
  <2>1. (Sent(q[i]) => q[i].from # a) \/ (c.agent[a].task \in d.abandoned /\ a \notin d.live)
    OBVIOUS
  <2>2. q[i] \in Messages /\ Standing(c, q[i])
    BY <1>1, <1>2
  <2>3. QED
    BY <1>1, <2>1, <2>2, SettledSpared
<1>5. ASSUME NEW i \in DOMAIN c.mailbox PROVE Spared(c, d, k, c.mailbox[i])
  <2>1. (Sent(c.mailbox[i]) => c.mailbox[i].from # a)
          \/ (c.agent[a].task \in d.abandoned /\ a \notin d.live)
    OBVIOUS
  <2>2. c.mailbox[i] \in Messages /\ Standing(c, c.mailbox[i])
    BY <1>1, <1>3
  <2>3. QED
    BY <1>1, <2>1, <2>2, SettledSpared
<1>6. QED
  BY <1>4, <1>5, RoutingStays

LEMMA RoutingTail ==
  ASSUME NEW c, NEW q, Routing(c, q), q # <<>>
  PROVE  /\ Routing(c, Tail(q)) /\ Head(q) \in Messages /\ Standing(c, Head(q))
         /\ House(c, {}) /\ Tail(q) \in Seq(Messages) /\ c.mailbox \in Seq(Messages)
         /\ Sent(Head(q)) /\ Head(q).from \in c.live =>
              /\ \A i \in DOMAIN Tail(q) : Sent(Tail(q)[i]) => Tail(q)[i].from # Head(q).from
              /\ \A i \in DOMAIN c.mailbox :
                   Sent(c.mailbox[i]) => c.mailbox[i].from # Head(q).from
         /\ Head(q).type = "spawn" /\ Head(q).from \in c.live =>
              \A i \in DOMAIN Tail(q) :
                Tail(q)[i].type = "notification" => Tail(q)[i].to # Head(q).from
         /\ Head(q).type = "notification" =>
              \A i \in DOMAIN c.mailbox :
                Sent(c.mailbox[i]) /\ c.mailbox[i].from \in c.live
                  => c.mailbox[i].from # Head(q).to
<1> DEFINE s == Tail(q)
           r == c.mailbox
<1>1. House(c, {}) /\ InOrder(c, q, r) /\ Quiet(c, q, r) /\ q \in Seq(Messages)
  BY DEF Routing, InOrder
<1>2. 1 \in DOMAIN q /\ Head(q) = q[1]
  BY <1>1
<1>3. /\ InOrder(c, s, r) /\ Head(q) \in Messages /\ Standing(c, Head(q))
      /\ Sent(Head(q)) /\ Head(q).from \in c.live =>
           /\ \A i \in DOMAIN s : Sent(s[i]) => s[i].from # Head(q).from
           /\ \A i \in DOMAIN r : Sent(r[i]) => r[i].from # Head(q).from
      /\ Head(q).type = "spawn" /\ Head(q).from \in c.live =>
           \A i \in DOMAIN s : s[i].type = "notification" => s[i].to # Head(q).from
      /\ \A i \in DOMAIN s : \E j \in DOMAIN q : s[i] = q[j]
  <2> HIDE DEF r
  <2>1. InOrder(c, q, r) /\ q # <<>>
    BY <1>1
  <2>2. InOrder(c, s, r) /\ Head(q) \in Messages /\ Standing(c, Head(q))
    BY <2>1, TailInOrder
  <2>3. Sent(Head(q)) /\ Head(q).from \in c.live =>
           /\ \A i \in DOMAIN s : Sent(s[i]) => s[i].from # Head(q).from
           /\ \A i \in DOMAIN r : Sent(r[i]) => r[i].from # Head(q).from
    <3>1. ASSUME Sent(Head(q)), Head(q).from \in c.live, NEW i \in DOMAIN Tail(q), Sent(Tail(q)[i])
          PROVE  Tail(q)[i].from # Head(q).from
      BY <2>1, <3>1, TailInOrder
    <3>2. ASSUME Sent(Head(q)), Head(q).from \in c.live, NEW i \in DOMAIN r, Sent(r[i])
          PROVE  r[i].from # Head(q).from
      BY <1>1, <1>2, <3>2 DEF InOrder, Distinct
    <3>3. QED
      BY <3>1, <3>2
  <2>4. Head(q).type = "spawn" /\ Head(q).from \in c.live =>
           \A i \in DOMAIN s : s[i].type = "notification" => s[i].to # Head(q).from
    BY <2>1, TailInOrder
  <2>5. \A i \in DOMAIN s : i + 1 \in DOMAIN q /\ s[i] = q[i + 1]
    BY <1>1
  <2> HIDE DEF s, r
  <2>6. QED
    BY <2>2, <2>3, <2>4, <2>5
<1> HIDE DEF s, r
<1>4. Quiet(c, s, r)
  BY <1>1, <1>3 DEF Quiet
<1>5. Head(q).type = "notification" =>
        \A i \in DOMAIN r : Sent(r[i]) /\ r[i].from \in c.live => r[i].from # Head(q).to
  BY <1>1, <1>2 DEF Quiet
<1>6. Routing(c, s)
  BY <1>1, <1>3, <1>4 DEF Routing, r
<1>7. s \in Seq(Messages) /\ r \in Seq(Messages)
  BY <1>3 DEF InOrder
<1>8. QED
  BY <1>1, <1>3, <1>5, <1>6, <1>7 DEF s, r

LEMMA CompletionRouted ==
  ASSUME NEW c, NEW q, Routing(c, q), q # <<>>, Head(q).type = "completion",
         Head(q).task \notin c.abandoned,
         NEW verdict \in {"promote", "warn", "execute"}, NEW repeated, NEW over, NEW fate
  PROVE  /\ Routing(HandleCompletion(c, Head(q), verdict, repeated, over, fate), Tail(q))
         /\ Forward(c, HandleCompletion(c, Head(q), verdict, repeated, over, fate))
         /\ Reporting(c, Head(q))
<1> DEFINE e == Head(q)
           a == e.from
           s == Tail(q)
           d == HandleCompletion(c, e, verdict, repeated, over, fate)
           k == [settled |-> {e.task}, told |-> {c.agent[a].parent}, growing |-> {},
                 waking |-> {}, adding |-> {}]
<1>1. /\ Routing(c, s) /\ e \in Messages /\ Standing(c, e) /\ House(c, {}) /\ Sent(e)
      /\ a \in c.live =>
           /\ \A i \in DOMAIN s : Sent(s[i]) => s[i].from # a
           /\ \A i \in DOMAIN c.mailbox : Sent(c.mailbox[i]) => c.mailbox[i].from # a
  BY RoutingTail DEF Sent
<1>2. /\ k.settled = {e.task} /\ k.told = {c.agent[a].parent} /\ k.growing = {}
      /\ k.waking = {} /\ k.adding = {}
  OBVIOUS
<1> HIDE DEF k
<1>3. e.type \in {"completion", "failure"} /\ e.task \notin c.abandoned
  OBVIOUS
<1> HIDE DEF e, s
<1>4. Reporting(c, e)
  BY <1>1, <1>3, SenderReports
<1>5. e.task \in k.settled /\ (c.agent[e.from].parent # None => c.agent[e.from].parent \in k.told)
  BY <1>2
<1>6. Keeps(c, d, {}, k)
  BY <1>1, <1>4, <1>5, CompletionHandled
<1>7. a \in c.live /\ c.agent[a].task = e.task /\ StatusOf(c, a) = "running"
  BY <1>4 DEF Reporting
<1>8. Parental(c, c.agent[a].parent)
  BY <1>1, <1>7, ParentIsParental
<1> HIDE DEF d, a
<1>9. k.settled \subseteq {c.agent[a].task} /\ \A p \in k.told : Parental(c, p)
  BY <1>2, <1>7, <1>8
<1>10. Routing(d, s)
  BY <1>1, <1>2, <1>6, <1>7, <1>9, RoutingSettles
<1>11. Forward(c, d)
  BY <1>2, <1>6, <1>7, KeepsForward DEF StatusOf
<1>12. QED
  BY <1>4, <1>10, <1>11 DEF d, e, s

LEMMA FailureRouted ==
  ASSUME NEW c, NEW q, Routing(c, q), q # <<>>, Head(q).type = "failure",
         Head(q).task \notin c.abandoned, NEW converts, NEW fate
  PROVE  /\ Routing(HandleFailure(c, Head(q), converts, fate), Tail(q))
         /\ Forward(c, HandleFailure(c, Head(q), converts, fate))
<1> DEFINE e == Head(q)
           a == e.from
           s == Tail(q)
           d == HandleFailure(c, e, converts, fate)
           k == [settled |-> {e.task}, told |-> {e.parent} \ {None}, growing |-> {},
                 waking |-> {}, adding |-> {}]
<1>1. /\ Routing(c, s) /\ e \in Messages /\ Standing(c, e) /\ House(c, {}) /\ Sent(e)
      /\ a \in c.live =>
           /\ \A i \in DOMAIN s : Sent(s[i]) => s[i].from # a
           /\ \A i \in DOMAIN c.mailbox : Sent(c.mailbox[i]) => c.mailbox[i].from # a
  BY RoutingTail DEF Sent
<1>2. /\ k.settled = {e.task} /\ k.told = {e.parent} \ {None} /\ k.growing = {}
      /\ k.waking = {} /\ k.adding = {}
  OBVIOUS
<1> HIDE DEF k
<1>3. e.type \in {"completion", "failure"} /\ e.type = "failure" /\ e.task \notin c.abandoned
  OBVIOUS
<1> HIDE DEF e, s
<1>4. Reporting(c, e)
  BY <1>1, <1>3, SenderReports
<1>5. e.task \in k.settled /\ (e.parent # None => e.parent \in k.told)
  BY <1>2
<1>6. Keeps(c, d, {}, k)
  BY <1>1, <1>3, <1>5, FailureHandled
<1>7. a \in c.live /\ c.agent[a].task = e.task /\ StatusOf(c, a) = "running"
  BY <1>4 DEF Reporting
<1>8. e.parent # None => Parental(c, e.parent)
  <2>1. Parental(c, c.agent[a].parent)
    BY <1>1, <1>7, ParentIsParental
  <2>2. /\ e.parent <= c.born
        /\ e.parent = c.agent[a].parent \/ e.parent \notin c.live \cup {None}
    BY <1>1, <1>3 DEF Standing
  <2>3. QED
    BY <2>1, <2>2 DEF Parental
<1> HIDE DEF d, a
<1>9. k.settled \subseteq {c.agent[a].task} /\ \A p \in k.told : Parental(c, p)
  BY <1>2, <1>7, <1>8
<1>10. Routing(d, s)
  BY <1>1, <1>2, <1>6, <1>7, <1>9, RoutingSettles
<1>11. Forward(c, d)
  BY <1>2, <1>6, <1>7, KeepsForward DEF StatusOf
<1>12. QED
  BY <1>10, <1>11 DEF d, e, s

LEMMA NotificationRouted ==
  ASSUME NEW c, NEW q, Routing(c, q), q # <<>>, Head(q).type = "notification", NEW over
  PROVE  /\ Routing(HandleNotification(c, Head(q), over), Tail(q))
         /\ Forward(c, HandleNotification(c, Head(q), over))
<1> DEFINE e == Head(q)
           p == e.to
           s == Tail(q)
           d == HandleNotification(c, e, over)
           k == [settled |-> {}, told |-> {}, growing |-> {}, waking |-> {p}, adding |-> {}]
           m == [settled |-> {c.agent[p].task}, told |-> {c.agent[p].parent}, growing |-> {},
                 waking |-> {}, adding |-> {}]
<1>1. /\ Routing(c, s) /\ e \in Messages /\ Standing(c, e) /\ House(c, {})
      /\ e.type = "notification"
      /\ \A i \in DOMAIN c.mailbox :
           Sent(c.mailbox[i]) /\ c.mailbox[i].from \in c.live => c.mailbox[i].from # p
  BY RoutingTail
<1>2. /\ k.settled = {} /\ k.told = {} /\ k.growing = {} /\ k.waking = {p} /\ k.adding = {}
  OBVIOUS
<1>3. /\ m.settled = {c.agent[p].task} /\ m.told = {c.agent[p].parent} /\ m.growing = {}
      /\ m.waking = {} /\ m.adding = {}
  OBVIOUS
<1> HIDE DEF k, m, e, s
<1>4. p \in k.waking
  BY <1>2
<1>5. \/ Keeps(c, d, {}, k)
      \/ p \in c.live /\ StatusOf(c, p) = "running" /\ d = StopAtCeiling(c, p)
  BY <1>1, <1>4, NotificationHandled
<1>6. CASE Keeps(c, d, {}, k)
  <2>1. p \in c.live => c.agent[p].role = "decomposer"
    BY <1>1 DEF Standing
  <2>2. InOrder(c, s, c.mailbox)
    BY <1>1 DEF Routing
  <2>3. ASSUME NEW f \in Messages, Standing(c, f) PROVE Spared(c, d, k, f)
    <3>1. ASSUME Sent(f), f.from \in d.live PROVE f.from \in c.live
      <4>1. f.from \in Agents /\ f.from <= c.born
        BY <2>3, <3>1, MessageFields DEF Standing
      <4>2. f.from \in Nat
        BY <1>1, <4>1, Numbers DEF House
      <4>3. QED
        BY <1>1, <1>6, <3>1, <4>1, <4>2, SameLive
    <3>2. QED
      BY <1>2, <2>1, <3>1 DEF Spared
  <2>4. \A i \in DOMAIN s : Spared(c, d, k, s[i])
    BY <2>2, <2>3 DEF InOrder
  <2>5. \A i \in DOMAIN c.mailbox : Spared(c, d, k, c.mailbox[i])
    BY <2>2, <2>3 DEF InOrder
  <2>6. ASSUME NEW i \in DOMAIN c.mailbox, Sent(c.mailbox[i]), c.mailbox[i].from \in d.live
        PROVE  c.mailbox[i].from \notin k.waking
    <3>1. c.mailbox[i] \in Messages /\ Standing(c, c.mailbox[i])
      BY <2>2 DEF InOrder
    <3>2. c.mailbox[i].from \in Agents /\ c.mailbox[i].from <= c.born
      BY <2>6, <3>1, MessageFields DEF Standing
    <3>3. c.mailbox[i].from \in Nat
      BY <1>1, <3>2, Numbers DEF House
    <3>4. c.mailbox[i].from \in c.live
      BY <1>1, <1>6, <2>6, <3>2, <3>3, SameLive
    <3>5. QED
      BY <1>1, <1>2, <2>6, <3>4
  <2>7. \A x \in k.told : Parental(c, x)
    BY <1>2
  <2> HIDE DEF d
  <2>8. Routing(d, s)
    BY <1>1, <1>6, <2>4, <2>5, <2>6, <2>7, RoutingStays
  <2>9. Forward(c, d)
    BY <1>2, <1>6, KeepsForward
  <2>10. QED
    BY <2>8, <2>9 DEF d, e, s
<1>7. CASE p \in c.live /\ StatusOf(c, p) = "running" /\ d = StopAtCeiling(c, p)
  <2> HIDE DEF d
  <2>1. /\ c.agent[p].task \in m.settled
        /\ c.agent[p].parent # None => c.agent[p].parent \in m.told
    BY <1>3
  <2>2. Keeps(c, d, {}, m) /\ p \notin d.live /\ c.agent[p].task \in d.abandoned
    BY <1>1, <1>7, <2>1, StopKeeps
  <2>3. Parental(c, c.agent[p].parent)
    BY <1>1, <1>7, ParentIsParental
  <2>4. m.settled \subseteq {c.agent[p].task} /\ \A x \in m.told : Parental(c, x)
    BY <1>3, <2>3
  <2> HIDE DEF p
  <2>5. Routing(d, s)
    BY <1>1, <1>3, <1>7, <2>2, <2>4, RoutingSettles
  <2>6. Forward(c, d)
    BY <1>3, <1>7, <2>2, KeepsForward DEF StatusOf
  <2>7. QED
    BY <2>5, <2>6 DEF d, e, s
<1>8. QED
  BY <1>5, <1>6, <1>7

LEMMA SpawnRouted ==
  ASSUME NEW c, NEW q, Routing(c, q), q # <<>>, Head(q).type = "spawn",
         NEW kept \in SUBSET DOMAIN Head(q).batch, NEW ruling, ruling # "screened",
         c.made + Len(Head(q).batch) <= MaxTasks
  PROVE  /\ Routing(HandleSpawn(c, Head(q), kept, ruling), Tail(q))
         /\ Forward(c, HandleSpawn(c, Head(q), kept, ruling))
<1> DEFINE e == Head(q)
           p == e.from
           s == Tail(q)
           r == c.mailbox
           d == HandleSpawn(c, e, kept, ruling)
           k == [settled |-> {}, told |-> {x \in {p} : Parental(c, x)}, growing |-> {p},
                 waking |-> {p}, adding |-> Tasks]
<1>1. /\ Routing(c, s) /\ e \in Messages /\ Standing(c, e) /\ House(c, {}) /\ Sent(e)
      /\ e.type = "spawn" /\ kept \in SUBSET DOMAIN e.batch
      /\ c.made + Len(e.batch) <= MaxTasks
  BY RoutingTail DEF Sent
<1>2. p \in c.live =>
           /\ \A i \in DOMAIN s : Sent(s[i]) => s[i].from # p
           /\ \A i \in DOMAIN r : Sent(r[i]) => r[i].from # p
  BY RoutingTail DEF Sent
<1>3. p \in c.live => \A i \in DOMAIN s : s[i].type = "notification" => s[i].to # p
  BY RoutingTail
<1>4. /\ k.settled = {} /\ k.told = {x \in {p} : Parental(c, x)} /\ k.growing = {p}
      /\ k.waking = {p} /\ k.adding = Tasks
  OBVIOUS
<1> HIDE DEF k, e, s
<1>5. p \in Agents /\ p <= c.born /\ p \in Nat
  <2>1. p \in Agents /\ p <= c.born
    BY <1>1, MessageFields DEF Standing
  <2>2. QED
    BY <1>1, <2>1, Numbers DEF House
<1>6. /\ (e.from \in c.live => c.agent[e.from].role = "decomposer") => e.from \in k.told
      /\ e.from \in k.growing /\ e.from \in k.waking /\ Tasks \subseteq k.adding
  BY <1>1, <1>4, <1>5 DEF Parental, Standing
<1>7. Ends(c, d, k, p)
  BY <1>1, <1>4, <1>6, SpawnHandled
<1> HIDE DEF d, p
<1>8. InOrder(c, s, r) /\ Quiet(c, s, r)
  BY <1>1 DEF Routing
<1>9. ASSUME NEW b, Keeps(c, b, {}, k)
      PROVE  /\ Routing(b, s)
             /\ Forward(c, b)
             /\ p \in b.live => p \in c.live
  <2>1. p \in b.live => p \in c.live
    BY <1>1, <1>5, <1>9, SameLive
  <2>2. ASSUME NEW f \in Messages, Standing(c, f), p \in c.live => (Sent(f) => f.from # p)
        PROVE  Spared(c, b, k, f)
    BY <1>4, <2>1, <2>2 DEF Spared
  <2>3. \A i \in DOMAIN s : Spared(c, b, k, s[i])
    BY <1>2, <1>8, <2>2 DEF InOrder
  <2>4. \A i \in DOMAIN r : Spared(c, b, k, r[i])
    BY <1>2, <1>8, <2>2 DEF InOrder
  <2>5. \A x \in k.told : Parental(c, x)
    BY <1>4
  <2>6. \A i \in DOMAIN r : Sent(r[i]) /\ r[i].from \in b.live => r[i].from \notin k.waking
    BY <1>2, <1>4, <2>1
  <2>7. Routing(b, s)
    BY <1>1, <1>9, <2>3, <2>4, <2>5, <2>6, RoutingStays
  <2>8. Forward(c, b)
    BY <1>4, <1>9, KeepsForward
  <2>9. QED
    BY <2>1, <2>7, <2>8
<1>10. CASE Keeps(c, d, {}, k)
  BY <1>9, <1>10 DEF d, e, s
<1>11. ASSUME NEW b, NEW big \in BOOLEAN, Keeps(c, b, {}, k), Failing(b, p),
              d = Push(b, FailureRequest(b, p, big, FALSE))
       PROVE  Routing(d, s) /\ Forward(c, d)
  <2>1. Routing(b, s) /\ Forward(c, b) /\ p \in c.live
    BY <1>9, <1>11 DEF Failing
  <2>2. \A j \in DOMAIN b.mailbox : Sent(b.mailbox[j]) =>
           /\ j \in DOMAIN r /\ b.mailbox[j] = r[j]
           /\ b.mailbox[j].from \in Agents
           /\ b.mailbox[j].from \in b.live => b.mailbox[j].from \in c.live
    BY <1>1, <1>8, <1>11, SentBefore
  <2>3. \A j \in DOMAIN b.mailbox : Sent(b.mailbox[j]) => b.mailbox[j].from # p
    BY <1>2, <2>1, <2>2
  <2>4. /\ \A i \in DOMAIN s : Sent(s[i]) => s[i].from # p
        /\ \A i \in DOMAIN s : s[i].type = "notification" => s[i].to # p
    BY <1>2, <1>3, <2>1
  <2>5. Routing(d, s) /\ d.graph = b.graph
    BY <1>11, <2>1, <2>3, <2>4, RoutingPush
  <2>6. QED
    BY <2>1, <2>5 DEF Forward
<1>12. QED
  BY <1>7, <1>10, <1>11 DEF Ends, d, e, s

----------------------------------------------------------------------------
(* The invariant.  A batch that is screened out is handed back with a      *)
(* failure that a respawn may overtake, so that it is only kept by a       *)
(* colony that screens nothing.                                            *)
NoScreening == "screen" \notin Outcomes

OwnerInv ==
  /\ LoopInv
  /\ House(colony, {})
  /\ InOrder(colony, inbox, colony.mailbox)
  /\ phase = "route" => Quiet(colony, inbox, colony.mailbox)
  /\ phase = "run" => Spoken(colony, colony.mailbox, turn)
  /\ phase \in {"tick", "run"} => Settling(colony, turn)

(* The room a handler has is only borrowed.                                *)
LEMMA RoomUnspoiled ==
  ASSUME LoopInv, House(colony, {}), NEW n \in Rooms(colony)
  PROVE  /\ House(WithRoom(n), {}) /\ WithRoom(n).made = colony.made
         /\ WithRoom(n).mailbox = colony.mailbox /\ WithRoom(n).live = colony.live
         /\ WithRoom(n).abandoned = colony.abandoned
         /\ WithRoom(n).agent = colony.agent /\ WithRoom(n).graph = colony.graph
         /\ WithRoom(n).parentTask = colony.parentTask
         /\ \A q : InOrder(colony, q, colony.mailbox) => InOrder(WithRoom(n), q, colony.mailbox)
         /\ \A q : Routing(colony, q) => Routing(WithRoom(n), q)
         /\ Resembles(colony, WithRoom(n), {})
<1> DEFINE c == colony
           d == WithRoom(n)
<1>1. Sound(c) /\ c.room = MaxAgents - c.born /\ c \in Colonies
  BY DEF LoopInv, Steady, Sound
<1>2. Sound(d)
  BY WithRoomFacts
<1>3. d = [c EXCEPT !.room = n]
  BY DEF WithRoom
<1> HIDE DEF d, c
<1>4. /\ d.graph = c.graph /\ d.live = c.live /\ d.born = c.born /\ d.overflow = c.overflow
      /\ d.parentTask = c.parentTask /\ d.made = c.made /\ d.mailbox = c.mailbox
      /\ d.abandoned = c.abandoned /\ d.agent = c.agent /\ c.made \in Nat
      /\ d.attempts = c.attempts
  BY <1>1, <1>3, ColonyFields DEF Colonies
<1>5. Resembles(c, d, {})
  BY <1>4 DEF Resembles, Alike
<1>6. House(c, {})
  BY DEF c
<1>7. /\ House(d, {})
      /\ \A q : InOrder(c, q, c.mailbox) => InOrder(d, q, d.mailbox)
      /\ \A q : Routing(c, q) => Routing(d, q)
  BY <1>2, <1>4, <1>5, <1>6, Unspoiled
<1>8. QED
  BY <1>4, <1>5, <1>7 DEF c, d

LEMMA RefillUnspoiled ==
  ASSUME NEW c, House(c, {})
  PROVE  /\ House(Refill(c), {}) /\ Resembles(c, Refill(c), {})
         /\ Refill(c).mailbox = c.mailbox /\ Refill(c).agent = c.agent
         /\ Refill(c).live = c.live /\ Refill(c).graph = c.graph
         /\ Refill(c).overflow = c.overflow /\ Refill(c).parentTask = c.parentTask
         /\ Refill(c).abandoned = c.abandoned /\ Refill(c).born = c.born
         /\ \A q : InOrder(c, q, c.mailbox) => InOrder(Refill(c), q, c.mailbox)
         /\ \A q : Routing(c, q) => Routing(Refill(c), q)
<1> DEFINE d == Refill(c)
<1>1. Sound(c) /\ c \in Colonies /\ Sound(d)
  BY RefillFields DEF House, Sound
<1>2. d = [c EXCEPT !.room = MaxAgents - c.born]
  BY DEF Refill
<1> HIDE DEF d
<1>3. /\ d.graph = c.graph /\ d.live = c.live /\ d.born = c.born /\ d.overflow = c.overflow
      /\ d.parentTask = c.parentTask /\ d.made = c.made /\ d.mailbox = c.mailbox
      /\ d.abandoned = c.abandoned /\ d.agent = c.agent /\ c.made \in Nat
      /\ d.attempts = c.attempts
  BY <1>1, <1>2, ColonyFields DEF Colonies
<1>4. Resembles(c, d, {})
  BY <1>3 DEF Resembles, Alike
<1>5. /\ House(d, {})
      /\ \A q : InOrder(c, q, c.mailbox) => InOrder(d, q, d.mailbox)
      /\ \A q : Routing(c, q) => Routing(d, q)
  BY <1>1, <1>3, <1>4, Unspoiled
<1>6. QED
  BY <1>3, <1>4, <1>5 DEF d

LEMMA RoutedRouting ==
  ASSUME OwnerInv, NEW type, Routed(type)
  PROVE  /\ Routing(colony, inbox) /\ inbox # <<>> /\ Head(inbox).type = type
         /\ Head(inbox) \in Messages
         /\ \A n \in Rooms(colony) : Routing(WithRoom(n), inbox)
         /\ \A n \in Rooms(colony) : \A d :
              Routing(d, Tail(inbox)) /\ Forward(WithRoom(n), d) /\ LoopInv' /\ Handled(d)
                => OwnerInv' /\ Forward(colony, colony')
<1>1. LoopInv /\ phase = "route" /\ phase' = phase /\ inbox' = Tail(inbox) /\ inbox # <<>>
      /\ Head(inbox).type = type
  BY DEF OwnerInv, Routed
<1>2. Routing(colony, inbox) /\ House(colony, {})
  BY <1>1 DEF OwnerInv, Routing
<1>3. \A n \in Rooms(colony) : Routing(WithRoom(n), inbox)
  BY <1>1, <1>2, RoomUnspoiled
<1>4. ASSUME NEW n \in Rooms(colony), NEW d, Routing(d, Tail(inbox)),
             Forward(WithRoom(n), d), LoopInv', Handled(d)
      PROVE  OwnerInv' /\ Forward(colony, colony')
  <2>1. colony' = Refill(d)
    BY <1>4 DEF Handled, Refill
  <2>2. House(d, {})
    BY <1>4 DEF Routing
  <2>3. Routing(Refill(d), Tail(inbox))
    BY <1>4, <2>2, RefillUnspoiled
  <2>4. (House(colony, {}))' /\ InOrder(colony', inbox', (colony.mailbox)')
        /\ Quiet(colony', inbox', (colony.mailbox)')
    BY <1>1, <2>1, <2>3 DEF Routing
  <2>5. OwnerInv'
    BY <1>1, <1>4, <2>4 DEF OwnerInv
  <2>6. WithRoom(n).graph = colony.graph /\ Refill(d).graph = d.graph
    BY <1>1, <1>2, <2>2, RoomUnspoiled, RefillUnspoiled
  <2>7. QED
    BY <1>4, <2>1, <2>5, <2>6 DEF Forward
<1>5. Head(inbox) \in Messages
  BY <1>2, <1>1, RoutingTail
<1>6. QED
  BY <1>1, <1>2, <1>3, <1>4, <1>5

LEMMA SameForward == \A c, d : d.graph = c.graph => Forward(c, d)
BY DEF Forward

LEMMA DropStaleOwns ==
  ASSUME OwnerInv, DropStale
  PROVE  OwnerInv' /\ Forward(colony, colony')
<1>1. PICK type \in {"completion", "failure"} : Routed(type)
  BY DEF DropStale
<1>2. Routing(colony, inbox) /\ inbox # <<>>
  BY <1>1, RoutedRouting
<1>3. Routing(colony, Tail(inbox))
  BY <1>2, RoutingTail
<1>4. LoopInv'
  BY DropStaleKeeps DEF OwnerInv
<1>5. colony' = colony /\ phase' = phase /\ phase = "route" /\ inbox' = Tail(inbox)
  BY <1>1 DEF DropStale, Routed
<1>6. (House(colony, {}))' /\ InOrder(colony', inbox', (colony.mailbox)')
      /\ Quiet(colony', inbox', (colony.mailbox)')
  BY <1>3, <1>5 DEF Routing
<1>7. QED
  BY <1>4, <1>5, <1>6, SameForward DEF OwnerInv

(* The batches that have been asked for have their ids.                    *)
LEMMA BatchFits ==
  ASSUME LoopInv, Routed("spawn")
  PROVE  colony.made + Len(Head(inbox).batch) <= MaxTasks
<1> DEFINE e == Head(inbox)
<1>1. /\ Steady(colony, inbox) /\ Sound(colony) /\ inbox # <<>>
      /\ e \in Messages /\ e.type = "spawn"
  BY RoutedFacts
<1>2. Requested(inbox) = Requested(Tail(inbox)) + Len(e.batch)
  BY <1>1, RequestedTail DEF Steady
<1>3. Tail(inbox) \in Seq(Messages) /\ colony.mailbox \in Seq(Messages)
  BY <1>1 DEF Steady, Sound, Colonies
<1>4. Requested(Tail(inbox)) \in Nat /\ Requested(colony.mailbox) \in Nat
  BY <1>3, SlotsOf
<1>5. colony.made + Requested(inbox) + Requested(colony.mailbox) <= MaxTasks
      /\ colony.made \in Nat /\ MaxTasks \in Nat
  BY <1>1, BoundsArePositive DEF Steady, Sound, Colonies
<1>6. Len(e.batch) \in Nat
  BY <1>1, BatchLength
<1> HIDE DEF e
<1>7. colony.made + Len(e.batch) <= MaxTasks
  BY <1>2, <1>4, <1>5, <1>6
<1>8. QED
  BY <1>7 DEF e

LEMMA RouteSpawnOwns ==
  ASSUME NoScreening, OwnerInv, RouteSpawn
  PROVE  OwnerInv' /\ Forward(colony, colony')
<1> DEFINE e == Head(inbox)
<1>1. Routed("spawn") /\ LoopInv
  BY DEF RouteSpawn, OwnerInv
<1>2. LoopInv'
  BY <1>1, RouteSpawnKeeps
<1>3. PICK n \in Rooms(colony), ruling \in Rulings(colony, e.from), kept \in Kept(e.batch) :
        Handled(HandleSpawn(WithRoom(n), e, kept, ruling))
  BY DEF RouteSpawn
<1> DEFINE b == WithRoom(n)
           d == HandleSpawn(b, e, kept, ruling)
<1>4. Routing(b, inbox) /\ inbox # <<>> /\ e.type = "spawn"
  BY <1>1, RoutedRouting
<1>5. kept \in SUBSET DOMAIN e.batch /\ ruling # "screened"
  BY DEF Kept, Either, Rulings, NoScreening, May
<1>6. b.made + Len(e.batch) <= MaxTasks
  BY <1>1, <1>3, BatchFits, RoomUnspoiled DEF OwnerInv
<1> HIDE DEF b
<1>7. Routing(d, Tail(inbox)) /\ Forward(b, d)
  BY <1>4, <1>5, <1>6, SpawnRouted
<1>8. Handled(d)
  BY <1>3 DEF b
<1> HIDE DEF d
<1>9. QED
  BY <1>1, <1>2, <1>7, <1>8, RoutedRouting DEF b

LEMMA RouteCompletionOwns ==
  ASSUME OwnerInv, RouteCompletion
  PROVE  OwnerInv' /\ Forward(colony, colony')
<1> DEFINE e == Head(inbox)
<1>1. Routed("completion") /\ LoopInv
  BY DEF RouteCompletion, OwnerInv
<1>2. LoopInv'
  BY <1>1, RouteCompletionKeeps
<1>3. PICK n \in Rooms(colony), verdict \in Verdicts(colony, e),
           repeated \in IF e.from \in colony.live
                          THEN {FALSE, colony.agent[e.from].warned} ELSE {FALSE},
           over \in OverCeiling, fate \in Fates(e.task) :
        Handled(HandleCompletion(WithRoom(n), e, verdict, repeated, over, fate))
  BY DEF RouteCompletion
<1> DEFINE b == WithRoom(n)
           d == HandleCompletion(b, e, verdict, repeated, over, fate)
<1>4. Routing(b, inbox) /\ inbox # <<>> /\ e.type = "completion"
  BY <1>1, RoutedRouting
<1>5. verdict \in {"promote", "warn", "execute"}
  BY DEF Verdicts, Either
<1>6. e.task \notin b.abandoned
  <2>1. e.task \notin colony.abandoned
    BY <1>4 DEF RouteCompletion, Dropped
  <2>2. QED
    BY <1>1, <2>1, RoomUnspoiled DEF OwnerInv
<1> HIDE DEF b
<1>7. Routing(d, Tail(inbox)) /\ Forward(b, d)
  BY <1>4, <1>5, <1>6, CompletionRouted
<1>8. Handled(d)
  BY <1>3 DEF b
<1> HIDE DEF d
<1>9. QED
  BY <1>1, <1>2, <1>7, <1>8, RoutedRouting DEF b

LEMMA RouteFailureOwns ==
  ASSUME OwnerInv, RouteFailure
  PROVE  OwnerInv' /\ Forward(colony, colony')
<1> DEFINE e == Head(inbox)
<1>1. Routed("failure") /\ LoopInv
  BY DEF RouteFailure, OwnerInv
<1>2. LoopInv'
  BY <1>1, RouteFailureKeeps
<1>3. PICK n \in Rooms(colony), converts \in Either("ceiling", {TRUE}, {FALSE}),
           fate \in Fates(e.task) :
        Handled(HandleFailure(WithRoom(n), e, converts, fate))
  BY DEF RouteFailure
<1> DEFINE b == WithRoom(n)
           d == HandleFailure(b, e, converts, fate)
<1>4. Routing(b, inbox) /\ inbox # <<>> /\ e.type = "failure"
  BY <1>1, RoutedRouting
<1>5. e.task \notin b.abandoned
  <2>1. e.task \notin colony.abandoned
    BY <1>4 DEF RouteFailure, Dropped
  <2>2. QED
    BY <1>1, <2>1, RoomUnspoiled DEF OwnerInv
<1> HIDE DEF b
<1>6. Routing(d, Tail(inbox)) /\ Forward(b, d)
  BY <1>4, <1>5, FailureRouted
<1>7. Handled(d)
  BY <1>3 DEF b
<1> HIDE DEF d
<1>8. QED
  BY <1>1, <1>2, <1>6, <1>7, RoutedRouting DEF b

LEMMA RouteNotificationOwns ==
  ASSUME OwnerInv, RouteNotification
  PROVE  OwnerInv' /\ Forward(colony, colony')
<1> DEFINE e == Head(inbox)
<1>1. Routed("notification") /\ LoopInv
  BY DEF RouteNotification, OwnerInv
<1>2. LoopInv'
  BY <1>1, RouteNotificationKeeps
<1>3. PICK n \in Rooms(colony), over \in OverCeiling :
        Handled(HandleNotification(WithRoom(n), e, over))
  BY DEF RouteNotification
<1> DEFINE b == WithRoom(n)
           d == HandleNotification(b, e, over)
<1>4. Routing(b, inbox) /\ inbox # <<>> /\ e.type = "notification"
  BY <1>1, RoutedRouting
<1> HIDE DEF b
<1>5. Routing(d, Tail(inbox)) /\ Forward(b, d)
  BY <1>4, NotificationRouted
<1>6. Handled(d)
  BY <1>3 DEF b
<1> HIDE DEF d
<1>7. QED
  BY <1>1, <1>2, <1>5, <1>6, RoutedRouting DEF b

LEMMA EndRouteOwns ==
  ASSUME OwnerInv, EndRoute
  PROVE  OwnerInv' /\ Forward(colony, colony')
<1>1. LoopInv /\ Steady(colony, inbox) /\ Waiting(colony) = {}
  BY DEF OwnerInv, LoopInv, Steady
<1>2. /\ TG!ReadyTasks(colony.graph) \in SUBSET Tasks
      /\ \A t \in TG!ReadyTasks(colony.graph) : colony.graph.agent[t] # None
  BY <1>1 DEF TG!ReadyTasks, Waiting
<1>3. colony' = colony
  BY <1>2, StartUnassignedIdle DEF EndRoute
<1>4. phase = "route" /\ inbox = <<>> /\ inbox' = inbox /\ turn' = colony.live /\ phase' = "run"
  BY <1>3 DEF EndRoute
<1>5. LoopInv'
  BY <1>1, EndRouteKeeps
<1>6. House(colony, {}) /\ InOrder(colony, inbox, colony.mailbox)
      /\ Quiet(colony, inbox, colony.mailbox)
  BY <1>4 DEF OwnerInv
<1>7. Spoken(colony, colony.mailbox, colony.live)
  BY <1>6 DEF Spoken, Quiet
<1>8. Settling(colony, colony.live)
  BY DEF Settling
<1>9. (House(colony, {}))' /\ InOrder(colony', inbox', (colony.mailbox)')
      /\ Spoken(colony', (colony.mailbox)', turn') /\ Settling(colony', turn')
  BY <1>3, <1>4, <1>6, <1>7, <1>8
<1>10. QED
  BY <1>3, <1>4, <1>5, <1>9, SameForward DEF OwnerInv

LEMMA EndTickOwns ==
  ASSUME OwnerInv, EndTick
  PROVE  OwnerInv' /\ Forward(colony, colony')
<1>1. /\ phase = "run" /\ ToRun = {} /\ turn' = {} /\ colony' = colony /\ inbox' = inbox
      /\ phase' \in {"done", "tick"}
  BY DEF EndTick
<1>2. LoopInv /\ House(colony, {}) /\ InOrder(colony, inbox, colony.mailbox)
      /\ Settling(colony, turn)
  BY <1>1 DEF OwnerInv
<1>3. LoopInv'
  BY <1>1, <1>2, LoopStep DEF Next
<1>4. Settling(colony, {})
  <2>1. \A a \in turn : ~Ready(a)
    BY <1>1 DEF ToRun
  <2>2. QED
    BY <1>2, <2>1 DEF Settling, Ready, StatusOf
<1>5. (House(colony, {}))' /\ InOrder(colony', inbox', (colony.mailbox)')
      /\ Settling(colony', turn')
  BY <1>1, <1>2, <1>4
<1>6. QED
  BY <1>1, <1>3, <1>5, SameForward DEF OwnerInv

(* Agents that cannot have a child. *)
LEMMA LeafChildless ==
  ASSUME NEW c, House(c, {}), NEW a \in c.live,
         \/ StatusOf(c, a) = "pending"
         \/ StatusOf(c, a) = "running" /\ c.agent[a].role # "decomposer"
  PROVE  Childless(c, a)
<1>1. Queued(c) /\ Family(c, {}) /\ Sound(c)
  BY DEF House
<1>2. a \in Agents /\ c.overflow[a] \in Seq(QueuedChildren)
  BY <1>1, Numbers
<1>3. c.overflow[a] = <<>>
  <2>1. \A i \in DOMAIN c.overflow[a] : FALSE
    BY <1>1, <1>2 DEF Queued
  <2>2. QED
    BY <1>2, <2>1, EmptyQueue
<1>4. \A u \in Tasks : c.parentTask[u] # c.agent[a].task
  BY <1>1 DEF Family
<1>5. \A x \in c.live : c.agent[x].parent # a
  BY <1>1 DEF Family
<1>6. QED
  BY <1>3, <1>4, <1>5 DEF Childless

(* What a step that wakes or parks nobody leaves settled.                  *)
LEMMA SettlingStays ==
  ASSUME NEW c, NEW d, NEW k, NEW T, House(c, {}), Keeps(c, d, {}, k), Settling(c, T),
         k.growing = {}, k.waking = {}
  PROVE  Settling(d, T)
<1>1. Carries(c, d, k) /\ Kin(c, d, k.waking) /\ Moves(c, d, k.settled) /\ Assigned(c) /\ Sound(c)
  BY DEF Keeps, Carries, House
<1>2. SUFFICES ASSUME NEW x \in d.live \ T, StatusOf(d, x) = "running", ~d.agent[x].awaiting
               PROVE  Childless(d, x)
  BY DEF Settling
<1>3. CASE x \notin c.live
  BY <1>1, <1>2, <1>3 DEF Carries
<1>4. CASE x \in c.live
  <2>1. d.agent[x].task = c.agent[x].task /\ ~c.agent[x].awaiting
    BY <1>1, <1>2, <1>4 DEF Kin
  <2>2. c.agent[x].task \in Tasks /\ StatusOf(c, x) \in {"pending", "running", "complete"}
    BY <1>1, <1>4, Numbers DEF Assigned
  <2>3. StatusOf(c, x) # "complete"
    BY <1>1, <1>2, <2>1, <2>2 DEF Moves, StatusOf
  <2>4. Childless(c, x)
    <3>1. CASE StatusOf(c, x) = "running"
      BY <1>2, <1>4, <2>1, <3>1 DEF Settling
    <3>2. CASE StatusOf(c, x) = "pending"
      BY <1>4, <3>2, LeafChildless
    <3>3. QED
      BY <2>2, <2>3, <3>1, <3>2
  <2>5. QED
    BY <1>1, <2>4 DEF Carries
<1>5. QED
  BY <1>3, <1>4

(***************************************************************************)
(* An agent's turn                                                         *)
(***************************************************************************)
Mute(c, a) == \A j \in DOMAIN c.mailbox : Sent(c.mailbox[j]) => c.mailbox[j].from # a

(* The colony while "a" has its turn and those in "T" are still to have    *)
(* theirs.                                                                 *)
Turning(c, T) ==
  /\ House(c, {})
  /\ InOrder(c, <<>>, c.mailbox)
  /\ Spoken(c, c.mailbox, T)
  /\ Settling(c, T)

LEMMA TurnHolds ==
  ASSUME OwnerInv, NEW a \in Agents, Turn(a)
  PROVE  /\ House(colony, {}) /\ InOrder(colony, <<>>, colony.mailbox) /\ LoopInv
         /\ a \in colony.live /\ StatusOf(colony, a) = "running" /\ ~colony.agent[a].awaiting
         /\ colony.agent[a] \in AgentNodes
         /\ Mute(colony, a) /\ Spoken(colony, colony.mailbox, turn')
         /\ Settling(colony, turn' \cup {a}) /\ a \notin turn'
         /\ ~MustWait(a) => Childless(colony, a)
         /\ Turning(colony', turn') /\ LoopInv' => OwnerInv'
<1>1. /\ phase = "run" /\ phase' = phase /\ inbox' = inbox /\ a \in turn /\ Ready(a)
      /\ turn' = {b \in turn : b > a} /\ \A b \in ToRun : a <= b
  BY DEF Turn, ToRun
<1>2. /\ LoopInv /\ House(colony, {}) /\ Spoken(colony, colony.mailbox, turn)
      /\ Settling(colony, turn)
  BY <1>1 DEF OwnerInv
<1>3. /\ inbox = <<>> /\ a \in colony.live /\ colony.agent[a] \in AgentNodes
      /\ turn \subseteq colony.live /\ Sound(colony)
  BY <1>1, <1>2, TurnFacts DEF LoopInv
<1>4. StatusOf(colony, a) = "running" /\ ~colony.agent[a].awaiting
  BY <1>1 DEF Ready, StatusOf
<1>5. Mute(colony, a)
  BY <1>1, <1>2, <1>4 DEF Mute, Spoken
<1>6. Spoken(colony, colony.mailbox, turn')
  BY <1>1, <1>2 DEF Spoken
<1>7. a \in Nat /\ \A b \in turn : b \in Nat
  BY <1>3, Numbers
<1>8. a \notin turn'
  BY <1>1, <1>7
<1>9. Settling(colony, turn' \cup {a})
  <2>1. SUFFICES ASSUME NEW b \in colony.live \ (turn' \cup {a}), StatusOf(colony, b) = "running",
                        ~colony.agent[b].awaiting
                 PROVE  Childless(colony, b)
    BY DEF Settling
  <2>2. CASE b \in turn
    <3>1. b \in ToRun
      BY <2>1, <2>2 DEF ToRun, Ready, StatusOf
    <3>2. a <= b /\ b # a /\ b \in Nat
      BY <1>1, <1>7, <2>1, <2>2, <3>1
    <3>3. b > a
      BY <1>7, <3>2
    <3>4. QED
      BY <1>1, <2>1, <2>2, <3>3
  <2>3. CASE b \notin turn
    BY <1>2, <2>1, <2>3 DEF Settling
  <2>4. QED
    BY <2>2, <2>3
<1>10. ASSUME ~MustWait(a) PROVE Childless(colony, a)
  <2>1. CASE colony.agent[a].role # "decomposer"
    BY <1>2, <1>3, <1>4, <2>1, LeafChildless
  <2>2. CASE OpenChildTaskIds(colony, a) = {}
    BY <1>3, <2>2, ChildlessMeans
  <2>3. QED
    BY <1>10, <2>1, <2>2 DEF MustWait
<1>11. ASSUME Turning(colony', turn'), LoopInv' PROVE OwnerInv'
  BY <1>1, <1>3, <1>11 DEF OwnerInv, Turning
<1>12. InOrder(colony, <<>>, colony.mailbox)
  BY <1>3 DEF OwnerInv
<1>13. QED
  BY <1>2, <1>3, <1>4, <1>5, <1>6, <1>8, <1>9, <1>10, <1>11, <1>12

(* The colony in which the record of an agent has become node. *)
Edited(c, a, node) == [c EXCEPT !.agent[a] = node]

LEMMA EditTurns ==
  ASSUME NEW c, NEW T, NEW a \in c.live, NEW node \in AgentNodes, Alike(c.agent[a], node),
         House(c, {}), InOrder(c, <<>>, c.mailbox), Mute(c, a), Spoken(c, c.mailbox, T),
         Settling(c, T \cup {a}), node.awaiting \/ Childless(c, a),
         node.started => c.agent[a].started \/ StatusOf(c, a) # "pending"
  PROVE  LET d == Edited(c, a, node)
         IN /\ Turning(d, T) /\ Mute(d, a) /\ a \in d.live /\ d.agent[a] = node
            /\ StatusOf(d, a) = StatusOf(c, a) /\ d.graph = c.graph
            /\ Childless(c, a) => Childless(d, a)
            /\ d.born = c.born /\ d.mailbox = c.mailbox
<1> DEFINE d == Edited(c, a, node)
           k == [settled |-> {}, told |-> {}, growing |-> {}, waking |-> {a}, adding |-> {}]
<1>1. a \in Agents /\ Sound(c) /\ c.agent \in [Agents -> AgentNodes] /\ c.live \subseteq Agents
  BY Numbers, ColonyFields DEF House, Sound
<1>2. k.settled = {} /\ k.told = {} /\ k.growing = {} /\ k.waking = {a} /\ k.adding = {}
  OBVIOUS
<1> HIDE DEF k
<1>3. a \in k.waking
  BY <1>2
<1>4. /\ Keeps(c, d, {}, k) /\ Resembles(c, d, {a}) /\ d.mailbox = c.mailbox
      /\ d.agent = [c.agent EXCEPT ![a] = node]
  <2>1. Keeps(c, d, {}, k) /\ Resembles(c, d, {a})
    BY <1>1, <1>3, EditKeeps DEF Edited
  <2>2. c \in Colonies
    BY <1>1 DEF Sound
  <2>3. d.mailbox = c.mailbox /\ d.agent = [c.agent EXCEPT ![a] = node]
    BY <2>2 DEF Colonies, Edited
  <2>4. QED
    BY <2>1, <2>3
<1> HIDE DEF d
<1>5. \A i \in DOMAIN c.mailbox : Spared(c, d, k, c.mailbox[i])
  BY <1>2 DEF Mute, Spared
<1>6. InOrder(d, <<>>, d.mailbox)
  BY <1>2, <1>4, <1>5, InOrderStays
<1>7. /\ House(d, {}) /\ \A x \in Agents : Childless(c, x) <=> Childless(d, x)
  BY <1>4, ResemblesHouse DEF Keeps, House
<1>8. d.live = c.live /\ d.graph = c.graph /\ d.born = c.born
  BY <1>4 DEF Resembles
<1>9. d.agent[a] = node /\ \A x \in Agents : x # a => d.agent[x] = c.agent[x]
  BY <1>1, <1>4
<1>10. \A x \in Agents : d.agent[x].task = c.agent[x].task
  BY <1>9 DEF Alike
<1>11. Mute(d, a)
  BY <1>4 DEF Mute
<1>12. Spoken(d, d.mailbox, T)
  <2>1. \A j \in DOMAIN c.mailbox : Sent(c.mailbox[j]) => c.mailbox[j].from \in Agents
    BY MessageFields DEF InOrder
  <2>2. QED
    BY <1>4, <1>9, <2>1 DEF Mute, Spoken
<1>13. Settling(d, T)
  BY <1>1, <1>7, <1>8, <1>9, <1>10 DEF Settling, StatusOf
<1>14. Turning(d, T)
  BY <1>6, <1>7, <1>12, <1>13 DEF Turning
<1>15. QED
  BY <1>1, <1>4, <1>7, <1>8, <1>9, <1>10, <1>11, <1>14 DEF d, StatusOf

LEMMA PushTurns ==
  ASSUME NEW c, NEW T, NEW a, Turning(c, T), Mute(c, a), a \notin T, NEW e \in Messages,
         Sent(e), Standing(c, e), e.from = a
  PROVE  Turning(Push(c, e), T) /\ OnlyPushes(c, Push(c, e))
<1> DEFINE d == Push(c, e)
<1>1. House(c, {}) /\ InOrder(c, <<>>, c.mailbox)
  BY DEF Turning
<1>2. \A i \in DOMAIN c.mailbox : Sent(c.mailbox[i]) => c.mailbox[i].from # e.from
  BY DEF Mute
<1>3. \A i \in DOMAIN <<>> : Sent(<<>>[i]) => <<>>[i].from # e.from
  OBVIOUS
<1>4. /\ House(d, {}) /\ OnlyPushes(c, d) /\ Sound(d) /\ InOrder(d, <<>>, d.mailbox)
      /\ d.mailbox = Append(c.mailbox, e)
  BY <1>1, <1>2, <1>3, PushInOrder
<1> HIDE DEF d
<1>5. c.mailbox \in Seq(Messages)
  BY <1>1 DEF InOrder
<1>6. \A j \in DOMAIN d.mailbox : \/ j \in DOMAIN c.mailbox /\ d.mailbox[j] = c.mailbox[j]
                                  \/ d.mailbox[j] = e
  BY <1>4, <1>5
<1>7. Spoken(d, d.mailbox, T)
  BY <1>4, <1>6 DEF Turning, Spoken, OnlyPushes
<1>8. Settling(d, T)
  <2>1. \A x : Childless(c, x) <=> Childless(d, x)
    BY <1>1, <1>4, PushStands
  <2>2. QED
    BY <1>4, <2>1 DEF Turning, Settling, OnlyPushes, StatusOf
<1>9. QED
  BY <1>4, <1>7, <1>8 DEF Turning, d

(* SPAWN, REPORT and DIE: the record changes, and the event is sent by an  *)
(* agent at work with nothing open below it.                               *)
LEMMA EndedOwns ==
  ASSUME OwnerInv, NEW a \in Agents, Turn(a), NEW node \in AgentNodes,
         Alike(colony.agent[a], node), ~MustWait(a), NEW e \in Messages, Sent(e), e.from = a,
         colony' = Push([colony EXCEPT !.agent[a] = node], e), LoopInv',
         e.type = "spawn" => node.awaiting,
         e.type # "spawn" => e.task = node.task,
         e.type = "failure" => e.role = node.role /\ e.parent = node.parent
  PROVE  OwnerInv' /\ Forward(colony, colony')
<1> DEFINE c == colony
           T == turn'
           d == Edited(c, a, node)
           f == Push(d, e)
<1>1. /\ House(c, {}) /\ InOrder(c, <<>>, c.mailbox) /\ a \in c.live
      /\ StatusOf(c, a) = "running" /\ Mute(c, a) /\ Spoken(c, c.mailbox, T)
      /\ Settling(c, T \cup {a}) /\ a \notin T /\ Childless(c, a)
      /\ Turning(colony', T) /\ LoopInv' => OwnerInv'
  BY TurnHolds
<1>3. colony' = f
  BY DEF Edited
<1> HIDE DEF d, T, f, c
<1>2. /\ Turning(d, T) /\ Mute(d, a) /\ a \in d.live /\ d.agent[a] = node
      /\ StatusOf(d, a) = "running" /\ Childless(d, a) /\ d.graph = c.graph
  <2>1. Alike(c.agent[a], node)
    BY DEF c
  <2>2. node.awaiting \/ Childless(c, a)
    BY <1>1
  <2>3. /\ Turning(d, T) /\ Mute(d, a) /\ a \in d.live /\ d.agent[a] = node
        /\ StatusOf(d, a) = StatusOf(c, a) /\ (Childless(c, a) => Childless(d, a))
        /\ d.graph = c.graph
    BY <1>1, <2>1, <2>2, EditTurns DEF d
  <2>4. QED
    BY <1>1, <2>3
<1>4. House(d, {}) /\ Sound(d) /\ Assigned(d)
  BY <1>2 DEF Turning, House
<1>5. /\ a \in Nat /\ a <= d.born /\ node.parent < a /\ d.born \in Nat
      /\ \A x \in Agents : x \in Nat
  BY <1>2, <1>4, Numbers DEF Assigned
<1>6. node.parent \in Nat
  BY <1>5 DEF AgentNodes, None
<1>7. node.parent <= d.born
  BY <1>5, <1>6
<1>8. Standing(d, e)
  <2>1. e.type \in {"spawn", "completion", "failure", "notification"} /\ e.type # "notification"
    BY MessageFields DEF Sent
  <2>2. CASE e.type = "spawn"
    BY <1>2, <1>5, <2>2 DEF Standing
  <2>3. CASE e.type \in {"completion", "failure"}
    BY <1>2, <1>5, <1>7, <2>3 DEF Standing, StatusOf
  <2>4. QED
    BY <2>1, <2>2, <2>3
<1>9. Turning(f, T) /\ f.graph = d.graph
  BY <1>1, <1>2, <1>8, PushTurns DEF f, OnlyPushes
<1>10. QED
  BY <1>1, <1>2, <1>3, <1>9, SameForward DEF T, c

LEMMA SpawnOwns ==
  ASSUME OwnerInv, NEW a \in Agents, NEW batch \in Batches, Spawn(a, batch)
  PROVE  OwnerInv' /\ Forward(colony, colony')
<1> DEFINE node == [colony.agent[a] EXCEPT !.started = TRUE, !.crashes = 0, !.awaiting = TRUE]
           e == [type |-> "spawn", from |-> a, batch |-> batch]
<1>1. LoopInv /\ Turn(a) /\ ~MustWait(a)
  BY DEF Spawn, RunsAs, OwnerInv
<1>2. Steady(colony, <<>>) /\ colony.agent[a] \in AgentNodes
  BY <1>1, TurnFacts
<1>3. node \in AgentNodes /\ Alike(colony.agent[a], node) /\ node.awaiting
  BY <1>2 DEF AgentNodes, Alike
<1>4. colony' = Push([colony EXCEPT !.agent[a] = node], e)
  <2>1. "agent" \in DOMAIN colony /\ a \in DOMAIN colony.agent
    BY <1>2 DEF Steady, Sound, Colonies
  <2>2. [Ran(a, colony) EXCEPT !.agent[a].crashes = 0, !.agent[a].awaiting = TRUE]
          = [colony EXCEPT !.agent[a] = node]
    BY <2>1 DEF Ran
  <2> HIDE DEF node
  <2>3. QED
    BY <2>2 DEF Spawn
<1>5. e \in Messages /\ e.type = "spawn" /\ e.from = a /\ Sent(e)
  BY DEF Messages, Sent
<1>6. LoopInv'
  BY <1>1, SpawnKeeps
<1> HIDE DEF node, e
<1>7. QED
  BY <1>1, <1>3, <1>4, <1>5, <1>6, EndedOwns

LEMMA ReportOwns ==
  ASSUME OwnerInv, NEW a \in Agents, Report(a)
  PROVE  OwnerInv' /\ Forward(colony, colony')
<1> DEFINE node == [colony.agent[a] EXCEPT !.started = TRUE, !.crashes = 0]
           e == [type |-> "completion", from |-> a, task |-> colony.agent[a].task]
<1>1. LoopInv /\ Turn(a) /\ ~MustWait(a)
  BY DEF Report, RunsAs, OwnerInv
<1>2. Steady(colony, <<>>) /\ colony.agent[a] \in AgentNodes /\ colony.agent[a].task \in Tasks
  BY <1>1, TurnFacts
<1>3. node \in AgentNodes /\ Alike(colony.agent[a], node)
  BY <1>2 DEF AgentNodes, Alike
<1>4. colony' = Push([colony EXCEPT !.agent[a] = node], e)
  <2>1. a \in DOMAIN colony.agent /\ colony \in Colonies
    BY <1>2 DEF Steady, Sound, Colonies
  <2>2. [Ran(a, colony) EXCEPT !.agent[a].crashes = 0] = [colony EXCEPT !.agent[a] = node]
    BY <1>2, <2>1 DEF Ran, Colonies, AgentNodes
  <2> HIDE DEF node
  <2>3. QED
    BY <2>2 DEF Report
<1>5. e \in Messages /\ e.type = "completion" /\ e.from = a /\ Sent(e) /\ e.task = node.task
  BY <1>2, <1>3 DEF Messages, Sent, Alike
<1>6. LoopInv'
  BY <1>1, ReportKeeps
<1> HIDE DEF node, e
<1>7. QED
  BY <1>1, <1>3, <1>4, <1>5, <1>6, EndedOwns

LEMMA DieOwns ==
  ASSUME OwnerInv, NEW a \in Agents, Die(a)
  PROVE  OwnerInv' /\ Forward(colony, colony')
<1> DEFINE node == [colony.agent[a] EXCEPT !.started = TRUE, !.crashes = 0]
<1>1. LoopInv /\ Turn(a) /\ ~MustWait(a)
  BY DEF Die, RunsAs, OwnerInv
<1>2. Steady(colony, <<>>) /\ colony.agent[a] \in AgentNodes /\ a \in colony.live
  BY <1>1, TurnFacts
<1>3. node \in AgentNodes /\ Alike(colony.agent[a], node)
  BY <1>2 DEF AgentNodes, Alike
<1>4. PICK tooLarge \in Either("oversize", {FALSE}, {TRUE}) :
        colony' = Push([Ran(a, colony) EXCEPT !.agent[a].crashes = 0],
                       FailureRequest(colony, a, tooLarge, FALSE))
  BY DEF Die
<1> DEFINE e == FailureRequest(colony, a, tooLarge, FALSE)
<1>5. tooLarge \in BOOLEAN
  BY DEF Either
<1>6. e \in Messages /\ e.type = "failure"
  BY <1>2, <1>5, FailureIsMessage DEF Steady, FailureRequest
<1>7. /\ e.from = a /\ e.task = node.task /\ e.role = node.role /\ e.parent = node.parent
      /\ Sent(e)
  BY <1>3 DEF FailureRequest, Alike, Sent
<1>8. colony' = Push([colony EXCEPT !.agent[a] = node], e)
  <2>1. a \in DOMAIN colony.agent /\ colony \in Colonies
    BY <1>2 DEF Steady, Sound, Colonies
  <2>2. [Ran(a, colony) EXCEPT !.agent[a].crashes = 0] = [colony EXCEPT !.agent[a] = node]
    BY <1>2, <2>1 DEF Ran, Colonies, AgentNodes
  <2> HIDE DEF node, e
  <2>3. QED
    BY <1>4, <2>2 DEF e
<1>9. LoopInv'
  BY <1>1, DieKeeps
<1> HIDE DEF node, e
<1>10. QED
  BY <1>1, <1>3, <1>6, <1>7, <1>8, <1>9, EndedOwns

LEMMA ParkOwns ==
  ASSUME OwnerInv, NEW a \in Agents, Park(a)
  PROVE  OwnerInv' /\ Forward(colony, colony')
<1> DEFINE node == [colony.agent[a] EXCEPT !.awaiting = TRUE]
           c == colony
           T == turn'
           d == Edited(c, a, node)
<1>1. LoopInv' /\ Turn(a)
  BY ParkKeeps DEF Park, OwnerInv
<1>2. /\ House(c, {}) /\ InOrder(c, <<>>, c.mailbox) /\ a \in c.live
      /\ Mute(c, a) /\ Spoken(c, c.mailbox, T) /\ c.agent[a] \in AgentNodes
      /\ Settling(c, T \cup {a})
      /\ Turning(colony', T) /\ LoopInv' => OwnerInv'
  BY <1>1, TurnHolds
<1>3. node \in AgentNodes /\ Alike(c.agent[a], node) /\ node.awaiting
      /\ node.started = c.agent[a].started
  BY <1>2 DEF AgentNodes, Alike
<1>4. colony' = d
  BY DEF Park, Edited
<1> HIDE DEF node
<1>5. Turning(d, T) /\ d.graph = c.graph
  BY <1>2, <1>3, EditTurns
<1> HIDE DEF d
<1>6. QED
  BY <1>1, <1>2, <1>4, <1>5, SameForward


(* What makes room for the queue, or takes it back, is nothing to a turn.  *)
LEMMA TurningSame ==
  ASSUME NEW c, NEW d, NEW T, Turning(c, T), Sound(d), Resembles(c, d, {}),
         d.mailbox = c.mailbox
  PROVE  Turning(d, T)
<1>1. House(c, {}) /\ InOrder(c, <<>>, c.mailbox) /\ Spoken(c, c.mailbox, T) /\ Settling(c, T)
  BY DEF Turning
<1>2. House(d, {}) /\ InOrder(d, <<>>, d.mailbox)
  BY <1>1, Unspoiled
<1>3. \A x \in Agents : Childless(c, x) <=> Childless(d, x)
  BY <1>1, ResemblesHouse
<1>4. /\ d.live = c.live /\ d.graph = c.graph /\ c.live \subseteq Agents
      /\ \A x \in Agents : /\ d.agent[x].task = c.agent[x].task
                           /\ d.agent[x].awaiting = c.agent[x].awaiting
  BY <1>1, Numbers DEF Resembles, Alike, House
<1>5. \A j \in DOMAIN c.mailbox : Sent(c.mailbox[j]) => c.mailbox[j].from \in Agents
  BY <1>1, MessageFields DEF InOrder
<1>6. Spoken(d, d.mailbox, T)
  BY <1>1, <1>4, <1>5 DEF Spoken
<1>7. Settling(d, T)
  BY <1>1, <1>3, <1>4 DEF Settling, StatusOf
<1>8. QED
  BY <1>2, <1>6, <1>7 DEF Turning

LEMMA StopHouse ==
  ASSUME NEW c, House(c, {}), NEW a \in c.live, StatusOf(c, a) = "running"
  PROVE  House(StopAtCeiling(c, a), {})
<1> DEFINE k == [settled |-> {c.agent[a].task}, told |-> {c.agent[a].parent}, growing |-> {},
                 waking |-> {}, adding |-> {}]
<1>1. k.settled = {c.agent[a].task} /\ k.told = {c.agent[a].parent}
  OBVIOUS
<1> HIDE DEF k
<1>2. QED
  BY <1>1, StopKeeps DEF Keeps

(* _enforce_cycle_ceilings after an agent's cycle.                         *)
LEMMA StopTurns ==
  ASSUME NEW c, NEW T, NEW a \in c.live, Turning(c, T), StatusOf(c, a) = "running",
         T \subseteq StopAtCeiling(c, a).live
  PROVE  Turning(StopAtCeiling(c, a), T) /\ Forward(c, StopAtCeiling(c, a))
<1> DEFINE p == c.agent[a].parent
           k == [settled |-> {c.agent[a].task}, told |-> {p}, growing |-> {},
                 waking |-> {}, adding |-> {}]
           d == StopAtCeiling(c, a)
<1>1. House(c, {}) /\ InOrder(c, <<>>, c.mailbox) /\ Spoken(c, c.mailbox, T) /\ Settling(c, T)
  BY DEF Turning
<1>2. k.settled = {c.agent[a].task} /\ k.told = {p} /\ k.growing = {} /\ k.waking = {}
  OBVIOUS
<1> HIDE DEF k
<1>3. /\ Keeps(c, d, {}, k) /\ a \notin d.live /\ c.agent[a].task \in d.abandoned
  BY <1>1, <1>2, StopKeeps
<1>4. T \subseteq d.live
  OBVIOUS
<1> HIDE DEF d
<1>5. Parental(c, p)
  BY <1>1, ParentIsParental
<1>6. c.abandoned \subseteq d.abandoned /\ Kin(c, d, {}) /\ Told(c.mailbox, d.mailbox, k.told)
  BY <1>2, <1>3 DEF Keeps, Carries
<1>7. \A i \in DOMAIN c.mailbox : c.mailbox[i] \in Messages /\ Standing(c, c.mailbox[i])
  BY <1>1 DEF InOrder
<1>8. ASSUME NEW i \in DOMAIN c.mailbox PROVE Spared(c, d, k, c.mailbox[i])
  BY <1>1, <1>2, <1>3, <1>6, <1>7, SettledSpared
<1>9. ASSUME NEW i \in DOMAIN c.mailbox, c.mailbox[i].type = "spawn",
             c.mailbox[i].from \in c.live
      PROVE  c.mailbox[i].from \notin k.told
  <2>1. Childless(c, c.mailbox[i].from)
    BY <1>7, <1>9 DEF Standing
  <2>2. StillOpen(c, c.agent[a].task)
    BY DEF StatusOf, StillOpen
  <2>3. c.mailbox[i].from # p
    BY <2>1, <2>2 DEF Childless
  <2>4. QED
    BY <1>2, <2>3
<1>10. InOrder(d, <<>>, d.mailbox)
  <2>1. \A i \in DOMAIN <<>> : Spared(c, d, k, <<>>[i])
    OBVIOUS
  <2>2. \A x \in k.told : Parental(c, x)
    BY <1>2, <1>5
  <2>3. QED
    BY <1>1, <1>3, <1>8, <1>9, <2>1, <2>2, InOrderStays
<1>11. Spoken(d, d.mailbox, T)
  <2>1. \A j \in DOMAIN d.mailbox : Sent(d.mailbox[j]) =>
          /\ j \in DOMAIN c.mailbox /\ d.mailbox[j] = c.mailbox[j]
          /\ d.mailbox[j].from \in Agents
          /\ d.mailbox[j].from \in d.live => d.mailbox[j].from \in c.live
    BY <1>1, <1>3, SentBefore
  <2>2. QED
    BY <1>1, <1>4, <1>6, <2>1 DEF Spoken, Kin
<1>12. Settling(d, T)
  BY <1>1, <1>2, <1>3, SettlingStays
<1>13. House(d, {})
  BY <1>3 DEF Keeps
<1>14. Forward(c, d)
  BY <1>2, <1>3, KeepsForward DEF StatusOf
<1>15. QED
  BY <1>10, <1>11, <1>12, <1>13, <1>14 DEF Turning, d


(* A cycle ends at the ceiling of its task, or below it.                   *)
LEMMA AfterCycleTurns ==
  ASSUME NEW c, NEW T, NEW a \in c.live, Turning(c, T), StatusOf(c, a) = "running",
         c.room = MaxAgents - c.born, NEW n \in Rooms(c),
         NEW d \in AfterCycle([c EXCEPT !.room = n], a), T \subseteq Refill(d).live
  PROVE  Turning(Refill(d), T) /\ Forward(c, Refill(d))
<1> DEFINE b == [c EXCEPT !.room = n]
           e == Refill(d)
<1>1. House(c, {}) /\ Sound(c) /\ c \in Colonies
  BY DEF Turning, House, Sound
<1>2. Sound(b)
  BY <1>1, RoomEvolves DEF Evolves, Builds
<1>3. /\ b.graph = c.graph /\ b.live = c.live /\ b.born = c.born /\ b.overflow = c.overflow
      /\ b.parentTask = c.parentTask /\ b.made = c.made /\ b.mailbox = c.mailbox
      /\ b.abandoned = c.abandoned /\ b.agent = c.agent /\ c.made \in Nat
      /\ b.attempts = c.attempts
  BY <1>1, ColonyFields DEF Colonies
<1>4. d = b \/ d = StopAtCeiling(b, a)
  BY DEF AfterCycle
<1>5. T \subseteq e.live
  OBVIOUS
<1> HIDE DEF b, e
<1>6. Resembles(c, b, {})
  BY <1>3 DEF Resembles, Alike
<1>7. Turning(b, T)
  BY <1>2, <1>3, <1>6, TurningSame
<1>8. Turning(d, T) /\ Forward(b, d)
  <2>1. CASE d = b
    BY <1>7, <2>1, SameForward
  <2>2. CASE d = StopAtCeiling(b, a)
    <3>1. a \in b.live /\ StatusOf(b, a) = "running"
      BY <1>3 DEF StatusOf
    <3>2. House(b, {})
      BY <1>7 DEF Turning
    <3>3. d.live = e.live
      <4>1. House(d, {})
        BY <2>2, <3>1, <3>2, StopHouse
      <4>2. QED
        BY <4>1, RefillUnspoiled DEF e
    <3>4. QED
      BY <1>5, <1>7, <2>2, <3>1, <3>3, StopTurns
  <2>3. QED
    BY <1>4, <2>1, <2>2
<1>9. House(d, {})
  BY <1>8 DEF Turning
<1>10. Resembles(d, e, {}) /\ e.mailbox = d.mailbox /\ Sound(e) /\ e.graph = d.graph
  BY <1>9, RefillUnspoiled DEF e, House
<1>11. Turning(e, T)
  BY <1>8, <1>10, TurningSame
<1>12. Forward(c, e)
  BY <1>3, <1>8, <1>10 DEF Forward
<1>13. QED
  BY <1>11, <1>12 DEF e


(* run() raises.                                                           *)
LEMMA CrashOwns ==
  ASSUME OwnerInv, NEW a \in Agents, Crash(a)
  PROVE  OwnerInv' /\ Forward(colony, colony')
<1> DEFINE T == turn'
           node == [colony.agent[a] EXCEPT !.crashes = @ + 1]
           crashed == [colony EXCEPT !.agent[a].crashes = @ + 1]
           edited == Edited(colony, a, node)
           given == IF crashed.agent[a].crashes >= MaxConsecutiveCrashes
                      THEN Push(crashed, FailureRequest(crashed, a, FALSE, FALSE))
                      ELSE crashed
<1>1. LoopInv /\ Turn(a) /\ ~MustWait(a) /\ LoopInv'
  BY CrashKeeps DEF Crash, RunsAs, OwnerInv
<1>2. /\ House(colony, {}) /\ InOrder(colony, <<>>, colony.mailbox) /\ a \in colony.live
      /\ StatusOf(colony, a) = "running" /\ Mute(colony, a) /\ colony.agent[a] \in AgentNodes
      /\ Spoken(colony, colony.mailbox, T) /\ Settling(colony, T \cup {a}) /\ a \notin T
      /\ Childless(colony, a) /\ Steady(colony, <<>>)
      /\ (Turning(colony', T) => OwnerInv')
  BY <1>1, TurnHolds, TurnFacts
<1>3. PICK n \in Rooms(colony) : \E c \in AfterCycle([given EXCEPT !.room = n], a) : Handled(c)
  BY DEF Crash
<1>4. node \in AgentNodes /\ node.task = colony.agent[a].task /\ Alike(colony.agent[a], node)
  <2>1. colony.agent[a].crashes + 1 \in Nat
    BY <1>2 DEF AgentNodes
  <2>2. QED
    BY <1>2, <2>1 DEF AgentNodes, Alike
<1>5. crashed = [colony EXCEPT !.agent[a] = node]
  BY <1>2, Zenon
<1>6. crashed = edited
  BY <1>5 DEF Edited
<1> HIDE DEF node, crashed, T
<1>7. Steady(crashed, <<>>) /\ crashed.live = colony.live /\ crashed.born = colony.born
  <2> DEFINE z == [colony EXCEPT !.agent[a] = node]
  <2>1. Steady(z, <<>>) /\ z.live = colony.live /\ z.born = colony.born
    BY <1>2, <1>4, EditSteady
  <2> HIDE DEF z
  <2>2. crashed = z
    BY <1>5 DEF z
  <2>3. QED
    BY <2>1, <2>2
<1> HIDE DEF edited
<1>8. Turning(edited, T) /\ Mute(edited, a) /\ a \in edited.live /\ edited.agent[a] = node
      /\ StatusOf(edited, a) = StatusOf(colony, a) /\ edited.graph = colony.graph
      /\ (Childless(colony, a) => Childless(edited, a))
  BY <1>2, <1>4, EditTurns DEF edited
<1>9. Turning(crashed, T) /\ Mute(crashed, a) /\ a \in crashed.live
      /\ StatusOf(crashed, a) = "running" /\ Childless(crashed, a)
      /\ crashed.graph = colony.graph
  BY <1>2, <1>6, <1>8
<1> DEFINE e == FailureRequest(crashed, a, FALSE, FALSE)
<1>10. e \in Messages /\ Sent(e) /\ Standing(crashed, e) /\ e.from = a /\ e.type = "failure"
  <2>1. House(crashed, {}) /\ FALSE \in BOOLEAN
    BY <1>9 DEF Turning
  <2>2. QED
    BY <1>9, <2>1, FailingStands
<1> HIDE DEF e
<1> DEFINE pushed == Push(crashed, e)
<1>11. Turning(pushed, T) /\ OnlyPushes(crashed, pushed)
  BY <1>2, <1>9, <1>10, PushTurns
<1>12. Steady(pushed, <<>>)
  BY <1>7, <1>10, PushSteady
<1>13. given = crashed \/ given = pushed
  BY DEF e
<1> HIDE DEF given, pushed
<1>14. Turning(given, T) /\ a \in given.live /\ StatusOf(given, a) = "running"
       /\ Steady(given, <<>>) /\ given.born = colony.born /\ given.graph = colony.graph
  BY <1>7, <1>9, <1>11, <1>12, <1>13 DEF OnlyPushes, StatusOf
<1>15. n \in Rooms(given) /\ given.room = MaxAgents - given.born
  BY <1>14 DEF Rooms, Either, Steady
<1>16. PICK c \in AfterCycle([given EXCEPT !.room = n], a) : Handled(c)
  BY <1>3
<1>17. colony' = Refill(c)
  BY <1>16 DEF Handled, Refill
<1>18. T \subseteq Refill(c).live
  BY <1>1, <1>17 DEF LoopInv, T
<1>19. Turning(Refill(c), T) /\ Forward(given, Refill(c))
  BY <1>14, <1>15, <1>18, AfterCycleTurns
<1>20. QED
  BY <1>2, <1>14, <1>17, <1>19 DEF Forward


(* A cycle that thinks and does nothing else.                              *)
LEMMA ThinkOwns ==
  ASSUME OwnerInv, NEW a \in Agents, Think(a)
  PROVE  OwnerInv' /\ Forward(colony, colony')
<1> DEFINE T == turn'
           node == [colony.agent[a] EXCEPT !.started = TRUE, !.crashes = 0, !.cycles = @ + 1]
           thought == [Ran(a, colony) EXCEPT !.agent[a].crashes = 0,
                                             !.agent[a].cycles = @ + 1]
           edited == Edited(colony, a, node)
<1>1. LoopInv /\ Turn(a) /\ ~MustWait(a) /\ LoopInv'
  BY ThinkKeeps DEF Think, RunsAs, OwnerInv
<1>2. /\ House(colony, {}) /\ InOrder(colony, <<>>, colony.mailbox) /\ a \in colony.live
      /\ StatusOf(colony, a) = "running" /\ Mute(colony, a) /\ colony.agent[a] \in AgentNodes
      /\ Spoken(colony, colony.mailbox, T) /\ Settling(colony, T \cup {a}) /\ a \notin T
      /\ Childless(colony, a) /\ Steady(colony, <<>>)
      /\ (Turning(colony', T) => OwnerInv')
  BY <1>1, TurnHolds, TurnFacts
<1>3. PICK n \in Rooms(colony) :
        \E c \in AfterCycle([thought EXCEPT !.room = n], a) : Handled(c)
  BY Zenon DEF Think
<1>4. node \in AgentNodes /\ node.task = colony.agent[a].task /\ Alike(colony.agent[a], node)
  <2>1. colony.agent[a].cycles + 1 \in Nat
    BY <1>2 DEF AgentNodes
  <2>2. QED
    BY <1>2, <2>1 DEF AgentNodes, Alike
<1>5. thought = [colony EXCEPT !.agent[a] = node]
  <2>1. "agent" \in DOMAIN colony /\ a \in DOMAIN colony.agent
    BY <1>2 DEF Steady, Sound, Colonies
  <2> DEFINE first == [colony.agent[a] EXCEPT !.started = TRUE]
             ran == [colony EXCEPT !.agent[a] = first]
             second == [first EXCEPT !.crashes = 0, !.cycles = @ + 1]
  <2>2. Ran(a, colony) = ran
    BY <2>1 DEF Ran
  <2>3. ran.agent[a] = first /\ [ran EXCEPT !.agent[a] = second] = [colony EXCEPT !.agent[a] = second]
        /\ "agent" \in DOMAIN ran /\ a \in DOMAIN ran.agent
    <3> HIDE DEF first, second
    <3>1. QED
      BY <2>1
  <2>4. [ran EXCEPT !.agent[a].crashes = 0, !.agent[a].cycles = @ + 1]
          = [ran EXCEPT !.agent[a] = second]
    <3> HIDE DEF ran, first
    <3>1. QED
      BY <2>3
  <2>5. second = node
    <3>1. {"started", "crashes", "cycles"} \subseteq DOMAIN colony.agent[a]
      BY <1>2 DEF AgentNodes
    <3>2. QED
      BY <3>1
  <2> HIDE DEF ran, second, node
  <2>6. QED
    BY <2>2, <2>3, <2>4, <2>5
<1>6. thought = edited
  BY <1>5 DEF Edited
<1> HIDE DEF node, thought, T
<1>7. Steady(thought, <<>>) /\ thought.live = colony.live /\ thought.born = colony.born
  <2> DEFINE z == [colony EXCEPT !.agent[a] = node]
  <2>1. Steady(z, <<>>) /\ z.live = colony.live /\ z.born = colony.born
    BY <1>2, <1>4, EditSteady
  <2> HIDE DEF z
  <2>2. thought = z
    BY <1>5 DEF z
  <2>3. QED
    BY <2>1, <2>2
<1> HIDE DEF edited
<1>8. Turning(edited, T) /\ Mute(edited, a) /\ a \in edited.live /\ edited.agent[a] = node
      /\ StatusOf(edited, a) = StatusOf(colony, a) /\ edited.graph = colony.graph
      /\ (Childless(colony, a) => Childless(edited, a))
  BY <1>2, <1>4, EditTurns DEF edited
<1>9. Turning(thought, T) /\ a \in thought.live /\ StatusOf(thought, a) = "running"
      /\ thought.graph = colony.graph
  BY <1>2, <1>6, <1>8
<1>10. n \in Rooms(thought) /\ thought.room = MaxAgents - thought.born
  BY <1>7 DEF Rooms, Either, Steady
<1>11. PICK c \in AfterCycle([thought EXCEPT !.room = n], a) : Handled(c)
  BY <1>3
<1>12. colony' = Refill(c)
  BY <1>11 DEF Handled, Refill
<1>13. T \subseteq Refill(c).live
  BY <1>1, <1>12 DEF LoopInv, T
<1>14. Turning(Refill(c), T) /\ Forward(thought, Refill(c))
  BY <1>9, <1>10, <1>13, AfterCycleTurns
<1>15. QED
  BY <1>2, <1>9, <1>12, <1>14 DEF Forward


(***************************************************************************)
(* The start of a tick, and of the run                                     *)
(***************************************************************************)
(* The failures of handle_deadlock come from agents at work, one each.     *)
LEMMA StuckInOrder ==
  ASSUME NEW c, House(c, {}), InOrder(c, <<>>, c.mailbox), Settling(c, {}),
         NEW stuck \in SUBSET c.live, \A a \in stuck : Tickable(c, a),
         \A j \in DOMAIN c.mailbox : Sent(c.mailbox[j]) => c.mailbox[j].from \notin stuck,
         NEW d, StuckReported(c, stuck, d)
  PROVE  House(d, {}) /\ InOrder(d, <<>>, d.mailbox) /\ d.graph = c.graph
<1> DEFINE n == MaxTasks
           failed == {t \in Tasks : c.graph.agent[t] \in stuck}
           request(t) == FailureRequest(c, c.graph.agent[t], FALSE, FALSE)
           Unsaid(b, t) == \A j \in DOMAIN b.mailbox : Sent(b.mailbox[j]) =>
                           \A u \in failed : u > t => b.mailbox[j].from # c.graph.agent[u]
           Good(b, t) == /\ House(b, {}) /\ OnlyPushes(c, b) /\ InOrder(b, <<>>, b.mailbox)
                         /\ Unsaid(b, t)
<1>1. PICK f :
        /\ f = [t \in 0 .. n |->
             IF t = 0 THEN c
             ELSE IF t \in failed THEN Push(f[t - 1], request(t)) ELSE f[t - 1]]
        /\ d = f[n]
  BY DEF StuckReported
<1> DEFINE P == {t \in 0 .. n : Good(f[t], t)}
<1>2. n \in Nat /\ Tasks = 1 .. n
  BY BoundsArePositive DEF Tasks
<1>3. \A t \in 0 .. n :
        f[t] = IF t = 0 THEN c
               ELSE IF t \in failed THEN Push(f[t - 1], request(t)) ELSE f[t - 1]
  BY <1>1
<1>4. Assigned(c)
  BY DEF House
<1>5. ASSUME NEW t \in failed
      PROVE  /\ c.graph.agent[t] \in stuck /\ StatusOf(c, c.graph.agent[t]) = "running"
             /\ request(t) \in Messages /\ Sent(request(t)) /\ Standing(c, request(t))
             /\ request(t).from = c.graph.agent[t]
  <2> DEFINE x == c.graph.agent[t]
  <2>1. x \in stuck /\ x \in c.live /\ FALSE \in BOOLEAN
    BY <1>5
  <2>2. StatusOf(c, x) = "running" /\ ~c.agent[x].awaiting
    BY <2>1 DEF Tickable, StatusOf
  <2>3. Childless(c, x)
    BY <2>1, <2>2 DEF Settling
  <2> HIDE DEF x
  <2>4. LET e == FailureRequest(c, x, FALSE, FALSE)
        IN e \in Messages /\ Sent(e) /\ Standing(c, e) /\ e.from = x /\ e.type = "failure"
    BY <2>1, <2>2, <2>3, FailingStands
  <2>5. QED
    BY <2>1, <2>2, <2>4 DEF x
<1>6. \A t, u \in failed : c.graph.agent[t] = c.graph.agent[u] => t = u
  BY <1>4 DEF Assigned
<1> HIDE DEF request
<1>7. 0 \in P /\ P \in SUBSET (0 .. n)
  <2>1. 0 \in 0 .. n
    BY <1>2
  <2>2. f[0] = c
    BY <1>3, <2>1
  <2>3. OnlyPushes(c, c)
    BY DEF OnlyPushes
  <2>4. Unsaid(c, 0)
    OBVIOUS
  <2> HIDE DEF Unsaid
  <2>5. QED
    BY <2>1, <2>2, <2>3, <2>4
<1>8. ASSUME NEW t \in 1 .. n, t - 1 \in P PROVE t \in P
  <2> DEFINE b == f[t - 1]
  <2>1. t \in 0 .. n /\ t # 0 /\ t - 1 < t /\ Good(b, t - 1) /\ t \in Nat
    BY <1>2, <1>8
  <2>2. f[t] = IF t \in failed THEN Push(b, request(t)) ELSE b
    BY <1>3, <2>1
  <2> HIDE DEF b
  <2>3. /\ House(b, {}) /\ OnlyPushes(c, b) /\ InOrder(b, <<>>, b.mailbox) /\ Unsaid(b, t - 1)
    BY <2>1
  <2>4. Unsaid(b, t)
    <3>1. \A u \in failed : u > t => u > t - 1
      BY <1>2, <2>1
    <3>2. QED
      BY <2>3, <3>1
  <2>5. CASE t \notin failed
    BY <2>1, <2>2, <2>3, <2>4, <2>5
  <2>6. CASE t \in failed
    <3> DEFINE e == request(t)
               g == Push(b, e)
    <3>1. e \in Messages /\ Sent(e) /\ Standing(c, e) /\ e.from = c.graph.agent[t]
      BY <1>5, <2>6
    <3>2. \A j \in DOMAIN b.mailbox : Sent(b.mailbox[j]) => b.mailbox[j].from # e.from
      BY <2>1, <2>3, <2>6, <3>1
    <3> HIDE DEF e
    <3>3. Sound(b) /\ Standing(b, e)
      BY <2>3, <3>1, PushStands DEF House
    <3>4. \A i \in DOMAIN <<>> : Sent(<<>>[i]) => <<>>[i].from # e.from
      OBVIOUS
    <3>5. /\ House(g, {}) /\ OnlyPushes(b, g) /\ InOrder(g, <<>>, g.mailbox)
          /\ g.mailbox = Append(b.mailbox, e)
      BY <2>3, <3>1, <3>2, <3>3, <3>4, PushInOrder
    <3> HIDE DEF g
    <3>6. OnlyPushes(c, g)
      BY <2>3, <3>5 DEF OnlyPushes
    <3>7. \A u \in failed : u > t => c.graph.agent[u] # e.from
      BY <1>2, <1>6, <2>6, <3>1
    <3>8. b.mailbox \in Seq(Messages)
      BY <2>3 DEF InOrder
    <3>9. \A j \in DOMAIN g.mailbox : \/ j \in DOMAIN b.mailbox /\ g.mailbox[j] = b.mailbox[j]
                                      \/ g.mailbox[j] = e
      BY <3>5, <3>8
    <3>10. Unsaid(g, t)
      BY <2>4, <3>7, <3>9
    <3>11. f[t] = g
      BY <2>2, <2>6 DEF g, e
    <3> HIDE DEF Unsaid
    <3>12. QED
      BY <2>1, <3>5, <3>6, <3>10, <3>11
  <2>7. QED
    BY <2>5, <2>6
<1> HIDE DEF P
<1>9. P = 0 .. n
  BY <1>2, <1>7, <1>8, Induct
<1>10. n \in P
  BY <1>2, <1>9
<1>11. QED
  BY <1>1, <1>10 DEF P, OnlyPushes


(* tick, up to the drain: the mailbox becomes what is to be routed.        *)
LEMMA BeginTickOwns ==
  ASSUME OwnerInv, BeginTick
  PROVE  OwnerInv' /\ Forward(colony, colony')
<1>1. PICK stuck \in IF May("watchdog") THEN SUBSET WatchdogSees(colony) ELSE {{}} :
        LET checked == HandleDeadlock(colony, stuck)
        IN inbox' = checked.mailbox /\ colony' = [checked EXCEPT !.mailbox = <<>>]
  BY DEF BeginTick
<1> DEFINE c == colony
           d == HandleDeadlock(c, stuck)
           e == [d EXCEPT !.mailbox = <<>>]
<1>2. /\ LoopInv /\ House(c, {}) /\ inbox = <<>> /\ turn = {} /\ phase = "tick"
      /\ phase' = "route" /\ InOrder(c, <<>>, c.mailbox) /\ Settling(c, {})
  BY DEF LoopInv, BeginTick, OwnerInv
<1>3. LoopInv'
  BY <1>2, BeginTickKeeps
<1>4. Sound(c) /\ Waiting(c) = {}
  BY <1>2 DEF LoopInv, Steady
<1>5. stuck \in SUBSET c.live /\ \A a \in stuck : Tickable(c, a)
  BY DEF WatchdogSees, Tickable
<1>6. stuck = {} \/ c.mailbox = <<>>
  BY DEF WatchdogSees, WatchdogLooks
<1>7. d = c \/ StuckReported(c, stuck, d)
  BY <1>4, <1>5, HandleDeadlockRuns
<1>8. inbox' = d.mailbox /\ colony' = e
  BY <1>1
<1> HIDE DEF d, c
<1>9. House(d, {}) /\ InOrder(d, <<>>, d.mailbox) /\ d.graph = c.graph
  <2>1. \A j \in DOMAIN c.mailbox : Sent(c.mailbox[j]) => c.mailbox[j].from \notin stuck
    BY <1>6
  <2>2. QED
    BY <1>2, <1>5, <1>7, <2>1, StuckInOrder
<1>10. d \in Colonies /\ d.mailbox \in Seq(Messages) /\ <<>> \in Seq(Messages)
  BY <1>9 DEF House, Sound, Colonies
<1>11. /\ e \in Colonies /\ e.mailbox = <<>> /\ OnlyPushes(d, e)
  BY <1>10 DEF Colonies, OnlyPushes
<1> HIDE DEF e
<1>12. Sound(e)
  BY <1>9, <1>11 DEF House, Sound, OnlyPushes
<1>13. /\ House(e, {})
       /\ \A x : Standing(d, x) => Standing(e, x)
       /\ \A q : Apart(d, q) => Apart(e, q)
       /\ \A q : Ordered(d, q) => Ordered(e, q)
  BY <1>9, <1>11, <1>12, PushStands
<1>14. InOrder(e, d.mailbox, e.mailbox)
  <2>1. /\ \A i \in DOMAIN d.mailbox : Standing(e, d.mailbox[i])
        /\ Apart(e, d.mailbox) /\ Ordered(e, d.mailbox)
    BY <1>9, <1>13 DEF InOrder
  <2>2. \A i \in DOMAIN <<>> : FALSE
    OBVIOUS
  <2>3. /\ \A i \in DOMAIN e.mailbox : Standing(e, e.mailbox[i])
        /\ Apart(e, e.mailbox) /\ Ordered(e, e.mailbox) /\ Distinct(e, d.mailbox, e.mailbox)
    BY <1>11, <2>2 DEF Apart, Ordered, Distinct
  <2>4. QED
    BY <1>10, <1>11, <2>1, <2>3 DEF InOrder
<1>15. Quiet(e, d.mailbox, e.mailbox)
  BY <1>11 DEF Quiet
<1>16. OwnerInv'
  BY <1>2, <1>3, <1>8, <1>13, <1>14, <1>15 DEF OwnerInv
<1>17. e.graph = c.graph
  BY <1>9, <1>11 DEF OnlyPushes
<1>18. QED
  BY <1>8, <1>16, <1>17, SameForward DEF c


LEMMA EmptyConsistent == TG!Consistent(TG!EmptyGraph)
<1> DEFINE g == TG!EmptyGraph
<1>1. /\ g \in TG!Graphs
      /\ \A t \in Tasks : /\ g.status[t] = "absent" /\ g.agent[t] = None
                          /\ g.dependencies[t] = {} /\ g.dependents[t] = {}
  BY DEF TG!EmptyGraph, TG!Graphs, TG!Statuses
<1> HIDE DEF g
<1>2. TG!Closed(g) = {} /\ TG!Open(g) = {}
  BY <1>1 DEF TG!Closed, TG!Open
<1>3. TG!Linked(g) /\ TG!AbsentBlank(g)
  BY <1>1 DEF TG!Linked, TG!AbsentBlank, TG!Absent
<1>4. TG!InDegreesExact(g) /\ TG!ClosedStaysDown(g)
  BY <1>2 DEF TG!InDegreesExact, TG!ClosedStaysDown
<1>5. TG!StartsGated(g) /\ TG!CompletedAfter(g)
  BY <1>1 DEF TG!StartsGated, TG!CompletedAfter
<1>6. QED
  BY <1>1, <1>3, <1>4, <1>5 DEF TG!Consistent, g

(* initialize_colony.                                                      *)
LEMMA OwnerInit == Init => OwnerInv /\ Lifecycle!LifecycleInit
<1> SUFFICES ASSUME Init PROVE OwnerInv /\ Lifecycle!LifecycleInit
  OBVIOUS
<1> DEFINE rooted == TG!AddTask(TG!EmptyGraph, Root, {})
           base == EmptyColony
           c == [base EXCEPT !.graph = rooted, !.made = 1]
           k == [settled |-> {}, told |-> {}, growing |-> {}, waking |-> {}, adding |-> {}]
<1>1. /\ MaxTasks \in Nat \ {0} /\ MaxAgents \in Nat \ {0} /\ Root \in Tasks /\ Root = 1
      /\ Tasks = 1 .. MaxTasks /\ None = 0
  BY BoundsArePositive, GraphSetting DEF Root, Tasks, None
<1>2. TG!Consistent(TG!EmptyGraph) /\ \A t \in Tasks : TG!EmptyGraph.status[t] = "absent"
      /\ TG!EmptyGraph.agent[t] = None /\ TG!EmptyGraph.dependencies[t] = {}
  BY EmptyConsistent DEF TG!EmptyGraph
<1>3. /\ TG!Consistent(rooted)
      /\ \A t \in Tasks : rooted.agent[t] = None
      /\ \A t \in Tasks : rooted.status[t] = IF t = Root THEN "pending" ELSE "absent"
  BY <1>1, <1>2, AddingKeeps
<1>a. \A t \in Tasks : rooted.dependencies[t] = {}
  <2>1. rooted.dependencies = [TG!EmptyGraph.dependencies EXCEPT ![Root] = {}]
    BY DEF TG!AddTask, TG!EmptyGraph
  <2>2. TG!EmptyGraph.dependencies = [t \in Tasks |-> {}]
    BY DEF TG!EmptyGraph
  <2> HIDE DEF rooted
  <2>3. QED
    BY <2>1, <2>2
<1> HIDE DEF rooted
<1>4. NoAgent \in AgentNodes
  BY DEF NoAgent, AgentNodes, Roles
<1>5. /\ base \in Colonies /\ base.live = {} /\ base.born = 0 /\ base.room = MaxAgents
      /\ base.mailbox = <<>> /\ base.abandoned = {}
      /\ base.overflow = [a \in Agents |-> <<>>] /\ base.parentTask = [t \in Tasks |-> None]
  <2>1. /\ [t \in Tasks |-> None] \in [Tasks -> Tasks \cup {None}]
        /\ [t \in Tasks |-> "decomposer"] \in [Tasks -> Roles]
        /\ [a \in Agents |-> NoAgent] \in [Agents -> AgentNodes]
        /\ [a \in Agents |-> <<>>] \in [Agents -> Seq(QueuedChildren)]
        /\ [t \in Tasks |-> 0] \in [Tasks -> Nat]
    BY <1>4 DEF Roles
  <2>2. /\ 0 \in 0 .. MaxAgents /\ MaxAgents \in 0 .. MaxAgents /\ 1 \in 0 .. MaxTasks
        /\ <<>> \in Seq(Messages) /\ 0 \in 0 .. MaxTasks
    BY <1>1
  <2>3. TG!EmptyGraph \in TG!Graphs
    BY <1>2, ConsistentShape
  <2>4. QED
    BY <2>1, <2>2, <2>3 DEF Colonies, EmptyColony
<1> HIDE DEF base
<1>6. /\ c \in Colonies /\ c.graph = rooted /\ c.live = {} /\ c.born = 0
      /\ c.room = MaxAgents /\ c.made = 1 /\ c.mailbox = <<>> /\ c.abandoned = {}
      /\ c.overflow = [a \in Agents |-> <<>>] /\ c.parentTask = [t \in Tasks |-> None]
  <2>1. rooted \in TG!Graphs /\ 1 \in 0 .. MaxTasks
    BY <1>1, <1>3, ConsistentShape
  <2>2. QED
    BY <1>5, <2>1 DEF Colonies
<1>7. /\ colony = SpawnAgent(c, "decomposer", Root, None, TRUE)
         \/ colony = AbandonTask(c, Root, None)
      /\ phase = "tick" /\ inbox = <<>> /\ turn = {}
  BY DEF Init, base, rooted
<1> HIDE DEF c
<1>8. Sound(c) /\ c.room > 0
  BY <1>1, <1>6 DEF Sound
<1>9. House(c, {})
  <2>1. Assigned(c)
    BY <1>1, <1>3, <1>6 DEF Assigned
  <2>2. Queued(c)
    BY <1>1, <1>3, <1>6 DEF Queued
  <2>3. \A t \in Tasks : c.parentTask[t] = None /\ t # None
    BY <1>1, <1>6
  <2>4. Family(c, {})
    BY <1>6, <2>3 DEF Family
  <2>5. Finished(c)
    BY <1>3, <1>6 DEF Finished
  <2>6. Briefed(c)
    BY <1>6 DEF Briefed
  <2>7. QED
    BY <1>3, <1>6, <1>8, <2>1, <2>2, <2>4, <2>5, <2>6 DEF House
<1>10. k.settled = {} /\ k.told = {} /\ k.growing = {} /\ k.waking = {} /\ k.adding = {}
  OBVIOUS
<1> HIDE DEF k
<1>11. Keeps(c, colony, {}, k)
  <2>1. CASE colony = SpawnAgent(c, "decomposer", Root, None, TRUE)
    <3>1. Spawned(c, colony, "decomposer", Root, None, TRUE)
      BY <1>1, <1>6, <1>8, <2>1, SpawnFields DEF Roles, AnyAgent
    <3>2. Spawnable(c, {}, "decomposer", Root, None)
      BY <1>1, <1>3, <1>6 DEF Spawnable
    <3>3. None \in AnyAgent /\ c.graph.status[Root] # "running" /\ None \notin c.live
          /\ {} \ {Root} = {}
      BY <1>1, <1>3, <1>6 DEF AnyAgent
    <3>a. TRUE = DependenciesClosed(c, Root)
      <4>1. c.graph.dependencies[Root] = {}
        BY <1>1, <1>a, <1>6
      <4>2. DependenciesClosed(c, Root)
        BY <4>1 DEF DependenciesClosed
      <4>3. QED
        BY <4>2 DEF DependenciesClosed
    <3>4. Keeps(c, colony, {} \ {Root}, k)
      BY <1>1, <1>9, <3>1, <3>2, <3>3, <3>a, SpawningKeeps
    <3>5. QED
      BY <3>3, <3>4
  <2>2. CASE colony = AbandonTask(c, Root, None)
    <3>1. Closable(c, Root, "failed")
      BY <1>1, <1>3, <1>6 DEF Closable
    <3>2. None \in AnyAgent /\ None <= c.born /\ c.graph.status[Root] # "running"
      BY <1>1, <1>3, <1>6 DEF AnyAgent
    <3>3. QED
      BY <1>1, <1>9, <2>2, <3>1, <3>2, AbandonKeeps
  <2>3. QED
    BY <1>7, <2>1, <2>2
<1>12. House(colony, {}) /\ Told(<<>>, colony.mailbox, {})
       /\ \A b \in colony.live : Childless(colony, b)
  BY <1>6, <1>10, <1>11 DEF Keeps, Carries
<1>13. colony.mailbox = <<>>
  <2>1. colony.mailbox \in Seq(Messages) /\ \A i \in 1 .. Len(colony.mailbox) : FALSE
    BY <1>12 DEF Told
  <2>2. QED
    BY <2>1
<1>14. InOrder(colony, inbox, colony.mailbox)
  <2>1. \A i \in DOMAIN <<>> : FALSE
    OBVIOUS
  <2>2. <<>> \in Seq(Messages)
    OBVIOUS
  <2>3. QED
    BY <1>7, <1>13, <2>1, <2>2 DEF InOrder, Apart, Ordered, Distinct
<1>15. Settling(colony, turn)
  BY <1>12 DEF Settling
<1>16. LoopInv
  BY LoopInit
<1>17. OwnerInv
  BY <1>7, <1>12, <1>14, <1>15, <1>16 DEF OwnerInv
<1>18. ASSUME NEW t \in Tasks
       PROVE  colony.graph.status[t] # "complete" /\ colony.graph.dependencies[t] = {}
  <2>1. /\ TG!Consistent(colony.graph) /\ Moves(c, colony, {})
        /\ \A u \in Tasks : Unseen(c, u) => Unseen(colony, u)
    BY <1>10, <1>11, <1>12 DEF House, Keeps, Carries
  <2>2. colony.graph.status[t] # "complete"
    BY <1>3, <1>6, <2>1 DEF Moves
  <2>3. CASE t = Root
    BY <1>a, <1>1, <1>3, <1>6, <2>1, <2>3 DEF Moves
  <2>4. CASE t # Root
    <3>1. Unseen(c, t)
      BY <1>3, <1>6, <2>4 DEF Unseen
    <3>2. colony.graph.status[t] = "absent"
      BY <2>1, <3>1 DEF Unseen
    <3>3. QED
      BY <2>1, <2>2, <3>2 DEF TG!Consistent, TG!AbsentBlank, TG!Absent
  <2>5. QED
    BY <2>2, <2>3, <2>4
<1>19. Lifecycle!LifecycleInit
  <2>1. colony.graph \in TG!Graphs
    BY <1>12, ConsistentShape DEF House
  <2>2. QED
    BY <1>18, <2>1 DEF TG!Graphs, TG!Statuses, Lifecycle!LifecycleInit, Lifecycle!Statuses
<1>20. QED
  BY <1>17, <1>19


(***************************************************************************)
(* Theorems                                                                *)
(***************************************************************************)
LEMMA OwnerStep ==
  ASSUME NoScreening, OwnerInv, [Next]_vars
  PROVE  OwnerInv' /\ Forward(colony, colony')
<1>1. CASE BeginTick
  BY <1>1, BeginTickOwns
<1>2. CASE Stop
  BY <1>2, LoopStep, SameForward DEF Stop, OwnerInv, Next
<1>3. CASE Route
  BY <1>3, DropStaleOwns, RouteSpawnOwns, RouteCompletionOwns, RouteFailureOwns,
     RouteNotificationOwns, EndRouteOwns DEF Route
<1>4. CASE \E a \in Agents : RunAgent(a)
  BY <1>4, ParkOwns, CrashOwns, ThinkOwns, SpawnOwns, ReportOwns, DieOwns DEF RunAgent
<1>5. CASE EndTick
  BY <1>5, EndTickOwns
<1>6. CASE Terminated \/ UNCHANGED vars
  <2>1. UNCHANGED vars
    BY <1>6 DEF Terminated, vars
  <2>2. LoopInv'
    BY <2>1, LoopStep DEF OwnerInv
  <2>3. QED
    BY <2>1, <2>2, SameForward DEF vars, OwnerInv
<1>7. QED
  BY <1>1, <1>2, <1>3, <1>4, <1>5, <1>6 DEF Next

LEMMA OwnerAlways == ASSUME NoScreening PROVE Spec => []OwnerInv
<1>1. OwnerInv /\ [Next]_vars => OwnerInv'
  BY OwnerStep
<1>2. QED
  BY OwnerInit, <1>1, PTL DEF Spec

LEMMA OwnerImplies ==
  ASSUME OwnerInv
  PROVE  /\ NeverTwoAgents /\ OneAgentPerTask
         /\ NoReportUnjudged /\ ReportsAreOwners
         /\ CompleteSubtree /\ SuccessorClean /\ Informed
<1> DEFINE c == colony
<1>1. /\ House(c, {}) /\ InOrder(c, inbox, c.mailbox) /\ Sound(c) /\ Assigned(c)
      /\ Family(c, {}) /\ Finished(c) /\ Briefed(c) /\ c.live \subseteq Agents
      /\ \A x \in Agents : c.agent[x] \in AgentNodes
  BY Numbers DEF OwnerInv, House
<1>2. NeverTwoAgents /\ OneAgentPerTask
  BY <1>1 DEF NeverTwoAgents, OneAgentPerTask, Assigned, IsOpen, StillOpen, TG!Open
<1>3. NoReportUnjudged /\ ReportsAreOwners
  <2>1. SUFFICES ASSUME inbox # <<>>, Head(inbox).type = "completion", ~Dropped(Head(inbox))
                 PROVE  LET e == Head(inbox)
                        IN /\ e.from \in c.live
                           /\ c.graph.agent[e.task] = e.from
                           /\ c.graph.status[e.task] = "running"
    BY DEF NoReportUnjudged, ReportsAreOwners
  <2> DEFINE e == Head(inbox)
  <2>2. inbox \in Seq(Messages) /\ 1 \in DOMAIN inbox /\ e = inbox[1]
    BY <1>1, <2>1 DEF InOrder
  <2>3. Standing(c, e)
    BY <1>1, <2>2 DEF InOrder
  <2>4. e.task \notin c.abandoned /\ e.type = "completion"
    BY <2>1 DEF Dropped
  <2> HIDE DEF e
  <2>5. e.from \in c.live /\ c.agent[e.from].task = e.task /\ c.graph.status[e.task] = "running"
    BY <2>3, <2>4 DEF Standing
  <2>6. c.graph.agent[e.task] = e.from
    BY <1>1, <2>5 DEF Assigned, StillOpen
  <2>7. QED
    BY <2>5, <2>6 DEF e
<1>4. CompleteSubtree
  <2>1. SUFFICES ASSUME NEW t \in Tasks, c.graph.status[t] = "complete"
                 PROVE  /\ \A u \in DirectChildren(c, t) : ~IsOpen(c, u)
                        /\ \A a \in c.live : c.agent[a].task = t =>
                             \A x \in Children(c, a) : ~IsOpen(c, c.agent[x].task)
    BY DEF CompleteSubtree
  <2>2. \A u \in DirectChildren(c, t) : ~IsOpen(c, u)
    BY <1>1, <2>1 DEF Finished, DirectChildren, IsOpen, StillOpen, TG!Open
  <2>3. ASSUME NEW a \in c.live, c.agent[a].task = t
        PROVE  \A x \in Children(c, a) : ~IsOpen(c, c.agent[x].task)
    <3>1. Childless(c, a)
      BY <1>1, <2>1, <2>3 DEF Finished, StatusOf
    <3>2. QED
      BY <3>1 DEF Childless, Children, IsOpen, StillOpen, TG!Open
  <2>4. QED
    BY <2>2, <2>3
<1>5. SuccessorClean
  <2>1. ASSUME NEW a \in c.live, ~c.agent[a].hasSpawned, NEW u \in OpenTasksOf(a)
        PROVE  FALSE
    <3>1. u \in Tasks /\ c.parentTask[u] = c.agent[a].task /\ StillOpen(c, u)
      BY DEF OpenTasksOf, DirectChildren, IsOpen, StillOpen, TG!Open
    <3>2. QED
      BY <1>1, <2>1, <3>1 DEF Family
  <2>2. QED
    BY <2>1 DEF SuccessorClean
<1>6. Informed
  <2>1. SUFFICES ASSUME NEW a \in c.live, c.agent[a].started, c.attempts[c.agent[a].task] = 1
                 PROVE  c.agent[a].informed
    BY DEF Informed
  <2>2. QED
    BY <1>1, <2>1 DEF Briefed
<1>7. QED
  BY <1>2, <1>3, <1>4, <1>5, <1>6

(* A handler's way with the tasks is one the task space promises.          *)
LEMMA OwnerLifecycle ==
  ASSUME OwnerInv, OwnerInv', Forward(colony, colony')
  PROVE  [Lifecycle!LifecycleStep]_(Lifecycle!lifecycleVars)
<1> DEFINE g == colony.graph
           h == colony'.graph
<1>1. TG!Consistent(g) /\ TG!Consistent(h)
  BY DEF OwnerInv, House
<1>2. h \in TG!Graphs /\ TG!StartsGated(h) /\ g \in TG!Graphs
      /\ (\A t \in Tasks : g.status[t] \in {"absent", "pending", "running", "complete", "failed"})
      /\ (\A t \in Tasks : h.status[t] \in {"absent", "pending", "running", "complete", "failed"})
  BY <1>1, ConsistentShape DEF TG!Consistent
<1>3. /\ h.status \in [Tasks -> Lifecycle!Statuses]
      /\ h.dependencies \in [Tasks -> SUBSET Tasks]
  BY <1>2 DEF TG!Graphs, TG!Statuses, Lifecycle!Statuses
<1> HIDE DEF g, h
<1>4. ASSUME NEW t \in Tasks
      PROVE  /\ h.status[t] \in Lifecycle!MayBecome(g.status[t])
             /\ g.status[t] # "absent" => h.dependencies[t] = g.dependencies[t]
             /\ h.status[t] = "running" =>
                  \A d \in h.dependencies[t] : h.status[d] \in Lifecycle!ClosedStatuses
  <2>1. /\ g.status[t] \in {"complete", "failed"} => h.status[t] = g.status[t]
        /\ h.status[t] = "complete" => g.status[t] \in {"running", "complete"}
        /\ h.status[t] = "pending" => g.status[t] \in {"absent", "pending"}
        /\ g.status[t] # "absent" =>
             /\ h.status[t] # "absent"
             /\ h.dependencies[t] = g.dependencies[t]
    BY DEF Forward, g, h
  <2>2. h.status[t] \in Lifecycle!MayBecome(g.status[t])
    BY <1>2, <2>1 DEF Lifecycle!MayBecome
  <2>3. ASSUME h.status[t] = "running", NEW d \in h.dependencies[t]
        PROVE  h.status[d] \in Lifecycle!ClosedStatuses
    <3>1. d \in TG!Closed(h)
      BY <1>2, <2>3 DEF TG!StartsGated
    <3>2. QED
      BY <3>1 DEF TG!Closed, Lifecycle!ClosedStatuses
  <2>4. QED
    BY <2>1, <2>2, <2>3
<1>5. QED
  BY <1>3, <1>4 DEF Lifecycle!LifecycleStep, g, h

(* An open task is never worked on by two registered agents: a respawn or  *)
(* an adoption hands it over whole (spawn_agent, unregister_agent).  With  *)
(* screening MCTwoAgents has two, on a task whose batch was screened out.  *)
THEOREM OneAgentAlways ==
  ASSUME NoScreening PROVE Spec => [](NeverTwoAgents /\ OneAgentPerTask)
<1>1. QED
  BY OwnerAlways, OwnerImplies, PTL

(* A completion that gets past the stale-event filter of _route_events is  *)
(* from the registered agent its running task is assigned to, so that it   *)
(* is judged.  With screening MCUnjudged has one that is not.              *)
THEOREM ReportsAlwaysOwners ==
  ASSUME NoScreening PROVE Spec => [](NoReportUnjudged /\ ReportsAreOwners)
<1>1. QED
  BY OwnerAlways, OwnerImplies, PTL

(* No decomposer's answer is promoted over a child still working, queued   *)
(* behind the cap or adopted (handle_completion, _open_child_task_ids).    *)
THEOREM SubtreeAlwaysComplete == ASSUME NoScreening PROVE Spec => []CompleteSubtree
<1>1. QED
  BY OwnerAlways, OwnerImplies, PTL

(* An agent that never spawned has no open subtask in the graph, one       *)
(* respawned over a batch included (handle_failure, has_spawned).          *)
THEOREM SuccessorAlwaysClean == ASSUME NoScreening PROVE Spec => []SuccessorClean
<1>1. QED
  BY OwnerAlways, OwnerImplies, PTL

(* The first agent of a task runs with the results of all its task depends *)
(* on, whatever order those closed in and however it came to start         *)
(* (_child_ghost_context, _thread_results_to_unblocked_dependents).        *)
THEOREM AlwaysInformed == ASSUME NoScreening PROVE Spec => []Informed
<1>1. QED
  BY OwnerAlways, OwnerImplies, PTL

(* complete and failed are final, through retirement, respawn, adoption    *)
(* and abandonment alike.                                                  *)
THEOREM ClosedStaysForGood == ASSUME NoScreening PROVE Spec => ClosedForGood
<1>1. OwnerInv /\ [Next]_vars =>
        [\A t \in TG!Closed(colony.graph) : colony'.graph.status[t] = colony.graph.status[t]]_vars
  BY OwnerStep DEF Forward, TG!Closed
<1>2. QED
  BY <1>1, OwnerAlways, PTL DEF Spec, ClosedForGood

(* The tick loop implements TaskLifecycle: no order of events, failures    *)
(* and ceilings has a handler move a task backwards, complete one that did *)
(* not run, change what it waits for, or start it too early.               *)
THEOREM ColonyImplementsLifecycle == ASSUME NoScreening PROVE Spec => RefinesLifecycle
<1>1. Init => Lifecycle!LifecycleInit
  BY OwnerInit
<1>2. OwnerInv /\ [Next]_vars => [Lifecycle!LifecycleStep]_(Lifecycle!lifecycleVars)
  BY OwnerStep, OwnerLifecycle
<1>3. QED
  BY <1>1, <1>2, OwnerAlways, PTL DEF Spec, RefinesLifecycle, Lifecycle!LifecycleSpec

=============================================================================
