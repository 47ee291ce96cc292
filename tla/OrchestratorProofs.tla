------------------------- MODULE OrchestratorProofs -------------------------
(***************************************************************************)
(* The tick loop for colonies of every size, any batches and every rare    *)
(* outcome: the shape of the shared structures, and that every task given  *)
(* to the graph has an agent or is closed by the handler that gave it.     *)
(***************************************************************************)
EXTENDS Orchestrator, FiniteSetTheorems, FunctionTheorems, WellFoundedInduction,
        TLAPS

GP == INSTANCE TaskGraphProofs WITH Nobody <- None

----------------------------------------------------------------------------
(* Loops *)

(* A set of numbers that holds 0, and with each number the next, holds all *)
(* there are up to a bound.                                                *)
LEMMA Induct ==
  ASSUME NEW n \in Nat, NEW P \in SUBSET (0 .. n), 0 \in P,
         \A i \in 1 .. n : i - 1 \in P => i \in P
  PROVE  P = 0 .. n
<1> DEFINE Bad == (0 .. n) \ P
           Below(x) == {y \in Bad : y <= x}
           Parts == {Below(x) : x \in Bad}
<1>1. SUFFICES ASSUME Bad # {} PROVE FALSE
  OBVIOUS
<1>2. IsFiniteSet(Bad)
  <2>1. IsFiniteSet(0 .. n)
    BY FS_Interval, 0 \in Int, n \in Int
  <2>2. QED
    BY <2>1, FS_Subset
<1>3. \A x \in Bad : x \in Int /\ x - 1 \in Bad
  OBVIOUS
<1> HIDE DEF Bad
<1>4. Parts \subseteq SUBSET Bad /\ Parts # {}
  BY <1>1
<1> HIDE DEF Parts
<1>5. IsWellFoundedOn(StrictSubsetOrdering(Bad), SUBSET Bad)
  BY <1>2, FS_StrictSubsetOrderingWellFounded, FS_FiniteSubsetsOfFinite
<1>6. PICK B \in Parts : \A C \in Parts : ~(<<C, B>> \in StrictSubsetOrdering(Bad))
  BY <1>4, <1>5, WFMin
<1>7. PICK x \in Bad : B = Below(x)
  BY DEF Parts
<1>8. x - 1 \in Bad /\ x \in Int
  BY <1>3
<1>9. Below(x - 1) \in Parts
  BY <1>8 DEF Parts
<1>10. x \in Below(x) /\ x \notin Below(x - 1)
  BY <1>8
<1>11. ASSUME NEW y \in Below(x - 1) PROVE y \in Below(x)
  BY <1>3, <1>8
<1> HIDE DEF Below
<1>12. <<Below(x - 1), B>> \in StrictSubsetOrdering(Bad)
  BY <1>4, <1>7, <1>9, <1>10, <1>11 DEF StrictSubsetOrdering
<1>13. QED
  BY <1>6, <1>9, <1>12

(* A loop makes one state out of the last, n times over.                   *)
Loop(f, n, first, body) ==
  f = [i \in 0 .. n |-> IF i = 0 THEN first ELSE body[<<f[i - 1], i>>]]

(* If the body takes a state allowed after i - 1 rounds to one allowed     *)
(* after i, the loop can be run, and stays among the states allowed.       *)
LEMMA LoopRuns ==
  ASSUME NEW n \in Nat, NEW Allowed, NEW first \in Allowed[0], NEW body,
         \A i \in 1 .. n : \A x \in Allowed[i - 1] : body[<<x, i>>] \in Allowed[i]
  PROVE  \E f : Loop(f, n, first, body) /\ \A i \in 0 .. n : f[i] \in Allowed[i]
<1> DEFINE Runs(k, f) == /\ f = [i \in 0 .. k |-> IF i = 0 THEN first ELSE body[<<f[i - 1], i>>]]
                         /\ \A i \in 0 .. k : f[i] \in Allowed[i]
           P == {k \in 0 .. n : \E f : Runs(k, f)}
<1>1. 0 \in P
  <2> DEFINE f == [i \in 0 .. 0 |-> first]
  <2>1. \A i \in 0 .. 0 : i = 0 /\ f[i] = first
    OBVIOUS
  <2>2. f = [i \in 0 .. 0 |-> IF i = 0 THEN first ELSE body[<<f[i - 1], i>>]]
    BY <2>1
  <2>3. \A i \in 0 .. 0 : f[i] \in Allowed[i]
    BY <2>1
  <2> HIDE DEF f
  <2>4. Runs(0, f)
    BY <2>2, <2>3
  <2>5. QED
    BY <2>4
<1>2. ASSUME NEW k \in 1 .. n, k - 1 \in P PROVE k \in P
  <2>1. PICK f : Runs(k - 1, f)
    BY <1>2
  <2> DEFINE g == [i \in 0 .. k |-> IF i = k THEN body[<<f[k - 1], k>>] ELSE f[i]]
  <2>2. \A i \in 0 .. k - 1 : g[i] = f[i]
    OBVIOUS
  <2>3. g[k] = body[<<f[k - 1], k>>]
    OBVIOUS
  <2>4. \A i \in 0 .. k : i = k \/ i \in 0 .. k - 1
    OBVIOUS
  <2>5. DOMAIN g = 0 .. k /\ g = [i \in 0 .. k |-> g[i]]
    OBVIOUS
  <2> HIDE DEF g
  <2>6. ASSUME NEW i \in 0 .. k
        PROVE  /\ g[i] = IF i = 0 THEN first ELSE body[<<g[i - 1], i>>]
               /\ g[i] \in Allowed[i]
    <3>1. CASE i = k
      <4>1. k - 1 \in 0 .. k - 1 /\ k # 0
        OBVIOUS
      <4>2. g[k - 1] = f[k - 1] /\ f[k - 1] \in Allowed[k - 1]
        BY <2>1, <2>2, <4>1
      <4>3. QED
        BY <2>3, <3>1, <4>1, <4>2
    <3>2. CASE i = 0 /\ i # k
      <4>1. i \in 0 .. k - 1
        BY <3>2
      <4>2. f[i] = first /\ f[i] \in Allowed[i]
        BY <2>1, <3>2, <4>1
      <4>3. QED
        BY <2>2, <3>2, <4>1, <4>2
    <3>3. CASE i # 0 /\ i # k
      <4>1. i \in 0 .. k - 1 /\ i - 1 \in 0 .. k - 1
        BY <3>3
      <4>2. f[i] = body[<<f[i - 1], i>>] /\ f[i] \in Allowed[i]
        BY <2>1, <3>3, <4>1
      <4>3. QED
        BY <2>2, <3>3, <4>1, <4>2
    <3>4. QED
      BY <3>1, <3>2, <3>3
  <2>7. g = [i \in 0 .. k |-> IF i = 0 THEN first ELSE body[<<g[i - 1], i>>]]
    BY <2>5, <2>6
  <2>8. Runs(k, g)
    BY <2>6, <2>7
  <2> HIDE DEF Runs
  <2>9. QED
    BY <2>8
<1>3. P = 0 .. n
  <2> HIDE DEF P
  <2>1. P \in SUBSET (0 .. n)
    BY DEF P
  <2>2. QED
    BY <1>1, <1>2, <2>1, Induct
<1>4. n \in P
  BY <1>3
<1>5. QED
  BY <1>4 DEF Loop

----------------------------------------------------------------------------
(* The task graph, as the colony uses it *)

(* The bounds are what the task graph asks of its tasks and agents.        *)
LEMMA GraphSetting ==
  /\ GP!IsFiniteSet(Tasks)
  /\ None \notin Agents
  /\ Tasks \in SUBSET Nat /\ Agents \in SUBSET Nat /\ Root \in Tasks
<1>1. MaxTasks \in Nat \ {0} /\ MaxAgents \in Nat \ {0}
  BY BoundsArePositive
<1>2. IsFiniteSet(Tasks)
  BY <1>1, FS_Interval, 1 \in Int, MaxTasks \in Int DEF Tasks
<1>3. GP!IsFiniteSet(Tasks) <=> IsFiniteSet(Tasks)
  BY DEF GP!IsFiniteSet, IsFiniteSet
<1>4. None \notin Agents /\ Tasks \in SUBSET Nat /\ Agents \in SUBSET Nat /\ Root \in Tasks
  BY <1>1 DEF Tasks, Agents, None, Root
<1>5. QED
  BY <1>2, <1>3, <1>4

(* The lemmas about the graph's operators speak of the same operators.     *)
LEMMA SameGraph ==
  /\ TG!Graphs = GP!Graphs
  /\ \A g, t, deps : TG!AddTask(g, t, deps) = GP!AddTask(g, t, deps)
  /\ \A g, t, a : TG!AssignAgent(g, t, a) = GP!AssignAgent(g, t, a)
  /\ \A g, t : TG!CompleteTask(g, t) = GP!ReleaseDependents(GP!SetStatus(g, t, "complete"), t)
  /\ \A g, t : TG!CloseFailed(g, t) = GP!ReleaseDependents(GP!SetStatus(g, t, "failed"), t)
<1>1. TG!Graphs = GP!Graphs
  BY DEF TG!Graphs, GP!Graphs, TG!Statuses, GP!Statuses
<1>2. \A S : TG!Cardinality(S) = GP!Cardinality(S)
  BY DEF TG!Cardinality, GP!Cardinality, TG!IsFiniteSet, GP!IsFiniteSet
<1>3. \A g : TG!Closed(g) = GP!Closed(g)
  BY DEF TG!Closed, GP!Closed
<1>4. \A g, t, deps : TG!AddTask(g, t, deps) = GP!AddTask(g, t, deps)
  BY <1>2, <1>3 DEF TG!AddTask, GP!AddTask
<1>5. \A g, t, a : TG!AssignAgent(g, t, a) = GP!AssignAgent(g, t, a)
  BY DEF TG!AssignAgent, GP!AssignAgent
<1>6. \A g, t : TG!CompleteTask(g, t) = GP!ReleaseDependents(GP!SetStatus(g, t, "complete"), t)
  BY DEF TG!CompleteTask, TG!ReleaseDependents, TG!SetStatus, GP!ReleaseDependents, GP!SetStatus
<1>7. \A g, t : TG!CloseFailed(g, t) = GP!ReleaseDependents(GP!SetStatus(g, t, "failed"), t)
  BY DEF TG!CloseFailed, TG!ReleaseDependents, TG!SetStatus, GP!ReleaseDependents, GP!SetStatus
<1>8. QED
  BY <1>1, <1>4, <1>5, <1>6, <1>7

(* What add_task, assign_agent and a closing do to the status and to the   *)
(* agent of each task.                                                     *)
LEMMA GraphAdd ==
  ASSUME NEW g \in TG!Graphs, NEW t \in Tasks, NEW deps \in SUBSET Tasks
  PROVE  LET h == TG!AddTask(g, t, deps)
         IN /\ h \in TG!Graphs
            /\ h.agent = g.agent
            /\ \A u \in Tasks :
                 /\ h.status[u] = IF u = t THEN "pending" ELSE g.status[u]
                 /\ h.dependencies[u] = IF u = t THEN deps ELSE g.dependencies[u]
<1>1. g \in GP!Graphs
  BY SameGraph
<1>2. GP!Added(g, t, deps, GP!AddTask(g, t, deps))
  BY <1>1, GraphSetting, GP!AddFields
<1>3. QED
  BY <1>2, SameGraph DEF GP!Added

LEMMA GraphAssign ==
  ASSUME NEW g \in TG!Graphs, NEW t \in Tasks, NEW a \in Agents
  PROVE  LET h == TG!AssignAgent(g, t, a)
         IN /\ h \in TG!Graphs
            /\ h.dependencies = g.dependencies
            /\ h.dependents = g.dependents
            /\ h.inDegree = g.inDegree
            /\ \A u \in Tasks :
                 /\ h.agent[u] = IF u = t THEN a ELSE g.agent[u]
                 /\ h.status[u] = IF u = t /\ g.inDegree[t] = 0
                                    THEN "running" ELSE g.status[u]
<1>1. g \in GP!Graphs
  BY SameGraph
<1>2. QED
  BY <1>1, GraphSetting, SameGraph, GP!AssignFields

(* A closing starts tasks that have an agent, those it leaves with nothing *)
(* to wait for, and leaves t itself open only if t was its own last        *)
(* dependency.                                                             *)
Released(g, t, s, h) ==
  /\ h \in TG!Graphs
  /\ h.dependencies = g.dependencies
  /\ h.agent = g.agent
  /\ \A u \in Tasks \ {t} : h.status[u] # g.status[u]
                             => u \in h.dependents[t] /\ h.inDegree[u] = 0
  /\ \A u \in Tasks : \/ h.status[u] = IF u = t THEN s ELSE g.status[u]
                      \/ h.status[u] = "running" /\ g.agent[u] # None

LEMMA GraphRelease ==
  ASSUME NEW g \in TG!Graphs, NEW t \in Tasks, NEW s \in {"complete", "failed"}
  PROVE  Released(g, t, s, GP!ReleaseDependents(GP!SetStatus(g, t, s), t))
<1> DEFINE k == GP!SetStatus(g, t, s)
           h == GP!ReleaseDependents(k, t)
<1>1. g \in GP!Graphs /\ s \in GP!Statuses
  BY SameGraph DEF GP!Statuses
<1>2. /\ k \in GP!Graphs
      /\ k.dependencies = g.dependencies
      /\ k.agent = g.agent
      /\ \A u \in Tasks : k.status[u] = IF u = t THEN s ELSE g.status[u]
  BY <1>1, GraphSetting, GP!SetStatusFields
<1> HIDE DEF k
<1>3. /\ h \in GP!Graphs
      /\ h.dependencies = k.dependencies
      /\ h.dependents = k.dependents
      /\ h.agent = k.agent
      /\ \A u \in Tasks :
           /\ h.inDegree[u] = IF u \in k.dependents[t]
                                THEN k.inDegree[u] - 1 ELSE k.inDegree[u]
           /\ h.status[u] = IF /\ u \in k.dependents[t]
                               /\ k.inDegree[u] = 1
                               /\ k.agent[u] # None
                              THEN "running" ELSE k.status[u]
  BY <1>2, GraphSetting, GP!ReleaseFields, ZenonT(40)
<1> HIDE DEF h
<1>4. h \in TG!Graphs /\ h.dependencies = g.dependencies /\ h.agent = g.agent
  BY <1>2, <1>3, SameGraph
<1>5. ASSUME NEW u \in Tasks
      PROVE  \/ h.status[u] = IF u = t THEN s ELSE g.status[u]
             \/ h.status[u] = "running" /\ g.agent[u] # None
  BY <1>2, <1>3
<1>a. \A u \in Tasks \ {t} : h.status[u] # g.status[u]
                              => u \in h.dependents[t] /\ h.inDegree[u] = 0
  BY <1>2, <1>3
<1>6. Released(g, t, s, h)
  BY <1>4, <1>5, <1>a DEF Released
<1>7. QED
  BY <1>6 DEF h, k

LEMMA GraphClose ==
  ASSUME NEW g \in TG!Graphs, NEW t \in Tasks
  PROVE  /\ Released(g, t, "complete", TG!CompleteTask(g, t))
         /\ Released(g, t, "failed", TG!CloseFailed(g, t))
BY SameGraph, GraphRelease

----------------------------------------------------------------------------
(* The colony *)

Colonies ==
  [graph : TG!Graphs, parentTask : [Tasks -> Tasks \cup {None}],
   requiredRole : [Tasks -> Roles], agent : [Agents -> AgentNodes],
   live : SUBSET Agents, born : 0 .. MaxAgents, room : 0 .. MaxAgents,
   broke : BOOLEAN, mailbox : Seq(Messages),
   overflow : [Agents -> Seq(QueuedChildren)], made : 0 .. MaxTasks,
   abandoned : SUBSET Tasks, unstarted : SUBSET Tasks,
   respawns : [Tasks -> Nat], rejections : [Tasks -> Nat],
   attempts : [Tasks -> Nat]]

(* A colony whose structures keep their shape, whose agents are numbered   *)
(* as they are born and all work on a task.                                *)
Sound(c) ==
  /\ c \in Colonies
  /\ c.live \subseteq 1 .. c.born
  /\ c.room <= MaxAgents - c.born
  /\ \A a \in c.live : c.agent[a].task \in Tasks

(* The kinds of a colony's fields.                                         *)
LEMMA ColonyFields ==
  ASSUME NEW c \in Colonies
  PROVE  /\ c.graph \in TG!Graphs /\ c.parentTask \in [Tasks -> Tasks \cup {None}]
         /\ c.agent \in [Agents -> AgentNodes] /\ c.live \in SUBSET Agents
         /\ c.born \in 0 .. MaxAgents /\ c.room \in 0 .. MaxAgents
         /\ c.mailbox \in Seq(Messages) /\ c.overflow \in [Agents -> Seq(QueuedChildren)]
         /\ c.made \in 0 .. MaxTasks /\ c.made \in Nat
         /\ c.abandoned \in SUBSET Tasks
<1>1. /\ c.graph \in TG!Graphs /\ c.parentTask \in [Tasks -> Tasks \cup {None}]
      /\ c.agent \in [Agents -> AgentNodes] /\ c.live \in SUBSET Agents
      /\ c.born \in 0 .. MaxAgents /\ c.room \in 0 .. MaxAgents
  BY Zenon DEF Colonies
<1>2. /\ c.mailbox \in Seq(Messages) /\ c.overflow \in [Agents -> Seq(QueuedChildren)]
      /\ c.made \in 0 .. MaxTasks /\ c.abandoned \in SUBSET Tasks
  BY Zenon DEF Colonies
<1>3. MaxTasks \in Nat
  BY BoundsArePositive
<1>4. QED
  BY <1>1, <1>2, <1>3


(* Agents a task may be given to, or reported to. *)
AnyAgent == Agents \cup {None}

(* The tasks only _process_unblocked_tasks would start.                    *)
Waiting(c) == {t \in Tasks : c.graph.status[t] = "pending" /\ c.graph.agent[t] = None}

(* A mailbox that only had events appended, no SPAWN among them.           *)
Grows(q, r) ==
  /\ r \in Seq(Messages)
  /\ Len(q) <= Len(r)
  /\ \A i \in 1 .. Len(q) : r[i] = q[i]
  /\ \A i \in Len(q) + 1 .. Len(r) : r[i].type # "spawn"

(* What the steps of a handler may do to a colony. *)
Evolves(c, d) ==
  /\ Sound(d)
  /\ d.made = c.made
  /\ Waiting(d) \subseteq Waiting(c)
  /\ Grows(c.mailbox, d.mailbox)

(* And what they do to it while they retire nobody. *)
Builds(c, d) == Evolves(c, d) /\ c.live \subseteq d.live

LEMMA GrowsSame == ASSUME NEW q \in Seq(Messages) PROVE Grows(q, q)
BY DEF Grows

LEMMA GrowsOne ==
  ASSUME NEW q \in Seq(Messages), NEW e \in Messages, e.type # "spawn"
  PROVE  Grows(q, Append(q, e))
BY DEF Grows

LEMMA GrowsTwice ==
  ASSUME NEW q \in Seq(Messages), NEW r \in Seq(Messages), NEW s \in Seq(Messages),
         Grows(q, r), Grows(r, s)
  PROVE  Grows(q, s)
<1>1. Len(q) \in Nat /\ Len(r) \in Nat /\ Len(s) \in Nat
  OBVIOUS
<1>2. ASSUME NEW i \in 1 .. Len(q) PROVE s[i] = q[i]
  BY <1>1 DEF Grows
<1>3. ASSUME NEW i \in Len(q) + 1 .. Len(s) PROVE s[i].type # "spawn"
  <2>1. CASE i <= Len(r)
    BY <1>1, <2>1 DEF Grows
  <2>2. CASE i > Len(r)
    BY <1>1, <2>2 DEF Grows
  <2>3. QED
    BY <1>1, <2>1, <2>2
<1>4. QED
  BY <1>1, <1>2, <1>3 DEF Grows

LEMMA EvolvesTwice ==
  ASSUME NEW c, NEW d, NEW e, Sound(c), Evolves(c, d), Evolves(d, e)
  PROVE  Evolves(c, e)
<1>1. /\ c.mailbox \in Seq(Messages) /\ d.mailbox \in Seq(Messages)
      /\ e.mailbox \in Seq(Messages)
  BY DEF Evolves, Sound, Colonies
<1>2. QED
  BY <1>1, GrowsTwice DEF Evolves

LEMMA BuildsTwice ==
  ASSUME NEW c, NEW d, NEW e, Sound(c), Builds(c, d), Builds(d, e)
  PROVE  Builds(c, e)
BY EvolvesTwice DEF Builds

----------------------------------------------------------------------------
(* The colony's operations, field by field *)

(* An agent that a step left what it was, but for the parent it reports to *)
(* and for the marks "spawned" and "informed".                             *)
SameAgent(n, m) ==
  /\ m.role = n.role /\ m.task = n.task /\ m.generation = n.generation
  /\ m.awaiting = n.awaiting /\ m.crashes = n.crashes /\ m.cycles = n.cycles
  /\ m.spawnClosed = n.spawnClosed /\ m.warned = n.warned /\ m.started = n.started

(* d is c after spawn_agent: one more agent, the next number, on task t.   *)
Spawned(c, d, role, t, p, informed) ==
  LET a == c.born + 1
  IN /\ Sound(d)
     /\ a \in Agents /\ a \notin c.live
     /\ d.born = a /\ d.live = c.live \cup {a}
     /\ d.graph = TG!AssignAgent(c.graph, t, a)
     /\ \A x \in Agents :
          x # a => /\ SameAgent(c.agent[x], d.agent[x])
                   /\ d.agent[x].parent = c.agent[x].parent
                   /\ d.agent[x].informed = c.agent[x].informed
                   /\ d.agent[x].hasSpawned =
                        IF x = p /\ p \in c.live THEN TRUE ELSE c.agent[x].hasSpawned
     /\ d.agent[a].role = role /\ d.agent[a].task = t
     /\ d.agent[a].parent = p /\ d.agent[a].informed = informed
     /\ ~d.agent[a].hasSpawned /\ ~d.agent[a].awaiting /\ ~d.agent[a].started
     /\ d.parentTask = c.parentTask /\ d.requiredRole = c.requiredRole
     /\ d.room = c.room - 1 /\ d.broke = c.broke
     /\ d.mailbox = c.mailbox /\ d.overflow = c.overflow /\ d.made = c.made
     /\ d.abandoned = c.abandoned /\ d.unstarted = c.unstarted
     /\ d.respawns = c.respawns /\ d.rejections = c.rejections
     /\ d.attempts = [c.attempts EXCEPT ![t] = c.attempts[t] + 1]

LEMMA SpawnFields ==
  ASSUME NEW c, Sound(c), NEW role \in Roles, NEW t \in Tasks, NEW p \in AnyAgent,
         NEW informed \in BOOLEAN, c.room > 0
  PROVE  Spawned(c, SpawnAgent(c, role, t, p, informed), role, t, p, informed)
<1> DEFINE d == SpawnAgent(c, role, t, p, informed)
           a == c.born + 1
           gen == IF p \in c.live THEN c.agent[p].generation + 1 ELSE 0
           born == [NoAgent EXCEPT !.role = role, !.parent = p, !.task = t,
                                   !.generation = gen, !.informed = informed]
           parent(x) == IF x = p /\ p \in c.live
                          THEN [c.agent[x] EXCEPT !.hasSpawned = TRUE] ELSE c.agent[x]
           agent == [x \in Agents |-> IF x = a THEN born ELSE parent(x)]
           graph == TG!AssignAgent(c.graph, t, a)
           attempts == [c.attempts EXCEPT ![t] = c.attempts[t] + 1]
<1> HIDE DEF d, gen, born, parent, agent, graph, attempts
<1>1. c.born \in 0 .. MaxAgents /\ c.room \in 0 .. MaxAgents /\ MaxAgents \in Nat
      /\ c.room <= MaxAgents - c.born /\ c.live \in SUBSET Agents
      /\ \A x \in c.live : x \in 1 .. c.born
  BY BoundsArePositive DEF Sound, Colonies
<1>2. a \in Agents /\ a \notin c.live /\ c.born \in Nat /\ a \in 0 .. MaxAgents
      /\ c.room - 1 \in 0 .. MaxAgents /\ c.room - 1 <= MaxAgents - a
      /\ c.live \cup {a} \in SUBSET Agents
  BY <1>1 DEF Agents
<1>3. graph \in TG!Graphs /\ attempts \in [Tasks -> Nat]
  BY <1>2, GraphAssign DEF Sound, Colonies, graph, attempts
<1>4. \A x \in Agents : c.agent[x] \in AgentNodes
  BY DEF Sound, Colonies
<1>5. gen \in Nat
  BY <1>1, <1>4 DEF AgentNodes, gen
<1>6. /\ born \in AgentNodes
      /\ born.role = role /\ born.task = t /\ born.parent = p
      /\ born.informed = informed
      /\ ~born.hasSpawned /\ ~born.awaiting /\ ~born.started
  <2>1. NoAgent \in AgentNodes /\ ~NoAgent.hasSpawned /\ ~NoAgent.awaiting
        /\ ~NoAgent.started
    BY DEF NoAgent, AgentNodes, Roles
  <2>2. QED
    BY <1>5, <2>1 DEF AgentNodes, AnyAgent, born
<1>7. ASSUME NEW x \in Agents
      PROVE  /\ SameAgent(c.agent[x], parent(x))
             /\ parent(x).parent = c.agent[x].parent
             /\ parent(x).informed = c.agent[x].informed
             /\ parent(x).hasSpawned =
                  IF x = p /\ p \in c.live THEN TRUE ELSE c.agent[x].hasSpawned
             /\ parent(x) \in AgentNodes
  BY <1>4 DEF SameAgent, AgentNodes, parent
<1>8. /\ agent \in [Agents -> AgentNodes]
      /\ agent[a] = born
      /\ \A x \in Agents : x # a => agent[x] = parent(x)
  BY <1>2, <1>6, <1>7 DEF agent
<1>9. d = [c EXCEPT !.born = a, !.room = c.room - 1, !.live = c.live \cup {a},
                    !.agent = agent, !.graph = graph, !.attempts = attempts]
  BY Zenon DEF SpawnAgent, gen, born, parent, agent, graph, attempts, d
<1>10. c \in Colonies
  BY DEF Sound
<1>11. d \in Colonies
  BY <1>2, <1>3, <1>8, <1>9, <1>10 DEF Colonies
<1>12. /\ d.born = a /\ d.live = c.live \cup {a} /\ d.graph = graph
       /\ d.agent = agent /\ d.attempts = attempts /\ d.room = c.room - 1
       /\ d.parentTask = c.parentTask /\ d.requiredRole = c.requiredRole
       /\ d.broke = c.broke
       /\ d.mailbox = c.mailbox /\ d.overflow = c.overflow /\ d.made = c.made
       /\ d.abandoned = c.abandoned /\ d.unstarted = c.unstarted
       /\ d.respawns = c.respawns /\ d.rejections = c.rejections
  BY <1>9, <1>10 DEF Colonies
<1>13. Sound(d)
  <2>1. d.live \subseteq 1 .. d.born /\ d.room <= MaxAgents - d.born
    BY <1>1, <1>2, <1>12
  <2>2. ASSUME NEW x \in d.live PROVE d.agent[x].task \in Tasks
    <3>1. CASE x = a
      BY <1>6, <1>8, <1>12, <3>1
    <3>2. CASE x # a
      <4>1. x \in c.live /\ x \in Agents
        BY <1>2, <1>12, <3>2
      <4>2. d.agent[x].task = c.agent[x].task
        BY <1>7, <1>8, <1>12, <3>2, <4>1 DEF SameAgent
      <4>3. QED
        BY <4>1, <4>2 DEF Sound
    <3>3. QED
      BY <3>1, <3>2
  <2>3. QED
    BY <1>11, <2>1, <2>2 DEF Sound
<1>14. Spawned(c, d, role, t, p, informed)
  <2>1. \A x \in Agents :
          x # a => /\ SameAgent(c.agent[x], d.agent[x])
                   /\ d.agent[x].parent = c.agent[x].parent
                   /\ d.agent[x].informed = c.agent[x].informed
                   /\ d.agent[x].hasSpawned =
                        IF x = p /\ p \in c.live THEN TRUE ELSE c.agent[x].hasSpawned
    BY <1>7, <1>8, <1>12
  <2>2. QED
    BY <1>2, <1>6, <1>8, <1>12, <1>13, <2>1 DEF Spawned, graph, attempts
<1>15. QED
  BY <1>14 DEF d

(* d is c after _retire_agent of a registered agent.                       *)
Retired(c, d, a) ==
  /\ Sound(d)
  /\ d.live = c.live \ {a}
  /\ \A x \in Agents :
       x # a => /\ SameAgent(c.agent[x], d.agent[x])
                /\ d.agent[x].parent = IF x \in c.live /\ c.agent[x].parent = a
                                         THEN c.agent[a].parent ELSE c.agent[x].parent
                /\ d.agent[x].informed = c.agent[x].informed
                /\ d.agent[x].hasSpawned = c.agent[x].hasSpawned
  /\ \A x \in Agents : d.overflow[x] = IF x = a THEN <<>> ELSE c.overflow[x]
  /\ d.born = c.born /\ d.room = c.room /\ d.graph = c.graph
  /\ d.parentTask = c.parentTask /\ d.requiredRole = c.requiredRole
  /\ d.broke = c.broke /\ d.mailbox = c.mailbox /\ d.made = c.made
  /\ d.abandoned = c.abandoned /\ d.unstarted = c.unstarted
  /\ d.respawns = c.respawns /\ d.rejections = c.rejections
  /\ d.attempts = c.attempts

LEMMA RetireFields ==
  ASSUME NEW c, Sound(c), NEW a \in c.live
  PROVE  Retired(c, RetireAgent(c, a), a)
<1> DEFINE d == RetireAgent(c, a)
           adopted(x) == IF x \in c.live /\ c.agent[x].parent = a
                           THEN [c.agent[x] EXCEPT !.parent = c.agent[a].parent]
                           ELSE c.agent[x]
           agent == [x \in Agents |-> IF x = a THEN NoAgent ELSE adopted(x)]
           overflow == [c.overflow EXCEPT ![a] = <<>>]
<1> HIDE DEF d, adopted, agent, overflow
<1>1. c \in Colonies /\ a \in Agents /\ c.overflow \in [Agents -> Seq(QueuedChildren)]
  BY DEF Sound, Colonies
<1>2. \A x \in Agents : c.agent[x] \in AgentNodes
  BY DEF Sound, Colonies
<1>3. overflow \in [Agents -> Seq(QueuedChildren)]
      /\ \A x \in Agents : overflow[x] = IF x = a THEN <<>> ELSE c.overflow[x]
  BY <1>1 DEF overflow
<1>4. ASSUME NEW x \in Agents
      PROVE  /\ SameAgent(c.agent[x], adopted(x))
             /\ adopted(x).parent = IF x \in c.live /\ c.agent[x].parent = a
                                      THEN c.agent[a].parent ELSE c.agent[x].parent
             /\ adopted(x).informed = c.agent[x].informed
             /\ adopted(x).hasSpawned = c.agent[x].hasSpawned
             /\ adopted(x) \in AgentNodes
  <2> DEFINE node == c.agent[x]
             above == c.agent[a].parent
  <2>1. node \in AgentNodes /\ above \in Agents \cup {None}
    BY <1>1, <1>2 DEF AgentNodes
  <2>2. adopted(x) = IF x \in c.live /\ node.parent = a
                       THEN [node EXCEPT !.parent = above] ELSE node
    BY DEF adopted
  <2> HIDE DEF node, above
  <2>3. [node EXCEPT !.parent = above] \in AgentNodes
        /\ SameAgent(node, [node EXCEPT !.parent = above])
        /\ [node EXCEPT !.parent = above].parent = above
        /\ [node EXCEPT !.parent = above].informed = node.informed
        /\ [node EXCEPT !.parent = above].hasSpawned = node.hasSpawned
    BY <2>1 DEF AgentNodes, SameAgent
  <2>4. SameAgent(node, node)
    BY DEF SameAgent
  <2>5. QED
    BY <2>1, <2>2, <2>3, <2>4 DEF node, above
<1>5. NoAgent \in AgentNodes
  BY DEF NoAgent, AgentNodes, Roles
<1>6. /\ agent \in [Agents -> AgentNodes]
      /\ \A x \in Agents : x # a => agent[x] = adopted(x)
  BY <1>4, <1>5 DEF agent
<1>7. d = [c EXCEPT !.live = @ \ {a}, !.agent = agent, !.overflow = overflow]
  BY DEF RetireAgent, adopted, agent, overflow, d
<1>8. d \in Colonies
  BY <1>1, <1>3, <1>6, <1>7 DEF Colonies
<1>9. /\ d.live = c.live \ {a} /\ d.agent = agent /\ d.overflow = overflow
      /\ d.born = c.born /\ d.room = c.room /\ d.graph = c.graph
      /\ d.parentTask = c.parentTask /\ d.requiredRole = c.requiredRole
      /\ d.broke = c.broke /\ d.mailbox = c.mailbox /\ d.made = c.made
      /\ d.abandoned = c.abandoned /\ d.unstarted = c.unstarted
      /\ d.respawns = c.respawns /\ d.rejections = c.rejections
      /\ d.attempts = c.attempts
  BY <1>1, <1>7 DEF Colonies
<1>10. Sound(d)
  <2>1. ASSUME NEW x \in d.live PROVE d.agent[x].task \in Tasks
    <3>1. x \in c.live /\ x # a /\ x \in Agents
      BY <1>1, <1>9 DEF Colonies
    <3>2. d.agent[x].task = c.agent[x].task
      BY <1>4, <1>6, <1>9, <3>1 DEF SameAgent
    <3>3. QED
      BY <3>1, <3>2 DEF Sound
  <2>2. QED
    BY <1>8, <1>9, <2>1 DEF Sound
<1>11. Retired(c, d, a)
  <2>1. \A x \in Agents :
          x # a => /\ SameAgent(c.agent[x], d.agent[x])
                   /\ d.agent[x].parent = IF x \in c.live /\ c.agent[x].parent = a
                                            THEN c.agent[a].parent
                                            ELSE c.agent[x].parent
                   /\ d.agent[x].informed = c.agent[x].informed
                   /\ d.agent[x].hasSpawned = c.agent[x].hasSpawned
    BY <1>4, <1>6, <1>9
  <2>2. QED
    BY <1>3, <1>9, <1>10, <2>1 DEF Retired
<1>12. QED
  BY <1>11 DEF d

(* The closing of t left agent x's task waiting for nothing.               *)
Unblocked(g, t, x) ==
  \E u \in g.dependents[t] : g.inDegree[u] = 0 /\ g.agent[u] = x

(* d is c after a task closed, completed or failed: its dependents were    *)
(* released, and agents yet to run were given the results they waited for: *)
(* all of them, by the time nothing blocks the task.                       *)
Settled(c, d, t, s) ==
  /\ Sound(d)
  /\ d.graph = IF s = "complete" THEN TG!CompleteTask(c.graph, t)
                                 ELSE TG!CloseFailed(c.graph, t)
  /\ Released(c.graph, t, s, d.graph)
  /\ \A x \in Agents : /\ SameAgent(c.agent[x], d.agent[x])
                       /\ d.agent[x].parent = c.agent[x].parent
                       /\ d.agent[x].hasSpawned = c.agent[x].hasSpawned
                       /\ \/ d.agent[x].informed = c.agent[x].informed
                          \/ d.agent[x].informed = DependenciesClosed(d, c.agent[x].task)
  /\ \A x \in c.live : ~c.agent[x].started /\ Unblocked(d.graph, t, x)
                          => d.agent[x].informed = DependenciesClosed(d, c.agent[x].task)
  /\ d.live = c.live /\ d.born = c.born /\ d.room = c.room
  /\ d.parentTask = c.parentTask /\ d.requiredRole = c.requiredRole
  /\ d.broke = c.broke /\ d.mailbox = c.mailbox /\ d.overflow = c.overflow
  /\ d.made = c.made /\ d.abandoned = c.abandoned /\ d.unstarted = c.unstarted
  /\ d.respawns = c.respawns /\ d.rejections = c.rejections
  /\ d.attempts = c.attempts

LEMMA SettleFields ==
  ASSUME NEW c, Sound(c), NEW t \in Tasks
  PROVE  /\ Settled(c, CompleteTask(c, t), t, "complete")
         /\ Settled(c, CloseFailed(c, t), t, "failed")
<1>1. ASSUME NEW s \in {"complete", "failed"}, NEW graph, Released(c.graph, t, s, graph),
             graph = IF s = "complete" THEN TG!CompleteTask(c.graph, t)
                                       ELSE TG!CloseFailed(c.graph, t)
      PROVE  Settled(c, ThreadResults([c EXCEPT !.graph = graph], t), t, s)
  <2> DEFINE b == [c EXCEPT !.graph = graph]
             d == ThreadResults(b, t)
             unblocked == {u \in b.graph.dependents[t] : b.graph.inDegree[u] = 0}
             threaded(a) ==
               IF /\ a \in b.live
                  /\ ~b.agent[a].started
                  /\ \E u \in unblocked : b.graph.agent[u] = a
                 THEN [b.agent[a] EXCEPT
                         !.informed = DependenciesClosed(b, b.agent[a].task)]
                 ELSE b.agent[a]
             agent == [a \in Agents |-> threaded(a)]
  <2> HIDE DEF b, d, unblocked, threaded, agent
  <2>1. c \in Colonies /\ graph \in TG!Graphs
    BY <1>1 DEF Sound, Released
  <2>2. b \in Colonies /\ b.graph = graph /\ b.agent = c.agent /\ b.live = c.live
    BY <2>1 DEF Colonies, b
  <2>3. \A x \in Agents : c.agent[x] \in AgentNodes
    BY <2>1 DEF Colonies
  <2>4. ASSUME NEW x \in Agents
        PROVE  /\ SameAgent(c.agent[x], threaded(x))
               /\ threaded(x).parent = c.agent[x].parent
               /\ threaded(x).hasSpawned = c.agent[x].hasSpawned
               /\ threaded(x) \in AgentNodes
               /\ \/ threaded(x).informed = c.agent[x].informed
                  \/ threaded(x).informed = DependenciesClosed(b, c.agent[x].task)
               /\ x \in c.live /\ ~c.agent[x].started /\ Unblocked(graph, t, x)
                    => threaded(x).informed = DependenciesClosed(b, c.agent[x].task)
    <3> DEFINE node == c.agent[x]
               told == DependenciesClosed(b, node.task)
    <3>1. told \in BOOLEAN
      BY DEF DependenciesClosed
    <3>2. node \in AgentNodes /\ node = b.agent[x]
      BY <2>2, <2>3
    <3>3. threaded(x) = IF /\ x \in c.live /\ ~node.started
                           /\ \E u \in unblocked : b.graph.agent[u] = x
                          THEN [node EXCEPT !.informed = told] ELSE node
      BY <2>2, <3>2 DEF threaded
    <3>4. (\E u \in unblocked : b.graph.agent[u] = x) <=> Unblocked(graph, t, x)
      BY <2>2 DEF unblocked, Unblocked
    <3> HIDE DEF node, told
    <3>5. /\ [node EXCEPT !.informed = told] \in AgentNodes
          /\ [node EXCEPT !.informed = told].informed = told
          /\ SameAgent(node, [node EXCEPT !.informed = told])
          /\ [node EXCEPT !.informed = told].parent = node.parent
          /\ [node EXCEPT !.informed = told].hasSpawned = node.hasSpawned
      BY <3>1, <3>2 DEF SameAgent, AgentNodes
    <3>6. SameAgent(node, node)
      BY DEF SameAgent
    <3>7. /\ SameAgent(node, threaded(x)) /\ threaded(x).parent = node.parent
          /\ threaded(x).hasSpawned = node.hasSpawned /\ threaded(x) \in AgentNodes
          /\ threaded(x).informed = node.informed \/ threaded(x).informed = told
          /\ x \in c.live /\ ~node.started /\ Unblocked(graph, t, x)
               => threaded(x).informed = told
      BY <3>2, <3>3, <3>4, <3>5, <3>6
    <3>8. QED
      BY <3>7 DEF node, told
  <2>5. agent \in [Agents -> AgentNodes] /\ \A x \in Agents : agent[x] = threaded(x)
    BY <2>4 DEF agent
  <2>6. d = IF unblocked = {} THEN b ELSE [b EXCEPT !.agent = agent]
    BY DEF ThreadResults, unblocked, threaded, agent, d
  <2>7. /\ d \in Colonies /\ d.graph = graph
        /\ d.agent = IF unblocked = {} THEN c.agent ELSE agent
        /\ d.live = c.live /\ d.born = c.born /\ d.room = c.room
        /\ d.parentTask = c.parentTask /\ d.requiredRole = c.requiredRole
        /\ d.broke = c.broke /\ d.mailbox = c.mailbox /\ d.overflow = c.overflow
        /\ d.made = c.made /\ d.abandoned = c.abandoned /\ d.unstarted = c.unstarted
        /\ d.respawns = c.respawns /\ d.rejections = c.rejections
        /\ d.attempts = c.attempts
    BY <2>1, <2>2, <2>5, <2>6 DEF Colonies, b
  <2>8. \A x \in Agents : /\ SameAgent(c.agent[x], d.agent[x])
                          /\ d.agent[x].parent = c.agent[x].parent
                          /\ d.agent[x].hasSpawned = c.agent[x].hasSpawned
    BY <2>4, <2>5, <2>7 DEF SameAgent
  <2>a. \A u : DependenciesClosed(b, u) = DependenciesClosed(d, u)
    BY <2>2, <2>7 DEF DependenciesClosed
  <2>b. \A x \in Agents : \/ d.agent[x].informed = c.agent[x].informed
                          \/ d.agent[x].informed = DependenciesClosed(d, c.agent[x].task)
    BY <2>4, <2>5, <2>7, <2>a
  <2>c. ASSUME NEW x \in c.live, ~c.agent[x].started, Unblocked(d.graph, t, x)
        PROVE  d.agent[x].informed = DependenciesClosed(d, c.agent[x].task)
    <3>1. unblocked # {}
      BY <2>2, <2>7, <2>c DEF unblocked, Unblocked
    <3>2. x \in Agents
      BY <2>1 DEF Colonies
    <3>3. QED
      BY <2>4, <2>5, <2>7, <2>a, <2>c, <3>1, <3>2
  <2>9. Sound(d)
    <3>1. \A x \in d.live : d.agent[x].task \in Tasks
      BY <2>1, <2>7, <2>8 DEF Sound, SameAgent, Colonies
    <3>2. QED
      BY <2>7, <3>1 DEF Sound
  <2>10. Settled(c, d, t, s)
    BY <1>1, <2>7, <2>8, <2>9, <2>b, <2>c DEF Settled
  <2>11. QED
    BY <2>10 DEF b, d
<1>2. c.graph \in TG!Graphs
  BY DEF Sound, Colonies
<1>3. /\ Released(c.graph, t, "complete", TG!CompleteTask(c.graph, t))
      /\ Released(c.graph, t, "failed", TG!CloseFailed(c.graph, t))
  BY <1>2, GraphClose
<1>4. QED
  BY <1>1, <1>3 DEF CompleteTask, CloseFailed

(* d is c after add_task has made a task of a subtask of agent p.          *)
Grown(c, d, kid, p) ==
  /\ Sound(d)
  /\ d.graph = TG!AddTask(c.graph, kid.task, kid.dependencies)
  /\ d.parentTask = [c.parentTask EXCEPT ![kid.task] = IF p \in c.live THEN c.agent[p].task
                                                                       ELSE None]
  /\ d.requiredRole = [c.requiredRole EXCEPT ![kid.task] = kid.role]
  /\ d.agent = c.agent /\ d.live = c.live /\ d.born = c.born /\ d.room = c.room
  /\ d.broke = c.broke /\ d.mailbox = c.mailbox /\ d.overflow = c.overflow
  /\ d.made = c.made /\ d.abandoned = c.abandoned /\ d.unstarted = c.unstarted
  /\ d.respawns = c.respawns /\ d.rejections = c.rejections
  /\ d.attempts = c.attempts

LEMMA AddChildFields ==
  ASSUME NEW c, Sound(c), NEW kid \in QueuedChildren, NEW p \in AnyAgent
  PROVE  Grown(c, AddChild(c, kid, p), kid, p)
<1> DEFINE d == AddChild(c, kid, p)
           parent == IF p \in c.live THEN c.agent[p].task ELSE None
<1>1. c \in Colonies /\ c.graph \in TG!Graphs
  BY DEF Sound, Colonies
<1>2. kid.task \in Tasks /\ kid.role \in Roles /\ kid.dependencies \in SUBSET Tasks
  BY DEF QueuedChildren
<1>3. TG!AddTask(c.graph, kid.task, kid.dependencies) \in TG!Graphs
  BY <1>1, <1>2, GraphAdd
<1>4. parent \in Tasks \cup {None}
  BY DEF Sound
<1>5. d = [c EXCEPT !.graph = TG!AddTask(c.graph, kid.task, kid.dependencies),
                    !.parentTask = [c.parentTask EXCEPT ![kid.task] = parent],
                    !.requiredRole = [c.requiredRole EXCEPT ![kid.task] = kid.role]]
  BY DEF AddChild
<1> HIDE DEF d, parent
<1>6. d \in Colonies
  BY <1>1, <1>2, <1>3, <1>4, <1>5 DEF Colonies
<1>7. /\ d.graph = TG!AddTask(c.graph, kid.task, kid.dependencies)
      /\ d.parentTask = [c.parentTask EXCEPT ![kid.task] = parent]
      /\ d.requiredRole = [c.requiredRole EXCEPT ![kid.task] = kid.role]
      /\ d.agent = c.agent /\ d.live = c.live /\ d.born = c.born /\ d.room = c.room
      /\ d.broke = c.broke /\ d.mailbox = c.mailbox /\ d.overflow = c.overflow
      /\ d.made = c.made /\ d.abandoned = c.abandoned /\ d.unstarted = c.unstarted
      /\ d.respawns = c.respawns /\ d.rejections = c.rejections
      /\ d.attempts = c.attempts
  BY <1>1, <1>5 DEF Colonies
<1>8. Sound(d)
  BY <1>6, <1>7 DEF Sound
<1>9. Grown(c, d, kid, p)
  BY <1>7, <1>8 DEF Grown, parent
<1>10. QED
  BY <1>9 DEF d

----------------------------------------------------------------------------
(* The loops of the handlers *)

(* The state _close_unstartable_child leaves is the one in which the last  *)
(* of the children was closed, with all of them reported.                  *)
CloseOne(c, kid, p) == CloseFailed(AddChild(c, kid, p), kid.task)

Reports(kids, p) ==
  [i \in DOMAIN kids |-> Notification(p, kids[Len(kids) + 1 - i].task)]

Lost(c, kids, p) ==
  [c EXCEPT !.unstarted = @ \cup {kids[i].task : i \in DOMAIN kids},
            !.broke = TRUE,
            !.mailbox = IF p = None THEN @ ELSE @ \o Reports(kids, p)]

LEMMA CloseUnstartableLoop ==
  ASSUME NEW kids \in Seq(QueuedChildren), NEW p, NEW S, NEW c \in S[0],
         \A i \in 1 .. Len(kids) : \A b \in S[i - 1] : CloseOne(b, kids[i], p) \in S[i]
  PROVE  \E b \in S[Len(kids)] : CloseUnstartable(c, kids, p) = Lost(b, kids, p)
<1> DEFINE n == Len(kids)
           All == UNION {S[i] : i \in 0 .. n}
           body == [x \in All \X (1 .. n) |-> CloseOne(x[1], kids[x[2]], p)]
<1>1. n \in Nat
  OBVIOUS
<1>2. \A i \in 1 .. n : \A b \in S[i - 1] : /\ body[<<b, i>>] = CloseOne(b, kids[i], p)
                                            /\ body[<<b, i>>] \in S[i]
  <2> HIDE DEF All, body
  <2> SUFFICES ASSUME NEW i \in 1 .. n, NEW b \in S[i - 1]
               PROVE  body[<<b, i>>] = CloseOne(b, kids[i], p)
    OBVIOUS
  <2> USE DEF All, body
  <2>1. i - 1 \in 0 .. n
    BY <1>1
  <2>2. b \in All
    BY <2>1
  <2> HIDE DEF All
  <2>3. QED
    BY <2>2
<1> HIDE DEF body, n
<1>a. \A i \in 1 .. n : \A x \in S[i - 1] : body[<<x, i>>] \in S[i]
  BY <1>2
<1>b. PICK f : Loop(f, n, c, body) /\ \A i \in 0 .. n : f[i] \in S[i]
  BY <1>1, <1>a, LoopRuns
<1>3. /\ f = [i \in 0 .. n |-> IF i = 0 THEN c ELSE body[<<f[i - 1], i>>]]
      /\ \A i \in 0 .. n : f[i] \in S[i]
  BY <1>b DEF Loop
<1>4. f = [i \in 0 .. n |-> IF i = 0 THEN c ELSE CloseOne(f[i - 1], kids[i], p)]
  <2>1. ASSUME NEW i \in 0 .. n
        PROVE  f[i] = IF i = 0 THEN c ELSE CloseOne(f[i - 1], kids[i], p)
    <3>1. CASE i = 0
      BY <1>3, <3>1
    <3>2. CASE i # 0
      <4>1. i \in 1 .. n /\ i - 1 \in 0 .. n
        BY <1>1, <3>2
      <4>2. f[i] = body[<<f[i - 1], i>>] /\ f[i - 1] \in S[i - 1]
        BY <1>3, <3>2, <4>1
      <4>3. QED
        BY <1>2, <3>2, <4>1, <4>2
    <3>3. QED
      BY <3>1, <3>2
  <2>2. f = [i \in 0 .. n |-> f[i]]
    BY <1>3
  <2>3. QED
    BY <2>1, <2>2
<1>5. PICK closed : /\ closed = [i \in 0 .. n |-> IF i = 0 THEN c
                                                ELSE CloseOne(closed[i - 1], kids[i], p)]
                    /\ CloseUnstartable(c, kids, p) = Lost(closed[n], kids, p)
  BY <1>4 DEF CloseUnstartable, CloseOne, Reports, Lost, n
<1>6. n \in {i \in 0 .. n : closed[i] \in S[i]}
  <2> DEFINE P == {i \in 0 .. n : closed[i] \in S[i]}
  <2>1. \A i \in 0 .. n :
          closed[i] = IF i = 0 THEN c ELSE CloseOne(closed[i - 1], kids[i], p)
    BY <1>5
  <2>2. 0 \in P
    BY <1>1, <2>1
  <2>3. ASSUME NEW i \in 1 .. n, i - 1 \in P PROVE i \in P
    <3>1. i \in 0 .. n /\ i # 0 /\ i \in 1 .. Len(kids)
      BY DEF n
    <3>2. closed[i] = CloseOne(closed[i - 1], kids[i], p)
      BY <2>1, <3>1
    <3>3. QED
      BY <2>3, <3>1, <3>2
  <2>4. P \in SUBSET (0 .. n)
    OBVIOUS
  <2> HIDE DEF P
  <2>5. P = 0 .. n
    BY <1>1, <2>2, <2>3, <2>4, Induct
  <2>6. n \in 0 .. n
    BY <1>1
  <2>7. QED
    BY <2>5, <2>6 DEF P
<1>7. QED
  BY <1>5, <1>6 DEF n

----------------------------------------------------------------------------
(* The operations keep a colony sound and leave no task to dispatch *)

LEMMA CoreEvolves ==
  ASSUME NEW c, Sound(c), NEW d \in Colonies,
         d.graph = c.graph, d.agent = c.agent, d.live = c.live,
         d.born = c.born, d.room <= c.room, d.made = c.made,
         Grows(c.mailbox, d.mailbox)
  PROVE  Builds(c, d)
<1>1. d.room <= MaxAgents - d.born
  BY BoundsArePositive DEF Sound, Colonies
<1>2. QED
  BY <1>1 DEF Builds, Evolves, Sound, Waiting

LEMMA SameEvolves == ASSUME NEW c, Sound(c) PROVE Builds(c, c)
<1>1. c \in Colonies /\ c.room <= c.room /\ Grows(c.mailbox, c.mailbox)
  BY GrowsSame DEF Sound, Colonies
<1>2. QED
  BY <1>1, CoreEvolves

LEMMA SpawnEvolves ==
  ASSUME NEW c, NEW d, NEW role, NEW t \in Tasks, NEW p, NEW informed,
         Sound(c), Spawned(c, d, role, t, p, informed)
  PROVE  Builds(c, d) /\ t \notin Waiting(d)
<1> DEFINE a == c.born + 1
<1>1. c.graph \in TG!Graphs /\ c.mailbox \in Seq(Messages)
  BY DEF Sound, Colonies
<1>2. a \in Agents /\ d.graph = TG!AssignAgent(c.graph, t, a) /\ Sound(d)
      /\ d.mailbox = c.mailbox /\ d.made = c.made /\ c.live \subseteq d.live
  BY DEF Spawned
<1> HIDE DEF a
<1>3. \A u \in Tasks : /\ d.graph.agent[u] = IF u = t THEN a ELSE c.graph.agent[u]
                       /\ d.graph.status[u] = IF u = t /\ c.graph.inDegree[t] = 0
                                                THEN "running" ELSE c.graph.status[u]
  BY <1>1, <1>2, GraphAssign
<1>4. a # None
  BY <1>2, GraphSetting
<1>5. Waiting(d) \subseteq Waiting(c) /\ t \notin Waiting(d)
  BY <1>3, <1>4 DEF Waiting
<1>6. QED
  BY <1>1, <1>2, <1>5, GrowsSame DEF Builds, Evolves

LEMMA SettleEvolves ==
  ASSUME NEW c, NEW d, NEW t \in Tasks, NEW s \in {"complete", "failed"},
         Sound(c), Settled(c, d, t, s)
  PROVE  Builds(c, d) /\ t \notin Waiting(d)
<1>1. c.mailbox \in Seq(Messages) /\ d.mailbox = c.mailbox /\ Sound(d) /\ d.made = c.made
      /\ d.live = c.live
  BY DEF Sound, Colonies, Settled
<1>2. /\ d.graph.agent = c.graph.agent
      /\ \A u \in Tasks :
           \/ d.graph.status[u] = IF u = t THEN s ELSE c.graph.status[u]
           \/ d.graph.status[u] = "running"
  BY DEF Settled, Released
<1>3. Waiting(d) \subseteq Waiting(c) /\ t \notin Waiting(d)
  BY <1>2 DEF Waiting
<1>4. QED
  BY <1>1, <1>3, GrowsSame DEF Builds, Evolves

LEMMA RetireEvolves ==
  ASSUME NEW c, Sound(c), NEW a
  PROVE  Evolves(c, RetireAgent(c, a))
<1>1. CASE a \in c.live
  <2>1. Retired(c, RetireAgent(c, a), a)
    BY <1>1, RetireFields
  <2>2. c.mailbox \in Seq(Messages)
    BY DEF Sound, Colonies
  <2> HIDE DEF RetireAgent
  <2>3. QED
    BY <2>1, <2>2, GrowsSame DEF Retired, Evolves, Waiting
<1>2. CASE a \notin c.live
  BY <1>2, SameEvolves DEF RetireAgent, Builds
<1>3. QED
  BY <1>1, <1>2

(* A subtask added to the graph is given an agent, or closed, at once.     *)
LEMMA AddEvolves ==
  ASSUME NEW c, NEW d, NEW e, Sound(c), NEW kid \in QueuedChildren, NEW p,
         Grown(c, d, kid, p), Builds(d, e), kid.task \notin Waiting(e)
  PROVE  Builds(c, e)
<1>1. c.graph \in TG!Graphs /\ kid.task \in Tasks /\ kid.dependencies \in SUBSET Tasks
  BY DEF Sound, Colonies, QueuedChildren
<1>2. d.graph = TG!AddTask(c.graph, kid.task, kid.dependencies)
      /\ d.mailbox = c.mailbox /\ d.made = c.made /\ d.live = c.live
  BY DEF Grown
<1>3. /\ d.graph.agent = c.graph.agent
      /\ \A u \in Tasks : d.graph.status[u] = IF u = kid.task THEN "pending"
                                                              ELSE c.graph.status[u]
  BY <1>1, <1>2, GraphAdd
<1>4. Waiting(e) \subseteq Waiting(c)
  BY <1>3 DEF Waiting, Builds, Evolves
<1>5. QED
  BY <1>2, <1>4 DEF Builds, Evolves

LEMMA StartEvolves ==
  ASSUME NEW c, Sound(c), NEW kid \in QueuedChildren, NEW p \in AnyAgent, c.room > 0
  PROVE  LET added == AddChild(c, kid, p)
         IN Builds(c, SpawnAgent(added, kid.role, kid.task, p,
                                  DependenciesClosed(added, kid.task)))
<1> DEFINE d == AddChild(c, kid, p)
           informed == DependenciesClosed(d, kid.task)
           e == SpawnAgent(d, kid.role, kid.task, p, informed)
<1>1. informed \in BOOLEAN /\ kid.task \in Tasks /\ kid.role \in Roles
  BY DEF DependenciesClosed, QueuedChildren
<1>2. Grown(c, d, kid, p)
  BY AddChildFields
<1> HIDE DEF d, informed
<1>3. Sound(d) /\ d.room > 0
  BY <1>2 DEF Grown
<1>4. Spawned(d, e, kid.role, kid.task, p, informed)
  BY <1>1, <1>3, SpawnFields
<1> HIDE DEF e
<1>5. Builds(d, e) /\ kid.task \notin Waiting(e)
  BY <1>1, <1>3, <1>4, SpawnEvolves
<1>6. Builds(c, e)
  BY <1>2, <1>5, AddEvolves
<1>7. QED
  BY <1>6 DEF d, e, informed

LEMMA CloseOneEvolves ==
  ASSUME NEW c, Sound(c), NEW kid \in QueuedChildren, NEW p \in AnyAgent
  PROVE  Builds(c, CloseOne(c, kid, p)) /\ CloseOne(c, kid, p).mailbox = c.mailbox
<1> DEFINE d == AddChild(c, kid, p)
           e == CloseFailed(d, kid.task)
<1>1. kid.task \in Tasks
  BY DEF QueuedChildren
<1>2. Grown(c, d, kid, p)
  BY AddChildFields
<1> HIDE DEF d
<1>3. Sound(d) /\ d.mailbox = c.mailbox
  BY <1>2 DEF Grown
<1>4. Settled(d, e, kid.task, "failed")
  BY <1>1, <1>3, SettleFields
<1> HIDE DEF e
<1>5. Builds(d, e) /\ kid.task \notin Waiting(e) /\ e.mailbox = d.mailbox
  BY <1>1, <1>3, <1>4, SettleEvolves DEF Settled
<1>6. Builds(c, e)
  BY <1>2, <1>5, AddEvolves
<1>7. QED
  BY <1>3, <1>5, <1>6 DEF d, e, CloseOne

(* Appending to the mailbox events that are no SPAWN.                      *)
LEMMA AppendEvolves ==
  ASSUME NEW c, Sound(c), NEW q \in Seq(Messages),
         \A i \in 1 .. Len(q) : q[i].type # "spawn"
  PROVE  Builds(c, [c EXCEPT !.mailbox = @ \o q])
<1> DEFINE d == [c EXCEPT !.mailbox = @ \o q]
<1>1. c \in Colonies /\ c.mailbox \in Seq(Messages)
  BY DEF Sound, Colonies
<1>2. Grows(c.mailbox, c.mailbox \o q)
  BY <1>1 DEF Grows
<1>a. c.mailbox \o q \in Seq(Messages)
  BY <1>1
<1>3. d \in Colonies /\ d.mailbox = c.mailbox \o q
      /\ d.graph = c.graph /\ d.agent = c.agent /\ d.live = c.live
      /\ d.born = c.born /\ d.room = c.room /\ d.made = c.made
  BY <1>1, <1>a DEF Colonies
<1> HIDE DEF d
<1>4. d.room <= c.room
  BY <1>3 DEF Colonies
<1>5. Builds(c, d)
  BY <1>2, <1>3, <1>4, CoreEvolves
<1>6. QED
  BY <1>5 DEF d

LEMMA PushEvolves ==
  ASSUME NEW c, Sound(c), NEW e \in Messages, e.type # "spawn"
  PROVE  Builds(c, Push(c, e))
<1>1. <<e>> \in Seq(Messages) /\ \A i \in 1 .. Len(<<e>>) : <<e>>[i].type # "spawn"
  OBVIOUS
<1>2. Append(c.mailbox, e) = c.mailbox \o <<e>>
  BY DEF Sound, Colonies
<1>3. Push(c, e) = [c EXCEPT !.mailbox = @ \o <<e>>]
  BY <1>2 DEF Push
<1>4. QED
  BY <1>1, <1>3, AppendEvolves

LEMMA NotificationIsMessage ==
  ASSUME NEW p \in Agents, NEW t \in Tasks
  PROVE  Notification(p, t) \in Messages /\ Notification(p, t).type # "spawn"
BY DEF Notification, Messages

LEMMA NotifyEvolves ==
  ASSUME NEW c, Sound(c), NEW p \in AnyAgent, NEW t \in Tasks
  PROVE  Builds(c, Notify(c, p, t))
<1>1. CASE p = None
  BY <1>1, SameEvolves DEF Notify
<1>2. CASE p # None
  <2>1. p \in Agents
    BY <1>2 DEF AnyAgent
  <2>2. QED
    BY <1>2, <2>1, NotificationIsMessage, PushEvolves DEF Notify
<1>3. QED
  BY <1>1, <1>2

LEMMA ReportsAreMessages ==
  ASSUME NEW kids \in Seq(QueuedChildren), NEW p \in Agents
  PROVE  /\ Reports(kids, p) \in Seq(Messages)
         /\ \A i \in 1 .. Len(Reports(kids, p)) :
              Reports(kids, p)[i].type # "spawn"
<1> DEFINE n == Len(kids)
           q == [i \in 1 .. n |-> Notification(p, kids[n + 1 - i].task)]
<1>1. n \in Nat /\ DOMAIN kids = 1 .. n
  OBVIOUS
<1>2. ASSUME NEW i \in 1 .. n
      PROVE  q[i] \in Messages /\ q[i].type # "spawn"
  <2>1. n + 1 - i \in 1 .. n
    BY <1>1
  <2>2. kids[n + 1 - i] \in QueuedChildren
    BY <1>1, <2>1
  <2>3. kids[n + 1 - i].task \in Tasks
    BY <2>2 DEF QueuedChildren
  <2>4. QED
    BY <2>3, NotificationIsMessage
<1>3. Reports(kids, p) = q
  BY <1>1 DEF Reports
<1> HIDE DEF n, q
<1>4. q \in [1 .. n -> Messages]
  BY <1>2 DEF q
<1>5. q \in Seq(Messages) /\ Len(q) = n
  BY <1>1, <1>4
<1>6. QED
  BY <1>2, <1>3, <1>5

LEMMA CloseUnstartableEvolves ==
  ASSUME NEW c, Sound(c), NEW kids \in Seq(QueuedChildren), NEW p \in AnyAgent
  PROVE  Builds(c, CloseUnstartable(c, kids, p))
<1> DEFINE Good == {b \in Colonies : Builds(c, b)}
           S == [i \in 0 .. Len(kids) |-> Good]
           lost == {kids[i].task : i \in DOMAIN kids}
<1>1. c \in S[0]
  BY SameEvolves DEF Sound
<1>2. ASSUME NEW i \in 1 .. Len(kids), NEW b \in S[i - 1]
      PROVE  CloseOne(b, kids[i], p) \in S[i]
  <2>1. b \in Good /\ kids[i] \in QueuedChildren
    OBVIOUS
  <2>2. Sound(b) /\ Builds(c, b)
    BY <2>1 DEF Builds, Evolves
  <2>3. Builds(b, CloseOne(b, kids[i], p))
    BY <2>1, <2>2, CloseOneEvolves
  <2>4. Builds(c, CloseOne(b, kids[i], p))
    BY <2>2, <2>3, BuildsTwice
  <2>5. CloseOne(b, kids[i], p) \in Colonies
    BY <2>4 DEF Builds, Evolves, Sound
  <2>6. QED
    BY <2>4, <2>5
<1>3. Len(kids) \in 0 .. Len(kids)
  OBVIOUS
<1>4. lost \in SUBSET Tasks
  <2>1. \A i \in DOMAIN kids : kids[i] \in QueuedChildren
    OBVIOUS
  <2>2. QED
    BY <2>1 DEF QueuedChildren
<1>5. S[Len(kids)] = Good
  BY <1>3
<1> HIDE DEF S, lost
<1>6. PICK b \in S[Len(kids)] : CloseUnstartable(c, kids, p) = Lost(b, kids, p)
  BY <1>1, <1>2, CloseUnstartableLoop
<1> DEFINE d == [b EXCEPT !.unstarted = @ \cup lost, !.broke = TRUE]
<1>7. Sound(b) /\ Builds(c, b) /\ b \in Colonies
  BY <1>5, <1>6 DEF Builds, Evolves
<1>8. d \in Colonies /\ d.graph = b.graph /\ d.agent = b.agent /\ d.live = b.live
      /\ d.born = b.born /\ d.room = b.room /\ d.made = b.made /\ d.mailbox = b.mailbox
  BY <1>4, <1>7 DEF Colonies
<1>9. CloseUnstartable(c, kids, p) =
        IF p = None THEN d ELSE [d EXCEPT !.mailbox = @ \o Reports(kids, p)]
  BY <1>6, <1>7 DEF Colonies, Lost, lost
<1> HIDE DEF d
<1>10. Builds(b, d)
  <2>1. b.room <= b.room /\ Grows(b.mailbox, b.mailbox)
    BY <1>7, GrowsSame DEF Colonies
  <2>2. QED
    BY <1>7, <1>8, <2>1, CoreEvolves
<1>11. Builds(c, d)
  BY <1>7, <1>10, BuildsTwice
<1>12. CASE p = None
  BY <1>9, <1>11, <1>12
<1>13. CASE p # None
  <2>1. p \in Agents
    BY <1>13 DEF AnyAgent
  <2>2. Sound(d)
    BY <1>11 DEF Builds, Evolves
  <2>3. Builds(d, [d EXCEPT !.mailbox = @ \o Reports(kids, p)])
    BY <2>1, <2>2, ReportsAreMessages, AppendEvolves
  <2>4. QED
    BY <1>9, <1>11, <1>13, <2>3, BuildsTwice
<1>14. QED
  BY <1>12, <1>13

LEMMA SpawnChildEvolves ==
  ASSUME NEW c, Sound(c), NEW kid \in QueuedChildren, NEW p \in AnyAgent
  PROVE  Builds(c, SpawnChildTask(c, kid, p))
<1>1. CASE c.room > 0
  BY <1>1, StartEvolves DEF SpawnChildTask
<1>2. CASE ~(c.room > 0)
  <2> DEFINE queued == IF p = None THEN <<>> ELSE c.overflow[p]
             b == IF p = None THEN c ELSE [c EXCEPT !.overflow[p] = <<>>]
  <2>1. c \in Colonies /\ c.overflow \in [Agents -> Seq(QueuedChildren)]
    BY DEF Sound, Colonies
  <2>2. p # None => p \in Agents
    BY DEF AnyAgent
  <2>3. queued \in Seq(QueuedChildren)
    BY <2>1, <2>2
  <2>4. <<kid>> \o queued \in Seq(QueuedChildren)
    BY <2>3
  <2>5. b \in Colonies /\ b.graph = c.graph /\ b.agent = c.agent /\ b.live = c.live
        /\ b.born = c.born /\ b.room = c.room /\ b.made = c.made /\ b.mailbox = c.mailbox
    <3>1. CASE p = None
      BY <2>1, <3>1
    <3>2. CASE p # None
      <4>1. [c.overflow EXCEPT ![p] = <<>>] \in [Agents -> Seq(QueuedChildren)]
        BY <2>1, <2>2, <3>2
      <4>2. b = [c EXCEPT !.overflow = [c.overflow EXCEPT ![p] = <<>>]]
        BY <2>1, <3>2 DEF Colonies
      <4> HIDE DEF b
      <4>3. QED
        BY <2>1, <4>1, <4>2 DEF Colonies
    <3>3. QED
      BY <3>1, <3>2
  <2>6. SpawnChildTask(c, kid, p) = CloseUnstartable(b, <<kid>> \o queued, p)
    BY <1>2 DEF SpawnChildTask
  <2> HIDE DEF b, queued
  <2>7. c.room <= c.room /\ Grows(c.mailbox, c.mailbox)
    BY <2>1, GrowsSame DEF Colonies
  <2>8. Builds(c, b)
    BY <2>5, <2>7, CoreEvolves
  <2>9. Sound(b)
    BY <2>8 DEF Builds, Evolves
  <2>10. Builds(b, CloseUnstartable(b, <<kid>> \o queued, p))
    BY <2>4, <2>9, CloseUnstartableEvolves
  <2>11. QED
    BY <2>6, <2>8, <2>10, BuildsTwice
<1>3. QED
  BY <1>1, <1>2

LEMMA DrainEvolves ==
  ASSUME NEW c, Sound(c), NEW p \in AnyAgent
  PROVE  Builds(c, DrainPendingOverflow(c, p))
<1>1. CASE p = None \/ c.overflow[p] = <<>>
  BY <1>1, SameEvolves DEF DrainPendingOverflow
<1>2. CASE p # None /\ c.overflow[p] # <<>>
  <2> DEFINE b == [c EXCEPT !.overflow[p] = Tail(@)]
  <2>1. c \in Colonies /\ c.overflow \in [Agents -> Seq(QueuedChildren)] /\ p \in Agents
    BY <1>2 DEF Sound, Colonies, AnyAgent
  <2>2. Head(c.overflow[p]) \in QueuedChildren /\ Tail(c.overflow[p]) \in Seq(QueuedChildren)
    BY <1>2, <2>1
  <2>3. b \in Colonies /\ b.graph = c.graph /\ b.agent = c.agent /\ b.live = c.live
        /\ b.born = c.born /\ b.room = c.room /\ b.made = c.made /\ b.mailbox = c.mailbox
    <3>1. [c.overflow EXCEPT ![p] = Tail(@)] \in [Agents -> Seq(QueuedChildren)]
      BY <2>1, <2>2
    <3>2. b = [c EXCEPT !.overflow = [c.overflow EXCEPT ![p] = Tail(@)]]
      BY <2>1 DEF Colonies
    <3> HIDE DEF b
    <3>3. QED
      BY <2>1, <3>1, <3>2 DEF Colonies
  <2>4. DrainPendingOverflow(c, p) = SpawnChildTask(b, Head(c.overflow[p]), p)
    BY <1>2 DEF DrainPendingOverflow
  <2> HIDE DEF b
  <2>5. c.room <= c.room /\ Grows(c.mailbox, c.mailbox)
    BY <2>1, GrowsSame DEF Colonies
  <2>6. Builds(c, b)
    BY <2>3, <2>5, CoreEvolves
  <2>7. Sound(b)
    BY <2>6 DEF Builds, Evolves
  <2>8. Builds(b, SpawnChildTask(b, Head(c.overflow[p]), p))
    BY <2>2, <2>7, SpawnChildEvolves
  <2>9. QED
    BY <2>4, <2>6, <2>8, BuildsTwice
<1>3. QED
  BY <1>1, <1>2

LEMMA FreeSlotEvolves ==
  ASSUME NEW c, Sound(c), NEW p \in AnyAgent, NEW t \in Tasks
  PROVE  Builds(c, FreeSlotAndNotify(c, p, t))
<1> DEFINE b == DrainPendingOverflow(c, p)
<1>1. Builds(c, b)
  BY DrainEvolves
<1> HIDE DEF b
<1>2. Sound(b)
  BY <1>1 DEF Builds, Evolves
<1>3. Builds(b, Notify(b, p, t))
  BY <1>2, NotifyEvolves
<1>4. Builds(c, Notify(b, p, t))
  BY <1>1, <1>3, BuildsTwice
<1>5. QED
  BY <1>4 DEF FreeSlotAndNotify, b

LEMMA CloseFailedEvolves ==
  ASSUME NEW c, Sound(c), NEW t \in Tasks
  PROVE  /\ Builds(c, CompleteTask(c, t))
         /\ Builds(c, CloseFailed(c, t))
BY SettleFields, SettleEvolves

LEMMA AbandonEvolves ==
  ASSUME NEW c, Sound(c), NEW t \in Tasks, NEW p \in AnyAgent
  PROVE  Builds(c, AbandonTask(c, t, p))
<1> DEFINE b == [c EXCEPT !.abandoned = @ \cup {t}]
           d == CloseFailed(b, t)
<1>1. c \in Colonies /\ c.room <= c.room /\ Grows(c.mailbox, c.mailbox)
  BY GrowsSame DEF Sound, Colonies
<1>2. b \in Colonies /\ b.graph = c.graph /\ b.agent = c.agent /\ b.live = c.live
      /\ b.born = c.born /\ b.room = c.room /\ b.made = c.made /\ b.mailbox = c.mailbox
  BY <1>1 DEF Colonies
<1>3. AbandonTask(c, t, p) = FreeSlotAndNotify(d, p, t)
  BY DEF AbandonTask
<1> HIDE DEF b
<1>4. Builds(c, b)
  BY <1>1, <1>2, CoreEvolves
<1>5. Sound(b)
  BY <1>4 DEF Builds, Evolves
<1>6. Builds(b, d)
  BY <1>5, CloseFailedEvolves
<1> HIDE DEF d
<1>7. Sound(d)
  BY <1>6 DEF Builds, Evolves
<1>8. Builds(d, FreeSlotAndNotify(d, p, t)) /\ Builds(c, d)
  BY <1>4, <1>6, <1>7, BuildsTwice, FreeSlotEvolves
<1>9. QED
  BY <1>3, <1>8, BuildsTwice

LEMMA StopEvolves ==
  ASSUME NEW c, Sound(c), NEW a \in c.live
  PROVE  Evolves(c, StopAtCeiling(c, a)) /\ c.live \ {a} \subseteq StopAtCeiling(c, a).live
<1> DEFINE b == RetireAgent(c, a)
           t == c.agent[a].task
           p == c.agent[a].parent
<1>1. t \in Tasks /\ p \in AnyAgent
  BY DEF Sound, Colonies, AgentNodes, AnyAgent
<1>2. Evolves(c, b) /\ b.live = c.live \ {a}
  BY RetireEvolves, RetireFields DEF Retired
<1>3. StopAtCeiling(c, a) = AbandonTask(b, t, p)
  BY DEF StopAtCeiling
<1> HIDE DEF b, t, p
<1>4. Sound(b)
  BY <1>2 DEF Evolves
<1>5. Evolves(b, AbandonTask(b, t, p)) /\ b.live \subseteq AbandonTask(b, t, p).live
  BY <1>1, <1>4, AbandonEvolves DEF Builds
<1>6. QED
  BY <1>2, <1>3, <1>5, EvolvesTwice

LEMMA RespawnEvolves ==
  ASSUME NEW c, Sound(c), NEW a, NEW t \in Tasks, NEW role \in Roles, NEW p \in AnyAgent,
         NEW counted \in BOOLEAN, NEW fate
  PROVE  Evolves(c, KillAndRespawn(c, a, t, role, p, counted, fate))
<1> DEFINE retired == RetireAgent(c, a)
           capped == counted /\ c.respawns[t] >= MaxTaskAttempts
           counting == IF counted THEN [retired EXCEPT !.respawns[t] = @ + 1] ELSE retired
           d == KillAndRespawn(c, a, t, role, p, counted, fate)
<1>1. Evolves(c, retired)
  BY RetireEvolves
<1>a. d = IF fate = "cached" THEN FreeSlotAndNotify(CompleteTask(retired, t), p, t)
          ELSE IF capped \/ fate = "stop" THEN AbandonTask(retired, t, p)
          ELSE IF c.room > 0 THEN SpawnAgent(counting, role, t, p, FALSE)
          ELSE AbandonTask([counting EXCEPT !.broke = TRUE], t, p)
  BY DEF KillAndRespawn
<1>b. a \in c.live \/ retired = c
  BY DEF RetireAgent
<1>c. retired.room = c.room
  BY <1>b, RetireFields DEF Retired
<1> HIDE DEF retired, capped, d
<1>2. Sound(retired) /\ retired \in Colonies
  BY <1>1 DEF Evolves, Sound
<1>3. counting \in Colonies
      /\ counting.graph = retired.graph /\ counting.agent = retired.agent
      /\ counting.live = retired.live /\ counting.born = retired.born
      /\ counting.room = retired.room /\ counting.made = retired.made
      /\ counting.mailbox = retired.mailbox
  <2>1. retired.respawns \in [Tasks -> Nat]
    BY <1>2 DEF Colonies
  <2>2. [retired.respawns EXCEPT ![t] = @ + 1] \in [Tasks -> Nat]
    BY <2>1
  <2>3. counting = IF counted
                     THEN [retired EXCEPT !.respawns = [retired.respawns EXCEPT ![t] = @ + 1]]
                     ELSE retired
    BY <1>2 DEF Colonies
  <2> HIDE DEF counting
  <2>4. QED
    BY <1>2, <2>2, <2>3 DEF Colonies
<1>4. retired.room <= retired.room /\ Grows(retired.mailbox, retired.mailbox)
  BY <1>2, GrowsSame DEF Colonies
<1> HIDE DEF counting
<1>5. Evolves(retired, counting)
  BY <1>2, <1>3, <1>4, CoreEvolves DEF Builds
<1>6. Evolves(c, counting) /\ Sound(counting)
  BY <1>1, <1>5, EvolvesTwice DEF Evolves
<1>7. CASE fate = "cached"
  <2> DEFINE b == CompleteTask(retired, t)
  <2>1. Evolves(retired, b)
    BY <1>2, CloseFailedEvolves DEF Builds
  <2> HIDE DEF b
  <2>2. Sound(b) /\ Evolves(c, b)
    BY <1>1, <2>1, EvolvesTwice DEF Evolves
  <2>3. Evolves(b, FreeSlotAndNotify(b, p, t))
    BY <2>2, FreeSlotEvolves DEF Builds
  <2>4. Evolves(c, FreeSlotAndNotify(b, p, t))
    BY <2>2, <2>3, EvolvesTwice
  <2>5. QED
    BY <1>a, <1>7, <2>4 DEF b, d
<1>8. CASE fate # "cached" /\ (capped \/ fate = "stop")
  <2>1. Evolves(retired, AbandonTask(retired, t, p))
    BY <1>2, AbandonEvolves DEF Builds
  <2>2. Evolves(c, AbandonTask(retired, t, p))
    BY <1>1, <2>1, EvolvesTwice
  <2>3. QED
    BY <1>a, <1>8, <2>2 DEF d
<1>9. CASE fate # "cached" /\ ~(capped \/ fate = "stop") /\ c.room > 0
  <2> DEFINE b == SpawnAgent(counting, role, t, p, FALSE)
  <2>1. Spawned(counting, b, role, t, p, FALSE)
    BY <1>3, <1>6, <1>9, <1>c, SpawnFields
  <2> HIDE DEF b
  <2>2. Evolves(c, b)
    BY <1>6, <2>1, SpawnEvolves, EvolvesTwice DEF Builds
  <2>3. QED
    BY <1>a, <1>9, <2>2 DEF b, d
<1>10. CASE fate # "cached" /\ ~(capped \/ fate = "stop") /\ ~(c.room > 0)
  <2> DEFINE b == [counting EXCEPT !.broke = TRUE]
  <2>1. b \in Colonies /\ b.graph = counting.graph /\ b.agent = counting.agent
        /\ b.live = counting.live /\ b.born = counting.born /\ b.room = counting.room
        /\ b.made = counting.made /\ b.mailbox = counting.mailbox
    BY <1>3 DEF Colonies
  <2>2. counting.room <= counting.room /\ Grows(counting.mailbox, counting.mailbox)
    BY <1>3, GrowsSame DEF Colonies
  <2> HIDE DEF b
  <2>3. Evolves(counting, b)
    BY <1>6, <2>1, <2>2, CoreEvolves DEF Builds
  <2>4. Evolves(c, b) /\ Sound(b)
    BY <1>6, <2>3, EvolvesTwice DEF Evolves
  <2>5. Evolves(b, AbandonTask(b, t, p))
    BY <2>4, AbandonEvolves DEF Builds
  <2>6. Evolves(c, AbandonTask(b, t, p))
    BY <2>4, <2>5, EvolvesTwice
  <2>7. QED
    BY <1>a, <1>10, <2>6 DEF b, d
<1>11. QED
  BY <1>7, <1>8, <1>9, <1>10

----------------------------------------------------------------------------
(* The subtasks a batch becomes *)

Upto(kept, m) == {j \in kept : j <= m}

(* The positions kept, counted in order, are numbered from one without a   *)
(* gap, so every subtask of the batch has its place in it.                 *)
LEMMA Ranks ==
  ASSUME NEW n \in Nat, NEW kept \in SUBSET (1 .. n)
  PROVE  /\ IsFiniteSet(kept) /\ Cardinality(kept) \in 0 .. n
         /\ \A i \in kept : Cardinality(Upto(kept, i)) \in 1 .. Cardinality(kept)
         /\ \A r \in 1 .. Cardinality(kept) :
              \E i \in kept : Cardinality(Upto(kept, i)) = r
<1>k. \A j \in kept : j \in Int /\ 1 <= j /\ j <= n
  OBVIOUS
<1>1. IsFiniteSet(1 .. n) /\ Cardinality(1 .. n) = n
  BY FS_Interval, 1 \in Int, n \in Int
<1>2. IsFiniteSet(kept) /\ Cardinality(kept) \in Nat /\ Cardinality(kept) <= n
  BY <1>1, FS_Subset, FS_CardinalityType
<1>3. \A m : IsFiniteSet(Upto(kept, m)) /\ Cardinality(Upto(kept, m)) \in Nat
             /\ Cardinality(Upto(kept, m)) <= Cardinality(kept)
  <2>1. \A m : Upto(kept, m) \in SUBSET kept
    BY DEF Upto
  <2>2. QED
    BY <1>2, <2>1, FS_Subset, FS_CardinalityType
<1>4. ASSUME NEW i \in kept PROVE Cardinality(Upto(kept, i)) # 0
  <2>1. i \in Upto(kept, i)
    BY DEF Upto
  <2>2. QED
    BY <1>3, <2>1, FS_EmptySet
<1>5. ASSUME NEW r \in 1 .. Cardinality(kept), \A i \in kept : Cardinality(Upto(kept, i)) # r
      PROVE  FALSE
  <2> DEFINE P == {m \in 0 .. n : Cardinality(Upto(kept, m)) < r}
  <2>1. 0 \in P
    <3>a. \A j \in kept : ~(j <= 0)
      BY <1>k
    <3>1. Upto(kept, 0) = {}
      BY <3>a DEF Upto
    <3>2. Cardinality(Upto(kept, 0)) = 0
      BY <3>1, FS_EmptySet
    <3>3. QED
      BY <1>2, <3>2
  <2>2. ASSUME NEW m \in 1 .. n, m - 1 \in P PROVE m \in P
    <3>1. CASE m \in kept
      <4>1. \A j \in kept : j <= m <=> j <= m - 1 \/ j = m
        BY <1>k
      <4>a. Upto(kept, m) = Upto(kept, m - 1) \cup {m} /\ m \notin Upto(kept, m - 1)
        <5>1. m \in Int /\ ~(m <= m - 1)
          OBVIOUS
        <5>2. ASSUME NEW j PROVE j \in Upto(kept, m) <=> j \in Upto(kept, m - 1) \cup {m}
          <6>1. m <= m
            BY <5>1
          <6>2. QED
            BY <3>1, <4>1, <6>1 DEF Upto
        <5>3. QED
          BY <5>1, <5>2 DEF Upto
      <4>2. Cardinality(Upto(kept, m)) = Cardinality(Upto(kept, m - 1)) + 1
        BY <1>3, <4>a, FS_AddElement
      <4>3. Cardinality(Upto(kept, m)) # r
        BY <1>5, <3>1
      <4>4. QED
        BY <1>2, <1>3, <2>2, <4>2, <4>3
    <3>2. CASE m \notin kept
      <4>a. \A j \in kept : j <= m <=> j <= m - 1
        BY <1>k, <3>2
      <4>1. Upto(kept, m) = Upto(kept, m - 1)
        BY <4>a DEF Upto
      <4>2. QED
        BY <2>2, <4>1
    <3>3. QED
      BY <3>1, <3>2
  <2> HIDE DEF P
  <2>3. P \in SUBSET (0 .. n)
    BY DEF P
  <2>4. P = 0 .. n
    BY <2>1, <2>2, <2>3, Induct
  <2>5. Cardinality(Upto(kept, n)) < r
    BY <2>4 DEF P
  <2>6. Upto(kept, n) = kept
    BY <1>k DEF Upto
  <2>7. QED
    BY <1>2, <2>5, <2>6
<1>6. \A r \in 1 .. Cardinality(kept) :
        \E i \in kept : Cardinality(Upto(kept, i)) = r
  BY <1>5
<1>7. QED
  BY <1>2, <1>3, <1>4, <1>6

Entries == [role : Roles, listed : BOOLEAN, after : SUBSET Nat]

(* A batch becomes as many subtasks as it has entries kept, numbered on    *)
(* from the last task made, that depend on one another only.               *)
LEMMA PreparedBatch ==
  ASSUME NEW c, Sound(c), NEW batch \in Seq(Entries), NEW kept \in SUBSET DOMAIN batch,
         NEW p, c.made + Cardinality(kept) <= MaxTasks
  PROVE  LET kids == Prepared(c, batch, kept, p)
         IN /\ kids \in Seq(QueuedChildren)
            /\ Len(kids) = Cardinality(kept) /\ Len(kids) <= Len(batch)
            /\ \A n \in 1 .. Len(kids) : kids[n].task = c.made + n
<1> DEFINE K == Cardinality(kept)
           id == [i \in kept |-> c.made + Cardinality({j \in kept : j <= i})]
           position(n) == CHOOSE i \in kept : Cardinality({j \in kept : j <= i}) = n
           kids == Prepared(c, batch, kept, p)
           deps(i) == {id[j] : j \in ResolvedPositions(batch, kept, i)}
<1>1. Len(batch) \in Nat /\ DOMAIN batch = 1 .. Len(batch) /\ kept \in SUBSET (1 .. Len(batch))
  OBVIOUS
<1>2. /\ K \in 0 .. Len(batch)
      /\ \A i \in kept : Cardinality(Upto(kept, i)) \in 1 .. K
      /\ \A r \in 1 .. K : \E i \in kept : Cardinality(Upto(kept, i)) = r
  BY <1>1, Ranks
<1>3. \A i : {j \in kept : j <= i} = Upto(kept, i)
  BY DEF Upto
<1> HIDE DEF K
<1>4. c.made \in Nat /\ MaxTasks \in Nat /\ c.made + K <= MaxTasks
  BY BoundsArePositive DEF Sound, Colonies, K
<1>5. ASSUME NEW i \in kept
      PROVE  id[i] = c.made + Cardinality(Upto(kept, i)) /\ id[i] \in Tasks
  <2>1. id[i] = c.made + Cardinality(Upto(kept, i))
    BY <1>3
  <2>2. Cardinality(Upto(kept, i)) \in 1 .. K /\ K \in Nat
    BY <1>2
  <2> HIDE DEF id
  <2>3. QED
    BY <1>4, <2>1, <2>2 DEF Tasks
<1>6. ASSUME NEW n \in 1 .. K
      PROVE  position(n) \in kept /\ Cardinality(Upto(kept, position(n))) = n
  BY <1>2, <1>3
<1>7. \A n \in 1 .. K : kids[n] = [task |-> id[position(n)],
                                   role |-> EnforceChildRole(c, batch[position(n)].role, p),
                                   dependencies |-> deps(position(n))]
  BY DEF Prepared, K
<1>a. kids = [n \in 1 .. K |-> kids[n]]
  BY DEF Prepared, K
<1>8. \A i \in kept : deps(i) \in SUBSET Tasks
  <2>1. \A i \in kept : ResolvedPositions(batch, kept, i) \in SUBSET kept
    BY DEF ResolvedPositions
  <2>2. QED
    BY <1>5, <2>1
<1>9. \A i \in kept : EnforceChildRole(c, batch[i].role, p) \in Roles
  <2>1. \A i \in kept : batch[i] \in Entries
    BY <1>1
  <2>a. \A i \in kept : batch[i].role \in Roles
    BY <2>1 DEF Entries
  <2>2. QED
    BY <2>a DEF EnforceChildRole, Roles
<1> HIDE DEF id, position, deps, kids
<1>10. ASSUME NEW n \in 1 .. K
       PROVE  kids[n] \in QueuedChildren /\ kids[n].task = c.made + n
  <2>1. position(n) \in kept /\ Cardinality(Upto(kept, position(n))) = n
    BY <1>6
  <2>2. id[position(n)] \in Tasks /\ id[position(n)] = c.made + n
    BY <1>5, <2>1
  <2> DEFINE i == position(n)
  <2>3. i \in kept /\ id[i] \in Tasks /\ id[i] = c.made + n
        /\ deps(i) \in SUBSET Tasks /\ EnforceChildRole(c, batch[i].role, p) \in Roles
    BY <1>8, <1>9, <2>1, <2>2
  <2>4. kids[n] = [task |-> id[i], role |-> EnforceChildRole(c, batch[i].role, p),
                   dependencies |-> deps(i)]
    BY <1>7
  <2> HIDE DEF i
  <2>5. QED
    BY <2>3, <2>4 DEF QueuedChildren
<1>11. kids \in Seq(QueuedChildren) /\ Len(kids) = K
  <2>1. kids \in [1 .. K -> QueuedChildren]
    BY <1>a, <1>10
  <2>2. QED
    BY <1>2, <2>1
<1>12. QED
  BY <1>2, <1>10, <1>11 DEF kids, K

(* Up to the cap the subtasks of a batch are started, in order; the rest   *)
(* is queued.                                                              *)
StartOne(c, kid, p, overCap) ==
  IF overCap THEN [c EXCEPT !.overflow[p] = Append(@, kid)]
             ELSE SpawnChildTask(c, kid, p)

LEMMA StartBatchLoop ==
  ASSUME NEW kids \in Seq(QueuedChildren), NEW p, NEW S, NEW c,
         [c EXCEPT !.made = @ + Len(kids)] \in S[0],
         \A i \in 1 .. Len(kids) : \A b \in S[i - 1] :
           StartOne(b, kids[i], p, i > SubtaskCap(c, p)) \in S[i]
  PROVE  StartBatch(c, kids, p) \in S[Len(kids)]
<1> DEFINE n == Len(kids)
           first == [c EXCEPT !.made = @ + Len(kids)]
           All == UNION {S[i] : i \in 0 .. n}
           one(b, i) == StartOne(b, kids[i], p, i > SubtaskCap(c, p))
           body == [x \in All \X (1 .. n) |-> one(x[1], x[2])]
<1>1. n \in Nat /\ first \in S[0]
  OBVIOUS
<1>2. \A i \in 1 .. n : \A b \in S[i - 1] : one(b, i) \in S[i]
  OBVIOUS
<1> HIDE DEF one
<1>3. ASSUME NEW i \in 1 .. n, NEW b \in S[i - 1] PROVE body[<<b, i>>] = one(b, i)
  <2>1. i - 1 \in 0 .. n
    BY <1>1
  <2>2. b \in All
    BY <2>1
  <2> HIDE DEF All
  <2>3. QED
    BY <2>2
<1> HIDE DEF body, n, first
<1>4. \A i \in 1 .. n : \A x \in S[i - 1] : body[<<x, i>>] \in S[i]
  BY <1>2, <1>3
<1>5. PICK f : Loop(f, n, first, body) /\ \A i \in 0 .. n : f[i] \in S[i]
  BY <1>1, <1>4, LoopRuns
<1>6. f = [i \in 0 .. n |-> IF i = 0 THEN first ELSE one(f[i - 1], i)]
  <2>1. ASSUME NEW i \in 0 .. n
        PROVE  f[i] = IF i = 0 THEN first ELSE one(f[i - 1], i)
    <3>1. f[i] = IF i = 0 THEN first ELSE body[<<f[i - 1], i>>]
      BY <1>5 DEF Loop
    <3>2. CASE i = 0
      BY <3>1, <3>2
    <3>3. CASE i # 0
      <4>1. i \in 1 .. n /\ i - 1 \in 0 .. n
        BY <1>1, <3>3
      <4>2. f[i - 1] \in S[i - 1]
        BY <1>5, <4>1
      <4>3. QED
        BY <1>3, <3>1, <3>3, <4>1, <4>2
    <3>4. QED
      BY <3>2, <3>3
  <2>2. f = [i \in 0 .. n |-> f[i]]
    BY <1>5 DEF Loop
  <2>3. QED
    BY <2>1, <2>2
<1>7. PICK started :
        /\ started = [i \in 0 .. n |-> IF i = 0 THEN first ELSE one(started[i - 1], i)]
        /\ StartBatch(c, kids, p) = started[n]
  BY <1>6 DEF StartBatch, StartOne, one, first, n
<1>8. n \in {i \in 0 .. n : started[i] \in S[i]}
  <2> DEFINE P == {i \in 0 .. n : started[i] \in S[i]}
  <2>1. \A i \in 0 .. n :
          started[i] = IF i = 0 THEN first ELSE one(started[i - 1], i)
    BY <1>7
  <2>2. 0 \in P
    BY <1>1, <2>1
  <2>3. ASSUME NEW i \in 1 .. n, i - 1 \in P PROVE i \in P
    <3>1. i \in 0 .. n /\ i # 0
      BY <1>1
    <3>2. started[i] = one(started[i - 1], i)
      BY <2>1, <3>1
    <3>3. QED
      BY <1>2, <2>3, <3>1, <3>2
  <2>4. P \in SUBSET (0 .. n)
    OBVIOUS
  <2> HIDE DEF P
  <2>5. P = 0 .. n
    BY <1>1, <2>2, <2>3, <2>4, Induct
  <2>6. n \in 0 .. n
    BY <1>1
  <2>7. QED
    BY <2>5, <2>6 DEF P
<1>9. QED
  BY <1>7, <1>8 DEF n

----------------------------------------------------------------------------
(* The handlers *)

(* What a handler may do to a colony, when it may make as many as k tasks. *)
Handles(c, d, k) ==
  /\ Sound(d)
  /\ c.made <= d.made /\ d.made <= c.made + k
  /\ Waiting(d) \subseteq Waiting(c)
  /\ Grows(c.mailbox, d.mailbox)

LEMMA EvolvesHandles ==
  ASSUME NEW c, NEW d, Sound(c), Evolves(c, d), NEW k \in Nat
  PROVE  Handles(c, d, k)
BY DEF Evolves, Handles, Sound, Colonies

LEMMA HandlesEvolves ==
  ASSUME NEW c, NEW d, NEW e, NEW k, Sound(c), Handles(c, d, k), Evolves(d, e)
  PROVE  Handles(c, e, k)
<1>1. c.mailbox \in Seq(Messages) /\ d.mailbox \in Seq(Messages)
      /\ e.mailbox \in Seq(Messages)
  BY DEF Handles, Evolves, Sound, Colonies
<1>2. QED
  BY <1>1, GrowsTwice DEF Handles, Evolves

LEMMA FailureIsMessage ==
  ASSUME NEW c, Sound(c), NEW a \in c.live, NEW big \in BOOLEAN, NEW derived \in BOOLEAN
  PROVE  /\ FailureRequest(c, a, big, derived) \in Messages
         /\ FailureRequest(c, a, big, derived).type # "spawn"
<1>1. a \in Agents /\ c.agent[a] \in AgentNodes /\ c.agent[a].task \in Tasks
  BY DEF Sound, Colonies
<1>2. c.agent[a].role \in Roles /\ c.agent[a].parent \in Agents \cup {None}
  BY <1>1 DEF AgentNodes
<1>3. QED
  BY <1>1, <1>2 DEF FailureRequest, Messages

LEMMA FailEvolves ==
  ASSUME NEW c, Sound(c), NEW a \in c.live, NEW big \in BOOLEAN, NEW derived \in BOOLEAN
  PROVE  Evolves(c, Push(c, FailureRequest(c, a, big, derived)))
BY FailureIsMessage, PushEvolves DEF Builds

(* A change to what the registry says of one agent, its task apart.        *)
LEMMA EditEvolves ==
  ASSUME NEW c, Sound(c), NEW a \in Agents, NEW node \in AgentNodes,
         node.task = c.agent[a].task
  PROVE  LET d == [c EXCEPT !.agent[a] = node]
         IN /\ Evolves(c, d)
            /\ d \in Colonies /\ d.graph = c.graph /\ d.live = c.live /\ d.born = c.born
            /\ d.room = c.room /\ d.made = c.made /\ d.mailbox = c.mailbox
            /\ d.agent = [c.agent EXCEPT ![a] = node]
<1> DEFINE d == [c EXCEPT !.agent[a] = node]
<1>1. c \in Colonies /\ c.agent \in [Agents -> AgentNodes]
  BY DEF Sound, Colonies
<1>2. d = [c EXCEPT !.agent = [c.agent EXCEPT ![a] = node]]
  BY <1>1 DEF Colonies
<1>3. [c.agent EXCEPT ![a] = node] \in [Agents -> AgentNodes]
  BY <1>1
<1> HIDE DEF d
<1>4. d \in Colonies /\ d.graph = c.graph /\ d.live = c.live /\ d.born = c.born
      /\ d.room = c.room /\ d.made = c.made /\ d.mailbox = c.mailbox
      /\ d.agent = [c.agent EXCEPT ![a] = node]
  BY <1>1, <1>2, <1>3 DEF Colonies
<1>5. \A x \in d.live : d.agent[x].task \in Tasks
  BY <1>1, <1>4 DEF Sound, Colonies
<1>6. Grows(c.mailbox, c.mailbox)
  BY <1>1, GrowsSame DEF Colonies
<1>7. Evolves(c, d)
  BY <1>4, <1>5, <1>6 DEF Evolves, Sound, Waiting
<1>8. QED
  BY <1>4, <1>7 DEF d

LEMMA StartBatchHandles ==
  ASSUME NEW c, Sound(c), NEW kids \in Seq(QueuedChildren), NEW p \in Agents,
         c.made + Len(kids) <= MaxTasks
  PROVE  Handles(c, StartBatch(c, kids, p), Len(kids))
<1> DEFINE n == Len(kids)
           first == [c EXCEPT !.made = @ + Len(kids)]
           Good == {b \in Colonies : Handles(c, b, n)}
           S == [i \in 0 .. n |-> Good]
<1>1. n \in Nat /\ n = Len(kids) /\ MaxTasks \in Nat
  BY BoundsArePositive
<1> HIDE DEF n
<1>2. c \in Colonies /\ c.made \in 0 .. MaxTasks /\ Grows(c.mailbox, c.mailbox)
  BY GrowsSame DEF Sound, Colonies
<1>3. c.made + n \in 0 .. MaxTasks
  BY <1>1, <1>2
<1>4. first \in Colonies /\ first.graph = c.graph /\ first.agent = c.agent
      /\ first.live = c.live /\ first.born = c.born /\ first.room = c.room
      /\ first.made = c.made + n /\ first.mailbox = c.mailbox
  BY <1>1, <1>2, <1>3 DEF Colonies
<1> HIDE DEF first
<1>5. Handles(c, first, n)
  <2>1. Sound(first)
    BY <1>4 DEF Sound
  <2>2. Waiting(first) = Waiting(c)
    BY <1>4 DEF Waiting
  <2>3. c.made <= first.made /\ first.made <= c.made + n
    BY <1>1, <1>2, <1>4
  <2>4. Grows(c.mailbox, first.mailbox)
    BY <1>2, <1>4
  <2>5. QED
    BY <2>1, <2>2, <2>3, <2>4 DEF Handles
<1>6. first \in S[0]
  BY <1>1, <1>4, <1>5
<1>7. ASSUME NEW i \in 1 .. Len(kids), NEW b \in S[i - 1]
      PROVE  StartOne(b, kids[i], p, i > SubtaskCap(c, p)) \in S[i]
  <2> DEFINE d == StartOne(b, kids[i], p, i > SubtaskCap(c, p))
  <2>1. i - 1 \in 0 .. n /\ i \in 0 .. n /\ kids[i] \in QueuedChildren
    BY <1>1
  <2>2. b \in Good /\ S[i] = Good
    BY <2>1
  <2>3. Sound(b) /\ Handles(c, b, n)
    BY <2>2 DEF Handles
  <2> HIDE DEF S, Good
  <2>4. Evolves(b, d)
    <3>1. CASE i > SubtaskCap(c, p)
      <4>1. b \in Colonies /\ b.overflow \in [Agents -> Seq(QueuedChildren)]
        BY <2>3 DEF Sound, Colonies
      <4>2. [b.overflow EXCEPT ![p] = Append(@, kids[i])] \in [Agents -> Seq(QueuedChildren)]
        BY <2>1, <4>1
      <4>3. d = [b EXCEPT !.overflow = [b.overflow EXCEPT ![p] = Append(@, kids[i])]]
        BY <3>1, <4>1 DEF StartOne, Colonies
      <4> HIDE DEF d
      <4>4. d \in Colonies /\ d.graph = b.graph /\ d.agent = b.agent /\ d.live = b.live
            /\ d.born = b.born /\ d.room = b.room /\ d.made = b.made
            /\ d.mailbox = b.mailbox
        BY <4>1, <4>2, <4>3 DEF Colonies
      <4>5. b.room <= b.room /\ Grows(b.mailbox, b.mailbox)
        BY <4>1, GrowsSame DEF Colonies
      <4>6. QED
        BY <2>3, <4>4, <4>5, CoreEvolves DEF Builds
    <3>2. CASE ~(i > SubtaskCap(c, p))
      BY <2>1, <2>3, <3>2, SpawnChildEvolves DEF StartOne, AnyAgent, Builds
    <3>3. QED
      BY <3>1, <3>2
  <2> HIDE DEF d
  <2>5. Handles(c, d, n)
    BY <2>3, <2>4, HandlesEvolves
  <2>6. d \in Colonies
    BY <2>4 DEF Evolves, Sound
  <2>7. d \in S[i]
    BY <2>2, <2>5, <2>6 DEF Good
  <2>8. QED
    BY <2>7 DEF d
<1>8. n \in 0 .. n
  BY <1>1
<1>9. S[n] = Good
  BY <1>8
<1> HIDE DEF S
<1>10. StartBatch(c, kids, p) \in S[Len(kids)]
  BY <1>6, <1>7, StartBatchLoop DEF first
<1>11. QED
  BY <1>1, <1>9, <1>10

LEMMA ReleaseEvolves ==
  ASSUME NEW c, Sound(c), NEW p \in Agents, NEW outOfEnergy \in BOOLEAN
  PROVE  Evolves(c, ReleaseSpawner(c, p, outOfEnergy))
<1> DEFINE d == ReleaseSpawner(c, p, outOfEnergy)
           node == [c.agent[p] EXCEPT !.awaiting = FALSE,
                                      !.spawnClosed = @ \/ outOfEnergy,
                                      !.cycles = @ + 1]
<1>1. c \in Colonies /\ c.agent \in [Agents -> AgentNodes] /\ c.agent[p] \in AgentNodes
  BY DEF Sound, Colonies
<1>2. node \in AgentNodes /\ node.task = c.agent[p].task
  <2> DEFINE closing == c.agent[p].spawnClosed \/ outOfEnergy
             counted == c.agent[p].cycles + 1
  <2>1. closing \in BOOLEAN /\ counted \in Nat
    BY <1>1 DEF AgentNodes
  <2>2. node = [c.agent[p] EXCEPT !.awaiting = FALSE, !.spawnClosed = closing,
                                  !.cycles = counted]
    OBVIOUS
  <2> HIDE DEF closing, counted, node, d
  <2>3. node \in AgentNodes
    BY <1>1, <2>1, <2>2 DEF AgentNodes
  <2>4. QED
    BY <1>1, <2>2, <2>3 DEF AgentNodes
<1>3. [c EXCEPT !.agent[p].awaiting = FALSE,
                !.agent[p].spawnClosed = @ \/ outOfEnergy,
                !.agent[p].cycles = @ + 1] = [c EXCEPT !.agent[p] = node]
  <2>1. "agent" \in DOMAIN c /\ p \in DOMAIN c.agent
    BY <1>1 DEF Colonies
  <2>2. QED
    BY <2>1
<1> HIDE DEF node
<1>4. \/ d = c
      \/ p \in c.live /\ d = Push(c, FailureRequest(c, p, FALSE, FALSE))
      \/ d = [c EXCEPT !.agent[p] = node]
  BY <1>3 DEF ReleaseSpawner
<1> HIDE DEF d
<1>5. Evolves(c, d)
  <2>1. Evolves(c, c)
    BY SameEvolves DEF Builds
  <2>2. p \in c.live => Evolves(c, Push(c, FailureRequest(c, p, FALSE, FALSE)))
    BY FailEvolves
  <2>3. Evolves(c, [c EXCEPT !.agent[p] = node])
    BY <1>2, EditEvolves
  <2>4. QED
    BY <1>4, <2>1, <2>2, <2>3
<1>6. QED
  BY <1>5 DEF d

LEMMA HandleSpawnHandles ==
  ASSUME NEW c, Sound(c), NEW e \in Messages, e.type = "spawn",
         NEW kept \in SUBSET DOMAIN e.batch, NEW ruling,
         ruling = "screened" => e.from \in c.live,
         c.made + Len(e.batch) <= MaxTasks
  PROVE  Handles(c, HandleSpawn(c, e, kept, ruling), Len(e.batch))
<1> DEFINE p == e.from
           kids == Prepared(c, e.batch, kept, p)
           b == StartBatch(c, kids, p)
           d == HandleSpawn(c, e, kept, ruling)
<1>1. p \in Agents /\ e.batch \in Batches
  BY DEF Messages
<1>2. e.batch \in Seq(Entries)
  BY <1>1, BatchesAreBatches DEF Entries
<1>3. Len(e.batch) \in Nat /\ c.made \in Nat /\ MaxTasks \in Nat
  BY <1>2, BoundsArePositive DEF Sound, Colonies
<1>a. DOMAIN e.batch = 1 .. Len(e.batch)
  BY <1>2
<1>4. Cardinality(kept) \in 0 .. Len(e.batch)
  BY <1>3, <1>a, Ranks
<1>5. c.made + Cardinality(kept) <= MaxTasks
  BY <1>3, <1>4
<1>6. kids \in Seq(QueuedChildren) /\ Len(kids) = Cardinality(kept)
  BY <1>2, <1>5, PreparedBatch
<1>b. d = IF p \in c.live /\ c.agent[p].role # "decomposer"
            THEN Push(c, FailureRequest(c, p, TRUE, FALSE))
          ELSE IF ruling = "screened" THEN Push(c, FailureRequest(c, p, FALSE, TRUE))
          ELSE IF ruling = "refused" THEN ReleaseSpawner(c, p, TRUE)
          ELSE ReleaseSpawner(b, p, b.unstarted # c.unstarted)
  BY DEF HandleSpawn
<1> HIDE DEF kids, d, p
<1>7. Handles(c, b, Len(kids))
  BY <1>1, <1>5, <1>6, StartBatchHandles
<1> HIDE DEF b
<1>8. Handles(c, b, Len(e.batch)) /\ Sound(b)
  <2>1. Len(kids) \in Nat /\ Len(kids) <= Len(e.batch)
    BY <1>4, <1>6
  <2>2. b.made \in Nat
    BY <1>7 DEF Handles, Sound, Colonies
  <2>3. QED
    BY <1>3, <1>7, <2>1, <2>2 DEF Handles
<1>9. CASE p \in c.live /\ c.agent[p].role # "decomposer"
  <2>1. Evolves(c, Push(c, FailureRequest(c, p, TRUE, FALSE)))
    BY <1>9, FailEvolves
  <2>2. QED
    BY <1>3, <1>9, <1>b, <2>1, EvolvesHandles DEF d
<1>10. CASE ~(p \in c.live /\ c.agent[p].role # "decomposer") /\ ruling = "screened"
  <2>1. Evolves(c, Push(c, FailureRequest(c, p, FALSE, TRUE)))
    BY <1>10, FailEvolves DEF p
  <2>2. QED
    BY <1>3, <1>10, <1>b, <2>1, EvolvesHandles DEF d
<1>11. CASE ~(p \in c.live /\ c.agent[p].role # "decomposer") /\ ruling = "refused"
  <2>1. Evolves(c, ReleaseSpawner(c, p, TRUE))
    BY <1>1, ReleaseEvolves
  <2>2. QED
    BY <1>3, <1>11, <1>b, <2>1, EvolvesHandles DEF d
<1>12. CASE ~(p \in c.live /\ c.agent[p].role # "decomposer")
            /\ ruling \notin {"screened", "refused"}
  <2>1. Evolves(b, ReleaseSpawner(b, p, b.unstarted # c.unstarted))
    BY <1>1, <1>8, ReleaseEvolves
  <2>2. QED
    BY <1>8, <1>12, <1>b, <2>1, HandlesEvolves DEF d
<1>13. QED
  BY <1>9, <1>10, <1>11, <1>12

LEMMA RejectEvolves ==
  ASSUME NEW c, Sound(c), NEW e \in Messages, e.type = "completion", NEW fate
  PROVE  Evolves(c, RejectReport(c, e, fate))
<1>1. e.from \in Agents /\ e.task \in Tasks
  BY DEF Messages
<1>2. c.agent[e.from] \in AgentNodes
  BY <1>1 DEF Sound, Colonies
<1>3. c.agent[e.from].role \in Roles /\ c.agent[e.from].parent \in AnyAgent
  BY <1>2 DEF AgentNodes, AnyAgent
<1>4. QED
  BY <1>1, <1>3, RespawnEvolves DEF RejectReport

LEMMA HandleCompletionEvolves ==
  ASSUME NEW c, Sound(c), NEW e \in Messages, e.type = "completion",
         NEW verdict \in {"promote", "warn", "execute"},
         verdict = "warn" => e.from \in c.live,
         NEW repeated, NEW over, NEW fate
  PROVE  Evolves(c, HandleCompletion(c, e, verdict, repeated, over, fate))
<1> DEFINE d == HandleCompletion(c, e, verdict, repeated, over, fate)
<1>1. e.from \in Agents /\ e.task \in Tasks
  BY DEF Messages
<1>2. c \in Colonies /\ c.agent \in [Agents -> AgentNodes] /\ c.agent[e.from] \in AgentNodes
  BY <1>1 DEF Sound, Colonies
<1>3. c.agent[e.from].parent \in AnyAgent
  BY <1>2 DEF AgentNodes, AnyAgent
<1>4. CASE verdict = "promote"
  <2> DEFINE done == CompleteTask(c, e.task)
  <2>1. d = IF e.task = Root \/ e.from \notin c.live THEN done
            ELSE FreeSlotAndNotify(done, c.agent[e.from].parent, e.task)
    BY <1>4 DEF HandleCompletion, PromoteReport
  <2> HIDE DEF d
  <2>2. Evolves(c, done)
    BY <1>1, CloseFailedEvolves DEF Builds
  <2> HIDE DEF done
  <2>3. Sound(done)
    BY <2>2 DEF Evolves
  <2>4. Evolves(done, FreeSlotAndNotify(done, c.agent[e.from].parent, e.task))
    BY <1>1, <1>3, <2>3, FreeSlotEvolves DEF Builds
  <2>5. Evolves(c, d)
    BY <2>1, <2>2, <2>4, EvolvesTwice
  <2>6. QED
    BY <2>5 DEF d
<1>5. CASE verdict = "warn"
  <2> DEFINE a == e.from
             node == [c.agent[a] EXCEPT !.cycles = @ + 1, !.warned = TRUE]
             warned == [c EXCEPT !.agent[a].cycles = @ + 1, !.agent[a].warned = TRUE]
  <2>1. d = IF repeated \/ CyclesCapped(warned, a) THEN RejectReport(warned, e, fate)
            ELSE IF over /\ CeilingApplies(warned, e.task) THEN StopAtCeiling(warned, a)
            ELSE warned
    BY <1>5 DEF HandleCompletion, SendReportBack
  <2>a. a \in Agents /\ c.agent[a] \in AgentNodes /\ (verdict = "warn" => a \in c.live)
    BY <1>1, <1>2
  <2> HIDE DEF d, a
  <2>b. c.agent[a].cycles + 1 \in Nat
    BY <2>a DEF AgentNodes
  <2>2. node \in AgentNodes /\ node.task = c.agent[a].task
    BY <2>a, <2>b DEF AgentNodes
  <2>3. warned = [c EXCEPT !.agent[a] = node]
    <3>1. "agent" \in DOMAIN c /\ a \in DOMAIN c.agent
      BY <1>2, <2>a DEF Colonies
    <3>2. QED
      BY <3>1
  <2>4. warned.live = c.live
    BY <1>2 DEF Colonies
  <2> HIDE DEF node, warned
  <2>5. Evolves(c, warned)
    BY <2>a, <2>2, <2>3, EditEvolves
  <2>6. Sound(warned) /\ a \in warned.live
    BY <1>5, <2>a, <2>4, <2>5 DEF Evolves
  <2>7. Evolves(warned, RejectReport(warned, e, fate))
    BY <2>6, RejectEvolves
  <2>8. Evolves(warned, StopAtCeiling(warned, a))
    BY <2>6, StopEvolves
  <2>9. Evolves(c, RejectReport(warned, e, fate)) /\ Evolves(c, StopAtCeiling(warned, a))
    BY <2>5, <2>7, <2>8, EvolvesTwice
  <2>10. Evolves(c, d)
    BY <2>1, <2>5, <2>9
  <2>11. QED
    BY <2>10 DEF d
<1>6. CASE verdict = "execute"
  BY <1>6, RejectEvolves DEF HandleCompletion
<1>7. QED
  BY <1>4, <1>5, <1>6

LEMMA HandleFailureEvolves ==
  ASSUME NEW c, Sound(c), NEW e \in Messages, e.type = "failure", NEW converts, NEW fate
  PROVE  Evolves(c, HandleFailure(c, e, converts, fate))
<1> DEFINE d == HandleFailure(c, e, converts, fate)
           conversion == e.role = "executor" /\ e.tooLarge
           uncounted == e.derived /\ c.rejections[e.task] < MaxDerivedRejections
           counting == IF uncounted THEN [c EXCEPT !.rejections[e.task] = @ + 1] ELSE c
           role == IF conversion THEN "decomposer" ELSE e.role
           retired == RetireAgent(c, e.from)
<1>1. e.from \in Agents /\ e.task \in Tasks /\ e.role \in Roles /\ e.parent \in AnyAgent
  BY DEF Messages, AnyAgent
<1>2. role \in Roles /\ (~uncounted) \in BOOLEAN
  BY <1>1 DEF Roles
<1>3. d = IF conversion /\ ~converts THEN AbandonTask(retired, e.task, e.parent)
          ELSE KillAndRespawn(counting, e.from, e.task, role, e.parent, ~uncounted, fate)
  BY DEF HandleFailure
<1>4. Evolves(c, counting)
  <2>1. c \in Colonies /\ c.rejections \in [Tasks -> Nat]
    BY DEF Sound, Colonies
  <2>2. [c.rejections EXCEPT ![e.task] = @ + 1] \in [Tasks -> Nat]
    BY <1>1, <2>1
  <2>3. counting = IF uncounted
                     THEN [c EXCEPT !.rejections = [c.rejections EXCEPT ![e.task] = @ + 1]]
                     ELSE c
    BY <2>1 DEF Colonies
  <2> HIDE DEF uncounted, counting
  <2>4. counting \in Colonies /\ counting.graph = c.graph /\ counting.agent = c.agent
        /\ counting.live = c.live /\ counting.born = c.born /\ counting.room = c.room
        /\ counting.made = c.made /\ counting.mailbox = c.mailbox
    BY <2>1, <2>2, <2>3 DEF Colonies
  <2>5. c.room <= c.room /\ Grows(c.mailbox, c.mailbox)
    BY <2>1, GrowsSame DEF Colonies
  <2>6. QED
    BY <2>4, <2>5, CoreEvolves DEF Builds
<1>5. Evolves(c, retired)
  BY RetireEvolves
<1> HIDE DEF d, conversion, uncounted, counting, role, retired
<1>6. Sound(counting) /\ Sound(retired)
  BY <1>4, <1>5 DEF Evolves
<1>7. Evolves(retired, AbandonTask(retired, e.task, e.parent))
  BY <1>1, <1>6, AbandonEvolves DEF Builds
<1>8. Evolves(counting, KillAndRespawn(counting, e.from, e.task, role, e.parent,
                                       ~uncounted, fate))
  BY <1>1, <1>2, <1>6, RespawnEvolves
<1>9. Evolves(c, d)
  <2>1. Evolves(c, AbandonTask(retired, e.task, e.parent))
    BY <1>5, <1>7, EvolvesTwice
  <2>2. Evolves(c, KillAndRespawn(counting, e.from, e.task, role, e.parent,
                                  ~uncounted, fate))
    BY <1>4, <1>8, EvolvesTwice
  <2>3. QED
    BY <1>3, <2>1, <2>2
<1>10. QED
  BY <1>9 DEF d

LEMMA HandleNotificationEvolves ==
  ASSUME NEW c, Sound(c), NEW e \in Messages, e.type = "notification", NEW over
  PROVE  Evolves(c, HandleNotification(c, e, over))
<1> DEFINE p == e.to
           awaits == c.agent[p].awaiting /\ OpenChildTaskIds(c, p) # {}
           node == [c.agent[p] EXCEPT !.started = TRUE, !.awaiting = awaits]
           d == HandleNotification(c, e, over)
<1>1. p \in Agents
  BY DEF Messages
<1>2. c \in Colonies /\ c.agent \in [Agents -> AgentNodes] /\ c.agent[p] \in AgentNodes
  BY <1>1 DEF Sound, Colonies
<1>a. d = IF p \notin c.live THEN c
          ELSE IF over /\ CeilingApplies(c, c.agent[p].task) THEN StopAtCeiling(c, p)
          ELSE [c EXCEPT !.agent[p].started = TRUE,
                         !.agent[p].awaiting = @ /\ OpenChildTaskIds(c, p) # {}]
  BY DEF HandleNotification
<1> HIDE DEF d, p
<1>3. awaits \in BOOLEAN
  OBVIOUS
<1>4. [c EXCEPT !.agent[p].started = TRUE,
                !.agent[p].awaiting = @ /\ OpenChildTaskIds(c, p) # {}] =
        [c EXCEPT !.agent[p] = node]
  <2>1. [c EXCEPT !.agent[p].started = TRUE,
                  !.agent[p].awaiting = @ /\ OpenChildTaskIds(c, p) # {}] =
          [c EXCEPT !.agent[p].started = TRUE, !.agent[p].awaiting = awaits]
    BY <1>2 DEF Colonies, AgentNodes
  <2> HIDE DEF awaits
  <2>2. [c EXCEPT !.agent[p].started = TRUE, !.agent[p].awaiting = awaits] =
          [c EXCEPT !.agent[p] = node]
    BY <1>2, <1>3, Zenon
  <2>3. QED
    BY <2>1, <2>2
<1> HIDE DEF awaits
<1>5. node \in AgentNodes /\ node.task = c.agent[p].task
  BY <1>2, <1>3 DEF AgentNodes
<1> HIDE DEF node
<1>6. \/ d = c
      \/ p \in c.live /\ d = StopAtCeiling(c, p)
      \/ d = [c EXCEPT !.agent[p] = node]
  BY <1>4, <1>a
<1>7. Evolves(c, d)
  <2>1. Evolves(c, c)
    BY SameEvolves DEF Builds
  <2>2. p \in c.live => Evolves(c, StopAtCeiling(c, p))
    BY StopEvolves
  <2>3. Evolves(c, [c EXCEPT !.agent[p] = node])
    BY <1>1, <1>5, EditEvolves
  <2>4. QED
    BY <1>6, <2>1, <2>2, <2>3
<1>8. QED
  BY <1>7 DEF d

----------------------------------------------------------------------------
(* The task ids the SPAWN events under way ask for *)

Spawns(q) == {i \in DOMAIN q : q[i].type = "spawn"}
Slots(q) == UNION {{i} \X DOMAIN q[i].batch : i \in Spawns(q)}

LEMMA SlotsOf ==
  ASSUME NEW q \in Seq(Messages)
  PROVE  /\ Slots(q) = {x \in (1 .. Len(q)) \X Nat :
                          q[x[1]].type = "spawn" /\ x[2] \in DOMAIN q[x[1]].batch}
         /\ IsFiniteSet(Slots(q)) /\ Requested(q) = Cardinality(Slots(q))
         /\ Requested(q) \in Nat
<1>1. ASSUME NEW i \in Spawns(q)
      PROVE  /\ q[i].batch \in Seq(Entries) /\ DOMAIN q[i].batch = 1 .. Len(q[i].batch)
             /\ DOMAIN q[i].batch \in SUBSET Nat
             /\ IsFiniteSet({i} \X DOMAIN q[i].batch)
  <2>1. q[i] \in Messages /\ q[i].type = "spawn"
    BY DEF Spawns
  <2>2. q[i].batch \in Batches
    BY <2>1 DEF Messages
  <2>3. q[i].batch \in Seq(Entries)
    BY <2>2, BatchesAreBatches DEF Entries
  <2>4. DOMAIN q[i].batch = 1 .. Len(q[i].batch) /\ Len(q[i].batch) \in Nat
    BY <2>3
  <2>5. IsFiniteSet(1 .. Len(q[i].batch)) /\ IsFiniteSet({i})
    BY <2>4, FS_Interval, FS_Singleton, 1 \in Int, Len(q[i].batch) \in Int
  <2>6. DOMAIN q[i].batch \in SUBSET Nat
    BY <2>4
  <2>7. IsFiniteSet({i} \X DOMAIN q[i].batch)
    BY <2>4, <2>5, FS_Product
  <2>8. QED
    BY <2>3, <2>4, <2>6, <2>7
<1>2. IsFiniteSet(Spawns(q))
  <2>1. IsFiniteSet(1 .. Len(q))
    BY FS_Interval, 1 \in Int, Len(q) \in Int
  <2>2. Spawns(q) \in SUBSET (1 .. Len(q))
    BY DEF Spawns
  <2>3. QED
    BY <2>1, <2>2, FS_Subset
<1>3. IsFiniteSet({{i} \X DOMAIN q[i].batch : i \in Spawns(q)})
  <2> DEFINE each == [i \in Spawns(q) |-> {i} \X DOMAIN q[i].batch]
             All == {{i} \X DOMAIN q[i].batch : i \in Spawns(q)}
  <2>1. each \in Surjection(Spawns(q), All)
    BY DEF Surjection
  <2>2. QED
    BY <1>2, <2>1, FS_Surjection
<1>4. IsFiniteSet(Slots(q))
  <2> DEFINE All == {{i} \X DOMAIN q[i].batch : i \in Spawns(q)}
  <2>1. ASSUME NEW T \in All PROVE IsFiniteSet(T)
    <3>1. PICK i \in Spawns(q) : T = {i} \X DOMAIN q[i].batch
      OBVIOUS
    <3>2. QED
      BY <1>1, <3>1
  <2>2. IsFiniteSet(All)
    BY <1>3
  <2>3. Slots(q) = UNION All
    BY DEF Slots
  <2> HIDE DEF All
  <2>4. QED
    BY <2>1, <2>2, <2>3, FS_UNION
<1>5. Requested(q) = Cardinality(Slots(q))
  BY DEF Requested, Slots, Spawns
<1>6. Slots(q) = {x \in (1 .. Len(q)) \X Nat :
                    q[x[1]].type = "spawn" /\ x[2] \in DOMAIN q[x[1]].batch}
  <2> DEFINE T == {x \in (1 .. Len(q)) \X Nat :
                     q[x[1]].type = "spawn" /\ x[2] \in DOMAIN q[x[1]].batch}
  <2>1. ASSUME NEW x \in Slots(q) PROVE x \in T
    <3>1. PICK i \in Spawns(q) : x \in {i} \X DOMAIN q[i].batch
      BY DEF Slots
    <3>2. i \in 1 .. Len(q) /\ q[i].type = "spawn"
      BY DEF Spawns
    <3>3. DOMAIN q[i].batch \in SUBSET Nat
      BY <1>1
    <3>4. QED
      BY <3>1, <3>2, <3>3
  <2>2. ASSUME NEW x \in T PROVE x \in Slots(q)
    <3>1. x[1] \in Spawns(q) /\ x = <<x[1], x[2]>> /\ x[2] \in DOMAIN q[x[1]].batch
      BY DEF Spawns
    <3>2. x \in {x[1]} \X DOMAIN q[x[1]].batch
      BY <3>1
    <3>3. QED
      BY <3>1, <3>2 DEF Slots
  <2>3. QED
    BY <2>1, <2>2
<1>7. QED
  BY <1>4, <1>5, <1>6, FS_CardinalityType

LEMMA RequestedNone == Requested(<<>>) = 0
<1>1. Slots(<<>>) = {} /\ Requested(<<>>) = Cardinality(Slots(<<>>))
  BY DEF Slots, Spawns, Requested
<1>2. QED
  BY <1>1, FS_EmptySet

LEMMA RequestedGrows ==
  ASSUME NEW q \in Seq(Messages), NEW r, Grows(q, r)
  PROVE  Requested(r) = Requested(q)
<1>1. r \in Seq(Messages) /\ Len(q) \in Nat /\ Len(r) \in Nat
  BY DEF Grows
<1>2. ASSUME NEW x PROVE x \in Slots(q) <=> x \in Slots(r)
  <2>1. x \in Slots(q) <=> /\ x \in (1 .. Len(q)) \X Nat /\ q[x[1]].type = "spawn"
                           /\ x[2] \in DOMAIN q[x[1]].batch
    BY SlotsOf
  <2>2. x \in Slots(r) <=> /\ x \in (1 .. Len(r)) \X Nat /\ r[x[1]].type = "spawn"
                           /\ x[2] \in DOMAIN r[x[1]].batch
    BY <1>1, SlotsOf
  <2>3. ASSUME x \in (1 .. Len(r)) \X Nat, r[x[1]].type = "spawn"
        PROVE  x \in (1 .. Len(q)) \X Nat
    BY <1>1, <2>3 DEF Grows
  <2>4. x \in (1 .. Len(q)) \X Nat => x \in (1 .. Len(r)) \X Nat /\ r[x[1]] = q[x[1]]
    BY <1>1 DEF Grows
  <2>5. QED
    BY <2>1, <2>2, <2>3, <2>4
<1>3. Slots(q) = Slots(r)
  BY <1>2
<1>4. QED
  BY <1>1, <1>3, SlotsOf

LEMMA BatchLength ==
  ASSUME NEW e \in Messages, e.type = "spawn"
  PROVE  e.batch \in Batches /\ e.batch \in Seq(Entries) /\ Len(e.batch) \in Nat
<1>1. e.batch \in Batches
  BY DEF Messages
<1>2. e.batch \in Seq(Entries)
  BY <1>1, BatchesAreBatches DEF Entries
<1>3. QED
  BY <1>1, <1>2

(* A SPAWN pushed asks for as many more ids as its batch has subtasks.     *)
LEMMA RequestedPush ==
  ASSUME NEW q \in Seq(Messages), NEW e \in Messages
  PROVE  Requested(Append(q, e)) =
           Requested(q) + (IF e.type = "spawn" THEN Len(e.batch) ELSE 0)
<1> DEFINE r == Append(q, e)
           n == Len(q) + 1
<1>1. /\ r \in Seq(Messages) /\ Len(q) \in Nat /\ Len(r) = n /\ n \in Nat
      /\ r[n] = e /\ \A i \in 1 .. Len(q) : r[i] = q[i]
  OBVIOUS
<1>2. CASE e.type # "spawn"
  <2>1. Grows(q, r)
    BY <1>2, GrowsOne
  <2>2. Requested(q) \in Nat
    BY SlotsOf
  <2>3. QED
    BY <1>1, <1>2, <2>1, <2>2, RequestedGrows
<1>3. CASE e.type = "spawn"
  <2> DEFINE new == {n} \X (1 .. Len(e.batch))
  <2>1. e.batch \in Seq(Entries)
    BY <1>3, BatchesAreBatches DEF Messages, Entries
  <2>2. DOMAIN e.batch = 1 .. Len(e.batch) /\ Len(e.batch) \in Nat
    BY <2>1
  <2>3. IsFiniteSet(1 .. Len(e.batch)) /\ Cardinality(1 .. Len(e.batch)) = Len(e.batch)
    BY <2>2, FS_Interval, 1 \in Int, Len(e.batch) \in Int
  <2>4. IsFiniteSet({n}) /\ Cardinality({n}) = 1
    BY FS_Singleton
  <2>5. IsFiniteSet(new) /\ Cardinality(new) = Len(e.batch)
    <3>1. IsFiniteSet(new)
          /\ Cardinality(new) = Cardinality({n}) * Cardinality(1 .. Len(e.batch))
      <4> HIDE DEF n
      <4>1. QED
        BY <2>3, <2>4, FS_Product
    <3> HIDE DEF new
    <3>2. QED
      BY <2>2, <2>3, <2>4, <3>1
  <2> HIDE DEF r
  <2>6. IsFiniteSet(Slots(q)) /\ Requested(q) = Cardinality(Slots(q))
        /\ Requested(q) \in Nat /\ Requested(r) = Cardinality(Slots(r))
    BY <1>1, SlotsOf
  <2>7. ASSUME NEW x PROVE x \in Slots(r) <=> x \in Slots(q) \/ x \in new
    <3>1. x \in Slots(q) <=> /\ x \in (1 .. Len(q)) \X Nat /\ q[x[1]].type = "spawn"
                             /\ x[2] \in DOMAIN q[x[1]].batch
      BY SlotsOf
    <3>2. x \in Slots(r) <=> /\ x \in (1 .. n) \X Nat /\ r[x[1]].type = "spawn"
                             /\ x[2] \in DOMAIN r[x[1]].batch
      BY <1>1, SlotsOf
    <3>3. x \in new <=> /\ x \in (1 .. n) \X Nat /\ x[1] = n
                        /\ x[2] \in DOMAIN r[x[1]].batch
      BY <1>1, <2>2
    <3>4. x \in (1 .. n) \X Nat <=> \/ x \in (1 .. Len(q)) \X Nat
                                    \/ x \in (1 .. n) \X Nat /\ x[1] = n
      BY <1>1
    <3>5. x \in (1 .. Len(q)) \X Nat => r[x[1]] = q[x[1]] /\ x[1] # n
      BY <1>1
    <3>6. QED
      BY <1>1, <1>3, <3>1, <3>2, <3>3, <3>4, <3>5
  <2>8. Slots(r) = Slots(q) \cup new
    BY <2>7
  <2>9. Slots(q) \cap new = {}
    <3>1. ASSUME NEW x \in Slots(q) PROVE x \notin new
      <4>1. x[1] \in 1 .. Len(q)
        BY SlotsOf
      <4>2. x \in new => x[1] = n
        OBVIOUS
      <4>3. QED
        BY <1>1, <4>1, <4>2
    <3>2. QED
      BY <3>1
  <2> HIDE DEF new
  <2>10. Cardinality(Slots(r)) = Cardinality(Slots(q)) + Cardinality(new) - Cardinality({})
    BY <2>5, <2>6, <2>8, <2>9, FS_Union
  <2>11. Cardinality({}) = 0
    BY FS_EmptySet
  <2>12. Requested(r) = Requested(q) + Len(e.batch)
    BY <2>2, <2>5, <2>6, <2>10, <2>11
  <2>13. QED
    BY <1>3, <2>12 DEF r
<1>4. QED
  BY <1>2, <1>3

(* Handling a SPAWN takes its subtasks out of those still asked for.       *)
LEMMA RequestedTail ==
  ASSUME NEW q \in Seq(Messages), q # <<>>
  PROVE  Requested(q) = Requested(Tail(q)) +
           (IF Head(q).type = "spawn" THEN Len(Head(q).batch) ELSE 0)
<1> DEFINE r == Tail(q)
           e == Head(q)
           new == {x \in Slots(q) : x[1] = 1}
           old == {x \in Slots(q) : x[1] # 1}
<1>1. /\ r \in Seq(Messages) /\ Len(q) \in Nat \ {0} /\ Len(r) = Len(q) - 1
      /\ e \in Messages /\ e = q[1] /\ \A i \in 1 .. Len(r) : r[i] = q[i + 1]
  OBVIOUS
<1>2. IsFiniteSet(Slots(q)) /\ Requested(q) = Cardinality(Slots(q))
      /\ IsFiniteSet(Slots(r)) /\ Requested(r) = Cardinality(Slots(r))
      /\ Requested(r) \in Nat
  BY <1>1, SlotsOf
<1>3. /\ Slots(q) = {x \in (1 .. Len(q)) \X Nat :
                       q[x[1]].type = "spawn" /\ x[2] \in DOMAIN q[x[1]].batch}
      /\ Slots(r) = {x \in (1 .. Len(r)) \X Nat :
                       r[x[1]].type = "spawn" /\ x[2] \in DOMAIN r[x[1]].batch}
  BY <1>1, SlotsOf
<1> HIDE DEF r, e
<1>4. Cardinality(old) = Cardinality(Slots(r))
  <2> DEFINE F == [x \in Slots(r) |-> <<x[1] + 1, x[2]>>]
  <2>1. ASSUME NEW x \in Slots(r)
        PROVE  F[x] \in old /\ F[x] = <<x[1] + 1, x[2]>> /\ x = <<x[1], x[2]>>
               /\ x[1] \in Nat /\ F[x][1] = x[1] + 1 /\ F[x][2] = x[2]
    <3>1. x \in (1 .. Len(r)) \X Nat /\ r[x[1]].type = "spawn"
          /\ x[2] \in DOMAIN r[x[1]].batch
      BY <1>3
    <3>2. x[1] \in 1 .. Len(r) /\ x[2] \in Nat /\ x = <<x[1], x[2]>>
      BY <3>1
    <3>3. x[1] + 1 \in 1 .. Len(q) /\ x[1] + 1 # 1 /\ r[x[1]] = q[x[1] + 1]
      BY <1>1, <3>2
    <3>4. F[x] = <<x[1] + 1, x[2]>>
      OBVIOUS
    <3>5. F[x][1] = x[1] + 1 /\ F[x][2] = x[2] /\ F[x] \in (1 .. Len(q)) \X Nat
      BY <3>2, <3>3, <3>4
    <3> HIDE DEF F
    <3>6. F[x] \in old
      BY <1>3, <3>1, <3>3, <3>5
    <3>7. QED
      BY <3>2, <3>4, <3>5, <3>6
  <2>2. ASSUME NEW y \in old PROVE \E x \in Slots(r) : F[x] = y
    <3> DEFINE x == <<y[1] - 1, y[2]>>
    <3>1. y \in (1 .. Len(q)) \X Nat /\ y[1] # 1 /\ q[y[1]].type = "spawn"
          /\ y[2] \in DOMAIN q[y[1]].batch
      BY <1>3
    <3>2. y[1] \in 2 .. Len(q) /\ y[2] \in Nat /\ y = <<y[1], y[2]>>
      BY <3>1
    <3>3. x[1] = y[1] - 1 /\ x[2] = y[2] /\ x[1] \in 1 .. Len(r) /\ x \in (1 .. Len(r)) \X Nat
      BY <1>1, <3>2
    <3>4. x[1] + 1 = y[1] /\ r[x[1]] = q[y[1]]
      BY <1>1, <3>2, <3>3
    <3> HIDE DEF x
    <3>5. x \in Slots(r)
      BY <1>3, <3>1, <3>3, <3>4
    <3>6. F[x] = y
      BY <3>2, <3>3, <3>4, <3>5
    <3> HIDE DEF F
    <3>7. QED
      BY <3>5, <3>6
  <2>3. \A x, y \in Slots(r) : F[x] = F[y] => x = y
    <3>1. ASSUME NEW x \in Slots(r), NEW y \in Slots(r), F[x] = F[y] PROVE x = y
      <4> HIDE DEF F
      <4>1. x[1] = y[1] /\ x[2] = y[2]
        BY <2>1, <3>1
      <4>2. QED
        BY <2>1, <4>1
    <3>2. QED
      BY <3>1
  <2>4. F \in [Slots(r) -> old]
    BY <2>1
  <2> HIDE DEF F, old
  <2>5. F \in Bijection(Slots(r), old)
    BY <2>2, <2>3, <2>4, Fun_IsBij
  <2>6. ExistsBijection(Slots(r), old)
    BY <2>5 DEF ExistsBijection
  <2>7. QED
    BY <1>2, <2>6, FS_Bijection
<1>5. IsFiniteSet(new) /\ IsFiniteSet(old) /\ Slots(q) = old \cup new /\ old \cap new = {}
  <2>1. new \in SUBSET Slots(q) /\ old \in SUBSET Slots(q)
    OBVIOUS
  <2>2. Slots(q) = old \cup new /\ old \cap new = {}
    OBVIOUS
  <2> HIDE DEF old, new
  <2>3. QED
    BY <1>2, <2>1, <2>2, FS_Subset
<1>6. Cardinality(new) = IF e.type = "spawn" THEN Len(e.batch) ELSE 0
  <2>1. CASE e.type # "spawn"
    <3>1. new = {}
      BY <1>1, <1>3, <2>1
    <3>2. QED
      BY <2>1, <3>1, FS_EmptySet
  <2>2. CASE e.type = "spawn"
    <3>1. e.batch \in Seq(Entries)
      BY <1>1, <2>2, BatchesAreBatches DEF Messages, Entries
    <3>2. DOMAIN e.batch = 1 .. Len(e.batch) /\ Len(e.batch) \in Nat
      BY <3>1
    <3>3. IsFiniteSet(1 .. Len(e.batch)) /\ Cardinality(1 .. Len(e.batch)) = Len(e.batch)
      BY <3>2, FS_Interval, 1 \in Int, Len(e.batch) \in Int
    <3>4. IsFiniteSet({1}) /\ Cardinality({1}) = 1
      BY FS_Singleton
    <3>5. Cardinality({1} \X (1 .. Len(e.batch))) = Len(e.batch)
      <4>1. Cardinality({1} \X (1 .. Len(e.batch))) =
              Cardinality({1}) * Cardinality(1 .. Len(e.batch))
        BY <3>3, <3>4, FS_Product
      <4>2. QED
        BY <3>2, <3>3, <3>4, <4>1
    <3>6. ASSUME NEW x PROVE x \in new <=> x \in {1} \X (1 .. Len(e.batch))
      <4>1. x \in new <=> /\ x \in (1 .. Len(q)) \X Nat /\ q[x[1]].type = "spawn"
                          /\ x[2] \in DOMAIN q[x[1]].batch /\ x[1] = 1
        BY <1>3
      <4>2. x \in {1} \X (1 .. Len(e.batch)) <=>
              x \in (1 .. Len(q)) \X Nat /\ x[1] = 1 /\ x[2] \in 1 .. Len(e.batch)
        BY <1>1
      <4>3. QED
        BY <1>1, <2>2, <3>2, <4>1, <4>2
    <3>7. new = {1} \X (1 .. Len(e.batch))
      BY <3>6
    <3>8. QED
      BY <2>2, <3>2, <3>5, <3>7
  <2>3. QED
    BY <2>1, <2>2
<1> HIDE DEF old, new
<1>7. Cardinality(Slots(q)) = Cardinality(old) + Cardinality(new) - Cardinality({})
  BY <1>5, FS_Union
<1>8. Cardinality({}) = 0 /\ Cardinality(new) \in Nat
  BY <1>5, FS_EmptySet, FS_CardinalityType
<1>9. QED
  BY <1>1, <1>2, <1>4, <1>6, <1>7, <1>8 DEF r, e

----------------------------------------------------------------------------
(* The loops over tasks *)

(* Where every task has an agent, there is nobody to start.                *)
LEMMA StartUnassignedIdle ==
  ASSUME NEW c, NEW S \in SUBSET Tasks, \A t \in S : c.graph.agent[t] # None
  PROVE  StartUnassigned(c, S) = c
<1> DEFINE n == MaxTasks
           unassigned == {t \in S : c.graph.agent[t] = None}
           start(b, t) ==
             IF b.room > 0 THEN SpawnAgent(b, b.requiredRole[t], t, None, FALSE)
                           ELSE [b EXCEPT !.broke = TRUE]
           same == [t \in 0 .. n |-> c]
<1>1. n \in Nat
  BY BoundsArePositive
<1>2. unassigned = {}
  OBVIOUS
<1>3. same = [t \in 0 .. n |->
                IF t = 0 THEN c
                ELSE IF t \in unassigned THEN start(same[t - 1], t) ELSE same[t - 1]]
  <2> HIDE DEF unassigned, start
  <2>1. ASSUME NEW t \in 0 .. n, t # 0 PROVE same[t - 1] = c
    <3>1. t - 1 \in 0 .. n
      BY <1>1, <2>1
    <3>2. QED
      BY <3>1
  <2>2. QED
    BY <1>2, <2>1
<1> HIDE DEF same, start
<1>4. PICK started :
        /\ started = [t \in 0 .. n |->
             IF t = 0 THEN c
             ELSE IF t \in unassigned THEN start(started[t - 1], t) ELSE started[t - 1]]
        /\ StartUnassigned(c, S) = started[n]
  BY <1>3 DEF StartUnassigned, start
<1> HIDE DEF unassigned
<1>5. n \in {t \in 0 .. n : started[t] = c}
  <2> DEFINE P == {t \in 0 .. n : started[t] = c}
  <2>1. \A t \in 0 .. n : started[t] = IF t = 0 THEN c ELSE started[t - 1]
    BY <1>2, <1>4
  <2>2. 0 \in P /\ P \in SUBSET (0 .. n)
    BY <1>1, <2>1
  <2>3. ASSUME NEW t \in 1 .. n, t - 1 \in P PROVE t \in P
    BY <1>1, <2>1, <2>3
  <2> HIDE DEF P
  <2>4. P = 0 .. n
    BY <1>1, <2>2, <2>3, Induct
  <2>5. QED
    BY <1>1, <2>4 DEF P
<1>6. QED
  BY <1>4, <1>5

(* The failures handle_deadlock pushes, one per stuck agent.               *)
StuckReported(c, stuck, d) ==
  LET failed == {t \in Tasks : c.graph.agent[t] \in stuck}
      report(b, t) == Push(b, FailureRequest(c, c.graph.agent[t], FALSE, FALSE))
  IN \E f :
       /\ f = [t \in 0 .. MaxTasks |->
            IF t = 0 THEN c
            ELSE IF t \in failed THEN report(f[t - 1], t) ELSE f[t - 1]]
       /\ d = f[MaxTasks]

LEMMA HandleDeadlockRuns ==
  ASSUME NEW c, Sound(c), Waiting(c) = {}, NEW stuck \in SUBSET c.live
  PROVE  HandleDeadlock(c, stuck) = c \/ StuckReported(c, stuck, HandleDeadlock(c, stuck))
<1> DEFINE n == MaxTasks
           failed == {t \in Tasks : c.graph.agent[t] \in stuck}
           report(b, t) == Push(b, FailureRequest(c, c.graph.agent[t], FALSE, FALSE))
           Good == {b \in Colonies : Evolves(c, b)}
           S == [i \in 0 .. n |-> Good]
           one(b, t) == IF t \in failed THEN report(b, t) ELSE b
           body == [x \in Good \X (1 .. n) |-> one(x[1], x[2])]
<1>1. n \in Nat
  BY BoundsArePositive
<1>2. \A i \in 0 .. n : S[i] = Good
  OBVIOUS
<1>3. c \in Good
  BY SameEvolves DEF Sound, Builds
<1>4. ASSUME NEW b \in Good, NEW t \in 1 .. n PROVE one(b, t) \in Good /\ body[<<b, t>>] = one(b, t)
  <2>1. Sound(b) /\ Evolves(c, b)
    BY DEF Evolves
  <2>2. body[<<b, t>>] = one(b, t)
    <3> HIDE DEF one, Good
    <3>1. QED
      OBVIOUS
  <2>3. ASSUME t \in failed PROVE Evolves(b, report(b, t))
    <3>1. c.graph.agent[t] \in c.live
      BY <2>3
    <3>2. /\ FailureRequest(c, c.graph.agent[t], FALSE, FALSE) \in Messages
          /\ FailureRequest(c, c.graph.agent[t], FALSE, FALSE).type # "spawn"
      BY <3>1, FailureIsMessage
    <3>3. QED
      BY <2>1, <3>2, PushEvolves DEF Builds
  <2> HIDE DEF failed, report
  <2>4. Evolves(c, one(b, t))
    BY <2>1, <2>3, EvolvesTwice
  <2>5. one(b, t) \in Colonies
    BY <2>4 DEF Evolves, Sound
  <2> HIDE DEF one, body
  <2>6. QED
    BY <2>2, <2>4, <2>5
<1> HIDE DEF S, one, body, failed, Good
<1>5. PICK f : Loop(f, n, c, body) /\ \A i \in 0 .. n : f[i] \in S[i]
  <2>1. c \in S[0]
    BY <1>1, <1>2, <1>3
  <2>2. \A i \in 1 .. n : \A x \in S[i - 1] : body[<<x, i>>] \in S[i]
    BY <1>1, <1>2, <1>4
  <2>3. QED
    BY <1>1, <2>1, <2>2, LoopRuns
<1>6. f = [t \in 0 .. n |-> IF t = 0 THEN c ELSE one(f[t - 1], t)]
  <2>1. ASSUME NEW i \in 0 .. n PROVE f[i] = IF i = 0 THEN c ELSE one(f[i - 1], i)
    <3>1. f[i] = IF i = 0 THEN c ELSE body[<<f[i - 1], i>>]
      BY <1>5 DEF Loop
    <3>2. i # 0 => i \in 1 .. n /\ i - 1 \in 0 .. n
      BY <1>1
    <3>3. i # 0 => f[i - 1] \in Good
      BY <1>2, <1>5, <3>2
    <3>4. QED
      BY <1>4, <3>1, <3>2, <3>3
  <2>2. f = [i \in 0 .. n |-> f[i]]
    BY <1>5 DEF Loop
  <2>3. QED
    BY <2>1, <2>2
<1>7. f = [t \in 0 .. n |-> IF t = 0 THEN c
                            ELSE IF t \in failed THEN report(f[t - 1], t) ELSE f[t - 1]]
  BY <1>6 DEF one
<1>8. PICK g :
        /\ g = [t \in 0 .. n |-> IF t = 0 THEN c
                                 ELSE IF t \in failed THEN report(g[t - 1], t) ELSE g[t - 1]]
        /\ \/ HandleDeadlock(c, stuck) = g[n]
           \/ HandleDeadlock(c, stuck) =
                StartUnassigned(c, {t \in Tasks : c.graph.status[t] = "pending"})
  <2> DEFINE g == CHOOSE g : g = [t \in 0 .. n |-> IF t = 0 THEN c
                      ELSE IF t \in failed THEN report(g[t - 1], t) ELSE g[t - 1]]
  <2>1. g = [t \in 0 .. n |-> IF t = 0 THEN c
               ELSE IF t \in failed THEN report(g[t - 1], t) ELSE g[t - 1]]
    BY <1>7
  <2>2. \/ HandleDeadlock(c, stuck) = g[n]
        \/ HandleDeadlock(c, stuck) =
             StartUnassigned(c, {t \in Tasks : c.graph.status[t] = "pending"})
    BY DEF HandleDeadlock, failed, report
  <2> HIDE DEF g
  <2>3. QED
    BY <2>1, <2>2
<1>9. StartUnassigned(c, {t \in Tasks : c.graph.status[t] = "pending"}) = c
  <2>1. \A t \in {u \in Tasks : c.graph.status[u] = "pending"} : c.graph.agent[t] # None
    BY DEF Waiting
  <2>2. QED
    BY <2>1, StartUnassignedIdle
<1>10. QED
  BY <1>8, <1>9 DEF StuckReported, failed

(* A push changes the mailbox only. *)
OnlyPushes(c, d) ==
  /\ d.graph = c.graph /\ d.agent = c.agent /\ d.live = c.live
  /\ d.born = c.born /\ d.room = c.room /\ d.made = c.made
  /\ d.parentTask = c.parentTask /\ d.overflow = c.overflow
  /\ d.abandoned = c.abandoned /\ d.respawns = c.respawns
  /\ d.rejections = c.rejections /\ d.attempts = c.attempts

LEMMA PushFields ==
  ASSUME NEW c, Sound(c), NEW e \in Messages
  PROVE  LET d == Push(c, e)
         IN /\ Sound(d) /\ OnlyPushes(c, d) /\ d.mailbox = Append(c.mailbox, e)
<1> DEFINE d == Push(c, e)
<1>1. c \in Colonies /\ Append(c.mailbox, e) \in Seq(Messages)
  BY DEF Sound, Colonies
<1>2. d = [c EXCEPT !.mailbox = Append(c.mailbox, e)]
  BY <1>1 DEF Push, Colonies
<1> HIDE DEF d
<1>3. d \in Colonies /\ OnlyPushes(c, d) /\ d.mailbox = Append(c.mailbox, e)
  BY <1>1, <1>2 DEF Colonies, OnlyPushes
<1>4. Sound(d)
  BY <1>3 DEF Sound, OnlyPushes
<1>5. QED
  BY <1>3, <1>4 DEF d

(* Failing the stuck is all the watchdog does to a colony where every task *)
(* has its agent.                                                          *)
LEMMA HandleDeadlockEvolves ==
  ASSUME NEW c, Sound(c), Waiting(c) = {}, NEW stuck \in SUBSET c.live
  PROVE  Evolves(c, HandleDeadlock(c, stuck)) /\ OnlyPushes(c, HandleDeadlock(c, stuck))
<1> DEFINE n == MaxTasks
           d == HandleDeadlock(c, stuck)
           failed == {t \in Tasks : c.graph.agent[t] \in stuck}
           report(b, t) == Push(b, FailureRequest(c, c.graph.agent[t], FALSE, FALSE))
<1>1. n \in Nat /\ Evolves(c, c) /\ OnlyPushes(c, c)
  BY BoundsArePositive, SameEvolves DEF Builds, OnlyPushes
<1>2. CASE StuckReported(c, stuck, d)
  <2>1. PICK f :
          /\ f = [t \in 0 .. n |->
               IF t = 0 THEN c
               ELSE IF t \in failed THEN report(f[t - 1], t) ELSE f[t - 1]]
          /\ d = f[n]
    BY <1>2 DEF StuckReported
  <2> DEFINE P == {t \in 0 .. n : Evolves(c, f[t]) /\ OnlyPushes(c, f[t])}
  <2>2. \A t \in 0 .. n :
          f[t] = IF t = 0 THEN c
                 ELSE IF t \in failed THEN report(f[t - 1], t) ELSE f[t - 1]
    BY <2>1
  <2>3. 0 \in P /\ P \in SUBSET (0 .. n)
    <3>1. 0 \in 0 .. n
      BY <1>1
    <3> HIDE DEF failed, report
    <3>2. f[0] = c
      BY <2>2, <3>1
    <3>3. QED
      BY <1>1, <3>1, <3>2
  <2>4. ASSUME NEW t \in 1 .. n, t - 1 \in P PROVE t \in P
    <3>1. t \in 0 .. n /\ t # 0 /\ Evolves(c, f[t - 1]) /\ Sound(f[t - 1])
          /\ OnlyPushes(c, f[t - 1])
      BY <1>1, <2>4 DEF Evolves
    <3>2. ASSUME t \in failed
          PROVE  Evolves(c, report(f[t - 1], t)) /\ OnlyPushes(c, report(f[t - 1], t))
      <4>1. c.graph.agent[t] \in c.live
        BY <3>2
      <4>2. /\ FailureRequest(c, c.graph.agent[t], FALSE, FALSE) \in Messages
            /\ FailureRequest(c, c.graph.agent[t], FALSE, FALSE).type # "spawn"
        BY <4>1, FailureIsMessage
      <4>3. Evolves(f[t - 1], report(f[t - 1], t))
        BY <3>1, <4>2, PushEvolves DEF Builds
      <4>4. OnlyPushes(f[t - 1], report(f[t - 1], t))
        BY <3>1, <4>2, PushFields
      <4> HIDE DEF report
      <4>5. OnlyPushes(c, report(f[t - 1], t))
        BY <3>1, <4>4 DEF OnlyPushes
      <4>6. QED
        BY <3>1, <4>3, <4>5, EvolvesTwice
    <3> HIDE DEF report, failed
    <3>3. QED
      BY <2>2, <3>1, <3>2
  <2> HIDE DEF P
  <2>5. P = 0 .. n
    BY <1>1, <2>3, <2>4, Induct
  <2>6. n \in P
    BY <1>1, <2>5
  <2>7. QED
    BY <2>1, <2>6 DEF P
<1>3. QED
  BY <1>1, <1>2, HandleDeadlockRuns

----------------------------------------------------------------------------
(* The tick loop *)

(* Between two events the colony is sound, it may hire as many agents as   *)
(* were never born, every task has its agent, and there are enough task    *)
(* ids for the batches under way, q being what is left to route.           *)
Steady(c, q) ==
  /\ Sound(c)
  /\ c.room = MaxAgents - c.born
  /\ Waiting(c) = {}
  /\ c.made >= 1
  /\ q \in Seq(Messages)
  /\ c.made + Requested(q) + Requested(c.mailbox) <= MaxTasks

(* A handler ends with the budget looked at afresh.                        *)
Refill(c) == [c EXCEPT !.room = MaxAgents - c.born]

LEMMA RefillFields ==
  ASSUME NEW c, Sound(c)
  PROVE  /\ Sound(Refill(c)) /\ Refill(c).room = MaxAgents - Refill(c).born
         /\ Waiting(Refill(c)) = Waiting(c)
         /\ Refill(c).made = c.made /\ Refill(c).mailbox = c.mailbox
         /\ Refill(c).live = c.live /\ Refill(c).agent = c.agent
<1> DEFINE d == Refill(c)
<1>1. c \in Colonies /\ MaxAgents - c.born \in 0 .. MaxAgents
  <2>1. c \in Colonies /\ c.born \in 0 .. MaxAgents
    BY DEF Sound, Colonies
  <2>2. QED
    BY <2>1, BoundsArePositive
<1>2. d \in Colonies /\ d.room = MaxAgents - c.born /\ d.born = c.born
      /\ d.graph = c.graph /\ d.agent = c.agent /\ d.live = c.live
      /\ d.made = c.made /\ d.mailbox = c.mailbox
  BY <1>1 DEF Refill, Colonies
<1> HIDE DEF d
<1>3. Sound(d) /\ Waiting(d) = Waiting(c)
  BY <1>1, <1>2 DEF Sound, Waiting, Colonies
<1>4. QED
  BY <1>2, <1>3 DEF d

(* The budget may turn out to pay for fewer agents.                        *)
LEMMA RoomEvolves ==
  ASSUME NEW c, Sound(c), c.room = MaxAgents - c.born, NEW n \in Rooms(c)
  PROVE  LET d == [c EXCEPT !.room = n]
         IN Evolves(c, d) /\ d.live = c.live /\ d.agent = c.agent /\ d.graph = c.graph
            /\ d.abandoned = c.abandoned
<1> DEFINE d == [c EXCEPT !.room = n]
<1>1. c \in Colonies /\ Grows(c.mailbox, c.mailbox)
      /\ MaxAgents \in Nat /\ c.born \in 0 .. MaxAgents
  BY BoundsArePositive, GrowsSame DEF Sound, Colonies
<1>2. n \in 0 .. MaxAgents - c.born
  BY <1>1 DEF Rooms, Either
<1>3. n \in 0 .. MaxAgents
  BY <1>1, <1>2
<1>4. d \in Colonies /\ d.graph = c.graph /\ d.agent = c.agent /\ d.live = c.live
      /\ d.born = c.born /\ d.room = n /\ d.made = c.made /\ d.mailbox = c.mailbox
      /\ d.abandoned = c.abandoned
  BY <1>1, <1>3 DEF Colonies
<1> HIDE DEF d
<1>5. d.room <= c.room
  BY <1>1, <1>2, <1>4
<1>6. Evolves(c, d)
  BY <1>1, <1>4, <1>5, CoreEvolves DEF Builds
<1>7. QED
  BY <1>4, <1>6 DEF d

LEMMA HandlingSteady ==
  ASSUME NEW c, NEW q, Steady(c, q), q # <<>>, NEW b, NEW d, Evolves(c, b),
         Handles(b, d, IF Head(q).type = "spawn" THEN Len(Head(q).batch) ELSE 0)
  PROVE  Steady(Refill(d), Tail(q))
<1> DEFINE k == IF Head(q).type = "spawn" THEN Len(Head(q).batch) ELSE 0
           r == Tail(q)
           e == Refill(d)
<1>1. Sound(c) /\ Sound(b) /\ Sound(d) /\ q \in Seq(Messages) /\ r \in Seq(Messages)
  BY DEF Steady, Evolves, Handles
<1>2. Requested(q) = Requested(r) + k
  BY <1>1, RequestedTail
<1> HIDE DEF k, r
<1>3. c.made = b.made /\ b.made <= d.made /\ d.made <= b.made + k
  BY DEF Evolves, Handles, k
<1>4. c.mailbox \in Seq(Messages) /\ b.mailbox \in Seq(Messages)
      /\ d.mailbox \in Seq(Messages)
  BY <1>1 DEF Sound, Colonies
<1>5. Requested(b.mailbox) = Requested(c.mailbox)
      /\ Requested(d.mailbox) = Requested(b.mailbox)
  BY <1>4, RequestedGrows DEF Evolves, Handles
<1>6. Requested(r) \in Nat /\ Requested(q) \in Nat /\ Requested(c.mailbox) \in Nat
  BY <1>1, <1>4, SlotsOf
<1>7. c.made \in Nat /\ b.made \in Nat /\ d.made \in Nat /\ MaxTasks \in Nat
  BY <1>1, BoundsArePositive DEF Sound, Colonies
<1>8. k \in Nat
  <2>1. Head(q) \in Messages
    BY <1>1
  <2>2. QED
    BY <2>1, BatchLength DEF k
<1>9. Sound(e) /\ e.room = MaxAgents - e.born /\ Waiting(e) = Waiting(d)
      /\ e.made = d.made /\ e.mailbox = d.mailbox
  BY <1>1, RefillFields
<1> HIDE DEF e
<1>10. Waiting(e) = {}
  BY <1>9 DEF Steady, Evolves, Handles
<1>11. c.made >= 1 /\ c.made + Requested(q) + Requested(c.mailbox) <= MaxTasks
  BY DEF Steady
<1>12. e.made >= 1 /\ e.made + Requested(r) + Requested(e.mailbox) <= MaxTasks
  <2>1. e.made <= c.made + k
    BY <1>3, <1>9
  <2>2. Requested(e.mailbox) = Requested(c.mailbox)
    BY <1>5, <1>9
  <2>3. e.made \in Nat /\ e.made >= 1
    <3>1. e.made \in Nat
      <4>1. e \in Colonies
        BY <1>9 DEF Sound
      <4>2. QED
        BY <4>1, ColonyFields
    <3>2. c.made <= e.made
      BY <1>3, <1>9
    <3>3. QED
      BY <3>1, <3>2, <1>7, <1>11
  <2> DEFINE asked == Requested(r)
             sent == Requested(c.mailbox)
  <2>4. asked \in Nat /\ sent \in Nat
    BY <1>6
  <2>5. c.made + (asked + k) + sent <= MaxTasks
    BY <1>2, <1>11
  <2> HIDE DEF asked, sent
  <2>6. e.made + asked + sent <= MaxTasks
    BY <2>1, <2>3, <2>4, <2>5, <1>7, <1>8, SMTT(30)
  <2>7. QED
    BY <2>2, <2>3, <2>6 DEF asked, sent
<1>13. QED
  BY <1>1, <1>9, <1>10, <1>12 DEF Steady, e, r

(* A step that handles no event.                                           *)
LEMMA EvolvingSteady ==
  ASSUME NEW c, NEW q, Steady(c, q), NEW d, Evolves(c, d), d.room = MaxAgents - d.born
  PROVE  Steady(d, q)
<1>1. Sound(c) /\ Sound(d) /\ d.made = c.made /\ q \in Seq(Messages)
      /\ Waiting(d) = {}
  BY DEF Steady, Evolves
<1>2. c.mailbox \in Seq(Messages)
  BY <1>1 DEF Sound, Colonies
<1>3. Requested(d.mailbox) = Requested(c.mailbox)
  BY <1>2, RequestedGrows DEF Evolves
<1>4. QED
  BY <1>1, <1>3 DEF Steady

(* The inductive invariant.  Only the route phase has events to route, and *)
(* only the run phase agents to run, each of them still registered.        *)
LoopInv ==
  /\ Steady(colony, inbox)
  /\ phase \in {"tick", "route", "run", "done"}
  /\ phase # "route" => inbox = <<>>
  /\ turn \subseteq IF phase = "run" THEN colony.live ELSE {}

LEMMA LoopInvImplies == LoopInv => TypeOK /\ NothingToDispatch
<1> SUFFICES ASSUME LoopInv PROVE TypeOK /\ NothingToDispatch
  OBVIOUS
<1>1. Sound(colony) /\ colony \in Colonies /\ inbox \in Seq(Messages)
  BY DEF LoopInv, Steady, Sound
<1>2. colony.mailbox \in Seq(Messages) /\ colony.overflow \in [Agents -> Seq(QueuedChildren)]
  BY <1>1 DEF Colonies
<1>3. ToSet(colony.mailbox) \cup ToSet(inbox) \subseteq Messages
  BY <1>1, <1>2 DEF ToSet
<1>4. ASSUME NEW a \in Agents PROVE ToSet(colony.overflow[a]) \subseteq QueuedChildren
  <2>1. colony.overflow[a] \in Seq(QueuedChildren)
    BY <1>2
  <2>2. QED
    BY <2>1 DEF ToSet
<1>5. turn \subseteq Agents
  BY <1>1 DEF LoopInv, Colonies
<1>6. colony.made \in 1 .. MaxTasks
  BY <1>1 DEF LoopInv, Steady, Colonies
<1>7. TypeOK
  BY <1>1, <1>3, <1>4, <1>5, <1>6 DEF LoopInv, Steady, Sound, Colonies, TypeOK
<1>8. NothingToDispatch
  BY DEF LoopInv, Steady, Waiting, NothingToDispatch
<1>9. QED
  BY <1>7, <1>8

LEMMA LoopInit == Init => LoopInv
<1> SUFFICES ASSUME Init PROVE LoopInv
  OBVIOUS
<1> DEFINE rooted == TG!AddTask(TG!EmptyGraph, Root, {})
           empty == [EmptyColony EXCEPT !.graph = rooted, !.made = 1]
<1>1. MaxTasks \in Nat \ {0} /\ MaxAgents \in Nat \ {0} /\ Root \in Tasks
  BY BoundsArePositive, GraphSetting
<1>2. TG!EmptyGraph \in TG!Graphs /\ {} \in SUBSET Tasks
  BY DEF TG!EmptyGraph, TG!Graphs, TG!Statuses
<1>3. rooted \in TG!Graphs
      /\ \A u \in Tasks : rooted.status[u] = IF u = Root THEN "pending" ELSE "absent"
  <2>1. \A u \in Tasks : TG!EmptyGraph.status[u] = "absent"
    BY DEF TG!EmptyGraph
  <2> HIDE DEF rooted
  <2>2. QED
    BY <1>1, <1>2, <2>1, GraphAdd DEF rooted
<1> HIDE DEF rooted
<1>4. NoAgent \in AgentNodes
  BY DEF NoAgent, AgentNodes, Roles
<1>5. empty \in Colonies /\ empty.graph = rooted /\ empty.live = {} /\ empty.born = 0
      /\ empty.room = MaxAgents /\ empty.made = 1 /\ empty.mailbox = <<>>
      /\ empty.abandoned = {}
  <2> DEFINE base == EmptyColony
  <2>1. /\ [t \in Tasks |-> None] \in [Tasks -> Tasks \cup {None}]
        /\ [t \in Tasks |-> "decomposer"] \in [Tasks -> Roles]
        /\ [a \in Agents |-> NoAgent] \in [Agents -> AgentNodes]
        /\ [a \in Agents |-> <<>>] \in [Agents -> Seq(QueuedChildren)]
        /\ [t \in Tasks |-> 0] \in [Tasks -> Nat]
    BY <1>4 DEF Roles
  <2>2. /\ 0 \in 0 .. MaxAgents /\ MaxAgents \in 0 .. MaxAgents /\ 1 \in 0 .. MaxTasks
        /\ <<>> \in Seq(Messages)
    BY <1>1
  <2>3. base \in Colonies /\ base.live = {} /\ base.born = 0 /\ base.room = MaxAgents
        /\ base.mailbox = <<>> /\ base.abandoned = {}
    <3>1. 0 \in 0 .. MaxTasks
      BY <1>1
    <3>2. QED
      BY <1>2, <2>1, <2>2, <3>1 DEF Colonies, EmptyColony
  <2> HIDE DEF base
  <2>4. empty = [base EXCEPT !.graph = rooted, !.made = 1]
    BY DEF base
  <2> HIDE DEF empty
  <2>5. QED
    BY <1>3, <2>2, <2>3, <2>4 DEF Colonies
<1> HIDE DEF empty
<1>6. Sound(empty) /\ empty.room > 0
  BY <1>1, <1>5 DEF Sound
<1>7. Waiting(empty) \subseteq {Root}
  BY <1>3, <1>5 DEF Waiting
<1>8. Evolves(empty, colony) /\ Root \notin Waiting(colony)
      /\ colony.room = MaxAgents - colony.born
  <2>1. CASE colony = SpawnAgent(empty, "decomposer", Root, None, TRUE)
    <3>1. Spawned(empty, colony, "decomposer", Root, None, TRUE)
      BY <1>1, <1>6, <2>1, SpawnFields DEF Roles, AnyAgent
    <3>2. colony.room = empty.room - 1 /\ colony.born = empty.born + 1
      BY <3>1 DEF Spawned
    <3>3. Builds(empty, colony) /\ Root \notin Waiting(colony)
      BY <1>1, <1>6, <3>1, SpawnEvolves
    <3>4. colony.room = MaxAgents - colony.born
      BY <1>1, <1>5, <3>2
    <3>5. QED
      BY <3>3, <3>4 DEF Builds
  <2>2. CASE colony = AbandonTask(empty, Root, None)
    <3> DEFINE b == [empty EXCEPT !.abandoned = @ \cup {Root}]
    <3>1. b \in Colonies /\ b.graph = empty.graph /\ b.agent = empty.agent
          /\ b.live = empty.live /\ b.born = empty.born /\ b.room = empty.room
          /\ b.made = empty.made /\ b.mailbox = empty.mailbox
      BY <1>1, <1>5 DEF Colonies
    <3>2. colony = CloseFailed(b, Root)
      BY <2>2 DEF AbandonTask, FreeSlotAndNotify, DrainPendingOverflow, Notify
    <3> HIDE DEF b
    <3>3. b.room <= empty.room /\ Grows(empty.mailbox, b.mailbox)
      BY <1>1, <1>5, <3>1, GrowsSame DEF Colonies
    <3>4. Evolves(empty, b) /\ Sound(b)
      BY <1>6, <3>1, <3>3, CoreEvolves DEF Builds, Evolves
    <3>5. Settled(b, colony, Root, "failed")
      BY <1>1, <3>2, <3>4, SettleFields
    <3>6. Evolves(b, colony) /\ Root \notin Waiting(colony)
          /\ colony.room = b.room /\ colony.born = b.born
      BY <1>1, <3>4, <3>5, SettleEvolves DEF Builds, Settled
    <3>7. QED
      BY <1>1, <1>5, <1>6, <3>1, <3>4, <3>6, EvolvesTwice
  <2>3. QED
    BY <2>1, <2>2 DEF Init, empty, rooted
<1>9. Waiting(colony) = {}
  BY <1>7, <1>8 DEF Evolves
<1>10. Requested(colony.mailbox) = 0 /\ Requested(inbox) = 0 /\ inbox = <<>>
  <2>1. <<>> \in Seq(Messages)
    OBVIOUS
  <2>2. QED
    BY <1>5, <1>8, <2>1, RequestedGrows, RequestedNone DEF Evolves, Init
<1>11. Steady(colony, inbox)
  BY <1>1, <1>5, <1>8, <1>9, <1>10 DEF Steady, Evolves
<1>12. QED
  BY <1>11 DEF LoopInv, Init

----------------------------------------------------------------------------
(* Each action keeps it *)

LEMMA BeginTickKeeps == LoopInv /\ BeginTick => LoopInv'
<1> SUFFICES ASSUME LoopInv, BeginTick PROVE LoopInv'
  OBVIOUS
<1>1. PICK stuck \in IF May("watchdog") THEN SUBSET WatchdogSees(colony) ELSE {{}} :
        LET checked == HandleDeadlock(colony, stuck)
        IN inbox' = checked.mailbox /\ colony' = [checked EXCEPT !.mailbox = <<>>]
  BY DEF BeginTick
<1> DEFINE d == HandleDeadlock(colony, stuck)
           e == [d EXCEPT !.mailbox = <<>>]
<1>2. Steady(colony, <<>>) /\ inbox = <<>> /\ turn = {} /\ phase' = "route" /\ turn' = turn
  BY DEF LoopInv, BeginTick
<1>3. Sound(colony) /\ Waiting(colony) = {} /\ colony.room = MaxAgents - colony.born
  BY <1>2 DEF Steady
<1>4. stuck \in SUBSET colony.live
  BY DEF WatchdogSees, Tickable
<1>5. Evolves(colony, d) /\ OnlyPushes(colony, d)
  BY <1>3, <1>4, HandleDeadlockEvolves
<1>6. d.room = MaxAgents - d.born
  BY <1>3, <1>5 DEF OnlyPushes
<1> HIDE DEF d
<1>7. Steady(d, <<>>)
  BY <1>2, <1>5, <1>6, EvolvingSteady
<1>8. d \in Colonies /\ d.mailbox \in Seq(Messages) /\ <<>> \in Seq(Messages) /\ Sound(d)
  BY <1>7 DEF Steady, Sound, Colonies
<1>9. e \in Colonies /\ e.graph = d.graph /\ e.agent = d.agent /\ e.live = d.live
      /\ e.born = d.born /\ e.room = d.room /\ e.made = d.made /\ e.mailbox = <<>>
  BY <1>8 DEF Colonies
<1> HIDE DEF e
<1>10. Sound(e) /\ Waiting(e) = Waiting(d)
  BY <1>8, <1>9 DEF Sound, Waiting
<1>11. Requested(<<>>) = 0 /\ Requested(d.mailbox) \in Nat /\ d.made \in Nat
  BY <1>8, RequestedNone, SlotsOf DEF Colonies
<1>12. Steady(e, d.mailbox)
  BY <1>7, <1>8, <1>9, <1>10, <1>11 DEF Steady
<1>13. inbox' = d.mailbox /\ colony' = e
  BY <1>1 DEF d, e
<1>14. QED
  BY <1>2, <1>12, <1>13 DEF LoopInv

(* What a routed event finds: a steady colony whose run has not begun.     *)
LEMMA RoutedFacts ==
  ASSUME LoopInv, NEW type, Routed(type)
  PROVE  /\ Steady(colony, inbox) /\ Sound(colony) /\ inbox # <<>>
         /\ Head(inbox) \in Messages /\ Head(inbox).type = type
         /\ \A d : Steady(d, Tail(inbox)) /\ colony' = d => LoopInv'
<1>1. Steady(colony, inbox) /\ Sound(colony) /\ inbox # <<>> /\ turn = {}
  BY DEF LoopInv, Routed, Steady
<1>2. Head(inbox) \in Messages
  BY <1>1 DEF Steady
<1>3. phase = "route" /\ phase' = phase /\ turn' = turn /\ inbox' = Tail(inbox)
      /\ Head(inbox).type = type
  BY DEF Routed
<1>4. ASSUME NEW d, Steady(d, Tail(inbox)), colony' = d PROVE LoopInv'
  BY <1>1, <1>3, <1>4 DEF LoopInv
<1>5. QED
  BY <1>1, <1>2, <1>3, <1>4

LEMMA DropStaleKeeps == LoopInv /\ DropStale => LoopInv'
<1> SUFFICES ASSUME LoopInv, DropStale PROVE LoopInv'
  OBVIOUS
<1>1. PICK type \in {"completion", "failure"} : Routed(type)
  BY DEF DropStale
<1>2. Steady(colony, inbox) /\ inbox # <<>> /\ colony' = colony
      /\ Head(inbox).type # "spawn"
  BY <1>1, RoutedFacts DEF DropStale
<1>3. inbox \in Seq(Messages) /\ Tail(inbox) \in Seq(Messages)
      /\ colony.mailbox \in Seq(Messages)
  BY <1>2 DEF Steady, Sound, Colonies
<1>4. Requested(inbox) = Requested(Tail(inbox))
  <2>1. Requested(Tail(inbox)) \in Nat
    BY <1>3, SlotsOf
  <2>2. QED
    BY <1>2, <1>3, <2>1, RequestedTail
<1>5. Steady(colony, Tail(inbox))
  BY <1>2, <1>3, <1>4 DEF Steady
<1>6. QED
  BY <1>1, <1>2, <1>5, RoutedFacts

LEMMA RouteSpawnKeeps == LoopInv /\ RouteSpawn => LoopInv'
<1> SUFFICES ASSUME LoopInv, RouteSpawn PROVE LoopInv'
  OBVIOUS
<1> DEFINE e == Head(inbox)
<1>1. Routed("spawn")
  BY DEF RouteSpawn
<1>2. /\ Steady(colony, inbox) /\ Sound(colony) /\ inbox # <<>>
      /\ e \in Messages /\ e.type = "spawn"
      /\ \A d : Steady(d, Tail(inbox)) /\ colony' = d => LoopInv'
  BY <1>1, RoutedFacts
<1>3. PICK n \in Rooms(colony), ruling \in Rulings(colony, e.from), kept \in Kept(e.batch) :
        Handled(HandleSpawn(WithRoom(n), e, kept, ruling))
  BY DEF RouteSpawn
<1> DEFINE b == WithRoom(n)
           d == HandleSpawn(b, e, kept, ruling)
<1>4. Evolves(colony, b) /\ b.live = colony.live
  BY <1>2, RoomEvolves DEF WithRoom, Steady
<1>5. kept \in SUBSET DOMAIN e.batch
  BY DEF Kept, Either
<1>6. ruling = "screened" => e.from \in b.live
  BY <1>4 DEF Rulings
<1>7. b.made + Len(e.batch) <= MaxTasks
  <2>1. Requested(inbox) = Requested(Tail(inbox)) + Len(e.batch)
    BY <1>2, RequestedTail DEF Steady
  <2>2. Tail(inbox) \in Seq(Messages) /\ colony.mailbox \in Seq(Messages)
    BY <1>2 DEF Steady, Sound, Colonies
  <2>3. Requested(Tail(inbox)) \in Nat /\ Requested(colony.mailbox) \in Nat
    BY <2>2, SlotsOf
  <2>4. colony.made + Requested(inbox) + Requested(colony.mailbox) <= MaxTasks
        /\ colony.made \in Nat /\ MaxTasks \in Nat /\ b.made = colony.made
    BY <1>2, <1>4, BoundsArePositive DEF Steady, Sound, Colonies, Evolves
  <2>5. Len(e.batch) \in Nat
    BY <1>2, BatchLength
  <2> HIDE DEF e, b
  <2>6. QED
    BY <2>1, <2>3, <2>4, <2>5
<1>8. Sound(b)
  BY <1>4 DEF Evolves
<1> HIDE DEF e, b
<1>9. Handles(b, d, Len(e.batch))
  BY <1>2, <1>5, <1>6, <1>7, <1>8, HandleSpawnHandles
<1> HIDE DEF d
<1>10. Steady(Refill(d), Tail(inbox))
  BY <1>2, <1>4, <1>9, HandlingSteady DEF e
<1>11. colony' = Refill(d)
  BY <1>3 DEF Handled, Refill, d, b, e
<1>12. QED
  BY <1>2, <1>10, <1>11

(* A handler that asks for no task.                                        *)
LEMMA HandledKeeps ==
  ASSUME LoopInv, NEW type \in {"completion", "failure", "notification"}, Routed(type),
         NEW n \in Rooms(colony), NEW d, Evolves(WithRoom(n), d), Handled(d)
  PROVE  LoopInv'
<1> DEFINE b == WithRoom(n)
<1>1. /\ Steady(colony, inbox) /\ inbox # <<>> /\ Head(inbox).type # "spawn"
      /\ \A x : Steady(x, Tail(inbox)) /\ colony' = x => LoopInv'
  BY RoutedFacts
<1>2. Evolves(colony, b)
  BY <1>1, RoomEvolves DEF WithRoom, Steady
<1>3. Sound(b)
  BY <1>2 DEF Evolves
<1> HIDE DEF b
<1>4. Handles(b, d, 0)
  BY <1>3, EvolvesHandles DEF b
<1>5. Steady(Refill(d), Tail(inbox))
  BY <1>1, <1>2, <1>4, HandlingSteady
<1>6. colony' = Refill(d)
  BY DEF Handled, Refill
<1>7. QED
  BY <1>1, <1>5, <1>6

LEMMA WithRoomFacts ==
  ASSUME LoopInv, NEW n \in Rooms(colony)
  PROVE  Sound(WithRoom(n)) /\ WithRoom(n).live = colony.live
<1>1. Sound(colony) /\ colony.room = MaxAgents - colony.born
  BY DEF LoopInv, Steady
<1>2. QED
  BY <1>1, RoomEvolves DEF WithRoom, Evolves

LEMMA RouteCompletionKeeps == LoopInv /\ RouteCompletion => LoopInv'
<1> SUFFICES ASSUME LoopInv, RouteCompletion PROVE LoopInv'
  OBVIOUS
<1> DEFINE e == Head(inbox)
<1>1. Routed("completion")
  BY DEF RouteCompletion
<1>2. e \in Messages /\ e.type = "completion"
  BY <1>1, RoutedFacts
<1>3. PICK n \in Rooms(colony), verdict \in Verdicts(colony, e),
           repeated \in IF e.from \in colony.live
                          THEN {FALSE, colony.agent[e.from].warned} ELSE {FALSE},
           over \in OverCeiling, fate \in Fates(e.task) :
        Handled(HandleCompletion(WithRoom(n), e, verdict, repeated, over, fate))
  BY DEF RouteCompletion
<1> DEFINE b == WithRoom(n)
<1>4. Sound(b) /\ b.live = colony.live
  BY WithRoomFacts
<1>5. verdict \in {"promote", "warn", "execute"}
      /\ (verdict = "warn" => e.from \in colony.live)
  BY DEF Verdicts, Either
<1> HIDE DEF e, b
<1>6. Evolves(b, HandleCompletion(b, e, verdict, repeated, over, fate))
  BY <1>2, <1>4, <1>5, HandleCompletionEvolves
<1> DEFINE d == HandleCompletion(b, e, verdict, repeated, over, fate)
<1>7. Handled(d)
  BY <1>3 DEF e, b
<1>8. Evolves(WithRoom(n), d)
  BY <1>6 DEF b
<1> HIDE DEF d
<1>9. QED
  BY <1>1, <1>7, <1>8, HandledKeeps

LEMMA RouteFailureKeeps == LoopInv /\ RouteFailure => LoopInv'
<1> SUFFICES ASSUME LoopInv, RouteFailure PROVE LoopInv'
  OBVIOUS
<1> DEFINE e == Head(inbox)
<1>1. Routed("failure")
  BY DEF RouteFailure
<1>2. e \in Messages /\ e.type = "failure"
  BY <1>1, RoutedFacts
<1>3. PICK n \in Rooms(colony), converts \in Either("ceiling", {TRUE}, {FALSE}),
           fate \in Fates(e.task) :
        Handled(HandleFailure(WithRoom(n), e, converts, fate))
  BY DEF RouteFailure
<1> DEFINE b == WithRoom(n)
           d == HandleFailure(b, e, converts, fate)
<1>4. Sound(b)
  BY WithRoomFacts
<1> HIDE DEF e, b
<1>5. Evolves(b, d)
  BY <1>2, <1>4, HandleFailureEvolves
<1>6. Handled(d)
  BY <1>3 DEF e, b
<1> HIDE DEF d
<1>7. Evolves(WithRoom(n), d)
  BY <1>5 DEF b
<1>8. QED
  BY <1>1, <1>6, <1>7, HandledKeeps

LEMMA RouteNotificationKeeps == LoopInv /\ RouteNotification => LoopInv'
<1> SUFFICES ASSUME LoopInv, RouteNotification PROVE LoopInv'
  OBVIOUS
<1> DEFINE e == Head(inbox)
<1>1. Routed("notification")
  BY DEF RouteNotification
<1>2. e \in Messages /\ e.type = "notification"
  BY <1>1, RoutedFacts
<1>3. PICK n \in Rooms(colony), over \in OverCeiling :
        Handled(HandleNotification(WithRoom(n), e, over))
  BY DEF RouteNotification
<1> DEFINE b == WithRoom(n)
           d == HandleNotification(b, e, over)
<1>4. Sound(b)
  BY WithRoomFacts
<1> HIDE DEF e, b
<1>5. Evolves(b, d)
  BY <1>2, <1>4, HandleNotificationEvolves
<1>6. Handled(d)
  BY <1>3 DEF e, b
<1> HIDE DEF d
<1>7. Evolves(WithRoom(n), d)
  BY <1>5 DEF b
<1>8. QED
  BY <1>1, <1>6, <1>7, HandledKeeps

LEMMA EndRouteKeeps == LoopInv /\ EndRoute => LoopInv'
<1> SUFFICES ASSUME LoopInv, EndRoute PROVE LoopInv'
  OBVIOUS
<1>1. Steady(colony, inbox) /\ Waiting(colony) = {}
  BY DEF LoopInv, Steady
<1>2. /\ TG!ReadyTasks(colony.graph) \in SUBSET Tasks
      /\ \A t \in TG!ReadyTasks(colony.graph) : colony.graph.agent[t] # None
  BY <1>1 DEF TG!ReadyTasks, Waiting
<1>3. colony' = colony
  BY <1>2, StartUnassignedIdle DEF EndRoute
<1>4. inbox = <<>> /\ inbox' = inbox /\ turn' = colony'.live /\ phase' = "run"
  BY DEF EndRoute
<1>5. QED
  BY <1>1, <1>3, <1>4 DEF LoopInv

----------------------------------------------------------------------------
(* What an agent does with its turn *)

LEMMA TurnFacts ==
  ASSUME LoopInv, NEW a \in Agents, Turn(a)
  PROVE  /\ Steady(colony, <<>>) /\ inbox = <<>> /\ Sound(colony) /\ a \in colony.live
         /\ colony.agent[a] \in AgentNodes /\ colony.agent[a].task \in Tasks
         /\ \A d : Steady(d, <<>>) /\ colony.live \ {a} \subseteq d.live /\ colony' = d
                     => LoopInv'
<1>1. Steady(colony, <<>>) /\ inbox = <<>> /\ Sound(colony) /\ turn \subseteq colony.live
      /\ phase = "run" /\ phase' = phase /\ inbox' = inbox /\ a \in turn
  BY DEF LoopInv, Turn, Steady, ToRun
<1>2. colony.agent[a] \in AgentNodes /\ colony.agent[a].task \in Tasks
  BY <1>1 DEF Sound, Colonies
<1>3. turn' \subseteq colony.live \ {a}
  <2>1. Agents \in SUBSET Nat /\ colony.live \in SUBSET Agents
    BY <1>1, GraphSetting DEF Sound, Colonies
  <2>2. turn' = {b \in turn : b > a}
    BY DEF Turn
  <2>3. ASSUME NEW b \in turn' PROVE b \in colony.live /\ b # a
    <3>1. b \in turn /\ b > a
      BY <2>2
    <3>2. b \in Agents /\ a \in Agents
      BY <1>1, <2>1, <3>1
    <3>3. a \in Nat /\ b \in Nat
      BY <2>1, <3>2
    <3>4. QED
      BY <1>1, <3>1, <3>3
  <2>4. QED
    BY <2>3
<1>4. QED
  BY <1>1, <1>2, <1>3 DEF LoopInv

(* A run that changes no more than its agent's own record.                 *)
LEMMA EditSteady ==
  ASSUME NEW c, Steady(c, <<>>), NEW a \in c.live, NEW node \in AgentNodes,
         node.task = c.agent[a].task
  PROVE  LET d == [c EXCEPT !.agent[a] = node]
         IN Steady(d, <<>>) /\ Sound(d) /\ d.live = c.live /\ d.made = c.made
            /\ d.mailbox = c.mailbox /\ d.agent = [c.agent EXCEPT ![a] = node]
            /\ d.graph = c.graph /\ d.born = c.born /\ d.abandoned = c.abandoned
<1> DEFINE d == [c EXCEPT !.agent[a] = node]
<1>1. Sound(c) /\ a \in Agents /\ c \in Colonies
  BY DEF Steady, Sound, Colonies
<1>2. Evolves(c, d) /\ d.live = c.live /\ d.room = c.room /\ d.born = c.born
      /\ d.made = c.made /\ d.mailbox = c.mailbox /\ d.graph = c.graph
      /\ d.agent = [c.agent EXCEPT ![a] = node]
  BY <1>1, EditEvolves
<1>3. d.abandoned = c.abandoned
  BY <1>1 DEF Colonies
<1> HIDE DEF d
<1>4. d.room = MaxAgents - d.born
  BY <1>2 DEF Steady
<1>5. Steady(d, <<>>)
  BY <1>2, <1>4, EvolvingSteady
<1>6. QED
  BY <1>2, <1>3, <1>5 DEF d, Steady

LEMMA PushSteady ==
  ASSUME NEW c, Steady(c, <<>>), NEW e \in Messages,
         e.type = "spawn" => c.made + Requested(c.mailbox) + Len(e.batch) <= MaxTasks
  PROVE  Steady(Push(c, e), <<>>) /\ Push(c, e).live = c.live
<1> DEFINE d == Push(c, e)
<1>1. Sound(c) /\ c.mailbox \in Seq(Messages) /\ <<>> \in Seq(Messages)
  BY DEF Steady, Sound, Colonies
<1>2. Sound(d) /\ OnlyPushes(c, d) /\ d.mailbox = Append(c.mailbox, e)
  BY <1>1, PushFields
<1> HIDE DEF d
<1>3. Requested(d.mailbox) =
        Requested(c.mailbox) + (IF e.type = "spawn" THEN Len(e.batch) ELSE 0)
  BY <1>1, <1>2, RequestedPush
<1>4. Requested(c.mailbox) \in Nat /\ Requested(<<>>) = 0 /\ c.made \in Nat
      /\ MaxTasks \in Nat
  BY <1>1, SlotsOf, RequestedNone, BoundsArePositive DEF Sound, Colonies
<1>5. e.type = "spawn" => Len(e.batch) \in Nat
  BY BatchLength
<1>6. d.made + Requested(<<>>) + Requested(d.mailbox) <= MaxTasks
  <2>1. d.made = c.made
    BY <1>2 DEF OnlyPushes
  <2>2. c.made + 0 + Requested(c.mailbox) <= MaxTasks
    BY <1>4 DEF Steady
  <2>3. CASE e.type = "spawn"
    BY <1>3, <1>4, <1>5, <2>1, <2>3
  <2>4. CASE e.type # "spawn"
    BY <1>3, <1>4, <2>1, <2>2, <2>4
  <2>5. QED
    BY <2>3, <2>4
<1>7. d.room = MaxAgents - d.born /\ Waiting(d) = {} /\ d.made >= 1 /\ d.live = c.live
  BY <1>2 DEF OnlyPushes, Steady, Waiting
<1>8. QED
  BY <1>1, <1>2, <1>6, <1>7 DEF Steady, d

(* A cycle that ended nothing is followed by a look at the ceiling, with   *)
(* the room the budget then leaves.                                        *)
LEMMA AfterCycleSteady ==
  ASSUME NEW c, Steady(c, <<>>), NEW a \in c.live, NEW n \in Rooms(c),
         NEW d \in AfterCycle([c EXCEPT !.room = n], a)
  PROVE  Steady(Refill(d), <<>>) /\ c.live \ {a} \subseteq Refill(d).live
<1> DEFINE b == [c EXCEPT !.room = n]
<1>1. Sound(c) /\ c.room = MaxAgents - c.born
  BY DEF Steady
<1>2. Evolves(c, b) /\ b.live = c.live
  BY <1>1, RoomEvolves
<1>3. d = b \/ d = StopAtCeiling(b, a)
  BY DEF AfterCycle
<1> HIDE DEF b
<1>4. Sound(b) /\ Evolves(b, b)
  BY <1>2, SameEvolves DEF Evolves, Builds
<1>5. Evolves(b, d) /\ b.live \ {a} \subseteq d.live
  BY <1>2, <1>3, <1>4, StopEvolves
<1>6. Evolves(c, d) /\ Sound(d)
  BY <1>1, <1>2, <1>5, EvolvesTwice DEF Evolves
<1> DEFINE e == Refill(d)
<1>7. Sound(e) /\ e.room = MaxAgents - e.born /\ Waiting(e) = Waiting(d)
      /\ e.made = d.made /\ e.mailbox = d.mailbox /\ e.live = d.live
  BY <1>6, RefillFields
<1> HIDE DEF e
<1>8. Evolves(c, e)
  BY <1>6, <1>7 DEF Evolves
<1>9. Steady(e, <<>>)
  BY <1>7, <1>8, EvolvingSteady
<1>10. QED
  BY <1>2, <1>5, <1>7, <1>9 DEF e

LEMMA ParkKeeps == ASSUME LoopInv, NEW a \in Agents, Park(a) PROVE LoopInv'
<1> DEFINE node == [colony.agent[a] EXCEPT !.awaiting = TRUE]
           d == [colony EXCEPT !.agent[a] = node]
<1>1. /\ Steady(colony, <<>>) /\ a \in colony.live /\ colony.agent[a] \in AgentNodes
      /\ \A x : Steady(x, <<>>) /\ colony.live \ {a} \subseteq x.live /\ colony' = x
                  => LoopInv'
  BY TurnFacts DEF Park
<1>2. node \in AgentNodes /\ node.task = colony.agent[a].task
  BY <1>1 DEF AgentNodes
<1>3. colony' = d
  BY DEF Park
<1> HIDE DEF node
<1>4. Steady(d, <<>>) /\ d.live = colony.live
  BY <1>1, <1>2, EditSteady
<1> HIDE DEF d
<1>5. QED
  BY <1>1, <1>3, <1>4

LEMMA CrashKeeps == ASSUME LoopInv, NEW a \in Agents, Crash(a) PROVE LoopInv'
<1> DEFINE node == [colony.agent[a] EXCEPT !.crashes = @ + 1]
           crashed == [colony EXCEPT !.agent[a].crashes = @ + 1]
           given == IF crashed.agent[a].crashes >= MaxConsecutiveCrashes
                      THEN Push(crashed, FailureRequest(crashed, a, FALSE, FALSE))
                      ELSE crashed
<1>1. /\ Steady(colony, <<>>) /\ a \in colony.live /\ colony.agent[a] \in AgentNodes
      /\ \A x : Steady(x, <<>>) /\ colony.live \ {a} \subseteq x.live /\ colony' = x
                  => LoopInv'
  BY TurnFacts DEF Crash, RunsAs
<1>2. PICK n \in Rooms(colony) : \E c \in AfterCycle([given EXCEPT !.room = n], a) : Handled(c)
  BY DEF Crash
<1>3. node \in AgentNodes /\ node.task = colony.agent[a].task
  <2>1. colony.agent[a].crashes + 1 \in Nat
    BY <1>1 DEF AgentNodes
  <2>2. QED
    BY <1>1, <2>1 DEF AgentNodes
<1> DEFINE edited == [colony EXCEPT !.agent[a] = node]
<1>4. crashed = edited
  BY <1>1, Zenon
<1> HIDE DEF node, crashed
<1>a. Steady(edited, <<>>) /\ edited.live = colony.live /\ edited.born = colony.born
  BY <1>1, <1>3, EditSteady
<1> HIDE DEF edited
<1>5. Steady(crashed, <<>>) /\ crashed.live = colony.live /\ crashed.born = colony.born
  BY <1>4, <1>a
<1>6. Steady(given, <<>>) /\ given.live = colony.live /\ given.born = colony.born
  <2> DEFINE e == FailureRequest(crashed, a, FALSE, FALSE)
  <2>1. e \in Messages /\ e.type # "spawn"
    BY <1>1, <1>5, FailureIsMessage DEF Steady
  <2>2. Sound(crashed)
    BY <1>5 DEF Steady
  <2> HIDE DEF e
  <2>3. Steady(Push(crashed, e), <<>>) /\ Push(crashed, e).live = crashed.live
        /\ Push(crashed, e).born = crashed.born
    BY <1>5, <2>1, <2>2, PushSteady, PushFields DEF OnlyPushes
  <2>4. QED
    BY <1>5, <2>3 DEF e
<1> HIDE DEF given
<1>7. n \in Rooms(given)
  BY <1>6 DEF Rooms, Either
<1>8. PICK c \in AfterCycle([given EXCEPT !.room = n], a) : Handled(c)
  BY <1>2
<1>9. Steady(Refill(c), <<>>) /\ colony.live \ {a} \subseteq Refill(c).live
  BY <1>1, <1>6, <1>7, AfterCycleSteady
<1>10. colony' = Refill(c)
  BY <1>8 DEF Handled, Refill
<1>11. QED
  BY <1>1, <1>9, <1>10

LEMMA ThinkKeeps == ASSUME LoopInv, NEW a \in Agents, Think(a) PROVE LoopInv'
<1> DEFINE node == [colony.agent[a] EXCEPT !.started = TRUE, !.crashes = 0, !.cycles = @ + 1]
           thought == [Ran(a, colony) EXCEPT !.agent[a].crashes = 0,
                                             !.agent[a].cycles = @ + 1]
<1>1. /\ Steady(colony, <<>>) /\ a \in colony.live /\ colony.agent[a] \in AgentNodes
      /\ \A x : Steady(x, <<>>) /\ colony.live \ {a} \subseteq x.live /\ colony' = x
                  => LoopInv'
  BY TurnFacts DEF Think, RunsAs
<1>2. PICK n \in Rooms(colony) :
        \E c \in AfterCycle([thought EXCEPT !.room = n], a) : Handled(c)
  BY Zenon DEF Think
<1>3. node \in AgentNodes /\ node.task = colony.agent[a].task
  <2>1. colony.agent[a].cycles + 1 \in Nat
    BY <1>1 DEF AgentNodes
  <2>2. QED
    BY <1>1, <2>1 DEF AgentNodes
<1> DEFINE edited == [colony EXCEPT !.agent[a] = node]
<1>4. thought = edited
  <2>1. "agent" \in DOMAIN colony /\ a \in DOMAIN colony.agent
    BY <1>1 DEF Steady, Sound, Colonies
  <2> DEFINE first == [colony.agent[a] EXCEPT !.started = TRUE]
             ran == [colony EXCEPT !.agent[a] = first]
             second == [first EXCEPT !.crashes = 0, !.cycles = @ + 1]
  <2>2. Ran(a, colony) = ran
    BY <2>1 DEF Ran
  <2>3. ran.agent[a] = first /\ [ran EXCEPT !.agent[a] = second] = [colony EXCEPT !.agent[a] = second]
        /\ "agent" \in DOMAIN ran /\ a \in DOMAIN ran.agent
    <3> HIDE DEF first, second
    <3>1. QED
      BY <2>1
  <2>4. [ran EXCEPT !.agent[a].crashes = 0, !.agent[a].cycles = @ + 1]
          = [ran EXCEPT !.agent[a] = second]
    <3> HIDE DEF ran, first
    <3>1. QED
      BY <2>3
  <2>5. second = node
    <3>1. {"started", "crashes", "cycles"} \subseteq DOMAIN colony.agent[a]
      BY <1>1 DEF AgentNodes
    <3>2. QED
      BY <3>1
  <2> HIDE DEF ran, second, node
  <2>6. QED
    BY <2>2, <2>3, <2>4, <2>5 
<1> HIDE DEF node, thought
<1>a. Steady(edited, <<>>) /\ edited.live = colony.live /\ edited.born = colony.born
  BY <1>1, <1>3, EditSteady
<1> HIDE DEF edited
<1>5. Steady(thought, <<>>) /\ thought.live = colony.live /\ thought.born = colony.born
  BY <1>4, <1>a
<1>7. n \in Rooms(thought)
  BY <1>5 DEF Rooms, Either
<1>8. PICK c \in AfterCycle([thought EXCEPT !.room = n], a) : Handled(c)
  BY <1>2
<1>9. Steady(Refill(c), <<>>) /\ colony.live \ {a} \subseteq Refill(c).live
  BY <1>1, <1>5, <1>7, AfterCycleSteady
<1>10. colony' = Refill(c)
  BY <1>8 DEF Handled, Refill
<1>11. QED
  BY <1>1, <1>9, <1>10

(* SPAWN, REPORT and DIE end a run with an event.                          *)
LEMMA EndedKeeps ==
  ASSUME LoopInv, NEW a \in Agents, Turn(a), NEW node \in AgentNodes,
         node.task = colony.agent[a].task, NEW e \in Messages,
         colony' = Push([colony EXCEPT !.agent[a] = node], e),
         e.type = "spawn" =>
           colony.made + Requested(colony.mailbox) + Len(e.batch) <= MaxTasks
  PROVE  LoopInv'
<1> DEFINE c == [colony EXCEPT !.agent[a] = node]
           d == Push(c, e)
<1>1. /\ Steady(colony, <<>>) /\ a \in colony.live
      /\ \A x : Steady(x, <<>>) /\ colony.live \ {a} \subseteq x.live /\ colony' = x
                  => LoopInv'
  BY TurnFacts
<1>2. colony' = d
  OBVIOUS
<1>3. Steady(c, <<>>) /\ c.live = colony.live /\ c.made = colony.made
      /\ c.mailbox = colony.mailbox
  BY <1>1, EditSteady, ZenonT(40)
<1> HIDE DEF c
<1>4. Steady(d, <<>>) /\ d.live = c.live
  BY <1>3, PushSteady
<1> HIDE DEF d
<1>5. QED
  BY <1>1, <1>2, <1>3, <1>4

LEMMA SpawnKeeps ==
  ASSUME LoopInv, NEW a \in Agents, NEW batch \in Batches, Spawn(a, batch) PROVE LoopInv'
<1> DEFINE node == [colony.agent[a] EXCEPT !.started = TRUE, !.crashes = 0, !.awaiting = TRUE]
           e == [type |-> "spawn", from |-> a, batch |-> batch]
<1>1. Steady(colony, <<>>) /\ colony.agent[a] \in AgentNodes /\ Turn(a)
  BY TurnFacts DEF Spawn, RunsAs
<1>2. node \in AgentNodes /\ node.task = colony.agent[a].task
  BY <1>1 DEF AgentNodes
<1>3. colony' = Push([colony EXCEPT !.agent[a] = node], e)
  <2>1. "agent" \in DOMAIN colony /\ a \in DOMAIN colony.agent
    BY <1>1 DEF Steady, Sound, Colonies
  <2>2. [Ran(a, colony) EXCEPT !.agent[a].crashes = 0, !.agent[a].awaiting = TRUE]
          = [colony EXCEPT !.agent[a] = node]
    BY <2>1 DEF Ran
  <2> HIDE DEF node
  <2>3. QED
    BY <2>2 DEF Spawn
<1>4. e \in Messages /\ e.type = "spawn" /\ e.batch = batch
  BY DEF Messages
<1>5. colony.made + Requested(colony.mailbox) + Len(batch) <= MaxTasks
  BY DEF Spawn
<1> HIDE DEF node, e
<1>6. QED
  BY <1>1, <1>2, <1>3, <1>4, <1>5, EndedKeeps

LEMMA ReportKeeps == ASSUME LoopInv, NEW a \in Agents, Report(a) PROVE LoopInv'
<1> DEFINE node == [colony.agent[a] EXCEPT !.started = TRUE, !.crashes = 0]
           e == [type |-> "completion", from |-> a, task |-> colony.agent[a].task]
<1>1. Steady(colony, <<>>) /\ colony.agent[a] \in AgentNodes /\ Turn(a)
      /\ colony.agent[a].task \in Tasks
  BY TurnFacts DEF Report, RunsAs
<1>2. node \in AgentNodes /\ node.task = colony.agent[a].task
  BY <1>1 DEF AgentNodes
<1>3. colony' = Push([colony EXCEPT !.agent[a] = node], e)
  <2>1. a \in DOMAIN colony.agent /\ colony \in Colonies
    BY <1>1 DEF Steady, Sound, Colonies
  <2>2. [Ran(a, colony) EXCEPT !.agent[a].crashes = 0] = [colony EXCEPT !.agent[a] = node]
    BY <1>1, <2>1 DEF Ran, Colonies, AgentNodes
  <2> HIDE DEF node
  <2>3. QED
    BY <2>2 DEF Report
<1>4. e \in Messages /\ e.type # "spawn"
  BY <1>1 DEF Messages
<1> HIDE DEF node, e
<1>5. QED
  BY <1>1, <1>2, <1>3, <1>4, EndedKeeps

LEMMA DieKeeps == ASSUME LoopInv, NEW a \in Agents, Die(a) PROVE LoopInv'
<1> DEFINE node == [colony.agent[a] EXCEPT !.started = TRUE, !.crashes = 0]
<1>1. Steady(colony, <<>>) /\ colony.agent[a] \in AgentNodes /\ Turn(a)
      /\ a \in colony.live
  BY TurnFacts DEF Die, RunsAs
<1>2. node \in AgentNodes /\ node.task = colony.agent[a].task
  BY <1>1 DEF AgentNodes
<1>3. PICK tooLarge \in Either("oversize", {FALSE}, {TRUE}) :
        colony' = Push([Ran(a, colony) EXCEPT !.agent[a].crashes = 0],
                       FailureRequest(colony, a, tooLarge, FALSE))
  BY DEF Die
<1> DEFINE e == FailureRequest(colony, a, tooLarge, FALSE)
<1>4. tooLarge \in BOOLEAN
  BY DEF Either
<1>5. e \in Messages /\ e.type # "spawn"
  BY <1>1, <1>4, FailureIsMessage DEF Steady
<1>6. colony' = Push([colony EXCEPT !.agent[a] = node], e)
  <2>1. a \in DOMAIN colony.agent /\ colony \in Colonies
    BY <1>1 DEF Steady, Sound, Colonies
  <2>2. [Ran(a, colony) EXCEPT !.agent[a].crashes = 0] = [colony EXCEPT !.agent[a] = node]
    BY <1>1, <2>1 DEF Ran, Colonies, AgentNodes
  <2> HIDE DEF node, e
  <2>3. QED
    BY <1>3, <2>2 DEF e
<1> HIDE DEF node, e
<1>7. QED
  BY <1>1, <1>2, <1>5, <1>6, EndedKeeps

LEMMA LoopStep == LoopInv /\ [Next]_vars => LoopInv'
<1> SUFFICES ASSUME LoopInv, [Next]_vars PROVE LoopInv'
  OBVIOUS
<1>1. CASE BeginTick
  BY <1>1, BeginTickKeeps
<1>2. CASE Stop
  BY <1>2 DEF Stop, LoopInv
<1>3. CASE Route
  BY <1>3, DropStaleKeeps, RouteSpawnKeeps, RouteCompletionKeeps, RouteFailureKeeps,
     RouteNotificationKeeps, EndRouteKeeps DEF Route
<1>4. CASE \E a \in Agents : RunAgent(a)
  BY <1>4, ParkKeeps, CrashKeeps, ThinkKeeps, SpawnKeeps, ReportKeeps, DieKeeps
     DEF RunAgent
<1>5. CASE EndTick
  BY <1>5 DEF EndTick, LoopInv
<1>6. CASE Terminated \/ UNCHANGED vars
  BY <1>6 DEF Terminated, vars, LoopInv
<1>7. QED
  BY <1>1, <1>2, <1>3, <1>4, <1>5, <1>6 DEF Next

----------------------------------------------------------------------------
(* Theorems *)

LEMMA LoopAlways == Spec => []LoopInv
<1>1. QED
  BY LoopInit, LoopStep, PTL DEF Spec

(* Registry, graph, mailbox and queues keep their shape, whatever happens  *)
(* and in whatever order: no handler stores an agent, a task or an event   *)
(* that is not one.                                                        *)
THEOREM ColonyKeepsItsShape == Spec => []TypeOK
<1>1. QED
  BY LoopAlways, LoopInvImplies, PTL

(* Every task a handler adds to the graph it also starts or closes, so     *)
(* _process_unblocked_tasks and the last branch of handle_deadlock, which  *)
(* would start it with no parent, never have a task to start.              *)
THEOREM EveryTaskHasAnAgent == Spec => []NothingToDispatch
<1>1. QED
  BY LoopAlways, LoopInvImplies, PTL

=============================================================================
