---------------------------- MODULE Orchestrator ----------------------------
(***************************************************************************)
(* orchestrator.py: the tick loop and its event handlers, composed with    *)
(* the agents (agent_node.py) that feed it.  One thread runs everything;   *)
(* what is asynchronous is the mailbox: an event pushed in one tick is     *)
(* handled in the next, against whatever the colony has become meanwhile.  *)
(* One action is one event handled, or one agent run.                      *)
(***************************************************************************)
EXTENDS Colony

CONSTANTS
  Batches,       \* the SPAWN batches a decomposer may ask for
  Outcomes       \* the rarer outcomes this model explores, from AllOutcomes

AllOutcomes ==
  {"crash",      \* run() raises
   "think",      \* a THINK cycle, or one more for a malformed action
   "die",        \* DIE
   "oversize",   \* DIE with "TASK TOO LARGE:", or a SPAWN by a non-decomposer
   "review",     \* the judge warns or rejects
   "ceiling",    \* a task is over its energy ceiling
   "cache",      \* the success cache answers for a task being respawned
   "screen",     \* a SPAWN batch is rejected as derived from the prompt
   "drop",       \* part of a SPAWN batch is malformed, off topic, unaffordable
   "energy",     \* the budget pays for fewer than MaxAgents agents
   "watchdog"}   \* an agent is silent beyond its timeout

ASSUME OutcomesAreKnown == Outcomes \subseteq AllOutcomes
ASSUME BatchesAreBatches ==
  Batches \subseteq Seq([role : Roles, listed : BOOLEAN, after : SUBSET Nat])

VARIABLES
  colony,        \* registry, task graph, mailbox and queues
  phase,         \* where the tick loop is
  inbox,         \* the events drained this tick, not routed yet
  turn           \* the live agents of this tick that have not run yet

vars == <<colony, phase, inbox, turn>>

May(outcome) == outcome \in Outcomes
Either(outcome, common, rare) ==
  IF May(outcome) THEN common \cup rare ELSE common

(* How many more agents the budget turns out to pay for. *)
Rooms(c) == Either("energy", {MaxAgents - c.born}, 0 .. MaxAgents - c.born)

(* What cache, ceiling and admission may say to a respawn. *)
Fates(t) ==
  {"respawn"} \cup (IF May("ceiling") THEN {"stop"} ELSE {})
              \cup (IF May("cache") /\ t # Root THEN {"cached"} ELSE {})

OverCeiling == Either("ceiling", {FALSE}, {TRUE})

RootClosed(c) == ~IsOpen(c, Root)

----------------------------------------------------------------------------
(* SPAWN.  An entry of a batch is a record: the role asked for, whether it *)
(* lists its dependencies, and the positions it lists.                     *)

(* _enforce_child_role: an unregistered spawner's request stands as it is. *)
EnforceChildRole(c, requested, p) ==
  IF p \in c.live /\ c.agent[p].role = "decomposer" /\ requested # "verifier"
    THEN IF c.agent[p].generation = 0 THEN "decomposer" ELSE "executor"
    ELSE requested

(* An entry without dependencies depends on "the previous subtask": the    *)
(* label of the previous index of the batch as it stands after drops, in a *)
(* label table that numbers the batch as it was sent.                      *)
ResolvedPositions(batch, kept, i) ==
  (IF batch[i].listed THEN batch[i].after
   ELSE {Cardinality({j \in kept : j < i})} \ {0}) \cap kept

(* The children a batch becomes, in order, with the ids they were given.   *)
Prepared(c, batch, kept, p) ==
  LET id == [i \in kept |-> c.made + Cardinality({j \in kept : j <= i})]
      position(n) == CHOOSE i \in kept : Cardinality({j \in kept : j <= i}) = n
  IN [n \in 1 .. Cardinality(kept) |->
        LET i == position(n)
        IN [task |-> id[i],
            role |-> EnforceChildRole(c, batch[i].role, p),
            dependencies |-> {id[j] : j \in ResolvedPositions(batch, kept, i)}]]

SubtaskCap(c, p) ==
  IF p \notin c.live THEN MaxTasks
  ELSE IF c.agent[p].generation = 0 THEN MaxSubtasksRoot ELSE MaxSubtasksNonRoot

(* The last loop of _handle_spawn_request: start up to the cap, queue the  *)
(* rest.  An unregistered spawner has no cap.                              *)
StartBatch(c, kids, p) ==
  LET cap == SubtaskCap(c, p)
      started[n \in 0 .. Len(kids)] ==
        IF n = 0 THEN [c EXCEPT !.made = @ + Len(kids)]
        ELSE IF n > cap
          THEN [started[n - 1] EXCEPT !.overflow[p] = Append(@, kids[n])]
          ELSE SpawnChildTask(started[n - 1], kids[n], p)
  IN started[Len(kids)]

(* _release_spawner_if_nothing_started: a SPAWN that started nothing must  *)
(* not leave its decomposer waiting for children that will never report.   *)
ReleaseSpawner(c, p, outOfEnergy) ==
  IF p \notin c.live THEN c
  ELSE IF ~c.agent[p].awaiting \/ OpenChildTaskIds(c, p) # {} THEN c
  ELSE IF \/ CyclesCapped(c, p)
          \/ outOfEnergy /\ ~HasCompletedDirectChild(c, c.agent[p].task)
    THEN Push(c, FailureRequest(c, p, FALSE, FALSE))
    ELSE [c EXCEPT !.agent[p].awaiting = FALSE,
                   !.agent[p].spawnClosed = @ \/ outOfEnergy,
                   !.agent[p].cycles = @ + 1]

(* handle_spawn.  "kept" is what is left of the batch once malformed, off  *)
(* topic and unaffordable subtasks are dropped; "ruling" says whether the  *)
(* batch is screened out, refused for want of energy, or goes ahead.       *)
HandleSpawn(c, e, kept, ruling) ==
  LET p == e.from
      started == StartBatch(c, Prepared(c, e.batch, kept, p), p)
  IN IF p \in c.live /\ c.agent[p].role # "decomposer"
       THEN Push(c, FailureRequest(c, p, TRUE, FALSE))
     ELSE IF ruling = "screened" THEN Push(c, FailureRequest(c, p, FALSE, TRUE))
     ELSE IF ruling = "refused" THEN ReleaseSpawner(c, p, TRUE)
     ELSE ReleaseSpawner(started, p, started.unstarted # c.unstarted)

(* Only a registered spawner's batch is screened, and admitted. *)
Rulings(c, p) ==
  {"proceed"} \cup
  (IF p \notin c.live THEN {} ELSE
     (IF May("screen") THEN {"screened"} ELSE {}) \cup
     (IF May("drop") THEN {"refused"} ELSE {}))

Kept(batch) == Either("drop", {DOMAIN batch}, SUBSET DOMAIN batch)

----------------------------------------------------------------------------
(* REPORT, DIE, and the notification of a parent *)

(* handle_completion, once a registered agent's report has been accepted,  *)
(* or an unregistered one's has been taken without a judge.                *)
PromoteReport(c, e) ==
  LET done == CompleteTask(c, e.task)
  IN IF e.task = Root \/ e.from \notin c.live THEN done
     ELSE FreeSlotAndNotify(done, c.agent[e.from].parent, e.task)

RejectReport(c, e, fate) ==
  LET a == e.from
  IN KillAndRespawn(c, a, e.task, c.agent[a].role, c.agent[a].parent, TRUE, fate)

(* The warn branch: one more cycle, then a respawn if the agent repeated   *)
(* itself or has no cycle left, else the ceiling.                          *)
SendReportBack(c, e, repeated, over, fate) ==
  LET a == e.from
      warned == [c EXCEPT !.agent[a].cycles = @ + 1, !.agent[a].warned = TRUE]
  IN IF repeated \/ CyclesCapped(warned, a) THEN RejectReport(warned, e, fate)
     ELSE IF over /\ CeilingApplies(warned, e.task) THEN StopAtCeiling(warned, a)
     ELSE warned

(* The verdicts handle_completion can come to.  A decomposer none of whose *)
(* direct children completed is refused before the judge is asked, and an  *)
(* agent that is not registered any more is not judged at all.             *)
Verdicts(c, e) ==
  IF e.from \notin c.live THEN {"promote"}
  ELSE IF c.agent[e.from].role = "decomposer"
            /\ ~HasCompletedDirectChild(c, e.task) THEN {"execute"}
  ELSE Either("review", {"promote"}, {"warn", "execute"})

HandleCompletion(c, e, verdict, repeated, over, fate) ==
  CASE verdict = "promote" -> PromoteReport(c, e)
    [] verdict = "warn"    -> SendReportBack(c, e, repeated, over, fate)
    [] verdict = "execute" -> RejectReport(c, e, fate)

(* Mutant of HandleFailure: a refused conversion tells nobody. *)
HandleFailureSilently(c, e, converts, fate) ==
  LET conversion == e.role = "executor" /\ e.tooLarge
  IN IF conversion /\ ~converts
       THEN AbandonTask(RetireAgent(c, e.from), e.task, None)
       ELSE KillAndRespawn(c, e.from, e.task,
                           IF conversion THEN "decomposer" ELSE e.role,
                           e.parent, TRUE, fate)

(* handle_failure.  An executor whose task is too large is replaced by a   *)
(* decomposer, if the colony can afford one; a rejected derived batch      *)
(* costs no attempt the first times.                                       *)
HandleFailure(c, e, converts, fate) ==
  LET conversion == e.role = "executor" /\ e.tooLarge
      uncounted == e.derived /\ c.rejections[e.task] < MaxDerivedRejections
      counting == IF uncounted
                    THEN [c EXCEPT !.rejections[e.task] = @ + 1]
                    ELSE c
  IN IF conversion /\ ~converts
       THEN AbandonTask(RetireAgent(c, e.from), e.task, e.parent)
       ELSE KillAndRespawn(counting, e.from, e.task,
                           IF conversion THEN "decomposer" ELSE e.role,
                           e.parent, ~uncounted, fate)

(* handle_parent_notification: the injected result may push the parent's   *)
(* task over its ceiling; it wakes the parent once no child is open.       *)
HandleNotification(c, e, over) ==
  LET p == e.to
  IN IF p \notin c.live THEN c
     ELSE IF over /\ CeilingApplies(c, c.agent[p].task) THEN StopAtCeiling(c, p)
     ELSE [c EXCEPT !.agent[p].started = TRUE,
                    !.agent[p].awaiting = @ /\ OpenChildTaskIds(c, p) # {}]

----------------------------------------------------------------------------
(* The tick loop *)

(* initialize_colony: the root is given its first agent, or closed at once *)
(* when the budget is below the cheapest decomposition.                    *)
Init ==
  LET rooted == TG!AddTask(TG!EmptyGraph, Root, {})
      empty == [EmptyColony EXCEPT !.graph = rooted, !.made = 1]
  IN /\ \/ colony = SpawnAgent(empty, "decomposer", Root, None, TRUE)
        \/ May("energy") /\ colony = AbandonTask(empty, Root, None)
     /\ phase = "tick"
     /\ inbox = <<>>
     /\ turn = {}

(* What _process_unblocked_tasks and handle_deadlock's last branch do with *)
(* a task nobody was assigned to.                                          *)
StartUnassigned(c, S) ==
  LET unassigned == {t \in S : c.graph.agent[t] = None}
      start(b, t) ==
        IF b.room > 0 THEN SpawnAgent(b, b.requiredRole[t], t, None, FALSE)
                      ELSE [b EXCEPT !.broke = TRUE]
      started[t \in 0 .. MaxTasks] ==
        IF t = 0 THEN c
        ELSE IF t \in unassigned THEN start(started[t - 1], t) ELSE started[t - 1]
  IN started[MaxTasks]

(* Mutant of Tickable: the watchdog also looks at agents that await. *)
TickableAwaiting(c, a) == /\ a \in c.live
                          /\ c.graph.agent[c.agent[a].task] = a
                          /\ c.graph.status[c.agent[a].task] = "running"

(* The agents handle_deadlock may find silent for too long.  It looks only *)
(* when nothing is queued or ready, and never at an agent that awaits.     *)
Tickable(c, a) == /\ a \in c.live
                  /\ c.graph.agent[c.agent[a].task] = a
                  /\ c.graph.status[c.agent[a].task] = "running"
                  /\ ~c.agent[a].awaiting

WatchdogLooks(c) == /\ c.mailbox = <<>>
                    /\ TG!ReadyTasks(c.graph) = {}
                    /\ c.graph.status[Root] # "complete"
WatchdogSees(c) == {a \in Agents : WatchdogLooks(c) /\ Tickable(c, a)}

(* Stuck agents are failed, in task order; if there is no agent to run at  *)
(* all, pending tasks without an agent are forced to start.                *)
HandleDeadlock(c, stuck) ==
  LET failed == {t \in Tasks : c.graph.agent[t] \in stuck}
      report(b, t) == Push(b, FailureRequest(c, c.graph.agent[t], FALSE, FALSE))
      reported[t \in 0 .. MaxTasks] ==
        IF t = 0 THEN c
        ELSE IF t \in failed THEN report(reported[t - 1], t) ELSE reported[t - 1]
  IN IF WatchdogLooks(c) /\ WatchdogSees(c) = {}
       THEN StartUnassigned(c, {t \in Tasks : c.graph.status[t] = "pending"})
       ELSE reported[MaxTasks]

(* tick, up to the drain. *)
BeginTick ==
  /\ phase = "tick"
  /\ ~colony.broke
  /\ \E stuck \in IF May("watchdog") THEN SUBSET WatchdogSees(colony) ELSE {{}} :
       LET checked == HandleDeadlock(colony, stuck)
       IN /\ inbox' = checked.mailbox
          /\ colony' = [checked EXCEPT !.mailbox = <<>>]
  /\ phase' = "route"
  /\ UNCHANGED turn

(* tick returns FALSE on energy death; run stops at MAX_TICKS. *)
Stop ==
  /\ phase = "tick"
  /\ phase' = "done"
  /\ UNCHANGED <<colony, inbox, turn>>

(* Mutants of Dropped: no stale event is dropped; no stale failure is. *)
DropsNothing(e) == FALSE
DropsReports(e) == e.type = "completion" /\ e.task \in colony.abandoned

(* _route_events drops what an abandoned task's agents still say of it, and *)
(* only that.                                                               *)
Dropped(e) == /\ e.type \in {"completion", "failure"}
              /\ e.task \in colony.abandoned

Routed(type) ==
  /\ phase = "route"
  /\ inbox # <<>>
  /\ Head(inbox).type = type
  /\ inbox' = Tail(inbox)
  /\ UNCHANGED <<phase, turn>>

(* A handler runs with as much room as the budget happens to leave it. *)
Handled(result) == colony' = [result EXCEPT !.room = MaxAgents - result.born]
WithRoom(n) == [colony EXCEPT !.room = n]

DropStale ==
  /\ \E type \in {"completion", "failure"} : Routed(type)
  /\ Dropped(Head(inbox))
  /\ UNCHANGED colony

RouteSpawn ==
  /\ Routed("spawn")
  /\ LET e == Head(inbox)
     IN \E n \in Rooms(colony), ruling \in Rulings(colony, e.from),
           kept \in Kept(e.batch) :
          Handled(HandleSpawn(WithRoom(n), e, kept, ruling))

RouteCompletion ==
  /\ Routed("completion")
  /\ ~Dropped(Head(inbox))
  /\ LET e == Head(inbox)
     IN \E n \in Rooms(colony), verdict \in Verdicts(colony, e),
           repeated \in IF e.from \in colony.live
                          THEN {FALSE, colony.agent[e.from].warned} ELSE {FALSE},
           over \in OverCeiling, fate \in Fates(e.task) :
          Handled(HandleCompletion(WithRoom(n), e, verdict, repeated, over, fate))

RouteFailure ==
  /\ Routed("failure")
  /\ ~Dropped(Head(inbox))
  /\ LET e == Head(inbox)
     IN \E n \in Rooms(colony), converts \in Either("ceiling", {TRUE}, {FALSE}),
           fate \in Fates(e.task) :
          Handled(HandleFailure(WithRoom(n), e, converts, fate))

RouteNotification ==
  /\ Routed("notification")
  /\ \E n \in Rooms(colony), over \in OverCeiling :
       Handled(HandleNotification(WithRoom(n), Head(inbox), over))

(* _process_unblocked_tasks, then the snapshot _run_live_agents iterates.  *)
EndRoute ==
  /\ phase = "route"
  /\ inbox = <<>>
  /\ colony' = StartUnassigned(colony, TG!ReadyTasks(colony.graph))
  /\ turn' = colony'.live
  /\ phase' = "run"
  /\ UNCHANGED inbox

(* _run_live_agents, in the order the agents were created.  Passing over   *)
(* an agent whose task is not running, or that awaits, changes nothing.    *)
Ready(a) == /\ colony.graph.status[colony.agent[a].task] = "running"
            /\ ~colony.agent[a].awaiting
ToRun == {a \in turn : Ready(a)}

Turn(a) ==
  /\ phase = "run"
  /\ a \in ToRun
  /\ \A b \in ToRun : a <= b
  /\ turn' = {b \in turn : b > a}
  /\ UNCHANGED <<phase, inbox>>

MustWait(a) == /\ colony.agent[a].role = "decomposer"
               /\ OpenChildTaskIds(colony, a) # {}

Park(a) ==
  /\ Turn(a)
  /\ MustWait(a)
  /\ colony' = [colony EXCEPT !.agent[a].awaiting = TRUE]

RunsAs(a) == Turn(a) /\ ~MustWait(a)

Ran(a, c) == [c EXCEPT !.agent[a].started = TRUE]

(* The actions of agent a's menu: all of them, or, for its final decision, *)
(* final_actions.                                                          *)
Menu(a) ==
  LET node == colony.agent[a]
      answered == \E t \in DirectChildren(colony, node.task) :
                    colony.graph.status[t] # "failed"
  IN IF ~FinalOnly(colony, a) THEN {"THINK", "SPAWN", "REPORT", "DIE"}
     ELSE IF node.role = "decomposer" /\ ~node.spawnClosed /\ ~node.hasSpawned
       THEN {"SPAWN", "DIE"}
     ELSE IF node.role = "decomposer" /\ node.hasSpawned /\ ~answered THEN {"DIE"}
     ELSE {"REPORT", "DIE"}

(* The ceiling check that follows a cycle which ended nothing. *)
AfterCycle(c, a) ==
  LET t == c.agent[a].task
  IN {c} \cup (IF May("ceiling") /\ CeilingApplies(c, t)
                 THEN {StopAtCeiling(c, a)} ELSE {})

(* run() raises.  The task is failed after MaxConsecutiveCrashes in a row, *)
(* and the ceiling is still enforced after that failure was pushed.        *)
Crash(a) ==
  /\ May("crash")
  /\ RunsAs(a)
  /\ LET crashed == [colony EXCEPT !.agent[a].crashes = @ + 1]
         given == IF crashed.agent[a].crashes >= MaxConsecutiveCrashes
                    THEN Push(crashed, FailureRequest(crashed, a, FALSE, FALSE))
                    ELSE crashed
     IN \E n \in Rooms(colony) : \E c \in AfterCycle([given EXCEPT !.room = n], a) :
          Handled(c)

Think(a) ==
  /\ May("think")
  /\ RunsAs(a)
  /\ "THINK" \in Menu(a)
  /\ LET thought == [Ran(a, colony) EXCEPT !.agent[a].crashes = 0,
                                            !.agent[a].cycles = @ + 1]
     IN \E n \in Rooms(colony) : \E c \in AfterCycle([thought EXCEPT !.room = n], a) :
          Handled(c)

(* request_spawn pushes the batch and parks the agent, whatever its role.  *)
(* Bound: a batch whose task ids MaxTasks cannot hold is not asked for.    *)
Requested(events) ==
  LET spawns == {i \in DOMAIN events : events[i].type = "spawn"}
  IN Cardinality(UNION {{i} \X DOMAIN events[i].batch : i \in spawns})

Spawn(a, batch) ==
  /\ RunsAs(a)
  /\ "SPAWN" \in Menu(a)
  /\ colony.agent[a].role = "decomposer" \/ May("oversize")
  /\ colony.made + Requested(colony.mailbox) + Len(batch) <= MaxTasks
  /\ colony' = Push([Ran(a, colony) EXCEPT !.agent[a].crashes = 0,
                                         !.agent[a].awaiting = TRUE],
                    [type |-> "spawn", from |-> a, batch |-> batch])

Report(a) ==
  /\ RunsAs(a)
  /\ "REPORT" \in Menu(a)
  /\ colony' = Push([Ran(a, colony) EXCEPT !.agent[a].crashes = 0],
                    [type |-> "completion", from |-> a,
                     task |-> colony.agent[a].task])

Die(a) ==
  /\ RunsAs(a)
  /\ May("die") \/ Menu(a) \subseteq {"SPAWN", "DIE"}
  /\ \E tooLarge \in Either("oversize", {FALSE}, {TRUE}) :
       colony' = Push([Ran(a, colony) EXCEPT !.agent[a].crashes = 0],
                      FailureRequest(colony, a, tooLarge, FALSE))

RunAgent(a) ==
  \/ Park(a)
  \/ Crash(a)
  \/ Think(a)
  \/ \E batch \in Batches : Spawn(a, batch)
  \/ Report(a)
  \/ Die(a)

(* The end of tick: a closed root ends the run. *)
EndTick ==
  /\ phase = "run"
  /\ ToRun = {}
  /\ phase' = IF RootClosed(colony) THEN "done" ELSE "tick"
  /\ turn' = {}
  /\ UNCHANGED <<colony, inbox>>

Terminated == phase = "done" /\ UNCHANGED vars

Route == \/ DropStale
         \/ RouteSpawn
         \/ RouteCompletion
         \/ RouteFailure
         \/ RouteNotification
         \/ EndRoute

Next == \/ BeginTick
        \/ Stop
        \/ Route
        \/ \E a \in Agents : RunAgent(a)
        \/ EndTick
        \/ Terminated

(* The loop of run() is one thread that always takes its next step. *)
Spec == Init /\ [][Next]_vars /\ WF_vars(Next)

----------------------------------------------------------------------------
(* Properties *)

Messages ==
  [type : {"spawn"}, from : Agents, batch : Batches] \cup
  [type : {"completion"}, from : Agents, task : Tasks] \cup
  [type : {"failure"}, from : Agents, task : Tasks, role : Roles,
   parent : Agents \cup {None}, tooLarge : BOOLEAN, derived : BOOLEAN] \cup
  [type : {"notification"}, to : Agents, task : Tasks]

AgentNodes ==
  [role : Roles, parent : Agents \cup {None}, task : Tasks \cup {None},
   generation : Nat, hasSpawned : BOOLEAN, awaiting : BOOLEAN, crashes : Nat,
   cycles : Nat, spawnClosed : BOOLEAN, warned : BOOLEAN, started : BOOLEAN,
   informed : BOOLEAN]

QueuedChildren == [task : Tasks, role : Roles, dependencies : SUBSET Tasks]

(* Every structure the tick loop shares keeps its shape: registry, graph,  *)
(* mailbox and overflow queues (ColonyState, TaskGraph, Messenger,         *)
(* Orchestrator.__init__).                                                 *)
TypeOK ==
  /\ colony.graph \in TG!Graphs
  /\ colony.parentTask \in [Tasks -> Tasks \cup {None}]
  /\ colony.requiredRole \in [Tasks -> Roles]
  /\ colony.agent \in [Agents -> AgentNodes]
  /\ colony.live \subseteq 1 .. colony.born
  /\ colony.born \in 0 .. MaxAgents
  /\ colony.room = MaxAgents - colony.born
  /\ colony.broke \in BOOLEAN
  /\ ToSet(colony.mailbox) \cup ToSet(inbox) \subseteq Messages
  /\ \A a \in Agents : ToSet(colony.overflow[a]) \subseteq QueuedChildren
  /\ colony.made \in 1 .. MaxTasks
  /\ colony.abandoned \cup colony.unstarted \subseteq Tasks
  /\ \A count \in {colony.respawns, colony.rejections, colony.attempts} :
       count \in [Tasks -> Nat]
  /\ phase \in {"tick", "route", "run", "done"}
  /\ turn \subseteq Agents

OpenTasksOf(a) == {t \in DirectChildren(colony, colony.agent[a].task) :
                     IsOpen(colony, t)}

(* Between ticks, while the root is open and the energy lasts, there is an *)
(* event to route or an agent to run: the colony never sits idle until     *)
(* MAX_TICKS.  This is what _release_spawner_if_nothing_started, the drain *)
(* of overflow queues and every notification of a parent are there for.    *)
NoSilentStall ==
  phase = "tick" /\ ~colony.broke /\ IsOpen(colony, Root) =>
    \/ colony.mailbox # <<>>
    \/ \E a \in colony.live : Tickable(colony, a)

(* A decomposer parked on awaiting_children, which the watchdog never      *)
(* looks at, is owed a wake-up: an event to it or from it is on its way,   *)
(* or an open child's agent is registered under it and will report to it.  *)
WakeUpOnItsWay(a) ==
  \/ \E q \in {colony.mailbox, inbox} : \E i \in DOMAIN q :
       a = IF q[i].type = "notification" THEN q[i].to ELSE q[i].from
  \/ \E x \in Children(colony, a) : IsOpen(colony, colony.agent[x].task)

NoLostWakeup ==
  \A a \in colony.live :
    /\ colony.agent[a].awaiting
    /\ colony.graph.status[colony.agent[a].task] = "running"
    => WakeUpOnItsWay(a)

(* No pending task of the graph is without an agent: every task            *)
(* add_task admits is started or closed by the handler that added it, so   *)
(* the dispatch of _process_unblocked_tasks, which would start it with no  *)
(* parent to report to, never finds one.                                   *)
NothingToDispatch ==
  \A t \in Tasks : colony.graph.status[t] = "pending"
                     => colony.graph.agent[t] # None

(* A batch of the task's agent was found to be derived from the prompt's   *)
(* examples: its failure is on its way, or was handled.  It is pushed in   *)
(* the agent's name while the agent's own events may be under way too.     *)
Screened(t) ==
  \/ colony.rejections[t] > 0
  \/ \E q \in {colony.mailbox, inbox} : \E i \in DOMAIN q :
       q[i].type = "failure" /\ q[i].derived /\ q[i].task = t

(* An open task none of whose batches was screened out is never worked on  *)
(* by two registered agents: a respawn retires the one it replaces, and an *)
(* event of the one replaced cannot have the task respawned once more.     *)
OneAgentPerTask ==
  \A a, b \in colony.live :
    /\ a # b /\ colony.agent[a].task = colony.agent[b].task
    /\ IsOpen(colony, colony.agent[a].task)
    => Screened(colony.agent[a].task)

(* A report that gets past the stale-event filter of _route_events is from *)
(* the registered agent its running task is assigned to, so that it is     *)
(* judged before it is promoted: for each task none of whose batches was   *)
(* screened out.                                                           *)
ReportsAreOwners ==
  phase = "route" /\ inbox # <<>> =>
    LET e == Head(inbox)
    IN e.type = "completion" /\ ~Dropped(e) /\ ~Screened(e.task) =>
         /\ e.from \in colony.live
         /\ colony.graph.agent[e.task] = e.from
         /\ colony.graph.status[e.task] = "running"

(* A task is complete only when its subtree is closed: no decomposer's     *)
(* answer is accepted over the head of a child still working, whether its  *)
(* own or one it adopted when a decomposer below it was retired.           *)
CompleteSubtree ==
  \A t \in Tasks : colony.graph.status[t] = "complete" =>
    /\ \A u \in DirectChildren(colony, t) : ~IsOpen(colony, u)
    /\ \A a \in colony.live : colony.agent[a].task = t =>
         \A x \in Children(colony, a) : ~IsOpen(colony, colony.agent[x].task)

(* An agent that has neither spawned nor parked has no open child, a       *)
(* respawned one included: it never spawns its task's subtasks again while *)
(* its predecessor's are still being worked on.                            *)
SuccessorClean ==
  \A a \in colony.live :
    ~colony.agent[a].hasSpawned /\ ~colony.agent[a].awaiting
      => OpenTasksOf(a) = {}

(* The first agent of a task has, by the time it first runs, the results   *)
(* of everything the task depends on, in its context: those of the tasks   *)
(* closed before it was spawned and those of the tasks closed since.       *)
Informed ==
  \A a \in colony.live :
    colony.agent[a].started /\ colony.attempts[colony.agent[a].task] = 1
      => colony.agent[a].informed

(* The orchestrator's handlers keep every promise the task space makes.    *)
Lifecycle == INSTANCE TaskLifecycle WITH
               status <- colony.graph.status,
               dependencies <- colony.graph.dependencies

RefinesLifecycle == Lifecycle!LifecycleSpec

(* The run ends by itself, without MAX_TICKS: attempts, cycles, rejections *)
(* and batches are finite and no agent is left waiting for good.           *)
Settles == <>(phase = "done")

----------------------------------------------------------------------------
(* Claims of the repository's comments the code does not keep *)

(* A respawn removes the agent it replaces, so that it is not the case that *)
(* "a duplicate agent got spawned onto the same task alongside it".         *)
NeverTwoAgents ==
  \A a, b \in colony.live :
    a # b /\ colony.agent[a].task = colony.agent[b].task
      => ~IsOpen(colony, colony.agent[a].task)

(* The stale-event filter exists because handle_completion, for a sender   *)
(* that is gone, would "skip the judge, and promote the result": no report *)
(* that gets past it is from such a sender.                                *)
NoReportUnjudged ==
  phase = "route" /\ inbox # <<>> =>
    LET e == Head(inbox)
    IN e.type = "completion" /\ ~Dropped(e) => e.from \in colony.live

(* handle_parent_notification resumes a parent "only once EVERY child is   *)
(* done", so that it never decides "with half its children's results": an  *)
(* agent about to run has no child's result still in the mailbox.          *)
ResumedWithEveryResult ==
  phase = "run" =>
    \A a \in ToRun : \A i \in DOMAIN colony.mailbox :
      colony.mailbox[i].type = "notification" => colony.mailbox[i].to # a

(* The filter of _route_events is there so that an event of an agent whose *)
(* task was settled meanwhile cannot re-open that task.                    *)
ClosedForGood ==
  [][\A t \in TG!Closed(colony.graph) :
       colony'.graph.status[t] = colony.graph.status[t]]_vars

(* unregister_agent reparents an agent's children so that no agent is left *)
(* pointing at a parent that is not registered.                            *)
NoOrphan ==
  \A a \in colony.live : IsOpen(colony, Root) =>
    colony.agent[a].parent \in colony.live \cup {None}
=============================================================================
