----------------------------- MODULE AgentLife ------------------------------
(***************************************************************************)
(* One task from its first agent to its end: the agents that take turns on *)
(* it (AgentCycle), the review of what they report (Judge), the respawns,  *)
(* and the cache that may answer instead (TaskMemory).  Its siblings and   *)
(* parent are in Orchestrator; what its subtasks come to is an input here. *)
(***************************************************************************)
EXTENDS AgentCycle, Judge, TaskMemory

CONSTANTS
  MaxTaskAttempts,        \* respawns of a task
  MaxDerivedRejections,   \* respawns that do not count as attempts
  MaxConsecutiveCrashes,
  Decisions,              \* what decide() may read in a generation
  Reports,                \* what a REPORT may carry
  Calls,                  \* the tool calls an agent may make
  Completions,            \* what the judge's model may write
  Settings                \* the tasks there are

ASSUME CompletionsAreLines == Completions \subseteq Seq(Seq(STRING))

ASSUME LimitsAreCounts ==
  /\ MaxTaskAttempts \in Nat /\ MaxDerivedRejections \in Nat
  /\ MaxConsecutiveCrashes \in Nat \ {0}

(* What the cache may hold: what this task and the others came to. *)
Donors == [task : {"self", "other"}, outcome : {"accepted", "rejected"},
           near : {"far", "near", "same"}]

ASSUME SettingsAreTasks ==
  Settings \subseteq [root : BOOLEAN, software : BOOLEAN, tools : BOOLEAN,
                     donors : SUBSET Donors]

VARIABLES
  setting,   \* is it the root; does the project ask for software; does run()
             \* get the tools; what other tasks left in the cache
  life       \* everything that changes

vars == <<setting, life>>

root == setting.root
software == setting.software
toolsOn == setting.tools

(* An event on its way to the orchestrator. *)
Event(kind, what, role) == [kind |-> kind, what |-> what, role |-> role]
NoEvent == Event("none", "none", "none")

Gone == [role |-> "gone"]
NoPartial == [report |-> "none", role |-> "none", grounded |-> TRUE]
NoResult == [kind |-> "none", of |-> NoPartial, entry |-> Entry("none", "none", "far"),
             critique |-> <<>>]

(* The life of a task.  over: its agents have spent its energy ceiling.    *)
Init ==
  /\ setting \in Settings
  /\ \E role \in {"executor", "decomposer"} :
       /\ (root => role = "decomposer")
       /\ life = [status |-> "running", agent |-> NewAgent(role, "none"), event |-> NoEvent,
                  kids |-> [open |-> FALSE, completed |-> FALSE],
                  attempts |-> 0, rejections |-> 0, over |-> FALSE,
                  partial |-> NoPartial, result |-> NoResult, cache |-> setting.donors]

Alive(l) == l.agent # Gone

----------------------------------------------------------------------------
(* The end of an agent *)

(* _retire_agent. *)
Retired(l) == [l EXCEPT !.agent = Gone, !.event = NoEvent]

(* _abandon_task: with the best text the task has. *)
Abandoned(l) ==
  [l EXCEPT !.status = "abandoned",
            !.result = IF l.partial # NoPartial
                         THEN [NoResult EXCEPT !.kind = "partial", !.of = l.partial]
                       ELSE IF l.result.kind = "none"
                         THEN [l.result EXCEPT !.kind = "empty"]
                       ELSE l.result]

(* Mutant of EnforceCeiling: only looked at when subtasks end. *)
EnforceCeilingOfWaiting(l) ==
  IF l.over /\ l.status = "running" /\ l.agent # Gone /\ l.agent.awaiting
    THEN [Abandoned(Retired(l)) EXCEPT !.event = l.event] ELSE l

(* Stopped by the energy ceiling between two cycles: only a running task.  *)
EnforceCeiling(l) ==
  IF l.over /\ l.status = "running"
    THEN [Abandoned(Retired(l)) EXCEPT !.event = l.event] ELSE l

Served(l, entry) ==
  [l EXCEPT !.status = "completed",
            !.result = [NoResult EXCEPT !.kind = "served", !.entry = entry]]

(* What extract_agent_ghost hands the next agent. *)
GhostContext(l) == IF Alive(l) THEN l.agent.fail ELSE "none"

(* Mutant of KillAndRespawn: the root is looked up like any other task. *)
KillAndRespawnServingRoot(l, role, counted, room) ==
  LET hits == GetSuccessCache(l.cache, "self")
  IN IF hits # {} THEN {Served(Retired(l), hit) : hit \in hits}
     ELSE IF (counted /\ l.attempts >= MaxTaskAttempts) \/ l.over THEN {Abandoned(Retired(l))}
     ELSE {[Retired(l) EXCEPT !.agent = NewAgent(role, GhostContext(l)),
                              !.attempts = IF counted THEN @ + 1 ELSE @]}

(* Mutant of KillAndRespawn: the reason is read once the agent is gone. *)
KillAndRespawnForgetful(l, role, counted, room) ==
  IF (counted /\ l.attempts >= MaxTaskAttempts) \/ l.over THEN {Abandoned(Retired(l))}
  ELSE {[Retired(l) EXCEPT !.agent = NewAgent(role, GhostContext(Retired(l))),
                           !.attempts = IF counted THEN @ + 1 ELSE @]}

(* Mutant of KillAndRespawn: the cap counts from one more than it says. *)
KillAndRespawnOnceMore(l, role, counted, room) ==
  IF (counted /\ l.attempts > MaxTaskAttempts) \/ l.over THEN {Abandoned(Retired(l))}
  ELSE {[Retired(l) EXCEPT !.agent = NewAgent(role, GhostContext(l)),
                           !.attempts = IF counted THEN @ + 1 ELSE @]}

(* _kill_and_respawn: the agent is retired, its failure is recorded, and   *)
(* then, in this order, the cache, the attempt cap, the ceiling, another   *)
(* agent if the budget has room for one.  The root is never answered from  *)
(* the cache.                                                              *)
KillAndRespawn(l, role, counted, room) ==
  LET failure == IF counted THEN {Entry("self", "rejected", "same")} ELSE {}
      dead == [Retired(l) EXCEPT !.cache = @ \cup failure]
      hits == IF root THEN {} ELSE GetSuccessCache(dead.cache, "self")
      retried == [dead EXCEPT !.attempts = IF counted THEN @ + 1 ELSE @]
  IN IF hits # {} THEN {Served(dead, hit) : hit \in hits}
     ELSE IF counted /\ l.attempts >= MaxTaskAttempts THEN {Abandoned(dead)}
     ELSE IF l.over THEN {Abandoned(dead)}
     ELSE IF room THEN {[retried EXCEPT !.agent = NewAgent(role, GhostContext(l))]}
     ELSE {Abandoned(retried)}

----------------------------------------------------------------------------
(* Review *)

(* What is wrong with a report as the agent wrote it.  "listing" is a list *)
(* of files under an answer: the trim keeps the answer only.               *)
SoftwareShaped == {"code", "listing"}
Trimmed(report) == IF report = "listing" THEN "long" ELSE report

(* The rejections handle_completion makes before anything is recorded or   *)
(* judged: the empty-generation placeholder, the prompt's own example,     *)
(* software nobody asked for, a decomposer with no finished child.         *)
StructuralReject(l, report) ==
  \/ report \in {"placeholder", "echo"}
  \/ report \in SoftwareShaped /\ ~software
  \/ l.agent.role = "decomposer" /\ ~l.kids.completed

(* Short answers and code say nothing by their similarity, except for the  *)
(* root.                                                                   *)
SimilaritiesOf(report) ==
  IF ~root /\ Trimmed(report) \in {"short", "code"} THEN {"none"} ELSE Similarities

Blamed(l, why) == [l EXCEPT !.agent.fail = why]

(* The root's answer ends the run and is not put in the cache. *)
Accepted(l, report, critique) ==
  [l EXCEPT !.status = "completed",
            !.event = NoEvent,
            !.result = [NoResult EXCEPT !.kind = "accepted", !.critique = critique,
                          !.of = [report |-> Trimmed(report), role |-> l.agent.role,
                                  grounded |-> TRUE]],
            !.cache = IF root THEN @ ELSE @ \cup {Entry("self", "accepted", "same")}]

(* A WARN is a cycle spent; the same report again, or the last cycle, is a *)
(* rejection; past the ceiling the task ends here.                         *)
Warned(l, report, room) ==
  LET charged == [l EXCEPT !.agent.cycles = OneMore(@), !.agent.warnings = @ + 1]
      sentBack == [charged EXCEPT !.event = NoEvent, !.agent.fail = "sent back",
                                  !.agent.warned = report]
  IN IF l.agent.warned = report \/ CyclesCapped(charged.agent)
       THEN KillAndRespawn(Blamed(charged, "rejected"), l.agent.role, TRUE, room)
     ELSE IF l.over THEN {Abandoned(Retired(charged))}
     ELSE {sentBack}

(* Mutant of Reviewed: what was reported is kept before it is looked at. *)
ReviewedAfterRecording(l, report, similarity, critique, room) ==
  LET kept == [l EXCEPT !.partial = [report |-> Trimmed(report), role |-> l.agent.role,
                                     grounded |-> l.kids.completed]]
  IN IF StructuralReject(l, report)
       THEN KillAndRespawn(Blamed(kept, "rejected"), l.agent.role, TRUE, room)
       ELSE {Accepted(kept, report, critique)}

(* handle_completion.  A report that is looked at by the judge is kept as  *)
(* the task's partial result whatever the verdict.                         *)
Reviewed(l, report, similarity, critique, room) ==
  LET a == l.agent
      kept == [l EXCEPT !.partial = [report |-> Trimmed(report), role |-> a.role,
                                     grounded |-> l.kids.completed]]
      ruling == Judged(a.role, a.warnings, Trimmed(report), similarity, critique)
  IN IF StructuralReject(l, report)
       THEN KillAndRespawn(Blamed(l, "rejected"), a.role, TRUE, room)
     ELSE IF ruling.verdict = "execute"
       THEN KillAndRespawn(Blamed(kept, "rejected"), a.role, TRUE, room)
     ELSE IF ruling.verdict = "warn" THEN Warned(kept, report, room)
     ELSE {Accepted(kept, report, critique)}

----------------------------------------------------------------------------
(* Failures, subtasks and tool calls *)

(* handle_failure.  An executor whose task is too large is followed by a   *)
(* decomposer, if the budget admits one; a rejected batch costs no attempt *)
(* the first few times.                                                    *)
Failed(l, room) ==
  LET tooLarge == l.event.role = "executor" /\ l.event.what \in {"too large", "rerouted"}
      role == IF tooLarge THEN "decomposer" ELSE l.event.role
      free == l.event.what = "batch" /\ l.rejections < MaxDerivedRejections
      counted == [l EXCEPT !.rejections = IF free THEN @ + 1 ELSE @]
      closed == [Retired(l) EXCEPT !.cache = @ \cup {Entry("self", "rejected", "same")}]
  IN IF tooLarge /\ ~room THEN {Abandoned(closed)}
     ELSE KillAndRespawn(counted, role, ~free, room)

(* _release_spawner_if_nothing_started. *)
Released(l, outOfEnergy) ==
  LET told == Blamed(l, "spawn")
  IN IF CyclesCapped(l.agent) \/ (outOfEnergy /\ ~l.kids.completed)
       THEN [told EXCEPT !.event = Event("failure", "spawn", l.agent.role)]
       ELSE [told EXCEPT !.event = NoEvent, !.agent.awaiting = FALSE, !.agent.cycles = OneMore(@),
                         !.agent.spawnClosed = @ \/ outOfEnergy]

(* handle_spawn, by what became of the batch. *)
SpawnOutcomes(l) ==
  LET role == l.agent.role
      started == [l EXCEPT !.event = NoEvent, !.kids.open = TRUE, !.agent.spawned = TRUE]
      refused(what) == [Blamed(l, what) EXCEPT !.event = Event("failure", what, role)]
  IN IF role # "decomposer" THEN {refused("rerouted")}
     ELSE IF l.event.what = "hollow" THEN {Released(l, FALSE)}
     ELSE {started, refused("batch"), Released(l, FALSE), Released(l, TRUE)}

(* handle_tool_request: a decomposer's call is not executed. *)
ToolAnswered(l, success) ==
  [l EXCEPT !.event = NoEvent,
            !.agent = IF @.role = "decomposer" THEN [@ EXCEPT !.fail = "tool"]
                      ELSE ReceiveToolResult(@, success)]

----------------------------------------------------------------------------
(* The steps of a task *)

Running == /\ life.status = "running" /\ Alive(life) /\ ~life.agent.awaiting
           /\ life.event = NoEvent /\ ~life.kids.open

(* The debit that reaches the ceiling: of a run(), a critique, a result    *)
(* handed to the agent.  It is checked where the code checks it.           *)
CrossCeiling ==
  /\ life.status = "running" /\ ~life.over
  /\ life' = [life EXCEPT !.over = TRUE]

(* _run_live_agents, for a run() that ends at think(). *)
RunThink ==
  /\ Running
  /\ ~FinalOnly(life.agent) /\ KeepsThinking(life.agent, FALSE)
  /\ life' = EnforceCeiling([life EXCEPT !.agent = [RunThinking(@) EXCEPT !.crashes = 0]])

(* What an event carries, by what was decided. *)
Carried(kind, fail, d) ==
  CASE kind = "none" -> {"none"}
    [] kind = "report" -> IF d.payload = "placeholder" THEN {"placeholder"}
                                                      ELSE Reports \ {"placeholder"}
    [] kind = "spawn" -> {d.shape}
    [] kind = "tool" -> {"call"}
    [] OTHER -> IF fail = "died" THEN {"died", "too large"} ELSE {fail}

(* The same for one that reaches decide(), because it is not the first, or *)
(* the first think() collapsed.                                            *)
RunDecide ==
  /\ Running
  /\ \E read \in Decisions, prose \in BOOLEAN, call \in Calls :
       LET a == life.agent
           d == DecisionOf(a, life.kids, read, prose)
           ran == RunDeciding([a EXCEPT !.crashes = 0], d, call, toolsOn)
       IN /\ (~toolsOn => call = CHOOSE c \in Calls : TRUE)
          /\ \E what \in Carried(ran.event, ran.agent.fail, d) :
               LET done == [life EXCEPT
                              !.agent = ran.agent,
                              !.event = IF ran.event = "none" THEN NoEvent
                                        ELSE Event(ran.event, what, a.role)]
               IN life' = IF d.action \in {"REPORT", "DIE"} \/ HandedOff(ran.agent, d.action)
                            THEN done ELSE EnforceCeiling(done)

(* A run() that raises is billed like a spawn and tried again, until too   *)
(* many in a row.                                                          *)
CrashInRun ==
  /\ Running
  /\ LET a == IF FinalOnly(life.agent) THEN life.agent ELSE Thought(life.agent)
           crashed == [a EXCEPT !.crashes = @ + 1, !.fail = "crash"]
       IN life' = EnforceCeiling(
            [life EXCEPT
               !.agent = crashed,
               !.event = IF crashed.crashes < MaxConsecutiveCrashes THEN NoEvent
                         ELSE Event("failure", "crash", a.role)])

(* handle_deadlock finds the agent silent for too long. *)
Watchdog ==
  /\ Running
  /\ life' = [life EXCEPT !.event = Event("failure", "watchdog", life.agent.role)]

(* What an abandoned task's agents still say of it is not handled. *)
Stale == life.status = "abandoned" /\ life.event.kind \in {"report", "failure"}

DropStale == Stale /\ life' = [life EXCEPT !.event = NoEvent]

HandleCompletion ==
  /\ life.event.kind = "report" /\ ~Stale
  /\ \E similarity \in SimilaritiesOf(life.event.what), critique \in Completions,
        room \in BOOLEAN :
       life' \in Reviewed(life, life.event.what, similarity, critique, room)

HandleFailure ==
  /\ life.event.kind = "failure" /\ ~Stale
  /\ \E room \in BOOLEAN : life' \in Failed(life, room)

HandleSpawn ==
  /\ life.event.kind = "spawn"
  /\ life' \in SpawnOutcomes(life)

HandleToolRequest ==
  /\ life.event.kind = "tool"
  /\ \E success \in BOOLEAN : life' = ToolAnswered(life, success)

(* handle_parent_notification for the last subtask: its result is billed   *)
(* to the agent that waits, which runs again unless that was too much.     *)
ChildrenEnd ==
  /\ life.kids.open
  /\ \E completed \in BOOLEAN :
       LET closed == [life EXCEPT !.kids = [open |-> FALSE, completed |-> @.completed \/ completed]]
       IN life' = IF closed.over THEN EnforceCeiling(closed)
                  ELSE [closed EXCEPT !.agent.awaiting = FALSE]

Step == \/ Watchdog \/ RunThink \/ RunDecide \/ CrashInRun
        \/ HandleCompletion \/ HandleFailure \/ HandleSpawn \/ HandleToolRequest
        \/ ChildrenEnd \/ DropStale

Settled == life.status # "running" /\ life.event = NoEvent

Rest == Settled /\ UNCHANGED life

Next == (Step \/ CrossCeiling \/ Rest) /\ UNCHANGED setting

(* The loop turns: unless the task is settled, one of its steps is taken.  *)
(* This is WF_vars(Step), said without ENABLED: that a task not settled    *)
(* always has a step is the run's deadlock check.  And every run() is      *)
(* billed at least one unit of a finite ceiling: a task that keeps running *)
(* reaches it.                                                             *)
Turns == []<>Settled \/ []<><<TRUE>>_vars

Spec == Init /\ [][Next]_vars /\ Turns /\ WF_vars(CrossCeiling /\ UNCHANGED setting)

----------------------------------------------------------------------------
TypeOK ==
  /\ life.status \in {"running", "completed", "abandoned"}
  /\ life.attempts \in 0 .. MaxTaskAttempts
  /\ life.rejections \in 0 .. MaxDerivedRejections
  /\ Alive(life) => /\ life.agent.role \in {"executor", "decomposer"}
                    /\ life.agent.crashes \in 0 .. MaxConsecutiveCrashes
                    /\ life.agent.warnings \in Nat /\ life.agent.cycles \in Nat

(* What the parent of an abandoned task is handed is never a text that was *)
(* turned away without a review: the placeholder, the prompt's example,    *)
(* unrequested software, a decomposer's own answer.                        *)
RejectedNeverSalvaged ==
  life.result.kind = "partial" =>
    /\ life.result.of.report \notin {"placeholder", "echo"}
    /\ life.result.of.report \in SoftwareShaped => software
    /\ life.result.of.role = "decomposer" => life.result.of.grounded

(* A completed task carries an answer that was accepted: its own, or one   *)
(* from the cache, another task's only for all but the same words; and     *)
(* never from the cache for the root.                                      *)
OnlyAcceptedServed ==
  life.result.kind = "served" =>
    /\ ~root
    /\ life.result.entry.outcome = "accepted"
    /\ life.result.entry.task = "self" \/ life.result.entry.near = "same"

(* The judge's own first word decides: neither a second thought nor a      *)
(* sample the model invented after its ruling accepts an answer.  (Spelt   *)
(* with spaces, a word is only read when none is plain.)                   *)
OpensWith(line, words) == line # <<>> /\ Head(line) \in words

FirstWordRules ==
  life.result.kind = "accepted" =>
    LET c == life.result.critique
    IN /\ c # <<>> /\ ~OpensWith(Head(c), {"reject"})
       /\ \E i \in DOMAIN c : /\ Range(c[i]) \cap {"accept", "spaced_accept"} # {}
                              /\ \A j \in 2 .. i : ~OpensWith(c[j], {"Example:", "VERDICT:"})

----------------------------------------------------------------------------
Respawns == /\ Alive(life')
            /\ \/ life'.attempts > life.attempts
               \/ life'.rejections > life.rejections

(* What ended the last agent. *)
Why(event) == IF event.kind = "report" THEN "rejected"
              ELSE IF event.what = "too large" THEN "died"
              ELSE event.what

(* An agent that takes over is told what its predecessor ended on, unless  *)
(* that one was only found silent.                                         *)
RespawnKnowsWhy ==
  [][Respawns /\ life.event.what # "watchdog" => life'.agent.told = Why(life.event)]_vars

(* No task is done again that an accepted answer is on record for.         *)
NeverRedone ==
  [][Respawns => root \/ \A e \in life.cache :
                           ~(e.outcome = "accepted" /\ e.near = "same")]_vars

(* Every task ends, whatever its agents do. *)
TaskSettles == <>Settled
=============================================================================
