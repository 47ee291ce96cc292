----------------------------- MODULE AgentCycle -----------------------------
(***************************************************************************)
(* One run() of an agent (agent_node.py): think, decide, execute, and what *)
(* counts against its cycle cap.  A run takes an agent and what its model  *)
(* made of it to the agent afterwards and the event it pushed.             *)
(***************************************************************************)
EXTENDS Generation

CONSTANTS
  MaxNonTerminalCycles,         \* run()s that neither finish nor hand off
  ThinkCyclesBeforeDecide,
  MaxToolAttempts,              \* per agent, refused ones included
  ToolCallHistory,              \* calls a new one must differ from
  MaxConsecutiveToolFailures

ASSUME CapsAreCounts ==
  /\ {MaxNonTerminalCycles, ThinkCyclesBeforeDecide} \subseteq Nat \ {0}
  /\ {MaxToolAttempts, ToolCallHistory} \subseteq Nat \ {0}
  /\ MaxConsecutiveToolFailures \in Nat \ {0}

(* fail is the reason in fail_reason; told is the one its predecessor left *)
(* it, until its first prompt is read.                                     *)
NewAgent(role, told) ==
  [role |-> role, told |-> told, thinks |-> 0, cycles |-> 0, crashes |-> 0,
   awaiting |-> FALSE, spawned |-> FALSE, spawnClosed |-> FALSE,
   fail |-> "none", warnings |-> 0, warned |-> "none",
   toolCalls |-> 0, recentCalls |-> <<>>, recentErrors |-> <<>>]

(* A deque with a maxlen. *)
Remember(q, x, n) ==
  LET longer == Append(q, x)
  IN IF Len(longer) > n THEN Tail(longer) ELSE longer

CyclesCapped(a) == a.cycles >= MaxNonTerminalCycles
FinalOnly(a) == CyclesCapped(a) \/ a.spawnClosed

(* kids: what the colony says of its task's direct subtasks, whether one   *)
(* is open and whether one has completed.                                  *)
AwaitingFirstSpawn(a) == a.role = "decomposer" /\ ~a.spawnClosed /\ ~a.spawned

WithoutCompletedChild(a, kids) ==
  a.role = "decomposer" /\ a.spawned /\ ~kids.open /\ ~kids.completed

FinalActions(a, kids) ==
  IF AwaitingFirstSpawn(a) THEN {"SPAWN", "DIE"}
  ELSE IF WithoutCompletedChild(a, kids) THEN {"DIE"}
  ELSE {"REPORT", "DIE"}

----------------------------------------------------------------------------
(* think and decide *)

(* The first think() keeps the turn unless its text collapsed. *)
KeepsThinking(a, collapsed) == a.thinks < ThinkCyclesBeforeDecide /\ ~collapsed

Thought(a) == [a EXCEPT !.thinks = Min({@ + 1, ThinkCyclesBeforeDecide}), !.told = "none"]

(* What decide() makes of one reading of the model's text. *)
DecisionOf(a, kids, d, prose) ==
  IF FinalOnly(a) THEN Coerced(d, FinalActions(a, kids), prose) ELSE d

(* Malformed payloads set fail_reason, a recovered or coerced one clears   *)
(* it.                                                                     *)
AfterDecide(a, d) ==
  [a EXCEPT !.fail = CASE d.fail = "set" -> "payload"
                       [] d.fail = "cleared" -> "none"
                       [] OTHER -> @]

----------------------------------------------------------------------------
(* execute *)

Does(a, event) == [agent |-> a, event |-> event]

(* request_spawn. *)
RequestSpawn(a, d) ==
  IF SpawnAccepted(d)
    THEN Does([a EXCEPT !.fail = "none", !.awaiting = TRUE], "spawn")
    ELSE Does([a EXCEPT !.fail = "spawn"], "none")

CircuitOpen(a) ==
  Len(a.recentErrors) = MaxConsecutiveToolFailures /\ Range(a.recentErrors) = {TRUE}

(* request_tool.  A call while tools are disabled costs no attempt; every  *)
(* other one does, refused or not.  available: the tool is in this run's   *)
(* set.                                                                    *)
RequestTool(a, d, call, available) ==
  LET refused == [a EXCEPT !.fail = "tool"]
      counted == [refused EXCEPT !.toolCalls = @ + 1]
      spent == counted.toolCalls > MaxToolAttempts
  IN IF d.payload # "object" \/ d.shape # "call" THEN Does(refused, "none")
     ELSE IF ~available THEN Does(refused, "none")
     ELSE IF CircuitOpen(a) THEN Does(counted, "none")
     ELSE IF spent THEN Does([counted EXCEPT !.fail = "budget"], "failure")
     ELSE IF call \in Range(a.recentCalls) THEN Does(counted, "none")
     ELSE Does([counted EXCEPT !.fail = "none",
                  !.recentCalls = Remember(@, call, ToolCallHistory)], "tool")

(* receive_tool_result. *)
ReceiveToolResult(a, success) ==
  [a EXCEPT !.recentErrors = Remember(@, ~success, MaxConsecutiveToolFailures),
            !.fail = IF success THEN "none" ELSE "tool"]

Execute(a, d, call, available) ==
  CASE d.action = "SPAWN" -> RequestSpawn(a, d)
    [] d.action = "TOOL" -> RequestTool(a, d, call, available)
    [] d.action = "REPORT" -> Does(a, "report")
    [] d.action = "DIE" -> Does([a EXCEPT !.fail = "died"], "failure")
    [] OTHER -> Does(a, "none")

----------------------------------------------------------------------------
(* run *)

(* Its children have the work, or a tool call it was allowed. *)
HandedOff(a, action) == a.awaiting \/ (action = "TOOL" /\ a.fail = "none")

(* Nothing tells two counts past the cap apart: the count stops there. *)
OneMore(cycles) == Min({cycles + 1, MaxNonTerminalCycles + 1})

(* A cycle that neither finished nor handed off is charged. *)
Charged(a, action) ==
  IF action \in {"REPORT", "DIE"} \/ HandedOff(a, action) THEN a
  ELSE [a EXCEPT !.cycles = OneMore(@)]

(* A run() that decides d: at the cap there is no think() before it. *)
RunDeciding(a, d, call, available) ==
  LET thought == IF FinalOnly(a) THEN a ELSE Thought(a)
      done == Execute(AfterDecide(thought, d), d, call, available)
  IN Does(Charged(done.agent, d.action), done.event)

(* A run() that ends at think(). *)
RunThinking(a) == Charged(Thought(a), "THINK")
=============================================================================
