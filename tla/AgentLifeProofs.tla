--------------------------- MODULE AgentLifeProofs ---------------------------
(***************************************************************************)
(* The life of a task whatever its agents decide, its judge writes and its *)
(* limits are: what its state may be, what it may end with, and what a     *)
(* respawn is told and may not do over.                                    *)
(***************************************************************************)
EXTENDS AgentLife, FiniteSetTheorems, WellFoundedInduction, TLAPS

----------------------------------------------------------------------------
(* The shape of a life *)

AgentRoles == {"executor", "decomposer"}
Reasons == {"none", "payload", "spawn", "tool", "budget", "died", "crash", "rejected",
            "sent back", "rerouted", "batch"}
Texts == Reports \cup {"placeholder", "long", "none"}

AgentStates ==
  [role : AgentRoles, told : Reasons, thinks : Nat, cycles : Nat, crashes : Nat,
   awaiting : BOOLEAN, spawned : BOOLEAN, spawnClosed : BOOLEAN, fail : Reasons,
   warnings : Nat, warned : Texts, toolCalls : Nat, recentCalls : Seq(Calls),
   recentErrors : Seq(BOOLEAN)]

Partials == [report : Texts, role : AgentRoles \cup {"none"}, grounded : BOOLEAN]
Results == [kind : {"none", "empty", "partial", "served", "accepted"}, of : Partials,
            entry : Donors \cup {NoResult.entry}, critique : Completions \cup {<<>>}]

(* A life whose event is in E. *)
Lives(E) ==
  [status : {"running", "completed", "abandoned"}, agent : AgentStates \cup {Gone},
   event : E, kids : [open : BOOLEAN, completed : BOOLEAN],
   attempts : Nat, rejections : Nat, over : BOOLEAN, partial : Partials,
   result : Results, cache : SUBSET Donors]

----------------------------------------------------------------------------
(* The invariant *)

(* What may be salvaged: nothing that was turned away without a review.    *)
Clean(p) == /\ p.report \notin {"placeholder", "echo"}
            /\ p.report \in SoftwareShaped => software
            /\ p.role = "decomposer" => p.grounded

Salvageable(l) == Clean(l.partial) /\ (l.result.kind = "partial" => Clean(l.result.of))

ServedWell(l) ==
  l.result.kind = "served" =>
    /\ ~root
    /\ l.result.entry.outcome = "accepted"
    /\ l.result.entry.task = "self" \/ l.result.entry.near = "same"

(* The counts, and no agent for a task that was given up.                  *)
Counted(l) == /\ l.attempts <= MaxTaskAttempts /\ l.rejections <= MaxDerivedRejections
              /\ Alive(l) => /\ l.agent.crashes <= MaxConsecutiveCrashes
                             /\ l.status # "abandoned"

(* The last crash in a row is on its way to the orchestrator. *)
CrashesToldOf(l) ==
  Alive(l) /\ l.event.kind # "failure" => l.agent.crashes < MaxConsecutiveCrashes

(* A call, a batch or a report on its way is of an agent that still has    *)
(* the task; a failure may be of one the ceiling stopped, and otherwise    *)
(* names what the agent ended on.  Nothing is on its way while the agent   *)
(* waits for its subtasks.                                                 *)
EventOfAgent(l) ==
  /\ l.event.kind \in {"none", "report", "spawn", "tool", "failure"}
  /\ l.event.kind \in {"report", "spawn", "tool"} => Alive(l)
  /\ l.event.kind = "report" => l.event.what \in Reports \cup {"placeholder"}
  /\ l.event.kind = "failure" =>
       /\ l.event.role \in AgentRoles
       /\ Alive(l) \/ l.status = "abandoned"
       /\ Alive(l) /\ l.event.what # "watchdog" => l.agent.fail = Why(l.event)
  /\ l.kids.open => Alive(l) /\ l.event = NoEvent

LifeOK(l) == /\ l \in Lives({l.event})
             /\ Counted(l) /\ CrashesToldOf(l) /\ EventOfAgent(l)
             /\ Salvageable(l) /\ ServedWell(l)

LifeInv == setting \in Settings /\ LifeOK(life)

----------------------------------------------------------------------------
(* The agent's own steps *)

LEMMA MinTwo ==
  ASSUME NEW m \in Nat, NEW n \in Nat
  PROVE  Min({m, n}) \in Nat
<1>1. CASE m <= n
  <2>1. \A x \in {m, n} : m <= x
    BY <1>1
  <2>2. Min({m, n}) \in {m, n}
    BY <2>1 DEF Min
  <2>3. QED
    BY <2>2
<1>2. CASE ~(m <= n)
  <2>1. \A x \in {m, n} : n <= x
    BY <1>2
  <2>2. Min({m, n}) \in {m, n}
    BY <2>1 DEF Min
  <2>3. QED
    BY <2>2
<1>3. QED
  BY <1>1, <1>2

LEMMA CapsAreNaturals ==
  /\ MaxNonTerminalCycles \in Nat /\ ThinkCyclesBeforeDecide \in Nat
  /\ MaxToolAttempts \in Nat /\ ToolCallHistory \in Nat
  /\ MaxConsecutiveToolFailures \in Nat
BY CapsAreCounts

LEMMA OneMoreType == ASSUME NEW n \in Nat PROVE OneMore(n) \in Nat
BY MinTwo, CapsAreNaturals DEF OneMore

LEMMA RememberType ==
  ASSUME NEW S, NEW q \in Seq(S), NEW x \in S, NEW n \in Nat
  PROVE  Remember(q, x, n) \in Seq(S)
<1>1. Append(q, x) \in Seq(S) /\ Len(Append(q, x)) = Len(q) + 1
  OBVIOUS
<1>2. Append(q, x) # <<>>
  <2>1. Len(q) \in Nat
    OBVIOUS
  <2>2. Len(<<>>) = 0
    OBVIOUS
  <2>3. QED
    BY <1>1, <2>1, <2>2
<1>3. Tail(Append(q, x)) \in Seq(S)
  BY <1>1, <1>2
<1>4. QED
  BY <1>1, <1>3 DEF Remember

LEMMA NewAgentShape ==
  ASSUME NEW role \in AgentRoles, NEW told \in Reasons
  PROVE  /\ NewAgent(role, told) \in AgentStates
         /\ NewAgent(role, told) # Gone
         /\ NewAgent(role, told).role = role /\ NewAgent(role, told).told = told
         /\ NewAgent(role, told).crashes = 0
<1>1. /\ "none" \in Reasons /\ "none" \in Texts
      /\ <<>> \in Seq(Calls) /\ <<>> \in Seq(BOOLEAN)
  <2>1. "none" \in Reasons /\ "none" \in Texts
    BY DEF Reasons, Texts
  <2>2. <<>> \in Seq(Calls)
    OBVIOUS
  <2>3. <<>> \in Seq(BOOLEAN)
    OBVIOUS
  <2>4. QED
    BY <2>1, <2>2, <2>3
<1>2. role # "gone"
  BY DEF AgentRoles
<1>3. QED
  BY <1>1, <1>2 DEF NewAgent, AgentStates, Gone

LEMMA AgentIsNotGone == ASSUME NEW a \in AgentStates PROVE a # Gone
<1>1. a.role \in AgentRoles /\ Gone.role = "gone"
  BY DEF AgentStates, Gone
<1>2. QED
  BY <1>1 DEF AgentRoles

(* What a run leaves of an agent: its role, the judge's warnings, its      *)
(* crashes.                                                                *)
Ran(a, b) == /\ b \in AgentStates /\ b.role = a.role
             /\ b.warnings = a.warnings /\ b.crashes = a.crashes

LEMMA ThoughtShape == ASSUME NEW a \in AgentStates PROVE Ran(a, Thought(a))
<1>1. Min({a.thinks + 1, ThinkCyclesBeforeDecide}) \in Nat
  BY MinTwo, CapsAreNaturals DEF AgentStates
<1>2. QED
  BY <1>1 DEF Thought, Ran, AgentStates, Reasons

LEMMA ChargedShape ==
  ASSUME NEW a \in AgentStates, NEW action
  PROVE  Ran(a, Charged(a, action)) /\ Charged(a, action).fail = a.fail
<1>1. OneMore(a.cycles) \in Nat
  BY OneMoreType DEF AgentStates
<1>2. QED
  BY <1>1 DEF Charged, Ran, AgentStates

LEMMA RunThinkingShape == ASSUME NEW a \in AgentStates PROVE Ran(a, RunThinking(a))
<1>1. Ran(a, Thought(a))
  BY ThoughtShape
<1>2. Thought(a) \in AgentStates
  BY <1>1 DEF Ran
<1>3. Ran(Thought(a), Charged(Thought(a), "THINK"))
  BY <1>2, ChargedShape
<1>4. QED
  BY <1>1, <1>3 DEF RunThinking, Ran

(* What execute() leaves, with the event it pushed: an agent that failed   *)
(* says why, and a call or a batch on its way was handed off.              *)
Executed(a, done, action) ==
  /\ Ran(a, done.agent)
  /\ done.event \in {"none", "report", "spawn", "tool", "failure"}
  /\ done.event = "report" => action = "REPORT"
  /\ done.event \in {"spawn", "tool"} => HandedOff(done.agent, action)

LEMMA RequestSpawnShape ==
  ASSUME NEW a \in AgentStates, NEW d
  PROVE  Executed(a, RequestSpawn(a, d), "SPAWN")
BY DEF RequestSpawn, Does, Executed, Ran, AgentStates, HandedOff, Reasons

LEMMA RequestToolShape ==
  ASSUME NEW a \in AgentStates, NEW d, NEW call \in Calls, NEW available
  PROVE  Executed(a, RequestTool(a, d, call, available), "TOOL")
<1> DEFINE refused == [a EXCEPT !.fail = "tool"]
           counted == [refused EXCEPT !.toolCalls = @ + 1]
           spent == [counted EXCEPT !.fail = "budget"]
           calls == Remember(a.recentCalls, call, ToolCallHistory)
           passed == [counted EXCEPT !.fail = "none", !.recentCalls = calls]
           done == RequestTool(a, d, call, available)
<1>0. a.toolCalls + 1 \in Nat
  BY DEF AgentStates
<1>1. /\ Ran(a, refused) /\ refused.toolCalls = a.toolCalls
      /\ refused.recentCalls = a.recentCalls
  BY DEF Ran, AgentStates, Reasons
<1> HIDE DEF refused
<1>2. /\ Ran(a, counted) /\ counted.recentCalls = a.recentCalls
  <2>1. counted \in AgentStates
    <3>1. counted = [refused EXCEPT !.toolCalls = a.toolCalls + 1]
      BY <1>1
    <3>2. QED
      BY <1>0, <1>1, <3>1 DEF Ran, AgentStates
  <2>2. QED
    BY <1>1, <2>1 DEF Ran, AgentStates
<1> HIDE DEF counted
<1>3. Ran(a, spent)
  BY <1>2 DEF Ran, AgentStates, Reasons
<1>4. calls \in Seq(Calls)
  BY RememberType, CapsAreNaturals DEF AgentStates
<1> HIDE DEF calls
<1>5. Ran(a, passed) /\ passed.fail = "none"
  BY <1>2, <1>4 DEF Ran, AgentStates, Reasons
<1>6. \/ done \in {Does(refused, "none"), Does(counted, "none"), Does(spent, "failure")}
      \/ done = Does(passed, "tool")
  BY <1>2 DEF RequestTool, calls, refused, counted
<1> HIDE DEF spent, passed, done
<1>7. QED
  BY <1>1, <1>2, <1>3, <1>5, <1>6 DEF Does, Executed, HandedOff, done

LEMMA ExecuteShape ==
  ASSUME NEW a \in AgentStates, NEW d, NEW call \in Calls, NEW available
  PROVE  Executed(a, Execute(a, d, call, available), d.action)
<1>1. CASE d.action = "SPAWN"
  BY <1>1, RequestSpawnShape DEF Execute
<1>2. CASE d.action = "TOOL"
  BY <1>2, RequestToolShape DEF Execute
<1>3. CASE d.action = "REPORT"
  BY <1>3 DEF Execute, Executed, Ran, Does
<1>4. CASE d.action = "DIE"
  BY <1>4 DEF Execute, Executed, Ran, Does, AgentStates, Reasons
<1>5. CASE d.action \notin {"SPAWN", "TOOL", "REPORT", "DIE"}
  BY <1>5 DEF Execute, Executed, Ran, Does
<1>6. QED
  BY <1>1, <1>2, <1>3, <1>4, <1>5

LEMMA RunDecidingShape ==
  ASSUME NEW a \in AgentStates, NEW d, NEW call \in Calls, NEW available
  PROVE  Executed(a, RunDeciding(a, d, call, available), d.action)
<1> DEFINE thought == IF FinalOnly(a) THEN a ELSE Thought(a)
           told == AfterDecide(thought, d)
           done == Execute(told, d, call, available)
           b == Charged(done.agent, d.action)
<1>1. Ran(a, thought)
  BY ThoughtShape DEF Ran
<1> HIDE DEF thought
<1>2. Ran(a, told)
  <2>1. thought \in AgentStates
    BY <1>1 DEF Ran
  <2>2. Ran(thought, told)
    BY <2>1 DEF Ran, AfterDecide, AgentStates, Reasons
  <2>3. QED
    BY <1>1, <2>2 DEF Ran
<1> HIDE DEF told
<1>3. Executed(told, done, d.action)
  BY <1>2, ExecuteShape DEF Ran
<1> HIDE DEF done
<1>4. done.agent \in AgentStates
  BY <1>3 DEF Executed, Ran
<1>5. Ran(done.agent, b) /\ b.fail = done.agent.fail
      /\ (HandedOff(done.agent, d.action) => b = done.agent)
  BY <1>4, ChargedShape DEF Charged
<1>6. RunDeciding(a, d, call, available) = Does(b, done.event)
  BY DEF RunDeciding, thought, told, done
<1> HIDE DEF b
<1>7. Executed(a, Does(b, done.event), d.action)
  BY <1>2, <1>3, <1>5 DEF Executed, Ran, Does
<1>8. QED
  BY <1>6, <1>7

----------------------------------------------------------------------------
(* The end of an agent *)

NothingOnRecord(cache) == \A e \in cache : ~(e.outcome = "accepted" /\ e.near = "same")

(* A task whose agent just handed something over: nothing of its subtasks  *)
(* is pending, and its event is taken off the queue.                       *)
InHand(l) == /\ l \in Lives({l.event}) /\ Alive(l) /\ ~l.kids.open
             /\ Counted(l) /\ Salvageable(l) /\ ServedWell(l)

(* A task without an agent, whose events are handled. *)
Ended(l) == /\ l \in Lives({NoEvent}) /\ l.agent = Gone /\ ~l.kids.open
            /\ Counted(l) /\ Salvageable(l) /\ ServedWell(l)

LEMMA EndedIsOK == ASSUME NEW l, Ended(l) PROVE LifeOK(l) /\ ~Alive(l)
<1>1. l.event = NoEvent
  BY DEF Ended, Lives
<1>2. l.event.kind = "none"
  BY <1>1 DEF NoEvent, Event
<1>3. QED
  BY <1>1, <1>2 DEF Ended, LifeOK, CrashesToldOf, EventOfAgent, Alive

(* Retiring takes the agent and what it said; the task keeps the rest.     *)
LEMMA RetiredEnds ==
  ASSUME NEW l, l \in Lives({l.event}), ~l.kids.open,
         Counted(l), Salvageable(l), ServedWell(l)
  PROVE  /\ Ended(Retired(l))
         /\ Retired(l).attempts = l.attempts /\ Retired(l).rejections = l.rejections
         /\ Retired(l).cache = l.cache /\ Retired(l).status = l.status
<1> DEFINE m == [l EXCEPT !.agent = Gone, !.event = NoEvent]
<1>1. /\ m \in Lives({NoEvent}) /\ m.agent = Gone /\ m.kids = l.kids
      /\ m.attempts = l.attempts /\ m.rejections = l.rejections /\ m.cache = l.cache
      /\ m.status = l.status
      /\ m.partial = l.partial /\ m.result = l.result
  BY DEF Lives
<1>2. Retired(l) = m
  BY DEF Retired
<1> HIDE DEF m
<1>3. QED
  BY <1>1, <1>2 DEF Ended, Counted, Salvageable, ServedWell, Alive

LEMMA NoResultShape ==
  /\ NoPartial \in Partials /\ NoResult.of = NoPartial
  /\ NoResult.entry \in Donors \cup {NoResult.entry} /\ NoResult.critique = <<>>
  /\ NoResult = [kind |-> "none", of |-> NoPartial, entry |-> NoResult.entry, critique |-> <<>>]
  /\ NoResult \in Results
<1>1. NoPartial \in Partials
  BY DEF NoPartial, Partials, Texts
<1>2. /\ NoResult = [kind |-> "none", of |-> NoPartial, entry |-> NoResult.entry,
                     critique |-> <<>>]
      /\ NoResult.of = NoPartial /\ NoResult.critique = <<>>
  BY DEF NoResult
<1>3. NoResult \in Results
  BY <1>1, <1>2 DEF Results
<1>4. QED
  BY <1>1, <1>2, <1>3

LEMMA AbandonedEnds ==
  ASSUME NEW l, Ended(l)
  PROVE  /\ Ended(Abandoned(l)) /\ Abandoned(l).rejections = l.rejections
         /\ Abandoned(l).attempts = l.attempts /\ Abandoned(l).status = "abandoned"
<1> DEFINE salvaged == [NoResult EXCEPT !.kind = "partial", !.of = l.partial]
           bare == [l.result EXCEPT !.kind = "empty"]
           result == IF l.partial # NoPartial THEN salvaged
                     ELSE IF l.result.kind = "none" THEN bare ELSE l.result
           m == [l EXCEPT !.status = "abandoned", !.result = result]
<1>1. l.partial \in Partials /\ l.result \in Results
  BY DEF Ended, Lives
<1>2. salvaged \in Results /\ salvaged.kind = "partial" /\ salvaged.of = l.partial
  BY <1>1, NoResultShape DEF Results
<1>3. bare \in Results /\ bare.kind = "empty"
  BY <1>1 DEF Results
<1> HIDE DEF salvaged, bare
<1>4. /\ result \in Results
      /\ \/ result.kind = "partial" /\ result.of = l.partial
         \/ result.kind = "empty" \/ result = l.result
  BY <1>1, <1>2, <1>3
<1> HIDE DEF result
<1>5. /\ m \in Lives({NoEvent}) /\ m.status = "abandoned" /\ m.agent = Gone
      /\ m.kids = l.kids /\ m.attempts = l.attempts /\ m.rejections = l.rejections
      /\ m.partial = l.partial /\ m.result = result
  BY <1>4 DEF Ended, Lives
<1>6. Abandoned(l) = m
  BY DEF Abandoned, result, salvaged, bare
<1> HIDE DEF m
<1>7. QED
  BY <1>4, <1>5, <1>6 DEF Ended, Counted, Salvageable, ServedWell, Alive

LEMMA EnforceCeilingKeeps ==
  ASSUME NEW l, LifeOK(l), l.event.kind \in {"none", "failure"}, ~l.kids.open
  PROVE  /\ LifeOK(EnforceCeiling(l))
         /\ EnforceCeiling(l).attempts = l.attempts
         /\ EnforceCeiling(l).rejections = l.rejections
<1> DEFINE closed == Abandoned(Retired(l))
           m == [closed EXCEPT !.event = l.event]
<1>1. /\ Ended(closed) /\ closed.rejections = l.rejections
      /\ closed.attempts = l.attempts /\ closed.status = "abandoned"
  BY RetiredEnds, AbandonedEnds DEF LifeOK
<1> HIDE DEF closed
<1>2. /\ m \in Lives({l.event}) /\ m.event = l.event /\ m.agent = Gone
      /\ m.kids = closed.kids /\ m.attempts = l.attempts /\ m.rejections = l.rejections
      /\ m.partial = closed.partial /\ m.result = closed.result /\ m.status = "abandoned"
  BY <1>1 DEF Ended, Lives
<1>3. EnforceCeiling(l) \in {l, m}
  BY DEF EnforceCeiling, closed
<1> HIDE DEF m
<1>4. LifeOK(m)
  BY <1>1, <1>2 DEF LifeOK, Ended, Counted, CrashesToldOf, EventOfAgent, Salvageable, ServedWell,
                    Alive
<1>5. QED
  BY <1>2, <1>3, <1>4

(* Every rank is one of three, and that of the same words is the last.     *)
LEMMA SameWordsRankFirst ==
  ASSUME NEW e \in Donors
  PROVE  /\ Rank(e) \in 1 .. 3
         /\ (Rank(e) = 3) <=> (e.near = "same")
<1>1. e.near \in {"far", "near", "same"}
  BY DEF Donors
<1>2. /\ DOMAIN Bands = 1 .. 3
      /\ Bands[1] = "far" /\ Bands[2] = "near" /\ Bands[3] = "same"
  BY DEF Bands
<1>3. \E i \in DOMAIN Bands : Bands[i] = e.near
  BY <1>1, <1>2
<1>4. Rank(e) \in DOMAIN Bands /\ Bands[Rank(e)] = e.near
  BY <1>3 DEF Rank
<1>5. QED
  BY <1>2, <1>4

(* What the cache answers with: accepted entries, another task's only if   *)
(* it is for the same words; and something, if there is an accepted one    *)
(* for the same words.                                                     *)
LEMMA CacheAnswers ==
  ASSUME NEW cache \in SUBSET Donors
  PROVE  /\ \A e \in GetSuccessCache(cache, "self") :
              e \in Donors /\ e.outcome = "accepted" /\ (e.task = "self" \/ e.near = "same")
         /\ GetSuccessCache(cache, "self") = {} => NothingOnRecord(cache)
<1>1. \A e \in cache : e \in Donors /\ Rank(e) \in 1 .. 3 /\ ((Rank(e) = 3) <=> (e.near = "same"))
  BY SameWordsRankFirst
<1>2. QED
  BY <1>1 DEF GetSuccessCache, NothingOnRecord

(* The agent after a respawn is told what the last one ended on, and an    *)
(* accepted answer for these words is not on record.                       *)
Reborn(l, m) == Alive(m) => /\ m.agent.told = l.agent.fail
                            /\ root \/ NothingOnRecord(l.cache)

LEMMA ServedEnds ==
  ASSUME NEW l, Ended(l), NEW entry \in Donors, ~root, entry.outcome = "accepted",
         entry.task = "self" \/ entry.near = "same"
  PROVE  Ended(Served(l, entry))
<1> DEFINE result == [NoResult EXCEPT !.kind = "served", !.entry = entry]
           m == [l EXCEPT !.status = "completed", !.result = result]
<1>1. result \in Results /\ result.kind = "served" /\ result.entry = entry
  BY NoResultShape DEF Results
<1> HIDE DEF result
<1>2. /\ m \in Lives({NoEvent}) /\ m.agent = Gone
      /\ m.kids = l.kids /\ m.attempts = l.attempts /\ m.rejections = l.rejections
      /\ m.partial = l.partial /\ m.result = result
  BY <1>1 DEF Ended, Lives
<1>3. Served(l, entry) = m
  BY DEF Served, result
<1> HIDE DEF m
<1>4. QED
  BY <1>1, <1>2, <1>3 DEF Ended, Counted, Salvageable, ServedWell, Alive

LEMMA RespawnKeeps ==
  ASSUME NEW l, Ended(l), l.status # "abandoned", NEW role \in AgentRoles,
         NEW told \in Reasons
  PROVE  LET m == [l EXCEPT !.agent = NewAgent(role, told)]
         IN LifeOK(m) /\ m.agent.told = told
<1> DEFINE a == NewAgent(role, told)
           m == [l EXCEPT !.agent = a]
<1>1. a \in AgentStates /\ a # Gone /\ a.told = told /\ a.crashes = 0
  BY NewAgentShape
<1> HIDE DEF a
<1>2. /\ m \in Lives({NoEvent}) /\ m.agent = a /\ m.event = NoEvent
      /\ m.kids = l.kids /\ m.attempts = l.attempts /\ m.rejections = l.rejections
      /\ m.partial = l.partial /\ m.result = l.result /\ m.status = l.status
  BY <1>1 DEF Ended, Lives
<1> HIDE DEF m
<1>3. MaxConsecutiveCrashes > 0
  BY LimitsAreCounts
<1>4. NoEvent.kind = "none"
  BY DEF NoEvent, Event
<1>5. LifeOK(m)
  BY <1>1, <1>2, <1>3, <1>4, LimitsAreCounts
     DEF LifeOK, Ended, Counted, CrashesToldOf, EventOfAgent, Salvageable, ServedWell, Alive
<1>6. QED
  BY <1>1, <1>2, <1>5 DEF m, a

(* Writing an outcome in the cache, or an attempt down, disturbs nothing.  *)
LEMMA EndedRecords ==
  ASSUME NEW l, Ended(l), NEW entries \in SUBSET Donors, NEW n \in Nat, n <= MaxTaskAttempts
  PROVE  /\ Ended([l EXCEPT !.cache = @ \cup entries])
         /\ Ended([l EXCEPT !.attempts = n])
<1> DEFINE recorded == l.cache \cup entries
           m == [l EXCEPT !.cache = recorded]
           k == [l EXCEPT !.attempts = n]
<1>1. recorded \in SUBSET Donors
  BY DEF Ended, Lives
<1> HIDE DEF recorded
<1>2. /\ m \in Lives({NoEvent}) /\ m.agent = Gone
      /\ m.kids = l.kids /\ m.attempts = l.attempts /\ m.rejections = l.rejections
      /\ m.partial = l.partial /\ m.result = l.result
  BY <1>1 DEF Ended, Lives
<1>3. /\ k \in Lives({NoEvent}) /\ k.agent = Gone
      /\ k.kids = l.kids /\ k.attempts = n /\ k.rejections = l.rejections
      /\ k.partial = l.partial /\ k.result = l.result
  BY DEF Ended, Lives
<1>4. [l EXCEPT !.cache = @ \cup entries] = m
  BY DEF recorded
<1> HIDE DEF m, k
<1>5. Ended(m)
  BY <1>2 DEF Ended, Counted, Salvageable, ServedWell, Alive
<1>6. Ended(k)
  BY <1>3 DEF Ended, Counted, Salvageable, ServedWell, Alive
<1>7. QED
  BY <1>4, <1>5, <1>6 DEF k

LEMMA KillAndRespawnKeeps ==
  ASSUME NEW l, InHand(l), NEW role \in AgentRoles, NEW counted \in BOOLEAN,
         NEW room \in BOOLEAN, NEW m \in KillAndRespawn(l, role, counted, room)
  PROVE  LifeOK(m) /\ Reborn(l, m)
<1> DEFINE failure == IF counted THEN {Entry("self", "rejected", "same")} ELSE {}
           dead == [Retired(l) EXCEPT !.cache = @ \cup failure]
           hits == IF root THEN {} ELSE GetSuccessCache(dead.cache, "self")
           n == IF counted THEN l.attempts + 1 ELSE l.attempts
           retried == [dead EXCEPT !.attempts = n]
           next == [retried EXCEPT !.agent = NewAgent(role, l.agent.fail)]
<1>1. failure \in SUBSET Donors
  BY DEF Entry, Donors
<1> HIDE DEF failure
<1>2. /\ Ended(Retired(l)) /\ Retired(l).attempts = l.attempts
      /\ Retired(l).cache = l.cache /\ l.attempts \in Nat /\ l.attempts <= MaxTaskAttempts
      /\ Retired(l).status = l.status /\ l.status # "abandoned"
  BY RetiredEnds DEF InHand, Lives, Counted
<1>3. Ended(dead)
  BY <1>1, <1>2, EndedRecords
<1>4. /\ dead.attempts = l.attempts /\ dead.cache = l.cache \cup failure
      /\ dead.status = l.status
  BY <1>2 DEF Ended, Lives
<1>5. GhostContext(l) = l.agent.fail /\ l.agent.fail \in Reasons
  BY DEF GhostContext, InHand, Lives, Alive, AgentStates
<1>6. [dead EXCEPT !.attempts = IF counted THEN @ + 1 ELSE @] = retried
  BY <1>4
<1>7. \/ m \in {Served(dead, hit) : hit \in hits}
      \/ m = Abandoned(dead)
      \/ hits = {} /\ ~(counted /\ l.attempts >= MaxTaskAttempts) /\ m \in {next, Abandoned(retried)}
  BY <1>5, <1>6 DEF KillAndRespawn, failure
<1> HIDE DEF dead
<1>8. dead.cache \in SUBSET Donors
  BY <1>3 DEF Ended, Lives
<1>9. /\ \A e \in hits : /\ ~root /\ e \in Donors /\ e.outcome = "accepted"
                         /\ (e.task = "self" \/ e.near = "same")
      /\ hits = {} => root \/ NothingOnRecord(dead.cache)
  BY <1>8, CacheAnswers
<1> HIDE DEF hits
<1>10. CASE m \in {Served(dead, hit) : hit \in hits}
  <2>1. PICK hit \in hits : m = Served(dead, hit)
    BY <1>10
  <2>2. Ended(m)
    BY <1>3, <1>9, <2>1, ServedEnds
  <2>3. QED
    BY <2>2, EndedIsOK DEF Reborn
<1>11. CASE m = Abandoned(dead)
  <2>1. Ended(m)
    BY <1>3, <1>11, AbandonedEnds
  <2>2. QED
    BY <2>1, EndedIsOK DEF Reborn
<1>12. CASE hits = {} /\ ~(counted /\ l.attempts >= MaxTaskAttempts)
            /\ m \in {next, Abandoned(retried)}
  <2>1. n \in Nat /\ n <= MaxTaskAttempts
    BY <1>2, <1>12, LimitsAreCounts
  <2> HIDE DEF n
  <2>2. Ended(retried)
    BY <1>3, <2>1, EndedRecords
  <2>3. retried.status # "abandoned"
    BY <1>2, <1>3, <1>4 DEF Ended, Lives
  <2> HIDE DEF retried
  <2>4. LifeOK(next) /\ next.agent.told = l.agent.fail
    BY <1>5, <2>2, <2>3, RespawnKeeps
  <2>5. root \/ NothingOnRecord(l.cache)
    BY <1>4, <1>9, <1>12 DEF NothingOnRecord
  <2>6. CASE m = next
    BY <2>4, <2>5, <2>6 DEF Reborn
  <2>7. CASE m = Abandoned(retried)
    <3>1. Ended(m)
      BY <2>2, <2>7, AbandonedEnds
    <3>2. QED
      BY <3>1, EndedIsOK DEF Reborn
  <2>8. QED
    BY <1>12, <2>6, <2>7
<1>13. QED
  BY <1>7, <1>10, <1>11, <1>12

----------------------------------------------------------------------------
(* Review *)

(* A step of a task either respawns nobody, or the new agent is told why   *)
(* and no accepted answer for the same words is on record.                 *)
Follows(l, m) ==
  \/ m.attempts = l.attempts /\ m.rejections = l.rejections
  \/ Alive(m) => /\ l.event.what # "watchdog" => m.agent.told = Why(l.event)
                 /\ root \/ NothingOnRecord(l.cache)

LEMMA LifeInHand ==
  ASSUME NEW l, LifeOK(l), Alive(l), l.event.kind # "none"
  PROVE  InHand(l) /\ l.agent \in AgentStates
<1>1. ~l.kids.open
  BY DEF LifeOK, EventOfAgent, NoEvent, Event
<1>2. QED
  BY <1>1 DEF LifeOK, InHand, Lives, Alive

(* Changing the agent, but for its crashes, keeps a task in hand.          *)
WithAgent(l, b) == [l EXCEPT !.agent = b]

(* m is l but for the agent. *)
ButForAgent(l, m) ==
  /\ m.event = l.event /\ m.cache = l.cache /\ m.status = l.status /\ m.kids = l.kids
  /\ m.attempts = l.attempts /\ m.rejections = l.rejections /\ m.partial = l.partial

LEMMA InHandChanges ==
  ASSUME NEW l, InHand(l), NEW b \in AgentStates, b.crashes = l.agent.crashes
  PROVE  /\ InHand(WithAgent(l, b)) /\ WithAgent(l, b).agent = b
         /\ ButForAgent(l, WithAgent(l, b))
<1> DEFINE m == [l EXCEPT !.agent = b]
<1>1. /\ m \in Lives({m.event}) /\ m.agent = b /\ m.event = l.event /\ m.cache = l.cache
      /\ m.kids = l.kids /\ m.attempts = l.attempts /\ m.rejections = l.rejections
      /\ m.partial = l.partial /\ m.result = l.result /\ m.status = l.status
  BY DEF InHand, Lives
<1>2. Alive(m)
  BY <1>1, AgentIsNotGone DEF Alive
<1> HIDE DEF m
<1>3. InHand(m)
  BY <1>1, <1>2 DEF InHand, Counted, Salvageable, ServedWell, Alive
<1>4. QED
  BY <1>1, <1>3 DEF m, WithAgent, ButForAgent

LEMMA BlamedInHand ==
  ASSUME NEW l, InHand(l), NEW why \in Reasons
  PROVE  /\ InHand(Blamed(l, why)) /\ Blamed(l, why).agent.fail = why
         /\ Blamed(l, why).agent \in AgentStates
         /\ Blamed(l, why).agent.role = l.agent.role
         /\ Blamed(l, why).agent.crashes = l.agent.crashes
         /\ Blamed(l, why).cache = l.cache /\ Blamed(l, why).event = l.event
         /\ Blamed(l, why).attempts = l.attempts /\ Blamed(l, why).rejections = l.rejections
         /\ Blamed(l, why).status = l.status /\ Blamed(l, why).kids = l.kids
<1> DEFINE b == [l.agent EXCEPT !.fail = why]
<1>1. l.agent \in AgentStates
  BY DEF InHand, Lives, Alive
<1>2. b \in AgentStates /\ b.fail = why /\ b.role = l.agent.role /\ b.crashes = l.agent.crashes
  BY <1>1 DEF AgentStates
<1>3. Blamed(l, why) = WithAgent(l, b)
  BY DEF Blamed, WithAgent, InHand, Lives
<1> HIDE DEF b
<1>4. QED
  BY <1>2, <1>3, InHandChanges DEF ButForAgent

(* A rejected report is followed by an agent that is told so. *)
LEMMA RejectedFollows ==
  ASSUME NEW l, InHand(l), NEW k, l.event.kind = "report", k.event = l.event,
         InHand(k), k.cache = l.cache, NEW room \in BOOLEAN,
         k.agent.role = l.agent.role,
         NEW m \in KillAndRespawn(Blamed(k, "rejected"), l.agent.role, TRUE, room)
  PROVE  LifeOK(m) /\ Follows(l, m)
<1>1. "rejected" \in Reasons
  BY DEF Reasons
<1>2. /\ InHand(Blamed(k, "rejected")) /\ Blamed(k, "rejected").agent.fail = "rejected"
      /\ Blamed(k, "rejected").cache = l.cache
  BY <1>1, BlamedInHand
<1>3. l.agent.role \in AgentRoles
  BY DEF InHand, Lives, Alive, AgentStates
<1>4. LifeOK(m) /\ Reborn(Blamed(k, "rejected"), m)
  BY <1>2, <1>3, KillAndRespawnKeeps
<1>5. Why(l.event) = "rejected"
  BY DEF Why
<1>6. QED
  BY <1>2, <1>4, <1>5 DEF Reborn, Follows

(* What the judge looked at is kept: it was not turned away before.        *)
LEMMA KeptInHand ==
  ASSUME NEW l, InHand(l), NEW report \in Reports \cup {"placeholder"},
         ~StructuralReject(l, report)
  PROVE  LET p == [report |-> Trimmed(report), role |-> l.agent.role,
                   grounded |-> l.kids.completed]
             k == [l EXCEPT !.partial = p]
         IN /\ InHand(k) /\ k.agent = l.agent /\ k.event = l.event /\ k.cache = l.cache
            /\ k.attempts = l.attempts /\ k.rejections = l.rejections
            /\ p \in Partials /\ k.kids = l.kids
<1> DEFINE p == [report |-> Trimmed(report), role |-> l.agent.role,
                 grounded |-> l.kids.completed]
           k == [l EXCEPT !.partial = p]
<1>1. l.agent.role \in AgentRoles /\ l.kids.completed \in BOOLEAN
  BY DEF InHand, Lives, Alive, AgentStates
<1>2. Trimmed(report) \in Texts
  BY DEF Trimmed, Texts
<1>3. p \in Partials /\ Clean(p)
  <2>1. p \in Partials
    BY <1>1, <1>2 DEF Partials
  <2>2. report \notin {"placeholder", "echo"} /\ (report \in SoftwareShaped => software)
    BY DEF StructuralReject
  <2>3. Trimmed(report) \notin {"placeholder", "echo"}
    BY <2>2 DEF Trimmed
  <2>4. Trimmed(report) \in SoftwareShaped => software
    BY <2>2 DEF Trimmed, SoftwareShaped
  <2>5. l.agent.role = "decomposer" => l.kids.completed
    BY DEF StructuralReject
  <2>6. QED
    BY <2>1, <2>3, <2>4, <2>5 DEF Clean
<1> HIDE DEF p
<1>4. /\ k \in Lives({k.event}) /\ k.agent = l.agent /\ k.event = l.event /\ k.cache = l.cache
      /\ k.kids = l.kids /\ k.attempts = l.attempts /\ k.rejections = l.rejections
      /\ k.partial = p /\ k.result = l.result /\ k.status = l.status
  BY <1>3 DEF InHand, Lives
<1> HIDE DEF k
<1>5. InHand(k)
  BY <1>3, <1>4 DEF InHand, Counted, Salvageable, ServedWell, Alive
<1>6. QED
  BY <1>3, <1>4, <1>5 DEF k, p

LEMMA WarnedKeeps ==
  ASSUME NEW l, InHand(l), l.event.kind = "report", NEW k, InHand(k),
         k.agent = l.agent, k.event = l.event, k.cache = l.cache,
         k.attempts = l.attempts, k.rejections = l.rejections,
         l.agent.crashes < MaxConsecutiveCrashes,
         NEW report \in Reports \cup {"placeholder"}, NEW room \in BOOLEAN,
         NEW m \in Warned(k, report, room)
  PROVE  LifeOK(m) /\ Follows(l, m)
<1> DEFINE a == k.agent
           spent == OneMore(a.cycles)
           strikes == a.warnings + 1
           b == [[a EXCEPT !.cycles = spent] EXCEPT !.warnings = strikes]
           charged == WithAgent(k, b)
           c == [[b EXCEPT !.fail = "sent back"] EXCEPT !.warned = report]
           told == WithAgent(charged, c)
           sentBack == [told EXCEPT !.event = NoEvent]
<1>1. a \in AgentStates
  BY DEF InHand, Lives, Alive
<1>2. spent \in Nat /\ strikes \in Nat
  <2>1. a.cycles \in Nat /\ a.warnings \in Nat
    BY <1>1 DEF AgentStates
  <2> HIDE DEF a
  <2>2. spent \in Nat
    BY <2>1, OneMoreType
  <2>3. QED
    BY <2>1, <2>2
<1> HIDE DEF spent, strikes
<1>3. b \in AgentStates /\ b.crashes = a.crashes /\ b.role = a.role
  BY <1>1, <1>2 DEF AgentStates
<1>4. report \in Texts
  BY DEF Texts
<1>5. c \in AgentStates /\ c.crashes = b.crashes
  BY <1>3, <1>4 DEF AgentStates, Reasons
<1> DEFINE written == [k EXCEPT !.agent.cycles = OneMore(@), !.agent.warnings = @ + 1]
           back == [charged EXCEPT !.event = NoEvent, !.agent.fail = "sent back",
                                   !.agent.warned = report]
<1>6. written = charged
  BY <1>1 DEF spent, strikes, AgentStates, InHand, Lives, WithAgent
<1>7. charged.agent = b /\ back = sentBack
  BY DEF InHand, Lives, WithAgent
<1>8. \/ m \in KillAndRespawn(Blamed(charged, "rejected"), l.agent.role, TRUE, room)
      \/ m = Abandoned(Retired(charged))
      \/ m = sentBack
  <2> HIDE DEF charged, sentBack, written
  <2>1. \/ m \in KillAndRespawn(Blamed(written, "rejected"), k.agent.role, TRUE, room)
        \/ m \in {Abandoned(Retired(written))}
        \/ m \in {[written EXCEPT !.event = NoEvent, !.agent.fail = "sent back",
                                  !.agent.warned = report]}
    BY DEF Warned, written
  <2>2. QED
    BY <1>6, <1>7, <2>1
<1> HIDE DEF b, c, back, written
<1>9. /\ InHand(charged) /\ charged.event = l.event /\ charged.cache = l.cache
      /\ charged.attempts = l.attempts /\ charged.rejections = l.rejections
  BY <1>3, InHandChanges DEF ButForAgent
<1> HIDE DEF charged
<1>10. CASE m \in KillAndRespawn(Blamed(charged, "rejected"), l.agent.role, TRUE, room)
  BY <1>3, <1>7, <1>9, <1>10, RejectedFollows
<1>11. CASE m = Abandoned(Retired(charged))
  <2>1. Ended(Retired(charged))
    BY <1>9, RetiredEnds DEF InHand
  <2>2. Ended(m)
    BY <1>11, <2>1, AbandonedEnds
  <2>3. QED
    BY <2>2, EndedIsOK DEF Follows
<1>12. CASE m = sentBack
  <2>1. /\ InHand(told) /\ told.agent = c /\ told.event = l.event
        /\ told.attempts = l.attempts /\ told.rejections = l.rejections
    BY <1>3, <1>5, <1>7, <1>9, InHandChanges DEF ButForAgent
  <2> HIDE DEF told
  <2>2. /\ m \in Lives({NoEvent}) /\ m.event = NoEvent /\ m.agent = c /\ m.kids = told.kids
        /\ m.attempts = l.attempts /\ m.rejections = l.rejections
        /\ m.partial = told.partial /\ m.result = told.result /\ m.status = told.status
    BY <1>12, <2>1 DEF InHand, Lives
  <2>3. NoEvent.kind = "none"
    BY DEF NoEvent, Event
  <2>4. LifeOK(m)
    BY <1>3, <1>5, <2>1, <2>2, <2>3
       DEF LifeOK, InHand, Counted, CrashesToldOf, EventOfAgent, Salvageable, ServedWell, Alive
  <2>5. QED
    BY <2>2, <2>4 DEF Follows
<1>13. QED
  BY <1>8, <1>10, <1>11, <1>12

LEMMA AcceptedKeeps ==
  ASSUME NEW l, InHand(l), NEW report, NEW critique \in Completions,
         Trimmed(report) \in Texts, l.agent.crashes < MaxConsecutiveCrashes
  PROVE  /\ LifeOK(Accepted(l, report, critique))
         /\ Accepted(l, report, critique).attempts = l.attempts
         /\ Accepted(l, report, critique).rejections = l.rejections
<1> DEFINE p == [report |-> Trimmed(report), role |-> l.agent.role, grounded |-> TRUE]
           result == [NoResult EXCEPT !.kind = "accepted", !.critique = critique, !.of = p]
           cache == IF root THEN l.cache ELSE l.cache \cup {Entry("self", "accepted", "same")}
           m == [l EXCEPT !.status = "completed", !.event = NoEvent, !.result = result,
                          !.cache = cache]
<1>1. l.agent.role \in AgentRoles /\ l.cache \in SUBSET Donors
  BY DEF InHand, Lives, Alive, AgentStates
<1>2. p \in Partials
  BY <1>1 DEF Partials
<1>3. cache \in SUBSET Donors
  BY <1>1 DEF Entry, Donors
<1> HIDE DEF p, cache
<1>4. result \in Results /\ result.kind = "accepted"
  BY <1>2, NoResultShape DEF Results
<1> HIDE DEF result
<1>5. /\ m \in Lives({NoEvent}) /\ m.event = NoEvent /\ m.agent = l.agent /\ m.kids = l.kids
      /\ m.attempts = l.attempts /\ m.rejections = l.rejections
      /\ m.partial = l.partial /\ m.result = result /\ m.status = "completed"
  BY <1>3, <1>4 DEF InHand, Lives
<1>6. Accepted(l, report, critique) = m
  BY DEF Accepted, result, p, cache, InHand, Lives
<1> HIDE DEF m
<1>7. NoEvent.kind = "none"
  BY DEF NoEvent, Event
<1>8. LifeOK(m)
  BY <1>4, <1>5, <1>7
     DEF LifeOK, InHand, Counted, CrashesToldOf, EventOfAgent, Salvageable, ServedWell, Alive
<1>9. QED
  BY <1>5, <1>6, <1>8

LEMMA HandleCompletionKeeps ==
  ASSUME NEW l, LifeOK(l), l.event.kind = "report",
         NEW similarity, NEW critique \in Completions, NEW room \in BOOLEAN,
         NEW m \in Reviewed(l, l.event.what, similarity, critique, room)
  PROVE  LifeOK(m) /\ Follows(l, m)
<1> DEFINE report == l.event.what
           p == [report |-> Trimmed(report), role |-> l.agent.role,
                 grounded |-> l.kids.completed]
           kept == [l EXCEPT !.partial = p]
<1>1. /\ Alive(l) /\ report \in Reports \cup {"placeholder"}
      /\ l.agent.crashes < MaxConsecutiveCrashes
  BY DEF LifeOK, EventOfAgent, CrashesToldOf
<1>2. InHand(l)
  BY <1>1, LifeInHand
<1>3. \/ StructuralReject(l, report)
         /\ m \in KillAndRespawn(Blamed(l, "rejected"), l.agent.role, TRUE, room)
      \/ /\ ~StructuralReject(l, report)
         /\ \/ m \in KillAndRespawn(Blamed(kept, "rejected"), l.agent.role, TRUE, room)
            \/ m \in Warned(kept, report, room)
            \/ m = Accepted(kept, report, critique)
  BY DEF Reviewed
<1>4. Trimmed(report) \in Texts
  BY <1>1 DEF Trimmed, Texts
<1> HIDE DEF report
<1>5. ~StructuralReject(l, report) =>
        /\ InHand(kept) /\ kept.agent = l.agent /\ kept.event = l.event
        /\ kept.cache = l.cache /\ kept.attempts = l.attempts
        /\ kept.rejections = l.rejections
  BY <1>1, <1>2, KeptInHand
<1> HIDE DEF kept
<1>6. CASE m \in KillAndRespawn(Blamed(l, "rejected"), l.agent.role, TRUE, room)
  BY <1>2, <1>6, RejectedFollows
<1>7. CASE /\ ~StructuralReject(l, report)
           /\ m \in KillAndRespawn(Blamed(kept, "rejected"), l.agent.role, TRUE, room)
  BY <1>2, <1>5, <1>7, RejectedFollows
<1>8. CASE ~StructuralReject(l, report) /\ m \in Warned(kept, report, room)
  BY <1>1, <1>2, <1>5, <1>8, WarnedKeeps
<1>9. CASE ~StructuralReject(l, report) /\ m = Accepted(kept, report, critique)
  BY <1>1, <1>4, <1>5, <1>9, AcceptedKeeps DEF Follows
<1>10. QED
  BY <1>3, <1>6, <1>7, <1>8, <1>9

----------------------------------------------------------------------------
(* Failures, subtasks and tool calls *)

LEMMA HandleFailureKeeps ==
  ASSUME NEW l, LifeOK(l), l.event.kind = "failure", Alive(l), NEW room \in BOOLEAN,
         NEW m \in Failed(l, room)
  PROVE  LifeOK(m) /\ Follows(l, m)
<1> DEFINE tooLarge == l.event.role = "executor" /\ l.event.what \in {"too large", "rerouted"}
           role == IF tooLarge THEN "decomposer" ELSE l.event.role
           free == l.event.what = "batch" /\ l.rejections < MaxDerivedRejections
           n == IF free THEN l.rejections + 1 ELSE l.rejections
           counted == [l EXCEPT !.rejections = n]
           failure == {Entry("self", "rejected", "same")}
           closed == [Retired(l) EXCEPT !.cache = @ \cup failure]
<1>1. InHand(l)
  BY LifeInHand
<1>2. /\ l.event.role \in AgentRoles
      /\ l.event.what # "watchdog" => l.agent.fail = Why(l.event)
  BY DEF LifeOK, EventOfAgent
<1>3. role \in AgentRoles /\ free \in BOOLEAN
  BY <1>2 DEF AgentRoles
<1>4. n \in Nat /\ n <= MaxDerivedRejections
  BY <1>1, LimitsAreCounts DEF InHand, Counted, Lives
<1>5. [l EXCEPT !.rejections = IF free THEN @ + 1 ELSE @] = counted
  BY DEF InHand, Lives
<1>6. \/ m = Abandoned(closed)
      \/ m \in KillAndRespawn(counted, role, ~free, room)
  BY <1>5 DEF Failed
<1> HIDE DEF role, free, n, tooLarge
<1>7. /\ counted \in Lives({counted.event}) /\ counted.agent = l.agent
      /\ counted.event = l.event /\ counted.cache = l.cache /\ counted.kids = l.kids
      /\ counted.attempts = l.attempts /\ counted.rejections = n
      /\ counted.partial = l.partial /\ counted.result = l.result
      /\ counted.status = l.status
  BY <1>1, <1>4 DEF InHand, Lives
<1> HIDE DEF counted
<1>8. InHand(counted)
  BY <1>1, <1>4, <1>7 DEF InHand, Counted, Salvageable, ServedWell, Alive
<1>9. CASE m = Abandoned(closed)
  <2>1. failure \in SUBSET Donors
    BY DEF Entry, Donors
  <2> HIDE DEF failure
  <2>2. Ended(Retired(l)) /\ l.attempts \in Nat /\ l.attempts <= MaxTaskAttempts
    BY <1>1, RetiredEnds DEF InHand, Lives, Counted
  <2>3. Ended(closed)
    BY <2>1, <2>2, EndedRecords
  <2>4. Ended(m)
    BY <1>9, <2>3, AbandonedEnds
  <2>5. QED
    BY <2>4, EndedIsOK DEF Follows
<1>10. CASE m \in KillAndRespawn(counted, role, ~free, room)
  <2>1. (~free) \in BOOLEAN
    BY DEF free
  <2>2. LifeOK(m) /\ Reborn(counted, m)
    BY <1>3, <1>8, <1>10, <2>1, KillAndRespawnKeeps
  <2>3. QED
    BY <1>2, <1>7, <2>2 DEF Reborn, Follows
<1>11. QED
  BY <1>6, <1>9, <1>10

(* A task whose agent changes and whose event is answered, or followed by  *)
(* one that names what the agent ended on.                                 *)
Answers(event, b) ==
  \/ event = NoEvent
  \/ \E what \in Reasons : /\ event = Event("failure", what, b.role)
                            /\ b.fail = what

Answered(l, b, event) == [l EXCEPT !.agent = b, !.event = event]

LEMMA AnsweredOK ==
  ASSUME NEW l, InHand(l), NEW b \in AgentStates, b.crashes = l.agent.crashes,
         l.agent.crashes < MaxConsecutiveCrashes, NEW event, Answers(event, b)
  PROVE  /\ LifeOK(Answered(l, b, event)) /\ Answered(l, b, event).attempts = l.attempts
         /\ Answered(l, b, event).rejections = l.rejections
<1> DEFINE m == [l EXCEPT !.agent = b, !.event = event]
<1>1. /\ m \in Lives({m.event}) /\ m.agent = b /\ m.event = event
      /\ m.kids = l.kids /\ m.attempts = l.attempts /\ m.rejections = l.rejections
      /\ m.partial = l.partial /\ m.result = l.result /\ m.status = l.status
  BY DEF InHand, Lives
<1> HIDE DEF m
<1>2. Alive(m)
  BY <1>1, AgentIsNotGone DEF Alive
<1>3. \/ event.kind = "none"
      \/ event.kind = "failure" /\ event.role \in AgentRoles /\ b.fail = Why(event)
  <2>1. CASE event = NoEvent
    BY <2>1 DEF NoEvent, Event
  <2>2. CASE event # NoEvent
    <3>1. PICK what \in Reasons : event = Event("failure", what, b.role) /\ b.fail = what
      BY <2>2 DEF Answers
    <3>2. event.kind = "failure" /\ event.what = what /\ event.role = b.role
      BY <3>1 DEF Event
    <3>3. what # "too large"
      BY DEF Reasons
    <3>4. Why(event) = what
      BY <3>2, <3>3 DEF Why
    <3>5. b.role \in AgentRoles
      BY DEF AgentStates
    <3>6. QED
      BY <3>1, <3>2, <3>4, <3>5
  <2>3. QED
    BY <2>1, <2>2
<1>4. LifeOK(m)
  BY <1>1, <1>2, <1>3
     DEF LifeOK, InHand, Counted, CrashesToldOf, EventOfAgent, Salvageable, ServedWell, Alive
<1>5. QED
  BY <1>1, <1>4 DEF m, Answered

LEMMA ReleasedKeeps ==
  ASSUME NEW l, InHand(l), l.agent.crashes < MaxConsecutiveCrashes, NEW outOfEnergy \in BOOLEAN
  PROVE  LET m == Released(l, outOfEnergy)
         IN LifeOK(m) /\ m.attempts = l.attempts /\ m.rejections = l.rejections
<1> DEFINE told == Blamed(l, "spawn")
           a == told.agent
           spent == OneMore(a.cycles)
           shut == a.spawnClosed \/ outOfEnergy
           b == [a EXCEPT !.awaiting = FALSE, !.cycles = spent, !.spawnClosed = shut]
           m == Released(l, outOfEnergy)
           failed == Event("failure", "spawn", l.agent.role)
<1>1. "spawn" \in Reasons
  BY DEF Reasons
<1>2. /\ InHand(told) /\ a.fail = "spawn" /\ a \in AgentStates /\ a.role = l.agent.role
      /\ a.crashes = l.agent.crashes
      /\ told.attempts = l.attempts /\ told.rejections = l.rejections
  BY <1>1, BlamedInHand
<1>3. \/ m = [told EXCEPT !.event = failed]
      \/ m = [told EXCEPT !.event = NoEvent, !.agent.awaiting = FALSE,
                          !.agent.cycles = OneMore(@), !.agent.spawnClosed = @ \/ outOfEnergy]
  BY DEF Released
<1> HIDE DEF told, m
<1>4. spent \in Nat /\ shut \in BOOLEAN
  BY <1>2, OneMoreType DEF AgentStates
<1>5. [told EXCEPT !.event = NoEvent, !.agent.awaiting = FALSE,
                   !.agent.cycles = OneMore(@), !.agent.spawnClosed = @ \/ outOfEnergy]
      = [told EXCEPT !.agent = b, !.event = NoEvent]
  BY <1>2 DEF InHand, Lives, AgentStates
<1>6. [told EXCEPT !.event = failed] = [told EXCEPT !.agent = a, !.event = failed]
  BY <1>2 DEF InHand, Lives
<1> HIDE DEF spent, shut
<1>7. b \in AgentStates /\ b.crashes = a.crashes
  BY <1>2, <1>4 DEF AgentStates
<1> HIDE DEF b
<1>8. Answers(failed, a) /\ Answers(NoEvent, b)
  BY <1>1, <1>2 DEF Answers
<1> DEFINE broken == Answered(told, a, failed)
           woken == Answered(told, b, NoEvent)
<1>9. told.agent.crashes < MaxConsecutiveCrashes
  BY <1>2
<1> HIDE DEF failed
<1>10. LifeOK(broken) /\ broken.attempts = l.attempts /\ broken.rejections = l.rejections
  BY <1>2, <1>8, <1>9, AnsweredOK
<1>11. LifeOK(woken) /\ woken.attempts = l.attempts /\ woken.rejections = l.rejections
  BY <1>2, <1>7, <1>8, <1>9, AnsweredOK
<1> HIDE DEF broken, woken
<1>12. m \in {broken, woken}
  BY <1>3, <1>5, <1>6 DEF Answered, broken, woken
<1>13. QED
  BY <1>10, <1>11, <1>12 DEF m

LEMMA RefusedKeeps ==
  ASSUME NEW l, InHand(l), l.agent.crashes < MaxConsecutiveCrashes, NEW what \in Reasons
  PROVE  LET m == [Blamed(l, what) EXCEPT !.event = Event("failure", what, l.agent.role)]
         IN LifeOK(m) /\ m.attempts = l.attempts /\ m.rejections = l.rejections
<1> DEFINE told == Blamed(l, what)
           a == told.agent
           failed == Event("failure", what, l.agent.role)
           m == [told EXCEPT !.event = failed]
<1>1. /\ InHand(told) /\ a.fail = what /\ a \in AgentStates /\ a.role = l.agent.role
      /\ a.crashes = l.agent.crashes
      /\ told.attempts = l.attempts /\ told.rejections = l.rejections
  BY BlamedInHand
<1>2. Answers(failed, a)
  BY <1>1 DEF Answers
<1> HIDE DEF told, failed
<1>3. m = Answered(told, a, failed)
  BY <1>1 DEF Answered, InHand, Lives
<1> HIDE DEF m
<1>4. QED
  BY <1>1, <1>2, <1>3, AnsweredOK DEF m, told, failed

LEMMA StartedKeeps ==
  ASSUME NEW l, InHand(l), l.agent.crashes < MaxConsecutiveCrashes
  PROVE  LET m == [l EXCEPT !.event = NoEvent, !.kids.open = TRUE, !.agent.spawned = TRUE]
         IN LifeOK(m) /\ m.attempts = l.attempts /\ m.rejections = l.rejections
<1> DEFINE b == [l.agent EXCEPT !.spawned = TRUE]
           kids == [l.kids EXCEPT !.open = TRUE]
           m == [l EXCEPT !.event = NoEvent, !.kids = kids, !.agent = b]
<1>1. l.agent \in AgentStates /\ l.kids \in [open : BOOLEAN, completed : BOOLEAN]
  BY DEF InHand, Lives, Alive
<1>2. /\ b \in AgentStates /\ b.crashes = l.agent.crashes
      /\ kids \in [open : BOOLEAN, completed : BOOLEAN]
  BY <1>1 DEF AgentStates
<1>3. m = [l EXCEPT !.event = NoEvent, !.kids.open = TRUE, !.agent.spawned = TRUE]
  BY DEF InHand, Lives
<1> HIDE DEF b, kids
<1>4. /\ m \in Lives({NoEvent}) /\ m.agent = b /\ m.event = NoEvent
      /\ m.attempts = l.attempts /\ m.rejections = l.rejections
      /\ m.partial = l.partial /\ m.result = l.result /\ m.status = l.status
  BY <1>2 DEF InHand, Lives
<1> HIDE DEF m
<1>5. Alive(m)
  BY <1>2, <1>4, AgentIsNotGone DEF Alive
<1>6. NoEvent.kind = "none"
  BY DEF NoEvent, Event
<1>7. LifeOK(m)
  BY <1>2, <1>4, <1>5, <1>6
     DEF LifeOK, InHand, Counted, CrashesToldOf, EventOfAgent, Salvageable, ServedWell, Alive
<1>8. QED
  BY <1>3, <1>4, <1>7

LEMMA HandleSpawnKeeps ==
  ASSUME NEW l, LifeOK(l), l.event.kind = "spawn", NEW m \in SpawnOutcomes(l)
  PROVE  LifeOK(m) /\ Follows(l, m)
<1>1. Alive(l) /\ l.agent.crashes < MaxConsecutiveCrashes
  BY DEF LifeOK, EventOfAgent, CrashesToldOf
<1>2. InHand(l)
  BY <1>1, LifeInHand
<1> DEFINE started == [l EXCEPT !.event = NoEvent, !.kids.open = TRUE, !.agent.spawned = TRUE]
           refused(what) == [Blamed(l, what) EXCEPT !.event = Event("failure", what, l.agent.role)]
<1>3. m \in {refused("rerouted"), refused("batch"), started,
             Released(l, FALSE), Released(l, TRUE)}
  BY DEF SpawnOutcomes
<1>4. "rerouted" \in Reasons /\ "batch" \in Reasons
  BY DEF Reasons
<1>5. LifeOK(started) /\ started.attempts = l.attempts /\ started.rejections = l.rejections
  BY <1>1, <1>2, StartedKeeps
<1>6. \A what \in Reasons : /\ LifeOK(refused(what)) /\ refused(what).attempts = l.attempts
                            /\ refused(what).rejections = l.rejections
  BY <1>1, <1>2, RefusedKeeps
<1>7. \A spent \in BOOLEAN : /\ LifeOK(Released(l, spent))
                             /\ Released(l, spent).attempts = l.attempts
                             /\ Released(l, spent).rejections = l.rejections
  BY <1>1, <1>2, ReleasedKeeps
<1> HIDE DEF started, refused
<1>8. LifeOK(m) /\ m.attempts = l.attempts /\ m.rejections = l.rejections
  BY <1>3, <1>4, <1>5, <1>6, <1>7
<1>9. QED
  BY <1>8 DEF Follows

LEMMA HandleToolRequestKeeps ==
  ASSUME NEW l, LifeOK(l), l.event.kind = "tool", NEW success \in BOOLEAN
  PROVE  LifeOK(ToolAnswered(l, success)) /\ Follows(l, ToolAnswered(l, success))
<1> DEFINE a == l.agent
           refused == [a EXCEPT !.fail = "tool"]
           b == IF a.role = "decomposer" THEN refused ELSE ReceiveToolResult(a, success)
<1>1. Alive(l) /\ a.crashes < MaxConsecutiveCrashes
  BY DEF LifeOK, EventOfAgent, CrashesToldOf
<1>2. InHand(l) /\ a \in AgentStates
  BY <1>1, LifeInHand
<1>3. refused \in AgentStates /\ refused.crashes = a.crashes
  BY <1>2 DEF AgentStates, Reasons
<1>4. /\ ReceiveToolResult(a, success) \in AgentStates
      /\ ReceiveToolResult(a, success).crashes = a.crashes
  <2> DEFINE errors == Remember(a.recentErrors, ~success, MaxConsecutiveToolFailures)
             why == IF success THEN "none" ELSE "tool"
  <2>1. errors \in Seq(BOOLEAN)
    <3>1. (~success) \in BOOLEAN /\ a.recentErrors \in Seq(BOOLEAN)
      BY <1>2 DEF AgentStates
    <3>2. QED
      BY <3>1, RememberType, CapsAreNaturals
  <2>2. why \in Reasons
    BY DEF Reasons
  <2>3. ReceiveToolResult(a, success) = [a EXCEPT !.recentErrors = errors, !.fail = why]
    BY <1>2 DEF ReceiveToolResult, AgentStates
  <2> HIDE DEF errors, why
  <2>4. QED
    BY <1>2, <2>1, <2>2, <2>3 DEF AgentStates
<1>5. ToolAnswered(l, success) = Answered(l, b, NoEvent)
  BY <1>2 DEF ToolAnswered, Answered, InHand, Lives
<1> HIDE DEF refused
<1>6. b \in AgentStates /\ b.crashes = a.crashes
  BY <1>3, <1>4
<1> HIDE DEF b
<1>7. Answers(NoEvent, b)
  BY DEF Answers
<1>8. QED
  BY <1>1, <1>2, <1>5, <1>6, <1>7, AnsweredOK DEF Follows

----------------------------------------------------------------------------
(* A run *)

(* A task whose agent may run. *)
Runs(l) == /\ LifeOK(l) /\ l.status = "running" /\ Alive(l) /\ ~l.agent.awaiting
           /\ l.event = NoEvent /\ ~l.kids.open

LEMMA RunsInHand ==
  ASSUME NEW l, Runs(l)
  PROVE  /\ InHand(l) /\ l.agent \in AgentStates
         /\ l.agent.crashes < MaxConsecutiveCrashes
<1>1. l.event.kind = "none"
  BY DEF Runs, NoEvent, Event
<1>2. QED
  BY <1>1 DEF Runs, LifeOK, InHand, Lives, Alive, CrashesToldOf

LEMMA CeilingAfterRun ==
  ASSUME NEW l, NEW m, LifeOK(m), m.attempts = l.attempts, m.rejections = l.rejections,
         m.event.kind \in {"none", "failure"}, ~m.kids.open
  PROVE  LifeOK(EnforceCeiling(m)) /\ Follows(l, EnforceCeiling(m))
BY EnforceCeilingKeeps DEF Follows

LEMMA RunThinkKeeps ==
  ASSUME NEW l, Runs(l)
  PROVE  LET m == EnforceCeiling([l EXCEPT !.agent = [RunThinking(@) EXCEPT !.crashes = 0]])
         IN LifeOK(m) /\ Follows(l, m)
<1> DEFINE a == l.agent
           ran == RunThinking(a)
           b == [ran EXCEPT !.crashes = 0]
           m == [l EXCEPT !.agent = b]
<1>1. InHand(l) /\ a \in AgentStates
  BY RunsInHand
<1>2. ran \in AgentStates
  BY <1>1, RunThinkingShape DEF Ran
<1> HIDE DEF ran
<1>3. b \in AgentStates /\ b.crashes = 0
  BY <1>2 DEF AgentStates
<1>4. [l EXCEPT !.agent = [RunThinking(@) EXCEPT !.crashes = 0]] = m
  BY DEF ran
<1> HIDE DEF b
<1>5. /\ m \in Lives({NoEvent}) /\ m.agent = b /\ m.event = NoEvent /\ m.kids = l.kids
      /\ m.attempts = l.attempts /\ m.rejections = l.rejections
      /\ m.partial = l.partial /\ m.result = l.result /\ m.status = l.status
  BY <1>1, <1>3 DEF InHand, Lives, Runs
<1> HIDE DEF m
<1>6. /\ NoEvent.kind = "none" /\ ~m.kids.open
      /\ 0 < MaxConsecutiveCrashes /\ 0 <= MaxConsecutiveCrashes
  BY <1>5, LimitsAreCounts DEF NoEvent, Event, Runs
<1>7. Alive(m)
  BY <1>3, <1>5, AgentIsNotGone DEF Alive
<1>8. LifeOK(m)
  BY <1>1, <1>3, <1>5, <1>6, <1>7
     DEF LifeOK, InHand, Counted, CrashesToldOf, EventOfAgent, Salvageable, ServedWell, Alive
<1>9. LifeOK(EnforceCeiling(m)) /\ Follows(l, EnforceCeiling(m))
  BY <1>5, <1>6, <1>8, CeilingAfterRun
<1>10. QED
  BY <1>4, <1>9

(* What a run pushed: nothing, or an event of the agent that, if it failed, *)
(* names what it ended on.                                                 *)
Pushed(event, b) ==
  \/ event = NoEvent
  \/ /\ event.kind \in {"report", "spawn", "tool"}
     /\ event.kind = "report" => event.what \in Reports \cup {"placeholder"}
  \/ /\ event.kind = "failure" /\ event.role \in AgentRoles
     /\ b.fail = Why(event)

LEMMA PushedOK ==
  ASSUME NEW l, Runs(l), NEW b \in AgentStates, b.crashes <= MaxConsecutiveCrashes,
         NEW event, Pushed(event, b),
         event.kind = "failure" \/ b.crashes < MaxConsecutiveCrashes
  PROVE  /\ LifeOK(Answered(l, b, event)) /\ Answered(l, b, event).event = event
         /\ Answered(l, b, event).attempts = l.attempts
         /\ Answered(l, b, event).rejections = l.rejections
         /\ ~Answered(l, b, event).kids.open
<1> DEFINE m == [l EXCEPT !.agent = b, !.event = event]
<1>1. InHand(l)
  BY RunsInHand
<1>2. /\ m \in Lives({m.event}) /\ m.agent = b /\ m.event = event
      /\ m.kids = l.kids /\ m.attempts = l.attempts /\ m.rejections = l.rejections
      /\ m.partial = l.partial /\ m.result = l.result /\ m.status = l.status
  BY <1>1 DEF InHand, Lives
<1> HIDE DEF m
<1>3. Alive(m)
  BY <1>2, AgentIsNotGone DEF Alive
<1>4. ~m.kids.open
  BY <1>2 DEF Runs
<1>5. NoEvent.kind = "none"
  BY DEF NoEvent, Event
<1>6. EventOfAgent(m)
  BY <1>2, <1>3, <1>4, <1>5 DEF Pushed, EventOfAgent
<1>7. LifeOK(m)
  BY <1>1, <1>2, <1>3, <1>6
     DEF LifeOK, InHand, Counted, CrashesToldOf, Salvageable, ServedWell, Alive
<1>8. QED
  BY <1>2, <1>4, <1>7 DEF m, Answered

LEMMA CarriedPushed ==
  ASSUME NEW b \in AgentStates, NEW d, NEW kind \in {"report", "spawn", "tool", "failure"},
         NEW what \in Carried(kind, b.fail, d), NEW role \in AgentRoles
  PROVE  Pushed(Event(kind, what, role), b)
<1> DEFINE event == Event(kind, what, role)
<1>1. event.kind = kind /\ event.what = what /\ event.role = role
  BY DEF Event
<1> HIDE DEF event
<1>2. CASE kind = "report"
  <2>1. Carried(kind, b.fail, d) \subseteq Reports \cup {"placeholder"}
    BY <1>2 DEF Carried
  <2>2. QED
    BY <1>1, <1>2, <2>1 DEF Pushed, event
<1>3. CASE kind \in {"spawn", "tool"}
  BY <1>1, <1>3 DEF Pushed, event
<1>4. CASE kind = "failure"
  <2>1. what \in (IF b.fail = "died" THEN {"died", "too large"} ELSE {b.fail})
    BY <1>4 DEF Carried
  <2>2. b.fail # "too large"
    BY DEF AgentStates, Reasons
  <2>3. Why(event) = b.fail
    <3>1. CASE b.fail = "died"
      BY <1>1, <1>4, <2>1, <3>1 DEF Why
    <3>2. CASE b.fail # "died"
      BY <1>1, <1>4, <2>1, <2>2, <3>2 DEF Why
    <3>3. QED
      BY <3>1, <3>2
  <2>4. QED
    BY <1>1, <1>4, <2>3 DEF Pushed, event
<1>5. QED
  BY <1>2, <1>3, <1>4

LEMMA RunDecideKeeps ==
  ASSUME NEW l, Runs(l), NEW d, NEW call \in Calls, NEW available,
         NEW ran, ran = RunDeciding([l.agent EXCEPT !.crashes = 0], d, call, available),
         NEW what \in Carried(ran.event, ran.agent.fail, d),
         NEW event, event = IF ran.event = "none" THEN NoEvent
                            ELSE Event(ran.event, what, l.agent.role),
         NEW m, m = IF d.action \in {"REPORT", "DIE"} \/ HandedOff(ran.agent, d.action)
                      THEN Answered(l, ran.agent, event)
                      ELSE EnforceCeiling(Answered(l, ran.agent, event))
  PROVE  LifeOK(m) /\ Follows(l, m)
<1> DEFINE a == [l.agent EXCEPT !.crashes = 0]
           b == ran.agent
           done == Answered(l, b, event)
<1>1. l.agent \in AgentStates
  BY RunsInHand
<1>2. a \in AgentStates /\ a.crashes = 0 /\ a.role = l.agent.role /\ a.role \in AgentRoles
  BY <1>1 DEF AgentStates
<1> HIDE DEF a
<1>3. Executed(a, ran, d.action)
  BY <1>2, RunDecidingShape DEF a
<1>4. b \in AgentStates /\ b.crashes = 0
  BY <1>2, <1>3 DEF Executed, Ran
<1>5. 0 < MaxConsecutiveCrashes /\ 0 <= MaxConsecutiveCrashes
  BY LimitsAreCounts
<1>6. /\ Pushed(event, b)
      /\ event.kind = ran.event
  <2>1. CASE ran.event = "none"
    BY <2>1 DEF Pushed, NoEvent, Event
  <2>2. CASE ran.event # "none"
    <3>1. ran.event \in {"report", "spawn", "tool", "failure"}
      BY <1>3, <2>2 DEF Executed
    <3>2. Pushed(Event(ran.event, what, l.agent.role), b)
      BY <1>2, <1>4, <3>1, CarriedPushed
    <3>3. Event(ran.event, what, l.agent.role).kind = ran.event
      BY DEF Event
    <3>4. QED
      BY <2>2, <3>2, <3>3
  <2>3. QED
    BY <2>1, <2>2
<1>7. /\ LifeOK(done) /\ done.event = event
      /\ done.attempts = l.attempts /\ done.rejections = l.rejections /\ ~done.kids.open
  BY <1>4, <1>5, <1>6, PushedOK
<1> HIDE DEF done
<1>8. CASE m = done
  BY <1>7, <1>8 DEF Follows
<1>9. CASE /\ m = EnforceCeiling(done)
           /\ d.action \notin {"REPORT", "DIE"} /\ ~HandedOff(b, d.action)
  <2>1. done.event.kind \in {"none", "failure"}
    BY <1>3, <1>6, <1>7, <1>9 DEF Executed
  <2>2. QED
    BY <1>7, <1>9, <2>1, CeilingAfterRun
<1>10. QED
  BY <1>8, <1>9 DEF done

LEMMA RunThatFails ==
  ASSUME NEW l, Runs(l), NEW b \in AgentStates, b.crashes <= MaxConsecutiveCrashes,
         NEW event, Pushed(event, b), event.kind \in {"none", "failure"},
         event.kind = "failure" \/ b.crashes < MaxConsecutiveCrashes
  PROVE  /\ LifeOK(EnforceCeiling(Answered(l, b, event)))
         /\ Follows(l, EnforceCeiling(Answered(l, b, event)))
<1>1. /\ LifeOK(Answered(l, b, event)) /\ Answered(l, b, event).event = event
      /\ Answered(l, b, event).attempts = l.attempts
      /\ Answered(l, b, event).rejections = l.rejections
      /\ ~Answered(l, b, event).kids.open
  BY PushedOK
<1>2. QED
  BY <1>1, CeilingAfterRun

LEMMA CrashInRunKeeps ==
  ASSUME NEW l, Runs(l), NEW a, a = IF FinalOnly(l.agent) THEN l.agent ELSE Thought(l.agent),
         NEW crashed, crashed = [a EXCEPT !.crashes = @ + 1, !.fail = "crash"],
         NEW event, event = IF crashed.crashes < MaxConsecutiveCrashes THEN NoEvent
                            ELSE Event("failure", "crash", a.role)
  PROVE  /\ LifeOK(EnforceCeiling(Answered(l, crashed, event)))
         /\ Follows(l, EnforceCeiling(Answered(l, crashed, event)))
<1> DEFINE n == l.agent.crashes + 1
<1>1. l.agent \in AgentStates /\ l.agent.crashes < MaxConsecutiveCrashes
  BY RunsInHand
<1>2. a \in AgentStates /\ a.crashes = l.agent.crashes /\ a.role \in AgentRoles
  BY <1>1, ThoughtShape DEF Ran, AgentStates
<1>3. n \in Nat /\ n <= MaxConsecutiveCrashes
  <2>1. l.agent.crashes \in Nat
    BY <1>1 DEF AgentStates
  <2>2. QED
    BY <1>1, <2>1, LimitsAreCounts
<1>4. crashed = [a EXCEPT !.crashes = n, !.fail = "crash"]
  BY <1>2 DEF AgentStates
<1> HIDE DEF n
<1>5. crashed \in AgentStates /\ crashed.crashes = n /\ crashed.fail = "crash"
  BY <1>2, <1>3, <1>4 DEF AgentStates, Reasons
<1>6. /\ Pushed(event, crashed) /\ event.kind \in {"none", "failure"}
      /\ crashed.crashes <= MaxConsecutiveCrashes
      /\ event.kind = "failure" \/ crashed.crashes < MaxConsecutiveCrashes
  <2> crashed.crashes <= MaxConsecutiveCrashes
    BY <1>3, <1>5
  <2>1. CASE event = NoEvent /\ crashed.crashes < MaxConsecutiveCrashes
    BY <2>1 DEF Pushed, NoEvent, Event
  <2>2. CASE event = Event("failure", "crash", a.role)
    <3>1. event.kind = "failure" /\ event.what = "crash" /\ event.role = a.role
      BY <2>2 DEF Event
    <3>2. Why(event) = "crash"
      BY <3>1 DEF Why
    <3>3. QED
      BY <1>2, <1>5, <3>1, <3>2 DEF Pushed
  <2>3. QED
    <3>1. crashed.crashes < MaxConsecutiveCrashes \/ event = Event("failure", "crash", a.role)
      OBVIOUS
    <3>2. crashed.crashes < MaxConsecutiveCrashes => event = NoEvent
      OBVIOUS
    <3>3. QED
      BY <2>1, <2>2, <3>1, <3>2
<1>7. QED
  BY <1>5, <1>6, RunThatFails

----------------------------------------------------------------------------
(* The steps that leave the agent alone, or wake it *)

LEMMA WatchdogKeeps ==
  ASSUME NEW l, Runs(l), NEW m, m = [l EXCEPT !.event = Event("failure", "watchdog", l.agent.role)]
  PROVE  LifeOK(m) /\ Follows(l, m)
<1> DEFINE event == Event("failure", "watchdog", l.agent.role)
<1>1. InHand(l) /\ l.agent.role \in AgentRoles
  BY RunsInHand DEF AgentStates
<1>2. event.kind = "failure" /\ event.what = "watchdog" /\ event.role = l.agent.role
  BY DEF Event
<1> HIDE DEF event
<1>3. /\ m \in Lives({m.event}) /\ m.agent = l.agent /\ m.event = event
      /\ m.kids = l.kids /\ m.attempts = l.attempts /\ m.rejections = l.rejections
      /\ m.partial = l.partial /\ m.result = l.result /\ m.status = l.status
  BY <1>1 DEF InHand, Lives, event
<1>4. ~m.kids.open /\ Alive(m)
  BY <1>3 DEF Runs, Alive
<1>5. LifeOK(m)
  BY <1>1, <1>2, <1>3, <1>4
     DEF LifeOK, InHand, Counted, CrashesToldOf, EventOfAgent, Salvageable, ServedWell, Alive
<1>6. QED
  BY <1>3, <1>5 DEF Follows

LEMMA DropStaleKeeps ==
  ASSUME NEW l, LifeOK(l), l.status = "abandoned", l.event.kind \in {"report", "failure"},
         NEW m, m = [l EXCEPT !.event = NoEvent]
  PROVE  LifeOK(m) /\ Follows(l, m)
<1>1. /\ m \in Lives({NoEvent}) /\ m.agent = l.agent /\ m.event = NoEvent
      /\ m.kids = l.kids /\ m.attempts = l.attempts /\ m.rejections = l.rejections
      /\ m.partial = l.partial /\ m.result = l.result /\ m.status = l.status
  BY DEF LifeOK, Lives
<1>2. NoEvent.kind = "none"
  BY DEF NoEvent, Event
<1>3. LifeOK(m)
  BY <1>1, <1>2
     DEF LifeOK, Counted, CrashesToldOf, EventOfAgent, Salvageable, ServedWell, Alive
<1>4. QED
  BY <1>1, <1>3 DEF Follows

LEMMA CrossCeilingKeeps ==
  ASSUME NEW l, LifeOK(l), NEW m, m = [l EXCEPT !.over = TRUE]
  PROVE  LifeOK(m) /\ Follows(l, m)
<1>1. /\ m \in Lives({m.event}) /\ m.agent = l.agent /\ m.event = l.event /\ m.status = l.status
      /\ m.kids = l.kids /\ m.attempts = l.attempts /\ m.rejections = l.rejections
      /\ m.partial = l.partial /\ m.result = l.result
  BY DEF LifeOK, Lives
<1>2. LifeOK(m)
  BY <1>1 DEF LifeOK, Counted, CrashesToldOf, EventOfAgent, Salvageable, ServedWell, Alive
<1>3. QED
  BY <1>1, <1>2 DEF Follows

Woken(l) == [l EXCEPT !.agent.awaiting = FALSE]

LEMMA WokenKeeps ==
  ASSUME NEW l, InHand(l), l.event = NoEvent, l.agent.crashes < MaxConsecutiveCrashes
  PROVE  /\ LifeOK(Woken(l))
         /\ Woken(l).attempts = l.attempts /\ Woken(l).rejections = l.rejections
<1> DEFINE b == [l.agent EXCEPT !.awaiting = FALSE]
<1>1. l.agent \in AgentStates
  BY DEF InHand, Lives, Alive
<1>2. b \in AgentStates /\ b.crashes = l.agent.crashes
  BY <1>1 DEF AgentStates
<1>3. Woken(l) = Answered(l, b, NoEvent)
  BY DEF Woken, Answered, InHand, Lives
<1> HIDE DEF b
<1>4. Answers(NoEvent, b)
  BY DEF Answers
<1>5. QED
  BY <1>2, <1>3, <1>4, AnsweredOK

LEMMA ChildrenEndKeeps ==
  ASSUME NEW l, LifeOK(l), l.kids.open, NEW completed \in BOOLEAN,
         NEW closed, closed = [l EXCEPT !.kids = [open |-> FALSE,
                                                  completed |-> @.completed \/ completed]],
         NEW m, m = IF closed.over THEN EnforceCeiling(closed)
                    ELSE [closed EXCEPT !.agent.awaiting = FALSE]
  PROVE  LifeOK(m) /\ Follows(l, m)
<1> DEFINE done == l.kids.completed \/ completed
           kids == [open |-> FALSE, completed |-> done]
<1>1. Alive(l) /\ l.event = NoEvent /\ l.event.kind = "none"
  BY DEF LifeOK, EventOfAgent, NoEvent, Event
<1>2. l.agent \in AgentStates /\ l.agent.crashes < MaxConsecutiveCrashes
  BY <1>1 DEF LifeOK, Lives, Alive, CrashesToldOf
<1>3. kids \in [open : BOOLEAN, completed : BOOLEAN] /\ kids.open = FALSE
  BY DEF LifeOK, Lives
<1>4. closed = [l EXCEPT !.kids = kids]
  BY DEF LifeOK, Lives
<1> HIDE DEF kids
<1>5. /\ closed \in Lives({NoEvent}) /\ closed.agent = l.agent /\ closed.event = NoEvent
      /\ closed.kids = kids /\ closed.attempts = l.attempts /\ closed.rejections = l.rejections
      /\ closed.partial = l.partial /\ closed.result = l.result
      /\ closed.status = l.status
  BY <1>1, <1>3, <1>4 DEF LifeOK, Lives
<1>6. LifeOK(closed) /\ InHand(closed)
  BY <1>1, <1>2, <1>3, <1>5
     DEF LifeOK, InHand, Counted, CrashesToldOf, EventOfAgent, Salvageable, ServedWell, Alive
<1>7. LifeOK(EnforceCeiling(closed)) /\ Follows(l, EnforceCeiling(closed))
  BY <1>1, <1>3, <1>5, <1>6, CeilingAfterRun, ZenonT(40)
<1>8. closed.event = NoEvent /\ closed.agent.crashes < MaxConsecutiveCrashes
  BY <1>2, <1>5
<1>9. /\ LifeOK(Woken(closed)) /\ Woken(closed).attempts = closed.attempts
      /\ Woken(closed).rejections = closed.rejections
  BY <1>6, <1>8, WokenKeeps
<1>10. m \in {EnforceCeiling(closed), Woken(closed)}
  BY DEF Woken
<1>11. QED
  BY <1>5, <1>7, <1>9, <1>10 DEF Follows

----------------------------------------------------------------------------
(* The specification *)

LEMMA LifeInit == Init => LifeInv
<1> SUFFICES ASSUME Init PROVE LifeInv
  OBVIOUS
<1>1. setting \in Settings /\ setting.donors \in SUBSET Donors
  BY SettingsAreTasks DEF Init
<1>2. PICK role \in {"executor", "decomposer"} :
        life = [status |-> "running", agent |-> NewAgent(role, "none"), event |-> NoEvent,
                kids |-> [open |-> FALSE, completed |-> FALSE],
                attempts |-> 0, rejections |-> 0, over |-> FALSE,
                partial |-> NoPartial, result |-> NoResult, cache |-> setting.donors]
  BY DEF Init
<1> DEFINE a == NewAgent(role, "none")
<1>3. a \in AgentStates /\ a # Gone /\ a.crashes = 0
  BY NewAgentShape, ZenonT(40) DEF AgentRoles, Reasons
<1>4. NoPartial \in Partials /\ NoResult \in Results /\ NoResult.kind = "none"
  BY NoResultShape DEF NoResult
<1>5. NoEvent.kind = "none" /\ Clean(NoPartial)
  BY DEF NoEvent, Event, Clean, NoPartial, SoftwareShaped
<1> HIDE DEF a
<1>6. /\ life \in Lives({NoEvent}) /\ life.agent = a /\ life.event = NoEvent
      /\ life.attempts = 0 /\ life.rejections = 0 /\ life.kids.open = FALSE
      /\ life.status = "running" /\ life.partial = NoPartial /\ life.result = NoResult
  BY <1>1, <1>2, <1>3, <1>4 DEF Lives, a
<1>7. 0 < MaxConsecutiveCrashes /\ 0 <= MaxConsecutiveCrashes
      /\ 0 <= MaxTaskAttempts /\ 0 <= MaxDerivedRejections
  BY LimitsAreCounts
<1>8. LifeOK(life)
  BY <1>3, <1>4, <1>5, <1>6, <1>7
     DEF LifeOK, Counted, CrashesToldOf, EventOfAgent, Salvageable, ServedWell, Alive
<1>9. QED
  BY <1>1, <1>8 DEF LifeInv

LEMMA StepKeeps ==
  ASSUME LifeOK(life), Step
  PROVE  LifeOK(life') /\ Follows(life, life')
<1>1. Running => Runs(life)
  BY DEF Running, Runs
<1>2. CASE Watchdog
  BY <1>1, <1>2, WatchdogKeeps DEF Watchdog
<1>3. CASE RunThink
  BY <1>1, <1>3, RunThinkKeeps DEF RunThink
<1>4. CASE RunDecide
  <2>1. Runs(life)
    BY <1>1, <1>4 DEF RunDecide
  <2>2. PICK read \in Decisions, prose \in BOOLEAN, call \in Calls :
          LET a == life.agent
              d == DecisionOf(a, life.kids, read, prose)
              ran == RunDeciding([a EXCEPT !.crashes = 0], d, call, toolsOn)
          IN /\ (~toolsOn => call = CHOOSE c \in Calls : TRUE)
             /\ \E what \in Carried(ran.event, ran.agent.fail, d) :
               LET done == [life EXCEPT
                              !.agent = ran.agent,
                              !.event = IF ran.event = "none" THEN NoEvent
                                        ELSE Event(ran.event, what, a.role)]
               IN life' = IF d.action \in {"REPORT", "DIE"} \/ HandedOff(ran.agent, d.action)
                            THEN done ELSE EnforceCeiling(done)
    BY <1>4, Zenon DEF RunDecide
  <2> DEFINE d == DecisionOf(life.agent, life.kids, read, prose)
             ran == RunDeciding([life.agent EXCEPT !.crashes = 0], d, call, toolsOn)
  <2>3. PICK what \in Carried(ran.event, ran.agent.fail, d) :
          life' = LET event == IF ran.event = "none" THEN NoEvent
                               ELSE Event(ran.event, what, life.agent.role)
                  IN IF d.action \in {"REPORT", "DIE"} \/ HandedOff(ran.agent, d.action)
                       THEN Answered(life, ran.agent, event)
                       ELSE EnforceCeiling(Answered(life, ran.agent, event))
    BY <2>2 DEF Answered
  <2> DEFINE event == IF ran.event = "none" THEN NoEvent
                      ELSE Event(ran.event, what, life.agent.role)
  <2> HIDE DEF d, ran
  <2>4. ran = RunDeciding([life.agent EXCEPT !.crashes = 0], d, call, toolsOn)
    BY DEF ran
  <2>5. life' = IF d.action \in {"REPORT", "DIE"} \/ HandedOff(ran.agent, d.action)
                  THEN Answered(life, ran.agent, event)
                  ELSE EnforceCeiling(Answered(life, ran.agent, event))
    BY <2>3
  <2>6. event = IF ran.event = "none" THEN NoEvent
                ELSE Event(ran.event, what, life.agent.role)
    OBVIOUS
  <2> HIDE DEF event
  <2>7. QED
    BY <2>1, <2>4, <2>5, <2>6, RunDecideKeeps
<1>5. CASE CrashInRun
  <2>1. Runs(life)
    BY <1>1, <1>5 DEF CrashInRun
  <2> DEFINE a == IF FinalOnly(life.agent) THEN life.agent ELSE Thought(life.agent)
             crashed == [a EXCEPT !.crashes = @ + 1, !.fail = "crash"]
             event == IF crashed.crashes < MaxConsecutiveCrashes THEN NoEvent
                      ELSE Event("failure", "crash", a.role)
  <2>2. life' = EnforceCeiling(Answered(life, crashed, event))
    BY <1>5 DEF CrashInRun, Answered
  <2>3. /\ a = IF FinalOnly(life.agent) THEN life.agent ELSE Thought(life.agent)
        /\ crashed = [a EXCEPT !.crashes = @ + 1, !.fail = "crash"]
        /\ event = IF crashed.crashes < MaxConsecutiveCrashes THEN NoEvent
                   ELSE Event("failure", "crash", a.role)
    OBVIOUS
  <2> HIDE DEF a, crashed, event
  <2>4. QED
    BY <2>1, <2>2, <2>3, CrashInRunKeeps
<1>6. CASE HandleCompletion
  BY <1>6, HandleCompletionKeeps DEF HandleCompletion
<1>7. CASE HandleFailure
  <2>1. Alive(life)
    BY <1>7 DEF HandleFailure, Stale, LifeOK, EventOfAgent
  <2>2. QED
    BY <1>7, <2>1, HandleFailureKeeps DEF HandleFailure
<1>8. CASE HandleSpawn
  BY <1>8, HandleSpawnKeeps DEF HandleSpawn
<1>9. CASE HandleToolRequest
  BY <1>9, HandleToolRequestKeeps DEF HandleToolRequest
<1>10. CASE ChildrenEnd
  BY <1>10, ChildrenEndKeeps DEF ChildrenEnd
<1>11. CASE DropStale
  BY <1>11, DropStaleKeeps DEF DropStale, Stale
<1>12. QED
  BY <1>2, <1>3, <1>4, <1>5, <1>6, <1>7, <1>8, <1>9, <1>10, <1>11 DEF Step

LEMMA LifeStep ==
  ASSUME LifeInv, [Next]_vars
  PROVE  LifeInv' /\ (Follows(life, life') /\ UNCHANGED setting)
<1>1. LifeOK(life') /\ Follows(life, life') /\ UNCHANGED setting
  <2>1. CASE Step /\ UNCHANGED setting
    BY <2>1, StepKeeps DEF LifeInv
  <2>2. CASE CrossCeiling /\ UNCHANGED setting
    BY <2>2, CrossCeilingKeeps DEF CrossCeiling, LifeInv
  <2>3. CASE UNCHANGED vars \/ (Rest /\ UNCHANGED setting)
    BY <2>3 DEF vars, Rest, LifeInv, Follows
  <2>4. QED
    BY <2>1, <2>2, <2>3 DEF Next
<1>2. LifeInv'
  BY <1>1
     DEF LifeInv, LifeOK, Counted, CrashesToldOf, EventOfAgent, Salvageable, Clean, ServedWell,
         Alive, root, software
<1>3. QED
  BY <1>1, <1>2

(* The invariant the rest follows from. *)
THEOREM LifeInvariant == Spec => []LifeInv
<1>1. Init => LifeInv
  BY LifeInit
<1>2. LifeInv /\ [Next]_vars => LifeInv'
  BY LifeStep
<1>3. QED
  BY <1>1, <1>2, PTL DEF Spec

(* The state of a task keeps its shape, and its respawns, uncounted        *)
(* respawns and crashes in a row stay within their limits, whatever the    *)
(* agents and the judge do.                                                *)
THEOREM LifeKeepsItsShape == Spec => []TypeOK
<1>1. LifeInv => TypeOK
  <2> SUFFICES ASSUME LifeInv PROVE TypeOK
    OBVIOUS
  <2>1. life \in Lives({life.event}) /\ Counted(life)
    BY DEF LifeInv, LifeOK
  <2>2. /\ life.status \in {"running", "completed", "abandoned"}
        /\ life.attempts \in 0 .. MaxTaskAttempts
        /\ life.rejections \in 0 .. MaxDerivedRejections
    BY <2>1, LimitsAreCounts DEF Lives, Counted
  <2>3. ASSUME Alive(life)
        PROVE  /\ life.agent.role \in {"executor", "decomposer"}
               /\ life.agent.crashes \in 0 .. MaxConsecutiveCrashes
               /\ life.agent.warnings \in Nat /\ life.agent.cycles \in Nat
    <3>1. life.agent \in AgentStates /\ life.agent.crashes <= MaxConsecutiveCrashes
      BY <2>1, <2>3 DEF Lives, Alive, Counted
    <3>2. QED
      BY <3>1, LimitsAreCounts DEF AgentStates, AgentRoles
  <2>4. QED
    BY <2>2, <2>3 DEF TypeOK
<1>2. QED
  BY <1>1, LifeInvariant, PTL

(* What the parent of an abandoned task is handed was not turned away      *)
(* without a review, in any order of reports, respawns and ceilings.       *)
THEOREM SalvageIsReviewed == Spec => []RejectedNeverSalvaged
<1>1. LifeInv => RejectedNeverSalvaged
  BY DEF LifeInv, LifeOK, Salvageable, Clean, RejectedNeverSalvaged
<1>2. QED
  BY <1>1, LifeInvariant, PTL

(* The cache completes a task only with an accepted answer, another task's *)
(* only for the same words, and never the root, whatever the cache holds.  *)
THEOREM ServedIsAccepted == Spec => []OnlyAcceptedServed
<1>1. LifeInv => OnlyAcceptedServed
  BY DEF LifeInv, LifeOK, ServedWell, OnlyAcceptedServed
<1>2. QED
  BY <1>1, LifeInvariant, PTL

(* A respawn raises a count, so the step follows its event. *)
LEMMA RespawnFollows ==
  ASSUME LifeInv, [Next]_vars, Respawns
  PROVE  /\ life.event.what # "watchdog" => life'.agent.told = Why(life.event)
         /\ root \/ NothingOnRecord(life.cache)
<1>1. life.attempts \in Nat /\ life.rejections \in Nat
  BY DEF LifeInv, LifeOK, Lives
<1>2. Alive(life') /\ ~(life'.attempts = life.attempts /\ life'.rejections = life.rejections)
  BY <1>1 DEF Respawns
<1>3. Follows(life, life')
  BY LifeStep
<1>4. QED
  BY <1>2, <1>3 DEF Follows

(* An agent that takes over is told what its predecessor ended on.         *)
THEOREM RespawnIsTold == Spec => RespawnKnowsWhy
<1>1. ASSUME LifeInv, [Next]_vars
      PROVE  [Respawns /\ life.event.what # "watchdog" => life'.agent.told = Why(life.event)]_vars
  BY <1>1, RespawnFollows
<1>2. QED
  BY <1>1, LifeInvariant, PTL DEF Spec, RespawnKnowsWhy

(* No task but the root is done again while an accepted answer for the     *)
(* same words is on record.                                                *)
THEOREM AnswerIsReused == Spec => NeverRedone
<1>1. ASSUME LifeInv, [Next]_vars
      PROVE  [Respawns => root \/ \A e \in life.cache :
                                    ~(e.outcome = "accepted" /\ e.near = "same")]_vars
  BY <1>1, RespawnFollows DEF NothingOnRecord
<1>2. QED
  BY <1>1, LifeInvariant, PTL DEF Spec, NeverRedone

----------------------------------------------------------------------------
(* The critique *)

(* A finite set of integers with a member has a least one.                 *)
LEMMA LeastOf ==
  ASSUME NEW S \in SUBSET Int, IsFiniteSet(S), S # {}
  PROVE  \E x \in S : \A y \in S : x <= y
<1> DEFINE Below(x) == {y \in S : y <= x}
           Parts == {Below(x) : x \in S}
<1>1. Parts \subseteq SUBSET S /\ Parts # {}
  OBVIOUS
<1> HIDE DEF Parts
<1>2. IsWellFoundedOn(StrictSubsetOrdering(S), SUBSET S)
  BY FS_StrictSubsetOrderingWellFounded, FS_FiniteSubsetsOfFinite
<1>3. PICK P \in Parts : \A Q \in Parts : ~(<<Q, P>> \in StrictSubsetOrdering(S))
  BY <1>1, <1>2, WFMin
<1>4. PICK x \in S : P = Below(x)
  BY DEF Parts
<1>5. ASSUME NEW y \in S, y < x PROVE FALSE
  <2>1. Below(y) \in Parts
    BY DEF Parts
  <2>2. ASSUME NEW z \in Below(y) PROVE z \in Below(x)
    BY <1>5, z \in Int, x \in Int, y \in Int, z <= y
  <2>3. Below(y) = Below(x)
    BY <2>1, <2>2, <1>3, <1>4 DEF StrictSubsetOrdering
  <2>4. x \in Below(x) /\ x \notin Below(y)
    BY <1>5
  <2>5. QED
    BY <2>3, <2>4
<1>6. QED
  BY <1>5

LEMMA LeastIndex ==
  ASSUME NEW n \in Nat, NEW S, S \subseteq 1 .. n, S # {}
  PROVE  Min(S) \in S /\ \A y \in S : Min(S) <= y
<1>1. IsFiniteSet(1 .. n)
  BY FS_Interval, 1 \in Int, n \in Int
<1>2. S \in SUBSET (1 .. n) /\ S \in SUBSET Int
  OBVIOUS
<1>3. IsFiniteSet(S)
  BY <1>1, <1>2, FS_Subset
<1>4. QED
  BY <1>2, <1>3, LeastOf DEF Min

(* A set of numbers that holds 1, and with each number the next, holds all *)
(* there are up to a bound.                                                *)
LEMMA CountUp ==
  ASSUME NEW n \in Nat, NEW P \in SUBSET (1 .. n), n >= 1 => 1 \in P,
         \A i \in 2 .. n : i - 1 \in P => i \in P
  PROVE  P = 1 .. n
<1> DEFINE Bad == (1 .. n) \ P
<1>1. SUFFICES ASSUME Bad # {} PROVE FALSE
  OBVIOUS
<1>2. Min(Bad) \in Bad /\ \A y \in Bad : Min(Bad) <= y
  BY <1>1, LeastIndex
<1> DEFINE m == Min(Bad)
<1> HIDE DEF m, Bad
<1>3. m \in 1 .. n /\ m \notin P /\ m # 1
  BY <1>2 DEF m, Bad
<1>4. m - 1 \in 1 .. n /\ m \in 2 .. n /\ ~(m <= m - 1)
  BY <1>3
<1>5. m - 1 \notin Bad
  BY <1>2, <1>4 DEF m
<1>6. QED
  BY <1>3, <1>4, <1>5 DEF Bad

(* The words of some lines in a row are those of the lines, the first      *)
(* line's first.                                                           *)
Wording(w, lines) ==
  /\ Range(w) \subseteq UNION {Range(lines[i]) : i \in DOMAIN lines}
  /\ Len(w) >= Len(lines[1]) /\ \A i \in 1 .. Len(lines[1]) : w[i] = lines[1][i]

LEMMA Flattens ==
  ASSUME NEW S, NEW lines \in Seq(Seq(S)), lines # <<>>
  PROVE  FlattenSeq(lines) \in Seq(S) /\ Wording(FlattenSeq(lines), lines)
<1> DEFINE n == Len(lines)
           Joins(k, f) == f = [i \in 1 .. k |-> IF i = 1 THEN lines[i] ELSE f[i - 1] \o lines[i]]
           P == {k \in 1 .. n : \E f : Joins(k, f)}
<1>1. n \in Nat /\ n >= 1 /\ \A i \in 1 .. n : lines[i] \in Seq(S)
  OBVIOUS
<1> HIDE DEF Joins, n
<1>2. 1 \in P
  <2> DEFINE f == [i \in 1 .. 1 |-> lines[i]]
  <2>1. \A i \in 1 .. 1 : i = 1 /\ f[i] = lines[i]
    OBVIOUS
  <2>2. f = [i \in 1 .. 1 |-> IF i = 1 THEN lines[i] ELSE f[i - 1] \o lines[i]]
    BY <2>1
  <2> HIDE DEF f
  <2>3. Joins(1, f)
    BY <2>2 DEF Joins
  <2>4. 1 \in 1 .. n
    BY <1>1
  <2>5. QED
    BY <2>3, <2>4
<1>3. ASSUME NEW k \in 2 .. n, k - 1 \in P PROVE k \in P
  <2>1. PICK f : Joins(k - 1, f)
    BY <1>3
  <2>a. f = [i \in 1 .. k - 1 |-> IF i = 1 THEN lines[i] ELSE f[i - 1] \o lines[i]]
    BY <2>1 DEF Joins
  <2> DEFINE last == f[k - 1] \o lines[k]
  <2>b. last = f[k - 1] \o lines[k]
    OBVIOUS
  <2> HIDE DEF last
  <2> DEFINE g == [i \in 1 .. k |-> IF i = k THEN last ELSE f[i]]
  <2>c. k \in 1 .. k /\ \A i \in 1 .. k - 1 : i \in 1 .. k /\ i # k
    BY <1>1
  <2>d. g[k] = last
    BY <2>c
  <2>e. \A i \in 1 .. k - 1 : g[i] = f[i]
    BY <2>c
  <2>2. (\A i \in 1 .. k - 1 : g[i] = f[i]) /\ g[k] = f[k - 1] \o lines[k]
    BY <2>b, <2>d, <2>e
  <2>3. DOMAIN g = 1 .. k /\ g = [i \in 1 .. k |-> g[i]]
    OBVIOUS
  <2> HIDE DEF g
  <2>4. ASSUME NEW i \in 1 .. k
        PROVE  g[i] = IF i = 1 THEN lines[i] ELSE g[i - 1] \o lines[i]
    <3>1. CASE i = k
      <4>1. k - 1 \in 1 .. k - 1 /\ k # 1
        OBVIOUS
      <4>2. QED
        BY <2>2, <3>1, <4>1
    <3>2. CASE i = 1 /\ i # k
      <4>1. i \in 1 .. k - 1
        BY <3>2
      <4>2. f[i] = lines[i]
        BY <2>a, <3>2, <4>1
      <4>3. QED
        BY <2>2, <3>2, <4>1, <4>2
    <3>3. CASE i # 1 /\ i # k
      <4>1. i \in 1 .. k - 1 /\ i - 1 \in 1 .. k - 1
        BY <3>3
      <4>2. f[i] = f[i - 1] \o lines[i]
        BY <2>a, <3>3, <4>1
      <4>3. QED
        BY <2>2, <3>3, <4>1, <4>2
    <3>4. QED
      BY <3>1, <3>2, <3>3
  <2>5. g = [i \in 1 .. k |-> IF i = 1 THEN lines[i] ELSE g[i - 1] \o lines[i]]
    BY <2>3, <2>4
  <2>6. Joins(k, g)
    BY <2>5, Zenon DEF Joins
  <2>7. k \in 1 .. n
    BY <1>1
  <2>8. QED
    BY <2>6, <2>7
<1>4. n \in P
  <2>1. P \in SUBSET (1 .. n)
    OBVIOUS
  <2> HIDE DEF P
  <2>2. P = 1 .. n
    BY <2>1, <1>1, <1>2, <1>3, CountUp
  <2>3. QED
    BY <2>2, <1>1
<1>5. PICK f : /\ f = [i \in 1 .. n |-> IF i = 1 THEN lines[i] ELSE f[i - 1] \o lines[i]]
               /\ FlattenSeq(lines) = f[n]
  <2>1. \E f : Joins(n, f)
    BY <1>4
  <2>2. Len(lines) # 0
    BY <1>1 DEF n
  <2>3. QED
    BY <2>1, <2>2 DEF FlattenSeq, Joins, n
<1>a. \A i \in 1 .. n : f[i] = IF i = 1 THEN lines[i] ELSE f[i - 1] \o lines[i]
  BY <1>5
<1>b. DOMAIN lines = 1 .. n
  BY DEF n
<1> HIDE DEF P
<1> DEFINE Fits(w) == w \in Seq(S) /\ Wording(w, lines)
           Q == {i \in 1 .. n : Fits(f[i])}
<1>6. 1 \in Q
  <2>1. f[1] = lines[1] /\ 1 \in DOMAIN lines /\ lines[1] \in Seq(S) /\ 1 \in 1 .. n
    BY <1>1, <1>a, <1>b
  <2>2. Range(lines[1]) \subseteq UNION {Range(lines[i]) : i \in DOMAIN lines}
    BY <2>1
  <2>3. Wording(lines[1], lines)
    BY <2>1, <2>2 DEF Wording
  <2>4. QED
    BY <2>1, <2>3
<1>7. ASSUME NEW i \in 2 .. n, i - 1 \in Q PROVE i \in Q
  <2> DEFINE v == f[i - 1]
             x == lines[i]
             w == v \o x
  <2>a. i \in 1 .. n /\ i # 1 /\ 1 \in 1 .. n
    BY <1>1
  <2>1. f[i] = w /\ i \in DOMAIN lines /\ 1 \in DOMAIN lines
    BY <2>a, <1>a, <1>b
  <2>2. v \in Seq(S) /\ x \in Seq(S) /\ Wording(v, lines) /\ lines[1] \in Seq(S)
    BY <1>1, <1>7
  <2> HIDE DEF v, x
  <2>3. w \in Seq(S) /\ Len(w) = Len(v) + Len(x)
        /\ \A j \in 1 .. Len(v) : w[j] = v[j]
    BY <2>2
  <2>4. Range(w) \subseteq Range(v) \cup Range(x)
    BY <2>2 DEF Range
  <2>5. Range(x) \subseteq UNION {Range(lines[j]) : j \in DOMAIN lines}
    BY <2>1 DEF x
  <2> HIDE DEF w
  <2>6. Wording(w, lines)
    <3> DEFINE all == UNION {Range(lines[j]) : j \in DOMAIN lines}
    <3>1. Range(v) \subseteq all /\ Range(x) \subseteq all
          /\ Len(v) >= Len(lines[1]) /\ (\A j \in 1 .. Len(lines[1]) : v[j] = lines[1][j])
      BY <2>2, <2>5 DEF Wording
    <3> HIDE DEF all
    <3>2. Range(w) \subseteq all
      BY <2>4, <3>1
    <3>3. Len(v) \in Nat /\ Len(x) \in Nat /\ Len(lines[1]) \in Nat
      BY <2>2
    <3>4. Len(w) >= Len(lines[1]) /\ \A j \in 1 .. Len(lines[1]) : w[j] = lines[1][j]
      BY <2>3, <3>1, <3>3
    <3>5. QED
      BY <3>2, <3>4 DEF Wording, all
  <2>7. QED
    BY <2>1, <2>3, <2>6, <1>7
<1>8. n \in Q
  <2>1. Q \in SUBSET (1 .. n)
    OBVIOUS
  <2> HIDE DEF Q
  <2>2. Q = 1 .. n
    BY <2>1, <1>1, <1>6, <1>7, CountUp
  <2>3. QED
    BY <2>2, <1>1
<1>9. QED
  BY <1>5, <1>8

(* A ruling that is no rejection was read off some word.                   *)
LEMMA RulingFound ==
  ASSUME NEW S, NEW W \in Seq(S), FirstRuling(W) # "reject"
  PROVE  Range(W) \cap {"accept", "spaced_accept"} # {}
<1> DEFINE labelled == {i \in DOMAIN W : i > 1 /\ W[i - 1] = "VERDICT:" /\ W[i] \in Plain}
           plain == {i \in DOMAIN W : W[i] \in Plain}
           spaced == {i \in DOMAIN W : W[i] \in DOMAIN Spaced}
<1>1. FirstRuling(W) = IF labelled # {} THEN W[Min(labelled)]
                       ELSE IF plain # {} THEN W[Min(plain)]
                       ELSE IF spaced # {} THEN Spaced[W[Min(spaced)]]
                       ELSE "reject"
  BY DEF FirstRuling
<1>2. DOMAIN W = 1 .. Len(W) /\ Len(W) \in Nat
  OBVIOUS
<1>3. /\ labelled \subseteq 1 .. Len(W) /\ \A i \in labelled : W[i] \in Plain
      /\ plain \subseteq 1 .. Len(W) /\ \A i \in plain : W[i] \in Plain
      /\ spaced \subseteq 1 .. Len(W) /\ \A i \in spaced : W[i] \in DOMAIN Spaced
  BY <1>2
<1>4. \A i \in DOMAIN W : W[i] \in Range(W)
  BY DEF Range
<1> HIDE DEF labelled, plain, spaced
<1>5. CASE labelled # {}
  <2>1. Min(labelled) \in labelled
    BY <1>2, <1>3, <1>5, LeastIndex
  <2>2. FirstRuling(W) = W[Min(labelled)]
    BY <1>1, <1>5
  <2>3. QED
    BY <2>1, <2>2, <1>2, <1>3, <1>4 DEF Plain
<1>6. CASE labelled = {} /\ plain # {}
  <2>1. Min(plain) \in plain
    BY <1>2, <1>3, <1>6, LeastIndex
  <2>2. FirstRuling(W) = W[Min(plain)]
    BY <1>1, <1>6
  <2>3. QED
    BY <2>1, <2>2, <1>2, <1>3, <1>4 DEF Plain
<1>7. CASE labelled = {} /\ plain = {} /\ spaced # {}
  <2>1. Min(spaced) \in spaced
    BY <1>2, <1>3, <1>7, LeastIndex
  <2>2. FirstRuling(W) = Spaced[W[Min(spaced)]]
    BY <1>1, <1>7
  <2>3. W[Min(spaced)] \in {"spaced_accept", "spaced_reject"}
    BY <2>1, <1>3 DEF Spaced
  <2>4. Spaced["spaced_reject"] = "reject"
    BY DEF Spaced
  <2>5. QED
    BY <2>1, <2>2, <2>3, <2>4, <1>2, <1>3, <1>4
<1>8. QED
  BY <1>1, <1>5, <1>6, <1>7

(* A rejection straight after the first VERDICT: is the ruling.            *)
LEMMA FirstRejects ==
  ASSUME NEW S, NEW W \in Seq(S), Len(W) >= 2, W[1] = "VERDICT:", W[2] = "reject"
  PROVE  FirstRuling(W) = "reject"
<1> DEFINE labelled == {i \in DOMAIN W : i > 1 /\ W[i - 1] = "VERDICT:" /\ W[i] \in Plain}
<1>1. DOMAIN W = 1 .. Len(W) /\ Len(W) \in Nat
  OBVIOUS
<1>2. 2 \in labelled /\ labelled \subseteq 1 .. Len(W) /\ \A i \in labelled : i > 1
  BY <1>1 DEF Plain
<1>3. labelled # {} => FirstRuling(W) = W[Min(labelled)]
  BY DEF FirstRuling
<1> HIDE DEF labelled
<1>4. PICK least : least = Min(labelled)
  OBVIOUS
<1>5. least \in labelled /\ least <= 2
  BY <1>1, <1>2, <1>4, LeastIndex
<1>a. least \in 1 .. Len(W) /\ least > 1
  BY <1>2, <1>5
<1>b. least = 2
  BY <1>1, <1>5, <1>a
<1>6. QED
  BY <1>2, <1>3, <1>4, <1>b

(* What the model wrote of its own opens no line that is left.             *)
Invented == {"Example:", "VERDICT:"}

LEMMA CutLeavesHead ==
  ASSUME NEW S, NEW lines \in Seq(Seq(S)), lines # <<>>
  PROVE  \E m \in 1 .. Len(lines) :
           /\ CutInvented(lines) = SubSeq(lines, 1, m)
           /\ \A j \in 2 .. m : ~OpensWith(lines[j], Invented)
<1> DEFINE invented == {i \in 2 .. Len(lines) : lines[i] # <<>> /\ Head(lines[i]) \in Invented}
<1>1. Len(lines) \in Nat /\ Len(lines) >= 1
  OBVIOUS
<1>2. CutInvented(lines) = IF invented = {} THEN lines ELSE SubSeq(lines, 1, Min(invented) - 1)
  BY DEF CutInvented, Invented
<1>3. /\ invented \subseteq 1 .. Len(lines) /\ \A i \in invented : i >= 2
      /\ \A j \in 2 .. Len(lines) : j \notin invented => ~OpensWith(lines[j], Invented)
  BY <1>1 DEF OpensWith
<1> HIDE DEF invented
<1>4. CASE invented = {}
  <2>1. lines = SubSeq(lines, 1, Len(lines))
    OBVIOUS
  <2>2. Len(lines) \in 1 .. Len(lines)
    BY <1>1
  <2>3. CutInvented(lines) = SubSeq(lines, 1, Len(lines))
    BY <1>2, <1>4, <2>1
  <2>4. QED
    BY <1>3, <1>4, <2>2, <2>3
<1>5. CASE invented # {}
  <2>1. PICK least : least = Min(invented)
    OBVIOUS
  <2>2. least \in invented /\ \A j \in invented : least <= j
    BY <1>1, <1>3, <1>5, <2>1, LeastIndex
  <2>3. CutInvented(lines) = SubSeq(lines, 1, least - 1)
    BY <1>2, <1>5, <2>1
  <2>4. least \in 1 .. Len(lines) /\ least >= 2
    BY <1>3, <2>2
  <2>5. least - 1 \in 1 .. Len(lines)
        /\ \A j \in 2 .. least - 1 : j \in 2 .. Len(lines) /\ ~(least <= j)
    BY <1>1, <2>4
  <2>6. QED
    BY <1>3, <2>2, <2>3, <2>5
<1>6. QED
  BY <1>4, <1>5

(* A critique that is read as an acceptance: its first word is no          *)
(* rejection, and before it invents anything it accepts somewhere.         *)
Accepting(c) ==
  /\ c # <<>> /\ ~OpensWith(Head(c), {"reject"})
  /\ \E i \in DOMAIN c : /\ Range(c[i]) \cap {"accept", "spaced_accept"} # {}
                         /\ \A j \in 2 .. i : ~OpensWith(c[j], {"Example:", "VERDICT:"})

LEMMA OneOf ==
  ASSUME NEW S, NEW x \in S
  PROVE  <<x>> \in Seq(S) /\ <<x>> # <<>> /\ Len(<<x>>) = 1 /\ <<x>>[1] = x
OBVIOUS

LEMMA JoinedLength ==
  ASSUME NEW S, NEW s \in Seq(S), NEW t \in Seq(S)
  PROVE  Len(s \o t) = Len(s) + Len(t)
OBVIOUS

LEMMA Joined ==
  ASSUME NEW S, NEW s \in Seq(S), NEW t \in Seq(S), Len(s) = 1, Len(t) >= 1
  PROVE  /\ s \o t \in Seq(S) /\ Len(s \o t) = 1 + Len(t)
         /\ (s \o t)[1] = s[1] /\ (s \o t)[2] = t[1]
<1>a. Len(t) \in Nat
  OBVIOUS
<1>b. Len(s \o t) = Len(s) + Len(t)
  BY JoinedLength
<1>c. s \o t \in Seq(S)
  OBVIOUS
<1>1. Len(t) \in Nat /\ Len(s \o t) = Len(s) + Len(t) /\ s \o t \in Seq(S)
  BY <1>a, <1>b, <1>c
<1>2. 1 \in 1 .. Len(s) + Len(t) /\ 2 \in 1 .. Len(s) + Len(t)
  BY <1>1
<1>3. (s \o t)[1] = s[1]
  BY <1>1, <1>2
<1>4. (s \o t)[2] = t[2 - Len(s)] /\ 2 - Len(s) = 1
  BY <1>1, <1>2
<1>5. QED
  BY <1>1, <1>3, <1>4

LEMMA CritiqueAccepts ==
  ASSUME NEW S, "VERDICT:" \in S, NEW c \in Seq(Seq(S)), DeepCritique(c) # "reject"
  PROVE  Accepting(c)
<1> DEFINE lines == Prefilled(c)
           first == <<"VERDICT:">> \o Head(c)
<1>1. ASSUME c # <<>>
      PROVE  /\ lines \in Seq(Seq(S)) /\ lines # <<>> /\ Len(lines) = Len(c)
             /\ lines[1] = first
             /\ \A i \in 2 .. Len(c) : lines[i] = c[i]
  <2>1. lines = <<first>> \o Tail(c)
    BY <1>1 DEF Prefilled
  <2>2. Head(c) \in Seq(S) /\ Tail(c) \in Seq(Seq(S)) /\ Len(Tail(c)) = Len(c) - 1
        /\ \A i \in 2 .. Len(c) : Tail(c)[i - 1] = c[i]
    BY <1>1
  <2>3. <<"VERDICT:">> \in Seq(S)
    BY OneOf
  <2>4. first \in Seq(S)
    BY <2>2, <2>3
  <2> HIDE DEF lines, first
  <2> DEFINE rest == Tail(c)
  <2> HIDE DEF rest
  <2>5. rest \in Seq(Seq(S)) /\ Len(rest) = Len(c) - 1 /\ Len(c) \in Nat
        /\ \A i \in 2 .. Len(c) : rest[i - 1] = c[i]
    BY <2>2 DEF rest
  <2>6. <<first>> \in Seq(Seq(S)) /\ lines = <<first>> \o rest
    BY <2>1, <2>4 DEF rest
  <2>7. lines \in Seq(Seq(S)) /\ Len(lines) = 1 + Len(rest) /\ lines[1] = first
    BY <2>5, <2>6
  <2>8. \A i \in 2 .. Len(c) : lines[i] = rest[i - 1]
    BY <2>5, <2>6
  <2>9. QED
    BY <2>5, <2>7, <2>8
<1>2. c = <<>> => lines = << <<"VERDICT:">> >>
  BY DEF Prefilled
<1>3. lines \in Seq(Seq(S)) /\ lines # <<>>
  <2>1. CASE c = <<>>
    <3> DEFINE label == <<"VERDICT:">>
    <3>1. label \in Seq(S)
      BY OneOf
    <3>2. lines = <<label>>
      BY <1>2, <2>1
    <3> HIDE DEF label, lines
    <3>3. QED
      BY <3>1, <3>2, OneOf
  <2>2. QED
    BY <1>1, <2>1
<1> HIDE DEF lines
<1>4. PICK m \in 1 .. Len(lines) : /\ CutInvented(lines) = SubSeq(lines, 1, m)
                                   /\ \A j \in 2 .. m : ~OpensWith(lines[j], Invented)
  BY <1>3, CutLeavesHead
<1> DEFINE left == SubSeq(lines, 1, m)
           words == FlattenSeq(left)
<1>5. /\ left \in Seq(Seq(S)) /\ Len(left) = m /\ m >= 1 /\ DOMAIN left = 1 .. m
      /\ \A i \in 1 .. m : left[i] = lines[i]
  BY <1>3, <1>4
<1>6. FirstRuling(words) # "reject"
  BY <1>4 DEF DeepCritique, lines
<1> HIDE DEF left
<1>7. left # <<>>
  BY <1>5
<1>8. words \in Seq(S) /\ Wording(words, left)
  BY <1>5, <1>7, Flattens
<1> HIDE DEF words
<1>9. PICK w \in {"accept", "spaced_accept"} : w \in Range(words)
  BY <1>6, <1>8, RulingFound
<1>10. PICK i \in 1 .. m : w \in Range(left[i])
  BY <1>5, <1>8, <1>9 DEF Wording
<1>11. w # "VERDICT:"
  BY <1>9
<1>12. c # <<>>
  <2>1. SUFFICES ASSUME c = <<>> PROVE FALSE
    OBVIOUS
  <2>2. lines = << <<"VERDICT:">> >>
    BY <1>2, <2>1
  <2>3. i = 1
    BY <2>2, <1>4
  <2>4. left[i] = <<"VERDICT:">>
    BY <2>2, <2>3, <1>5
  <2>5. QED
    BY <2>4, <1>10, <1>11 DEF Range
<1>13. /\ Len(lines) = Len(c) /\ lines[1] = first /\ Head(c) \in Seq(S) /\ Head(c) = c[1]
       /\ \A j \in 2 .. Len(c) : lines[j] = c[j]
  BY <1>1, <1>12
<1>14. ~OpensWith(Head(c), {"reject"})
  <2>1. SUFFICES ASSUME Head(c) # <<>>, Head(c)[1] = "reject" PROVE FALSE
    BY <1>13 DEF OpensWith
  <2> DEFINE label == <<"VERDICT:">>
             ruling == Head(c)
  <2>a. label \in Seq(S) /\ Len(label) = 1 /\ label[1] = "VERDICT:"
    BY OneOf
  <2>b. ruling \in Seq(S) /\ ruling # <<>> /\ ruling[1] = "reject"
    BY <1>13, <2>1
  <2>c. first = label \o ruling
    OBVIOUS
  <2> HIDE DEF label, ruling, first
  <2>f. Len(ruling) \in Nat /\ Len(ruling) >= 1
    BY <2>b
  <2>g. first \in Seq(S) /\ Len(first) = 1 + Len(ruling)
        /\ first[1] = label[1] /\ first[2] = ruling[1]
    BY <2>a, <2>b, <2>c, <2>f, Joined
  <2>2. first \in Seq(S) /\ Len(first) >= 2 /\ first[1] = "VERDICT:" /\ first[2] = "reject"
    BY <2>a, <2>b, <2>f, <2>g
  <2>3. left[1] = first
    BY <1>5, <1>13
  <2>4. /\ Len(words) >= Len(first) /\ Len(words) \in Nat /\ Len(first) \in Nat
        /\ \A j \in 1 .. Len(first) : words[j] = first[j]
    BY <1>8, <2>2, <2>3 DEF Wording
  <2>d. 1 \in 1 .. Len(first) /\ 2 \in 1 .. Len(first)
    BY <2>2, <2>4
  <2>e. Len(words) >= 2 /\ words[1] = "VERDICT:" /\ words[2] = "reject"
    BY <2>2, <2>4, <2>d
  <2>5. QED
    BY <1>6, <1>8, <2>e, FirstRejects
<1>15. i \in DOMAIN c /\ w \in Range(c[i])
  <2>1. i \in 1 .. Len(c) /\ DOMAIN c = 1 .. Len(c) /\ left[i] = lines[i]
    BY <1>4, <1>5, <1>13
  <2>2. CASE i = 1
    <3>1. w \in Range(first)
      BY <1>10, <1>13, <2>1, <2>2
    <3>2. PICK j \in DOMAIN first : first[j] = w
      BY <3>1 DEF Range
    <3>3. j # 1 /\ j - 1 \in DOMAIN Head(c) /\ first[j] = Head(c)[j - 1]
      BY <1>11, <1>13, <3>2
    <3>4. QED
      BY <2>1, <2>2, <3>2, <3>3, <1>13 DEF Range
  <2>3. CASE i # 1
    <3>1. lines[i] = c[i]
      BY <1>13, <2>1, <2>3
    <3>2. QED
      BY <1>10, <2>1, <3>1
  <2>4. QED
    BY <2>2, <2>3
<1>16. \A j \in 2 .. i : ~OpensWith(c[j], {"Example:", "VERDICT:"})
  <2>1. TAKE j \in 2 .. i
  <2>2. j \in 2 .. m /\ j \in 2 .. Len(c)
    BY <1>4, <1>13
  <2>3. lines[j] = c[j]
    BY <1>13, <2>2
  <2>4. QED
    BY <1>4, <2>2, <2>3 DEF Invented
<1>17. QED
  BY <1>9, <1>12, <1>14, <1>15, <1>16 DEF Accepting

LEMMA WordsAreStrings ==
  ASSUME NEW S, NEW T, S \subseteq T
  PROVE  Seq(Seq(S)) \subseteq Seq(Seq(T))
<1>1. ASSUME NEW s \in Seq(S) PROVE s \in Seq(T)
  <2>1. Len(s) \in Nat /\ s = [i \in 1 .. Len(s) |-> s[i]] /\ \A i \in 1 .. Len(s) : s[i] \in T
    OBVIOUS
  <2>2. QED
    BY <2>1
<1>2. ASSUME NEW s \in Seq(Seq(S)) PROVE s \in Seq(Seq(T))
  <2>1. Len(s) \in Nat /\ s = [i \in 1 .. Len(s) |-> s[i]] /\ \A i \in 1 .. Len(s) : s[i] \in Seq(T)
    BY <1>1
  <2>2. QED
    BY <2>1
<1>3. QED
  BY <1>2

(* Only a review puts an accepted answer on a task: whatever else happens  *)
(* leaves its result as it was, or replaces it by one that was not.        *)
HasResult(l) == "result" \in DOMAIN l /\ "kind" \in DOMAIN l.result

NoNewAnswer(l, m) ==
  HasResult(m) /\ (m.result = l.result \/ m.result.kind # "accepted")

LEMMA OthersLeaveResult ==
  ASSUME NEW l, HasResult(l), NEW x, NEW y
  PROVE  /\ NoNewAnswer(l, [l EXCEPT !.event = x])
         /\ NoNewAnswer(l, [l EXCEPT !.event = x, !.agent = y])
         /\ NoNewAnswer(l, [l EXCEPT !.agent = x, !.attempts = y])
         /\ NoNewAnswer(l, [l EXCEPT !.agent = x])
         /\ NoNewAnswer(l, [l EXCEPT !.cache = x])
         /\ NoNewAnswer(l, [l EXCEPT !.attempts = x])
         /\ NoNewAnswer(l, [l EXCEPT !.rejections = x])
         /\ NoNewAnswer(l, [l EXCEPT !.partial = x])
         /\ NoNewAnswer(l, [l EXCEPT !.kids = x])
         /\ NoNewAnswer(l, [l EXCEPT !.over = x])
BY DEF HasResult, NoNewAnswer

LEMMA NoNewAnswerTwice ==
  ASSUME NEW l, NEW m, NEW n, NoNewAnswer(l, m), NoNewAnswer(m, n)
  PROVE  NoNewAnswer(l, n)
BY DEF NoNewAnswer

LEMMA EndLeavesResult ==
  ASSUME NEW l, HasResult(l)
  PROVE  /\ NoNewAnswer(l, Retired(l)) /\ NoNewAnswer(l, Abandoned(l))
         /\ NoNewAnswer(l, Abandoned(Retired(l))) /\ NoNewAnswer(l, EnforceCeiling(l))
         /\ \A entry : NoNewAnswer(l, Served(l, entry))
<1>1. ASSUME NEW k, HasResult(k)
      PROVE  NoNewAnswer(k, Retired(k)) /\ HasResult(Retired(k))
  BY <1>1 DEF Retired, HasResult, NoNewAnswer
<1>2. ASSUME NEW k, HasResult(k)
      PROVE  NoNewAnswer(k, Abandoned(k)) /\ HasResult(Abandoned(k))
  <2> DEFINE partial == [NoResult EXCEPT !.kind = "partial", !.of = k.partial]
             empty == [k.result EXCEPT !.kind = "empty"]
  <2>1. "kind" \in DOMAIN partial /\ partial.kind = "partial"
    BY DEF NoResult
  <2>2. "kind" \in DOMAIN empty /\ empty.kind = "empty"
    BY <1>2 DEF HasResult
  <2>3. \E r \in {partial, empty, k.result} : Abandoned(k) = [k EXCEPT !.status = "abandoned", !.result = r]
    BY DEF Abandoned
  <2> HIDE DEF partial, empty
  <2>4. PICK r \in {partial, empty, k.result} :
          Abandoned(k) = [k EXCEPT !.status = "abandoned", !.result = r]
    BY <2>3
  <2>5. "result" \in DOMAIN Abandoned(k) /\ Abandoned(k).result = r
    BY <1>2, <2>4 DEF HasResult
  <2>6. QED
    BY <1>2, <2>1, <2>2, <2>4, <2>5 DEF HasResult, NoNewAnswer
<1>3. NoNewAnswer(l, Abandoned(Retired(l)))
  BY <1>1, <1>2, NoNewAnswerTwice
<1>4. NoNewAnswer(l, EnforceCeiling(l))
  <2> DEFINE ended == Abandoned(Retired(l))
  <2>1. HasResult(ended)
    BY <1>3 DEF NoNewAnswer
  <2> HIDE DEF ended
  <2>2. NoNewAnswer(ended, [ended EXCEPT !.event = l.event])
    BY <2>1, OthersLeaveResult
  <2>3. NoNewAnswer(l, [ended EXCEPT !.event = l.event])
    BY <1>3, <2>2, NoNewAnswerTwice DEF ended
  <2>4. EnforceCeiling(l) \in {l, [ended EXCEPT !.event = l.event]}
    BY DEF EnforceCeiling, ended
  <2>5. QED
    BY <2>3, <2>4 DEF NoNewAnswer
<1>5. ASSUME NEW entry PROVE NoNewAnswer(l, Served(l, entry))
  <2> DEFINE served == [NoResult EXCEPT !.kind = "served", !.entry = entry]
  <2>1. "kind" \in DOMAIN served /\ served.kind = "served"
    BY DEF NoResult
  <2>2. Served(l, entry) = [l EXCEPT !.status = "completed", !.result = served]
    BY DEF Served
  <2> HIDE DEF served
  <2>3. QED
    BY <2>1, <2>2 DEF HasResult, NoNewAnswer
<1>6. QED
  BY <1>1, <1>2, <1>3, <1>4, <1>5

LEMMA RespawnLeavesResult ==
  ASSUME NEW l, HasResult(l), NEW role, NEW counted, NEW room,
         NEW m \in KillAndRespawn(l, role, counted, room)
  PROVE  NoNewAnswer(l, m)
<1> DEFINE failure == IF counted THEN {Entry("self", "rejected", "same")} ELSE {}
           dead == [Retired(l) EXCEPT !.cache = @ \cup failure]
           hits == IF root THEN {} ELSE GetSuccessCache(dead.cache, "self")
           retried == [dead EXCEPT !.attempts = IF counted THEN @ + 1 ELSE @]
           anew == [retried EXCEPT !.agent = NewAgent(role, GhostContext(l))]
<1>1. m \in {Served(dead, hit) : hit \in hits} \cup {Abandoned(dead), anew, Abandoned(retried)}
  BY DEF KillAndRespawn
<1>2. dead = [Retired(l) EXCEPT !.cache = Retired(l).cache \cup failure]
  OBVIOUS
<1>3. NoNewAnswer(l, dead) /\ HasResult(dead)
  <2>1. NoNewAnswer(l, Retired(l)) /\ HasResult(Retired(l))
    BY EndLeavesResult DEF NoNewAnswer
  <2> HIDE DEF dead
  <2>2. NoNewAnswer(Retired(l), dead)
    BY <1>2, <2>1, OthersLeaveResult
  <2>3. QED
    BY <2>1, <2>2, NoNewAnswerTwice DEF NoNewAnswer
<1> HIDE DEF dead
<1>4. retried = [dead EXCEPT !.attempts = IF counted THEN dead.attempts + 1 ELSE dead.attempts]
  OBVIOUS
<1>5. NoNewAnswer(l, retried) /\ HasResult(retried)
  <2> HIDE DEF retried
  <2>1. NoNewAnswer(dead, retried)
    BY <1>3, <1>4, OthersLeaveResult
  <2>2. QED
    BY <1>3, <2>1, NoNewAnswerTwice DEF NoNewAnswer
<1> HIDE DEF retried, hits
<1>6. NoNewAnswer(l, anew)
  BY <1>5, OthersLeaveResult, NoNewAnswerTwice
<1>7. NoNewAnswer(l, Abandoned(dead)) /\ NoNewAnswer(l, Abandoned(retried))
      /\ \A hit : NoNewAnswer(l, Served(dead, hit))
  BY <1>3, <1>5, EndLeavesResult, NoNewAnswerTwice
<1> HIDE DEF anew
<1>8. QED
  BY <1>1, <1>6, <1>7

LEMMA BlameLeavesResult ==
  ASSUME NEW l, HasResult(l), NEW why
  PROVE  NoNewAnswer(l, Blamed(l, why)) /\ HasResult(Blamed(l, why))
BY DEF Blamed, HasResult, NoNewAnswer

LEMMA WarnLeavesResult ==
  ASSUME NEW l, HasResult(l), NEW report, NEW room, NEW m \in Warned(l, report, room)
  PROVE  NoNewAnswer(l, m)
<1> DEFINE charged == [l EXCEPT !.agent.cycles = OneMore(@), !.agent.warnings = @ + 1]
           sentBack == [charged EXCEPT !.event = NoEvent, !.agent.fail = "sent back",
                                       !.agent.warned = report]
           blamed == Blamed(charged, "rejected")
<1>1. \/ m \in KillAndRespawn(blamed, l.agent.role, TRUE, room)
      \/ m \in {Abandoned(Retired(charged)), sentBack}
  BY DEF Warned
<1>2. NoNewAnswer(l, charged) /\ HasResult(charged)
  BY DEF HasResult, NoNewAnswer
<1> HIDE DEF charged
<1>3. NoNewAnswer(l, sentBack)
  BY <1>2 DEF HasResult, NoNewAnswer
<1>4. NoNewAnswer(l, blamed) /\ HasResult(blamed)
  BY <1>2, BlameLeavesResult, NoNewAnswerTwice
<1>5. NoNewAnswer(l, Abandoned(Retired(charged)))
  BY <1>2, EndLeavesResult, NoNewAnswerTwice
<1> HIDE DEF blamed, sentBack
<1>6. ASSUME m \in KillAndRespawn(blamed, l.agent.role, TRUE, room) PROVE NoNewAnswer(l, m)
  <2>1. NoNewAnswer(blamed, m)
    BY <1>4, <1>6, RespawnLeavesResult
  <2>2. QED
    BY <1>4, <2>1, NoNewAnswerTwice
<1>7. QED
  BY <1>1, <1>3, <1>5, <1>6

(* A review accepts an answer only on a critique that reads as one.        *)
LEMMA ReviewAccepts ==
  ASSUME NEW l, HasResult(l), NEW report, NEW similarity, NEW critique, NEW room,
         NEW m \in Reviewed(l, report, similarity, critique, room)
  PROVE  \/ NoNewAnswer(l, m)
         \/ m.result.critique = critique /\ DeepCritique(critique) # "reject"
<1> DEFINE kept == [l EXCEPT !.partial = [report |-> Trimmed(report), role |-> l.agent.role,
                                          grounded |-> l.kids.completed]]
           ruling == Judged(l.agent.role, l.agent.warnings, Trimmed(report), similarity, critique)
<1>1. NoNewAnswer(l, kept) /\ HasResult(kept)
  BY DEF HasResult, NoNewAnswer
<1>2. \/ m \in KillAndRespawn(Blamed(l, "rejected"), l.agent.role, TRUE, room)
      \/ m \in KillAndRespawn(Blamed(kept, "rejected"), l.agent.role, TRUE, room)
      \/ m \in Warned(kept, report, room)
      \/ m = Accepted(kept, report, critique) /\ ruling.verdict \notin {"execute", "warn"}
  BY DEF Reviewed
<1> HIDE DEF kept
<1>3. CASE m \in KillAndRespawn(Blamed(l, "rejected"), l.agent.role, TRUE, room)
  BY <1>3, BlameLeavesResult, RespawnLeavesResult, NoNewAnswerTwice
<1>4. CASE m \in KillAndRespawn(Blamed(kept, "rejected"), l.agent.role, TRUE, room)
  BY <1>1, <1>4, BlameLeavesResult, RespawnLeavesResult, NoNewAnswerTwice
<1>5. CASE m \in Warned(kept, report, room)
  BY <1>1, <1>5, WarnLeavesResult, NoNewAnswerTwice
<1>6. CASE m = Accepted(kept, report, critique) /\ ruling.verdict \notin {"execute", "warn"}
  <2>1. DeepCritique(critique) # "reject"
    BY <1>6 DEF Judged, Verdict
  <2>2. m.result.critique = critique
    <3> DEFINE of == [report |-> Trimmed(report), role |-> kept.agent.role, grounded |-> TRUE]
               result == [NoResult EXCEPT !.kind = "accepted", !.critique = critique, !.of = of]
    <3>1. m = [kept EXCEPT !.status = "completed", !.event = NoEvent, !.result = result,
                           !.cache = IF root THEN @ ELSE @ \cup {Entry("self", "accepted", "same")}]
      BY <1>6 DEF Accepted
    <3>2. result.critique = critique
      BY DEF NoResult
    <3> HIDE DEF result
    <3>3. m.result = result
      BY <1>1, <3>1 DEF HasResult
    <3>4. QED
      BY <3>2, <3>3
  <2>3. QED
    BY <2>1, <2>2
<1>7. QED
  BY <1>2, <1>3, <1>4, <1>5, <1>6

LEMMA FailureLeavesResult ==
  ASSUME NEW l, HasResult(l), NEW room, NEW m \in Failed(l, room)
  PROVE  NoNewAnswer(l, m)
<1> DEFINE free == l.event.what = "batch" /\ l.rejections < MaxDerivedRejections
           counted == [l EXCEPT !.rejections = IF free THEN @ + 1 ELSE @]
           closed == [Retired(l) EXCEPT !.cache = @ \cup {Entry("self", "rejected", "same")}]
<1>1. \/ m = Abandoned(closed)
      \/ \E role : m \in KillAndRespawn(counted, role, ~free, room)
  BY DEF Failed
<1>2. NoNewAnswer(l, counted) /\ HasResult(counted)
  BY DEF HasResult, NoNewAnswer
<1>3. NoNewAnswer(l, closed) /\ HasResult(closed)
  <2>1. NoNewAnswer(l, Retired(l)) /\ HasResult(Retired(l))
    BY EndLeavesResult DEF NoNewAnswer
  <2>2. NoNewAnswer(Retired(l), closed)
    BY <2>1 DEF HasResult, NoNewAnswer
  <2>3. QED
    BY <2>1, <2>2, NoNewAnswerTwice DEF NoNewAnswer
<1> HIDE DEF closed, counted, free
<1>4. QED
  BY <1>1, <1>2, <1>3, EndLeavesResult, RespawnLeavesResult, NoNewAnswerTwice

LEMMA SpawnLeavesResult ==
  ASSUME NEW l, HasResult(l), NEW m \in SpawnOutcomes(l)
  PROVE  NoNewAnswer(l, m)
<1>1. ASSUME NEW outOfEnergy PROVE NoNewAnswer(l, Released(l, outOfEnergy))
  <2> DEFINE told == Blamed(l, "spawn")
  <2>1. NoNewAnswer(l, told) /\ HasResult(told)
    BY BlameLeavesResult
  <2>2. \/ Released(l, outOfEnergy) = [told EXCEPT !.event = Event("failure", "spawn", l.agent.role)]
        \/ Released(l, outOfEnergy) =
             [told EXCEPT !.event = NoEvent, !.agent.awaiting = FALSE,
                          !.agent.cycles = OneMore(@),
                          !.agent.spawnClosed = @ \/ outOfEnergy]
    BY DEF Released
  <2> HIDE DEF told
  <2>3. QED
    BY <2>1, <2>2 DEF HasResult, NoNewAnswer
<1>2. ASSUME NEW what
      PROVE  NoNewAnswer(l, [Blamed(l, what) EXCEPT
                               !.event = Event("failure", what, l.agent.role)])
  BY BlameLeavesResult, OthersLeaveResult, NoNewAnswerTwice
<1>3. NoNewAnswer(l, [l EXCEPT !.event = NoEvent, !.kids.open = TRUE, !.agent.spawned = TRUE])
  BY DEF HasResult, NoNewAnswer
<1>4. QED
  BY <1>1, <1>2, <1>3 DEF SpawnOutcomes

(* A step puts no new answer on the task, or one the critique accepts.     *)
LEMMA StepAccepts ==
  ASSUME HasResult(life), Step
  PROVE  \/ NoNewAnswer(life, life')
         \/ \E c \in Completions : life'.result.critique = c /\ DeepCritique(c) # "reject"
<1>1. CASE Watchdog
  BY <1>1, OthersLeaveResult DEF Watchdog
<1>2. CASE RunThink
  <2> DEFINE agent == [RunThinking(life.agent) EXCEPT !.crashes = 0]
             done == [life EXCEPT !.agent = agent]
  <2>1. life' = EnforceCeiling(done)
    BY <1>2 DEF RunThink
  <2> HIDE DEF agent
  <2>2. NoNewAnswer(life, done) /\ HasResult(done)
    BY DEF HasResult, NoNewAnswer
  <2> HIDE DEF done
  <2>3. QED
    BY <2>1, <2>2, EndLeavesResult, NoNewAnswerTwice
<1>3. CASE RunDecide
  <2>a. PICK read \in Decisions, prose \in BOOLEAN, call \in Calls :
          LET a == life.agent
              d == DecisionOf(a, life.kids, read, prose)
              ran == RunDeciding([a EXCEPT !.crashes = 0], d, call, toolsOn)
          IN /\ (~toolsOn => call = CHOOSE c \in Calls : TRUE)
             /\ \E what \in Carried(ran.event, ran.agent.fail, d) :
               LET done == [life EXCEPT
                              !.agent = ran.agent,
                              !.event = IF ran.event = "none" THEN NoEvent
                                        ELSE Event(ran.event, what, a.role)]
               IN life' = IF d.action \in {"REPORT", "DIE"} \/ HandedOff(ran.agent, d.action)
                            THEN done ELSE EnforceCeiling(done)
    BY <1>3, Zenon DEF RunDecide
  <2> DEFINE d == DecisionOf(life.agent, life.kids, read, prose)
             ran == RunDeciding([life.agent EXCEPT !.crashes = 0], d, call, toolsOn)
  <2>b. PICK what \in Carried(ran.event, ran.agent.fail, d) :
          LET done == [life EXCEPT
                         !.agent = ran.agent,
                         !.event = IF ran.event = "none" THEN NoEvent
                                   ELSE Event(ran.event, what, life.agent.role)]
          IN life' = IF d.action \in {"REPORT", "DIE"} \/ HandedOff(ran.agent, d.action)
                       THEN done ELSE EnforceCeiling(done)
    BY <2>a, Zenon
  <2> HIDE DEF d, ran
  <2>1. PICK agent, event : LET done == [life EXCEPT !.agent = agent, !.event = event]
                            IN life' \in {done, EnforceCeiling(done)}
    <3> DEFINE ev == IF ran.event = "none" THEN NoEvent
                     ELSE Event(ran.event, what, life.agent.role)
    <3>1. LET done == [life EXCEPT !.agent = ran.agent, !.event = ev]
          IN life' \in {done, EnforceCeiling(done)}
      BY <2>b
    <3> HIDE DEF ev
    <3>2. QED
      BY <3>1, Zenon
  <2> DEFINE done == [life EXCEPT !.agent = agent, !.event = event]
  <2>2. NoNewAnswer(life, done) /\ HasResult(done)
    BY DEF HasResult, NoNewAnswer
  <2> HIDE DEF done
  <2>3. NoNewAnswer(life, EnforceCeiling(done))
    BY <2>2, EndLeavesResult, NoNewAnswerTwice
  <2>4. QED
    BY <2>1, <2>2, <2>3 DEF done
<1>4. CASE CrashInRun
  <2>1. PICK agent, event : life' = EnforceCeiling([life EXCEPT !.agent = agent, !.event = event])
    BY <1>4, Zenon DEF CrashInRun
  <2> DEFINE done == [life EXCEPT !.agent = agent, !.event = event]
  <2>2. NoNewAnswer(life, done) /\ HasResult(done)
    BY DEF HasResult, NoNewAnswer
  <2> HIDE DEF done
  <2>3. NoNewAnswer(life, EnforceCeiling(done))
    BY <2>2, EndLeavesResult, NoNewAnswerTwice
  <2>4. QED
    BY <2>1, <2>3 DEF done
<1>5. CASE HandleCompletion
  BY <1>5, ReviewAccepts DEF HandleCompletion
<1>6. CASE HandleFailure
  BY <1>6, FailureLeavesResult DEF HandleFailure
<1>7. CASE HandleSpawn
  BY <1>7, SpawnLeavesResult DEF HandleSpawn
<1>8. CASE HandleToolRequest
  <2>1. PICK agent : life' = [life EXCEPT !.event = NoEvent, !.agent = agent]
    BY <1>8, Zenon DEF HandleToolRequest, ToolAnswered
  <2>2. QED
    BY <2>1, OthersLeaveResult
<1>9. CASE ChildrenEnd
  <2>1. PICK kids : LET closed == [life EXCEPT !.kids = kids]
                    IN life' \in {EnforceCeiling(closed), [closed EXCEPT !.agent.awaiting = FALSE]}
    BY <1>9, Zenon DEF ChildrenEnd
  <2> DEFINE closed == [life EXCEPT !.kids = kids]
  <2>2. NoNewAnswer(life, closed) /\ HasResult(closed)
    BY DEF HasResult, NoNewAnswer
  <2> HIDE DEF closed
  <2>3. NoNewAnswer(life, EnforceCeiling(closed))
    BY <2>2, EndLeavesResult, NoNewAnswerTwice
  <2>4. NoNewAnswer(life, [closed EXCEPT !.agent.awaiting = FALSE])
    BY <2>2 DEF HasResult, NoNewAnswer
  <2>5. QED
    BY <2>1, <2>3, <2>4 DEF closed
<1>10. CASE DropStale
  BY <1>10, OthersLeaveResult DEF DropStale
<1>11. QED
  BY <1>1, <1>2, <1>3, <1>4, <1>5, <1>6, <1>7, <1>8, <1>9, <1>10 DEF Step

(* No task is completed by an answer whose critique opened with a          *)
(* rejection, or accepted it only in what the model invented after.        *)
THEOREM FirstWordAlwaysRules == Spec => []FirstWordRules
<1>1. Init => FirstWordRules
  <2>1. Init => life.result = NoResult
    BY DEF Init
  <2>2. NoResult.kind # "accepted"
    BY DEF NoResult
  <2>3. QED
    BY <2>1, <2>2 DEF FirstWordRules
<1>2. LifeInv /\ FirstWordRules /\ [Next]_vars => FirstWordRules'
  <2> SUFFICES ASSUME LifeInv, FirstWordRules, [Next]_vars,
                      life'.result.kind = "accepted"
               PROVE  Accepting(life'.result.critique)
    BY DEF FirstWordRules, Accepting
  <2>1. HasResult(life)
    BY DEF LifeInv, LifeOK, Lives, Results, HasResult
  <2>2. \/ NoNewAnswer(life, life')
        \/ \E c \in Completions : life'.result.critique = c /\ DeepCritique(c) # "reject"
    <3>1. CASE Step
      BY <2>1, <3>1, StepAccepts
    <3>2. CASE CrossCeiling
      BY <2>1, <3>2, OthersLeaveResult DEF CrossCeiling
    <3>3. CASE life' = life
      BY <2>1, <3>3 DEF NoNewAnswer
    <3>4. QED
      BY <3>1, <3>2, <3>3 DEF Next, Rest, vars
  <2>3. CASE NoNewAnswer(life, life')
    <3>1. life'.result = life.result
      BY <2>3 DEF NoNewAnswer
    <3>2. QED
      BY <3>1 DEF FirstWordRules, Accepting
  <2>4. ASSUME NEW c \in Completions, life'.result.critique = c, DeepCritique(c) # "reject"
        PROVE  Accepting(life'.result.critique)
    <3>1. c \in Seq(Seq(STRING \cup {"VERDICT:"}))
      BY CompletionsAreLines, WordsAreStrings
    <3>2. QED
      BY <2>4, <3>1, CritiqueAccepts
  <2>5. QED
    BY <2>2, <2>3, <2>4
<1>3. QED
  BY <1>1, <1>2, LifeInvariant, PTL DEF Spec
=============================================================================
