# Verifying the swarm orchestrator

TLA+ models, model checks and proofs for a program that solves a prompt with a
tree of language-model agents: a root decomposer splits the task, its children
split or answer their parts, a judge reviews what they report, and every agent
lives off one energy budget. What a model writes is not our subject. What is:
whether tasks start when they may and end when they must, whether anyone is left
waiting, and whether the budget pays for what was promised.

All paths below are in `src/`.

## 1. The system

### Parts

| Part | State | Operations |
|---|---|---|
| Task graph (`task_graph.py`) | per task: status 0 to 3, dependencies, dependents, in-degree, agent | `add_task`, `assign_agent`, `complete_task`, `fail_task`, `get_ready_tasks`, `direct_children` |
| Mailbox (`event_queue.py`) | one FIFO list | `push`, `drain`, `peek` |
| Agent registry and energy ledger (`colony_state.py`) | per agent: role, parent, children, generation, task, awaiting, crash count; budget, spending per task | `register_agent`, `unregister_agent` (reparents), `debit_energy`, `can_spawn` |
| Orchestrator (`orchestrator.py`) | live agents, overflow queues, abandoned and unstarted tasks, respawn counts, reservations | `tick`: watchdog, route events, start unblocked tasks, run every live agent; `handle_spawn`, `handle_completion`, `handle_failure`, `handle_parent_notification`, `_kill_and_respawn`, `_abandon_task`, the ceiling, admission |
| Agent (`agent_node.py`) | thoughts, cycle count, awaiting, closed actions, tool attempts | `run`: `think`, `decide`, `execute`; SPAWN, REPORT, DIE, TOOL; the stopping criterion of a generation |
| Judge (`judge.py`) | strikes, per agent | three tiers that end in promote, warn or execute |
| Task memory (`memory_state.py`) | the session's outcomes by task; ghosts, and two files they are saved to | `write`, `get_success_cache`, `_save_ghosts_unlocked`, `_load_ghosts` |
| Synthesizer (`synthesizer.py`) | none between calls | which results are collected, in which order; the answer's cuts and its last sentence |
| Text utilities (`text_utils.py`) | none | the cuts between a decode and whoever reads it |
| Problem phaser (`problem_phaser.py`) | none | prompt to specification, before the colony exists |
| Tools, ghost extractor, grader, entry point, simulations, probes, tests | | see PROJECT.json |

### How they interact

One thread runs `Orchestrator.run`, which calls `tick` until the root is closed,
the energy is gone or `MAX_TICKS` is reached. Nothing preempts a handler. What
makes the program hard is the mailbox: an agent's cycle only *pushes* SPAWN,
REPORT or DIE, and the event is routed in the **next** tick, after others that
were pushed before it. Until then its sender can be retired, its task respawned,
stopped at its ceiling or completed, its parent replaced. One handler, in turn,
chains many calls on shared state: closing a task releases dependents, threads
results into waiting agents, drains a queued sibling into the freed slot (which
may fail to start, which closes it, which drains the next) and pushes a
notification.

### What is hard

- An event handled against a colony that has changed since it was pushed
  (stale reports, failures with a stale parent, SPAWNs of retired agents).
- A decomposer parks itself in `request_spawn`, before anyone knows whether a
  child will start; the watchdog skips parked agents, so every way a batch can
  come to nothing has to wake it, and every way a child can end has to tell it.
- A decomposer retired while its children work: they are adopted, and "which
  children are open" becomes a mix of the graph and the registry.
- Subtasks that depend on siblings, over a fan-out cap with a queue behind it.
- One respawn counter for rejections, deaths, crashes, timeouts, conversions.
- Energy promised when a batch is admitted and needed much later, against
  spending that no admission sees.
- Two readers of one text. A generation is stopped by one function and read by
  another; a batch is filtered, cut and capped in turn, by position; an answer
  goes through two sets of cuts written at different times. Each pair has to
  agree, over texts nobody thought of.
- What outlives an agent: a reason handed to its successor, a partial result kept
  for an abandoned task, a cached answer, a ghost in two files of which a crash
  may leave one.

PROJECT.json lists each hazard at its line, with the properties that cover it.

### What makes each part correct

- *Task graph*: in-degrees count exactly what still blocks a task; a task runs if
  and only if nothing blocks it and it has an agent; closed tasks stay closed.
- *Registry and handlers*: one agent works on an open task; no agent waits
  without a wake-up on its way; the colony never idles with work left; a task
  completes only over a closed subtree; attempts are bounded; dependents have
  their dependencies' results when they first run; every run ends.
- *Agent*: what its model wrote is what is done; no label it could not make out ends
  a task; at the cycle cap nothing off the menu is executed.
- *Delegation*: by the time a decomposer reports, each subtask it worded was a child
  of its own that ended, or is named in a note that was written to it.
- *Judge and memory*: the first ruling counts; only accepted answers are served, only
  reviewed text is salvaged; what is on record as done is not done again; a ghost
  once on disk stays findable.
- *Synthesizer*: finished work reaches the model that writes the answer, but for the
  end of a block of results that is too long; what was abandoned is named, and nothing
  but what was never started is left out without a banner; no label, example or code
  of the harness is shown.
- *Energy*: what is promised is covered; an admitted child can be started; the
  budget stays off the level of energy death; a retry never lowers a ceiling.

## 2. The modules

| Module | Models | Kind |
|---|---|---|
| `TaskLifecycle` | what the task space promises, to whoever uses it | abstract specification |
| `TaskGraph` | `task_graph.py` as operators on one record; the graph invariant | operators |
| `TaskSpace` | the graph alone, under every legal order of calls | state machine |
| `MCTaskSpace` | four tasks, symmetric, bounded edges | TLC |
| `TaskGraphProofs` | what each operation of the graph does, and that each keeps it consistent | proofs |
| `TaskSpaceProofs` | the invariant and the refinement, for any set of tasks | proofs |
| `Colony` | registry, mailbox, overflow queues, and the steps handlers are made of | operators |
| `Orchestrator` | the tick loop, the handlers, the agents | state machine |
| `MCOrchestrator` | batches for small colonies | TLC |
| `OrchestratorProofs` | the shape of the colony and that no task lacks an agent, for any colony | proofs |
| `OwnershipProofs` | who works on what, and the refinement, for any colony that screens no batch out | proofs |
| `Generation` | how a decision is read out of a generated text, and when it is stopped | operators |
| `SpawnBatch` | what becomes of a batch of subtasks | operators |
| `Delegation` | one decision, from the first mark generated to the children started | state machine |
| `MCDelegation` | small texts and batches | TLC |
| `DelegationProofs` | the same for texts and batches of every size | proofs |
| `AgentCycle` | one `run()` of an agent, over `Generation` | operators |
| `Judge` | the three tiers and the reading of a critique | operators |
| `TaskMemory` | the success cache; ghosts in memory and on disk | operators |
| `AgentLife` | one task from its first agent to its end, over the three above | state machine |
| `MCAgentLife` | what ten generations decide, small reports and critiques | TLC |
| `AgentLifeProofs` | the same for any decisions, reports, critiques and limits | proofs |
| `TextTails` | the cuts of `text_utils.py` on texts of segments | operators |
| `Synthesis` | what the final answer is made of, over `TextTails` | operators |
| `Session` | runs one after another: their ghosts on disk, their answers | state machine |
| `MCSession` | two plans, and every short text | TLC |
| `SessionProofs` | the ghosts and their two files, what an answer is made of, and its cuts, for any sessions, plans and texts | proofs |
| `EnergyAdmission` | reservations, admission, debits, ceilings | state machine |
| `MCEnergy` | a small budget | TLC |
| `EnergyAdmissionProofs` | the accounts, for any budget and prices | proofs |

`TaskGraph` is used twice: `TaskSpace` runs it alone, and `Colony` instantiates
it, so that the handlers' graph is the graph that was proved about; the proofs
about the graph's operations (`TaskGraphProofs`) are instantiated the same way.
`TaskSpace` and `Orchestrator` both refine `TaskLifecycle`.

Four state machines look at the colony at four distances. `Orchestrator` has all
tasks and agents and every interleaving, and takes what an agent decides and a
judge rules as choices. `Delegation` and `AgentLife` have what those choices are
made of, for one decision and for one task, and take the rest of the colony as
choices. `Session` has what is left of a run when it is over. `Generation` is
shared by `Delegation` and `AgentLife`, `TaskMemory` by `AgentLife` and `Session`.

### How the models correspond to the code

**TaskGraph, TaskSpace.** Statuses 0, 1, 2, 3 are pending, running, complete,
failed; "absent" is a task not added yet. Lists of ids are sets. `add_task`
counts dependencies that are not closed, unknown ids included, and links only
known ones, as the code does. The orchestrator fails tasks without `fail_task`
(status 3, then the release loop of `_release_dependents`): `CloseFailed`.
`fail_task` itself, which nothing calls today, is modelled with its cascade.

**Colony.** Every operator takes the colony and yields the next one, because a
handler is a chain of such calls with no step in between. The recursion between
closing an unstartable child and draining the next queued one is unrolled:
once the energy is gone, the whole queue is closed in order and reported in
reverse order. Agents and their live objects, which share fields by delegation,
are one record. An agent's text is two flags: whether it has run (`started`) and
whether its context holds its dependencies' results (`informed`).

**Orchestrator.** A tick has four phases. `BeginTick` is the watchdog and the
drain; each `Route...` action is one event handled from beginning to end;
`EndRoute` is `_process_unblocked_tasks` and the snapshot of live agents; each
`RunAgent` action is one agent's cycle, in creation order, with the ceiling check
after it; `EndTick` is the test of the root. A failure event carries the role,
task and parent it had when it was pushed, as the payload does.
The rarer outcomes are choices, switched on by the constant `Outcomes` so that
each run explores the ones its question is about: a crash, a THINK, a DIE, a task
too large, the judge's warn and execute, ceilings and refusals, the success
cache, screening, dropped subtasks, a budget that pays for fewer agents, timeouts.

**EnergyAdmission.** One record holds the books: each task's status, reservation
(`TaskReservation`), parent and spending, and the total. "queued" is a subtask in
`pending_overflow`, or admitted and about to be started. The handler that starts
a batch does so one child at a time (`starting`), and nothing else happens in
between, because in the code nothing does. A cycle that ends in SPAWN, REPORT or
DIE is `HandOff`: billed, not checked. The ways its adjudication ends are actions:
`Complete`, `SendBack`, `Respawn`, `Convert`, `Abandon`, `Spawn`, `Release`.
Debits (thinking, crashes, injected results, critiques, notes) are choices of an
amount. `unreserved` is auxiliary: it sums what the budget bears that admission
never saw, that is, what an attempt costs beyond its price, a SPAWN of a retired
sender, a completed task tried again. The energy properties are about
`unreserved`, so they say exactly what overspending can and cannot break.

**Generation, Delegation.** A generated text is a sequence of marks: a label that
opens a line and the word after it, a bare keyword, `PAYLOAD:`, a brace, a quote,
prose, an empty line. `LastActionMatch` and `PayloadMatchFor` are the two regular
expressions with their preferences; `BalancedPrefix` is the brace counter that
skips strings; `ReadPayload` the parser with its repairs; `Recoverable` the search
for an unlabelled object; `Read` is `decide` up to the menu check and `Coerced`
what the check does. `StopFires` is `_ActionPayloadStop`, asked after each mark
(`Generate`); a text that looks degenerate is drawn again (`Redraw`). `Marks` are
what a model may write, so a generation is any text over them.

**SpawnBatch.** A subtask is what the screens tell apart (no text, plain, off topic,
copied from the prompt, software) and the positions it depends on. `Dependencies`
keeps the code's index arithmetic: an entry that lists none depends on index
`i - 1` of what is *left*, looked up among positions *as sent*. A SPAWN with a role
and a task but no list is a batch of one. What is dropped is written to the decomposer
in two notes by two functions, at two places in the handler (`Notes`): `[REVIEW]` for
what was off topic, `[BUDGET]` for what admission then cut. Both test that the agent is
live, which it is as long as its own request is being handled; one that was retired
before is not screened, admitted against or written to (`FanOutCap`).

A decision that is a SPAWN goes on in `Delegation`: the children end in any order and
each hands its slot to the next in the queue (`ChildEnds`); their results arrive in the
order they ended, and the agent is resumed by the first that finds no child open
(`Notified`, `NoneOpen`); then it thinks and decides (`DecideAgain`). `thoughts` is what
it has been written in the meantime, line by line, with each line's length, because the
prompt has the last 500 characters (`InView`). What else can befall the agent (a
ceiling, the watchdog) is in `Orchestrator`; it ends the agent, and then nobody reports.

**AgentCycle, Judge, TaskMemory, AgentLife.** An agent is a record of its counters
and of `fail_reason`, whose values are reasons. `RunThink`, `RunDecide` and
`CrashInRun` are one turn of `_run_live_agents`; an event it pushes is handled by
`HandleCompletion`, `HandleFailure`, `HandleSpawn` or `HandleToolRequest`, each the
whole handler. `KillAndRespawn` keeps its order: retire, record the failure, cache,
attempt cap, ceiling, admission, new agent. Similarities are bands between the
thresholds; `get_success_cache` is `GetSuccessCache`; a critique is lines of words,
read by `FirstRuling`. What the task's own subtasks come to is a choice
(`ChildrenEnd`). `DropStale` is the filter of `_route_events`: what reaches it of a
task that is closed, or of an agent that is gone, is dropped. Tools are in (`RequestTool`, `ReceiveToolResult`), although a run
passes agents none today; `Settings` has tasks with them and tasks without.

**TextTails, Synthesis, Session.** A text is a sequence of segments, each a sentence
or a line with its length, its brackets and the kind the recognizers would find in
it; each cut is an operator, and the pipelines (`ScrubResult`, `FormatOutput`,
`GuardFinalAnswer`) are their compositions, in the code's order. `Session` saves
ghosts in two steps, index before metadata, after every agent that dies
(`SaveFirst`, `SaveSecond`), and may crash or fail between any two; `Start` is a new
process that reads the files. A subtask ends in one of three ways (`SubtaskEnds`): it is
completed once what it depends on and all below it (`Descendants`) is closed, which is what the
graph's gating and `CompleteSubtree` give; it is abandoned, at any time; or it was never
started, for lack of energy, and then it is failed and in `unstarted` but not in
`abandoned`, two sets the code keeps apart, and nobody has split it up.
`RootCompletes` is the acceptance of the root, over nothing open, with its synthesis;
`Terminate` the choice of an answer, its guard and its banner. A result has a length:
`EntryEnds` says where each entry of the synthesizer's block of results ends, and `Shown`
which tasks' entries the cut at `MaxResultsBlockChars` leaves whole. `Visit` is one call of the depth-first
`visit` of `collect_results`, given what the calls inside it do; `VisitWithin` nests it
as deep as there are tasks, which is as deep as it can go, since each call inside
another has begun one task more.

### Abstractions worth knowing

- In `Colony` energy is `room`, the number of agents the budget still pays for; a
  handler starts with any smaller number (`Rooms`). Energy and tasks are composed
  by that choice, not by a joint state space. `AgentLife` has one flag, `over`.
- In `EnergyAdmission` amounts are naturals; read them as quarters of a unit,
  which is what the code's figures (10.25, 20.5) are multiples of. `int()` in
  `task_energy_ceiling` drops nothing for these figures: every ceiling is whole.
- In `Orchestrator`, which of SPAWN, REPORT and DIE is in flight is decided when it
  is routed.
- In `AgentLife` the debit that reaches the ceiling is a step of its own
  (`CrossCeiling`), noticed where the code looks; the cycle count stops one past
  its cap, since nothing tells two such counts apart.
- `merge_agents` is not modelled: nothing ever sets the status it looks for, as
  the comment in `consolidate_idle_agents` says. The goal-drift gate only measures.
- `handle_deadlock` and the agents read wall-clock time; here any agent the
  watchdog looks at may or may not be overdue.
- Of the caps on a text's length in characters, the two that decide what a model gets to
  see of others' work are modelled: the cut of the block of results, and the 500
  characters of an agent's thoughts. The others (the 400 characters a result is cut to
  on its way to a parent, which only bound the length of its line here, and the caps on
  an answer) are left out. So are task ids in the last sentence of an answer.
- The screens for copied and off-topic batches, which the code always has on, are an
  outcome (`"screen"`) of `MCEveryOutcome`, `MCStaleEvents`, `MCTwoAgents` and `MCUnjudged`,
  not of `MCColony`: two failures of one agent can then be on their way, and the last
  three show what comes of it. `OneAgentPerTask` and
  `ReportsAreOwners` are therefore stated for tasks none of whose batches was screened
  out (`Screened`). In `SpawnBatch` the screens are always on.

## 3. The runs

Runs that pass:

| Run | Instance | Question and result |
|---|---|---|
| `MCTaskSpace` | 4 tasks, up to 2 dependencies each and 4 in all; 144 thousand states | in-degrees exact, starts gated, closed for good, `TaskLifecycle` refined; the inductive invariant of the proofs holds |
| `MCColony` | 5 tasks, 6 agents, root and nested decomposers; a part beside a leaf, a trio, a diamond, a chain, caps 2 and 1; 1.9 million states | no silent stall, closed subtrees, dependents start informed, nothing is left for the parentless dispatch, `TaskLifecycle` refined; with no batch screened out |
| `MCEveryOutcome` | 3 tasks, 4 agents, every outcome; 408 thousand states | no waiter without a wake-up, clean successors, every run ends; one agent per task and reports of owners for every task none of whose batches was screened out |
| `MCEnergy` | 3 tasks, budget 12, batches one over the cap; 181 thousand states | covered, solvent, admitted children startable, ceilings kept |
| `MCDelegation` | texts of up to 6 marks of 9 kinds from 6 openings, 3 draws, batches of up to 3 over caps 2 and 1, result lines of 120 or 430 characters, thoughts of 0 or 300; 3.1 million states | complete blocks run, early stops lose nothing, ends on purpose, the final menu, each subtask a child that ended or named in a note, dependencies exist, copied plans start nothing |
| `MCAgentLife` | one task in 5 settings, 10 decisions, 6 reports, 5 critiques, 1 respawn, 3 cycles; 189 thousand states | only reviewed text salvaged, only accepted answers served, first word rules, successors told why, nothing redone, the task ends |
| `MCSession` | trees of 3 and 6 tasks, 3 ghosts, 2 crashes, 3 sessions, texts of up to 3 of 16 segments, results of 2999 characters in a block of 6000; 153 thousand states | work reaches the synthesizer, but for the end of a block too long; what was abandoned is named, and without a banner only what was never started is missing; answers are clean, lessons kept |

Why these bounds: five tasks and six agents are the least with a decomposer below
the root that is retired over a working child, next to a sibling that ends in the
same tick, and a respawn. Four tasks make a diamond, and a batch of three over a
cap of two or one. Caps, attempts and cycles are small numbers of the same
relation as the code's (a batch can exceed the cap, the cap on cycles comes after
one free cycle, attempts run out). A SPAWN whose ids would exceed `MaxTasks` is
not asked for. In `MCEnergy` the budget admits the root and about one batch, so
that admission cuts batches, refuses retries and conversions, and still lets
them happen; what is followed ends when the root closes, as the run does. Six
marks hold a drafted block and the one that replaces it, when the opening is the
draft; three subtasks make a default dependency differ from a listed one once one
is dropped, leave one for the budget after one was off topic, and let one wait behind
a cap. Two results of 2999 characters just fit the block of 6000 with what stands
between them, and a third is cut off whole; a line of 120 leaves a note in view and
one of 430, or a thought of 300 after it, does not. One respawn and one uncounted rejection pass each cap of a task's
life, two crashes theirs. Three segments hold an answer, what a cut takes, and
what a second cut finds once the first is made; three ghosts and three sessions
let a crash fall in the first save of a process that has loaded, or has not.
Deadlock is checked in the runs of the orchestrator, of a task's life and of
sessions (what is finished stutters in `Terminated` or `Rest`); the graph, the
books and a single decision really do come to a stop.

Fairness. `Orchestrator`'s `Spec` has `WF_vars(Next)`: the loop of `run` is one thread, so as long
as a step is possible one is taken. Nothing is assumed about which: an agent may
think until its cycle cap, the judge may warn as long as it can. `Settles` holds
without `MAX_TICKS`, which `Stop` also allows at any tick. `AgentLife` assumes the
same loop: `Turns` is weak fairness of `Step`, written without ENABLED (a task not
settled always has a step: that is the deadlock check). It also assumes that a task
that goes on for ever reaches its ceiling (`WF_vars` of `CrossCeiling`): every `run()`
is billed at least one unit and the ceiling is finite. Without that, warnings and
rejected batches alone would not end a task whose cycles are handed off.

Runs that refute a comment (PROJECT.json quotes each):

| Run | What the code does |
|---|---|
| `MCEarlyResume` | a parent is resumed with a child's result still in the mailbox |
| `MCStaleEvents` | a failure left by a retired agent re-opens a completed root, to close it as failed |
| `MCTwoAgents` | a batch screened out leaves two failures of one agent on their way, and its task ends up with two agents |
| `MCUnjudged` | the report of an agent that was replaced meanwhile passes the filter, with nobody left to judge it for |
| `MCUnstarted` | a subtask that could not be started is neither named in an accepted root's answer nor bannered |

Five more configurations are kept beside these, for `tlc -config X.cfg M`; each has one
property, taken from a comment, and TLC refutes it:

| Configuration, module | Property | What the code does, and what is said |
|---|---|---|
| `MCTaskSpaceCycles`, `MCTaskSpace` | `CyclesSurfaced` | `add_task` never reports a cycle of two or more tasks, looking before anything can depend on the new one; a cycle "would hang the colony forever with no diagnostic -- surface it immediately instead" (`task_graph.py:121-124`) |
| `MCOrphans`, `MCOrchestrator` | `NoOrphan` | a failure respawns its task under the parent its payload named when it was pushed, retired since (`orchestrator.py:3610`); such children "are now reparented one level up" (`colony_state.py:189-191`) |
| `MCMissing`, `MCSession` | `MissingIsNamed` | the final guard can cut off the sentence that names what was not completed, with a code fence or, when it states a figure, as a log line; it is "Appended last, after every cut, so no trim can reach it" (`synthesizer.py:471`) |
| `MCNotices`, `MCDelegation` | `NoticesAreRead` | a decomposer decides what to report with the note about its dropped subtasks pushed out of its prompt's 500 characters (`agent_node.py:1140`) by results and thoughts; "Truncation is only honest if the decomposer knows" (`orchestrator.py:4132`) |
| `MCCut`, `MCSession` | `DoneIsBelow` | the synthesizer's block is cut at 6000 characters (`synthesizer.py:274`) and what is past it never seen; the banner says of all that completed that they "are synthesized below; anything not mentioned was not reached" (`orchestrator.py:5283-5285`) |

One more comment does not hold, and has no run of its own because `AnswerClean` states
the exception: the docstring of `_guard_final_answer` calls `degeneracy_cut` idempotent
(`orchestrator.py:4966`), but in a sentence that has a label it cuts at the label
and not at an example of the prompt's earlier in that sentence, which only a second call
would find. What an abandoned root wrote can so reach the user with such an example at
its end (`The total is "<one sentence summary>."` before a line `ACTION: REPORT`).

Three behaviours are worth knowing
and have no line of the repository against them: the SPAWN of a retired agent is
handled as the orchestrator's own, unscreened and uncapped; a decomposer over its
ceiling goes on for a cycle after each SPAWN that starts nothing; a critique that
opens with a rejection spelt with spaces is overruled by a plain acceptance further
down, because such a word is read only where there is no plain one. The first two, and
the default dependency that points elsewhere after a drop, are notes at their hazards.

Each property of a passing run has a mutant in PROJECT.json, kept in the module
beside the definition it replaces and commented "Mutant of": a plausible bug
under which that property fails.

## 4. The proofs

**TaskGraphProofs, TaskSpaceProofs**: for any finite set of tasks and any agents.
`InDegreeExact` and `GatedStart` are not inductive. A release decrements whoever is
in a `dependents` list, so the list must mirror `dependencies` (`Linked`), a task not
added yet must not be in any (`AbsentBlank`), and a completed task must have had
its own dependencies closed (`CompletedAfter`). The last part is less obvious:
a task failed by the cascade keeps its agent and its in-degree, and later
releases still decrement it; it must never come down to the value that would
start it (`ClosedStaysDown`: its in-degree exceeds the number of open tasks it is
still linked to). `Consistent` is the conjunction. `TaskGraphProofs` has one lemma
per operation of `task_graph.py`, which shows that it is kept and says what becomes of
each field; it is about the operators, so the proofs of the colony use it too. From it
`TaskSpaceProofs` draws `ConsistentAlways`, `TypeCorrect`, `InDegreeAlwaysExact`,
`StartsAlwaysGated`, `ClosedStaysClosed` and, step by step, `ImplementsLifecycle`.
Assumed: `TasksFinite`, `NobodyIsNoAgent`.

**EnergyAdmissionProofs**: for any budget, prices, caps and number of tasks. The
invariant is `Sound`: the books keep their kinds (`Kept`) and
`Committed <= Limit + unreserved`. Sums are cardinalities of sets of units, so
that they need no recursion; lemmas say what a sum does when one entry changes.
Every step is one of a few book entries: a charge moves energy from what a task
holds to what is spent, and puts the excess on `unreserved`; retiring and closing
only release; admitted work fits by the very test that admitted it; a respawn is
re-priced and tested; starting a child charges what it already held.
`AlwaysCovered` and `AlwaysSolvent` follow; `AdmittedAlwaysStarts` because what
a queued child holds includes the price of its agent; `RestartKeepsCeiling`
because `k_peak` keeps a retried task's batch and a decomposer is priced at its
fan-out cap at least. Assumed, each by name in the module: amounts are natural
numbers; the budget is at least the floor, the floor above the threshold; an
attempt's price covers its spawn; a decomposer at its cap is dearer than an
executor (the comment in `__init__` says why).

**DelegationProofs**: for texts of every length over any marks, batches of every
size, and any caps. The invariant `IInv` says what the variables are to each other:
the text is one, the decision on show was read out of the text on show with the
menu on show, the children are those of the request, started or still queued, and none
of them is left open once the agent is resumed (`ChildrenOfRequest`), and of the notes
written with the request no line has gone from the agent's thoughts since (`NotesKept`).
What two notes name is what either names (`Joined`, `NotesName`), so that they name
everything that left the batch, and with `Handled`, on the cases of
`HandleSpawnRequest`, `NothingVanishesAlways` follows: a word on what was written, not on
what is read, which is what `MCNotices` is about. `DependenciesExistAlways` and
`CopiedPlanStartsNothingAlways` come from the same invariant, and
`FinalMenuHoldsAlways` from the cases of `Coerced`.
`EndsOnPurposeAlways` and `CompleteBlockRunsAlways` are about positions: the choice
of a block takes greatest and least elements, which exist because positions are
finite sets of integers (`MinOf`, `MaxOf`). What parses as one object holds no label,
so nothing after a complete block's payload can be taken for a later block
(`NothingFollows`); the block is therefore the one meant (`BlockIsMeant`), and its
payload is read whole (`ReadsAnObject`). Assumed: `TextsAreOfMarks`.

**OrchestratorProofs**: for colonies of every size, any batches, any caps and every
rare outcome. A handler is a loop over a batch, a queue or a set of dependents; the
model writes each loop as a function on `0 .. n`, and `LoopRuns` carries a property
from one pass to the next (from `Induct`, which is the least counterexample of a
finite set). `Evolves` and `Handles` say what a step, and a whole handler, may do to
the colony: it keeps its kinds, uses no more ids than the batch asks for, and takes
on nobody it leaves waiting (`Waiting`: pending, not blocked and without an agent).
The invariant `LoopInv` adds what holds between handlers (`Steady`): nobody waits,
`room` is what is left of `MaxAgents`, and the SPAWNs on their way ask for no more
ids than there are. That last part is what makes `TypeOK` inductive: without it the
counter of tasks could leave its range in a later tick. From it follow
`ColonyKeepsItsShape` and `EveryTaskHasAnAgent`: the dispatch of parentless tasks in
`_process_unblocked_tasks` finds nothing to do, because every handler that adds or
unblocks a task hands it to an agent or closes it. Assumed: `TasksFinite`,
`BoundsArePositive`, `BatchesAreBatches` (a batch is a list of subtasks, each with a role
and the positions it depends on).

**OwnershipProofs**: who works on what, for colonies of every size. None of
`OneAgentPerTask`, `ReportsAreOwners`, `CompleteSubtree`, `SuccessorClean`, `Informed` is inductive,
and none follows without the others: a report is its owner's because no second agent
was given the task, and none was because nobody else's failure re-opened it. The
invariant `OwnerInv` adds to `LoopInv`, between two handlers:

- `House`: the graph is consistent; an open task is assigned to its registered agent
  and to no other, agents being numbered as they are born (`Assigned`); a queued child
  waits for a decomposer at work and is not in the graph yet (`Queued`); only a
  decomposer that ran has children, and one that has open ones knows it spawned
  (`Family`); nothing below a completed task is open (`Finished`); the first agent of a
  task that could start has the results of all it depends on, and before that has
  neither run nor been written to (`Briefed`, which needs that a closing hands results
  to the agent of every task it leaves waiting for nothing, `Settled`);
- `InOrder`: each event in the inbox or the mailbox still stands (its sender has the
  task, or the event is one the filter drops), no agent has two on their way, and a
  parent's events are in the order the code relies on;
- what a phase adds: while events are routed an agent that pushed one is parked
  (`Quiet`); while agents run one that pushed has had its turn (`Spoken`); and at
  both ends of that, an agent at work and not parked has nothing open below it
  (`Settling`), which is why a decomposer can be retired by its own event without
  leaving a subtree behind.

Each handler is shown to keep `House` by steps that say what they disturb (`Keeps`),
with `S`, the tasks being added, as the hole in `Family` while a batch is started; and
each is shown to move the tasks `Forward`, from which `ClosedStaysForGood` and, with
the graph's own invariant, `ColonyImplementsLifecycle` follow.

All seven are under `NoScreening`: no batch is rejected as derived from the prompt. The
condition is not there for convenience. A batch screened out pushes a failure in the
name of its spawner while the spawner's own events are still on their way; that is
the two-events-of-one-agent case `InOrder` excludes. The code has no switch for the
screens: a run they reject nothing in is one these theorems are about, any other is
not. With screening TLC refutes three of them as they would stand without the
condition, each in a run of its own: a closed task is re-opened (`MCStaleEvents`), an open
task gets a second agent (`MCTwoAgents`), and a report passes the filter that nobody
registered sent (`MCUnjudged`). `OneAgentAlways` and `ReportsAlwaysOwners` therefore prove both forms:
the ones those runs refute (`NeverTwoAgents`, `NoReportUnjudged`), and the ones of the
passing runs, which are about tasks none of whose batches was screened out. The latter
`MCEveryOutcome` also checks with screening on; that they hold with it in general is not
proved. `CompleteSubtree` and `SuccessorClean` hold with screening on the instance of
`MCStaleEvents`, and `SuccessorClean` in `MCEveryOutcome`; in general that is open too.

**AgentLifeProofs**: for any decisions, reports, critiques, donors and limits. The
invariant `LifeInv` says, besides the kinds: what is kept of an abandoned task was not
turned away without a review (`Salvageable`); what the cache served is accepted and
for the same words (`ServedWell`); counts are within their caps (`Counted`); the last
crash in a row is on its way to the orchestrator (`CrashesToldOf`, without which the
crash count would pass its cap); and an event on its way is of the agent that has
the task and names what that agent ended on (`EventOfAgent`). Each handler is taken
apart in the order of the code, ending in one lemma on `KillAndRespawn`. From it
follow `LifeKeepsItsShape`, `SalvageIsReviewed` and `ServedIsAccepted`. `Follows`, which
relates a life before and after a handler, gives the two action properties:
`RespawnIsTold` (a successor is told the reason of the event that retired its
predecessor) and `AnswerIsReused` (no successor starts while the cache holds an
answer). `FirstWordAlwaysRules` needs two things more. One is what a critique is
read to say: its words are those of its lines, the first line's first (`Flattens`, for
critiques of any number of lines: the recursive function in `FlattenSeq` exists for one
line more whenever it does for one line less, so, by `CountUp`, for all of them), what
the cut leaves has no sample of the model's own (`CutLeavesHead`), and so a critique
that is not read as a rejection does not open with one and accepts somewhere before it
invents (`CritiqueAccepts`). The other is that only `Accepted` puts an answer on a task:
whatever else a handler does leaves the result, or replaces it by one that was not
accepted (`NoNewAnswer`). Assumed: `LimitsAreCounts`, `SettingsAreTasks`,
`CapsAreCounts`, `StrikesAreCounted`, `CompletionsAreLines`.

**SessionProofs**: for any number of ghosts, sessions and crashes, any plans, and drafts
of any length. `LessonsKept` is about two files that are never replaced together: a record
can be found only if the metadata has it and the index has its vector. The invariant
`GhostInv` says that ids in a process and on disk are below the next one to be given out
(`Store`, `Files`), that a running process knows every record on disk and has its vector if the
disk has (`Knows`), and that between the two writes of a save the index on disk is the
process's own (`HalfSaved`). The first write can therefore only add vectors, the second
only records, and a process that dies between them, or whose save fails, leaves a
pair of files that lost nothing. `Knows` survives a restart because both files are read
or neither, and neither is read only while no record is on disk at all.

`AnswerClean` is about a dozen cuts one after another. What they have in common is that
each leaves a prefix (`CutOf`), a loop of them included (`TrimDegenerateTailsCuts`), and a
prefix of a text keeps what was true of all its segments. So it is enough to show of
one cut in each pipeline what that cut removes: `degeneracy_cut` every label, since every
segment is in some sentence and the first bad sentence is cut at its label or before
(`DegeneracyCutCleans`); `cut_adjacent_repeat` every block that follows itself, for what
is before the first such block has none (`CutAdjacentRepeatCuts`); `trim_artifact_tail`
code and a rule of dashes at the end. Three things are not prefixes, and need a word
each: a deduplication only leaves segments out, the marker of an abandoned task and the
last sentence of a synthesis add segments that are no labels, and `drop_incomplete_tail`,
which comes last, ends on a terminator, so not on a rule of dashes. Examples are the
exception the property names: `degeneracy_cut` leaves one only in front of a label, in a
sentence that then does not end, and only an abandoned root's text still has labels
when it reaches the guard. The invariant `AnswerInv` says that of whatever is stored
on the way (`Sound`).

`WorkReachesUser` and `NamesTheRest` rest on the visit of `collect_results`, which marks a
task as seen before it looks at what that depends on: on a cycle it would list a task
before its dependency. The invariant `CollectInv` says why it meets none: every dependency
of a completed task is closed, and the completed tasks have ranks that go down along their
dependencies (`Rankable`; the rank of a task is when it completed, so a new one is above
all others). It also says that whatever answer is stored or shown as a synthesis was
made of the tasks as they ended (`Made`), the statuses having stopped changing once the
root is done. A call of `visit` is then specified
by what it may find and what it leaves (`MayVisit`, `HasVisited`): what has been begun and
not listed has a higher rank than the task asked for, so a task that was seen is listed;
and afterwards the task is listed, the same tasks are begun, and the list is in order
(`InOrder`). `VisitStep` shows that a call does so if the calls inside it do, and
`VisitWithinDoes` that nesting them as deep as there are tasks is deep enough, each call
having one task less to go. So the list is all that completed, each once
(`VisitedListsAll`), and leaving roll-ups out keeps its order (`WithoutKeepsOrder`). That each task left out
is stood for by its subtasks goes from the last task down, a parent being numbered before
its children (`CompletedStand`).

That is what is collected; the model reads what is left of it after the cut of the block.
Entries end one after another (`EntriesFollow`), so what is shown is a beginning of the list
(`ShownIs`): all of it, if the last one ends in time, and otherwise a beginning that has,
with each result, those before it, and so those it was built on. That the results past the
cut reach nobody is what the code does, and `MCCut` shows it.

`NamesTheRest` has a second half, on what an answer without a banner may leave out. The
invariant `RestInv` says that a failed subtask was abandoned or never started, that none is
open once the root is completed (`Accounted`), and that a synthesis without a banner is of
an accepted root below which nothing was abandoned (`Bannered`). What is left then was
never started; that it goes unsaid is `MCUnstarted`.

Assumed, for all of them: `SettingsAreSound` (a plan numbers its tasks from a root on, a parent
before its children, all of them in the plan, and depends on tasks of the plan; the length
of a result is a natural number; a draft is a text, and a rule of
dashes does not end in a full stop), and `MaxResultsBlockCharsIsNat`.

**What no theorem states.** Liveness under fairness is out of the provers' reach:
`Settles` and `TaskSettles` are only model-checked. So are two safety properties of
the colony. `NoLostWakeup` says of a parked agent that somebody will wake it, and needs
an account of each child that ends between two handlers. `NoSilentStall` needs that,
and an order on tasks in which following a parked agent to a child, and a blocked
child to what it depends on, comes to an end. `StopReadsWhole` is about a brace counter that folds over
a text, and holds only because `MinNewMarks` is shorter than any complete block, which is
a fact about the figures and not about the code's shape. What a recursive definition
computes is out of the provers' reach in general. The loops of the handlers, the cuts,
the visit and the flattening of a critique are provable because a property of what is
passed along, from one round or call to the next, is carried by induction on their number
(`Induct`, `LoopRuns`), whatever the loop computes.

## 5. What is not modelled, and the plan

In order of what they would add:

1. `OwnershipProofs` without its condition, for `CompleteSubtree`, `SuccessorClean` and the
   conditional forms of `OneAgentPerTask` and `ReportsAreOwners`: an `InOrder` that
   allows a second event of one agent when it comes from a screen.
2. `NoLostWakeup`, on top of `OwnerInv`: of a parked agent, which child or event is the
   one that wakes it.
3. A joint model of energy and tasks, replacing `room`, if it stays small.
4. The ghost's text: which of a predecessor's results a successor can still read
   (`ghost_extractor.py`), which `Informed` stops short of.

Not planned: prompts, embeddings, the recognizers' regular expressions, figures and
identifiers in `text_utils.py`, and the phaser (sequential text processing, no
shared state); what tools do (unreachable in a run); the grader, simulations,
probes and training data (not part of the running program).

Known limits of what is covered are notes at the hazards: the fan-out cap when
adopted children free slots they never took, a started subtask depending on a
queued one, a dependent's results after a respawn, a second smaller batch.
