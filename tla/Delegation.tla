----------------------------- MODULE Delegation -----------------------------
(***************************************************************************)
(* One decision of an agent, from the first mark its model generates to    *)
(* the children the orchestrator starts for it: decide() in agent_node.py  *)
(* with its stopping criterion, request_spawn, and handle_spawn in         *)
(* orchestrator.py.  And what a decomposer has been written by the time it *)
(* decides again, its children closed: handle_parent_notification, run().  *)
(* A decomposer stopped or retired before that never gets so far.          *)
(***************************************************************************)
EXTENDS Generation, SpawnBatch

CONSTANTS
  Marks,         \* the marks the model may generate
  Openings,      \* how a generation may begin
  MaxNewMarks,   \* marks in a generation (max_new_tokens)
  MaxDraws,      \* samples decide() draws while they look degenerate
  Batches,       \* the batches of subtasks a SPAWN may carry
  ResultLines,   \* characters of a child's result, as it is written down
  ThinkLengths   \* characters an agent may think before it decides

Text == Seq([kind : STRING, word : STRING])

ASSUME TextsAreOfMarks == (\A mark \in Marks : <<mark>> \in Text) /\ Openings \subseteq Text

VARIABLES
  text,      \* the generation so far
  draw,      \* which sample it is
  phase,     \* "generating", "decided", "spawning", "waiting", "resumed",
             \* "reporting" or "done"
  menu,      \* the actions on offer: all of them, or final_actions
  decision,  \* what decide() returned
  request,   \* a SPAWN event: the batch, who sent it, what the project is
  children,  \* what the orchestrator made of it
  ended,     \* the children that have ended, in order
  thoughts   \* the decomposer's thoughts since its request, line by line

vars == <<text, draw, phase, menu, decision, request, children, ended, thoughts>>
reading == <<ended, thoughts>>

Menus == {ActionTokens, {"SPAWN", "DIE"}, {"REPORT", "DIE"}, {"DIE"}}
NoDecision == Decided("none", Unread("none"), "none")
NoRequest == [batch |-> <<>>, spawner |-> "gone", guarded |-> FALSE]

Init ==
  /\ text \in Openings
  /\ draw = 1
  /\ phase = "generating"
  /\ menu = ActionTokens
  /\ decision = NoDecision
  /\ request = NoRequest
  /\ children = Nothing("none")
  /\ ended = <<>> /\ thoughts = <<>>

(* looks_degenerate: the same sentence twice. *)
LooksDegenerate(t) ==
  \E i, j \in DOMAIN t : i # j /\ t[i].kind = "text" /\ t[j] = t[i]

Ended == StopFires(text) \/ Len(text) = MaxNewMarks

Generate ==
  /\ phase = "generating"
  /\ ~Ended
  /\ \E mark \in Marks : text' = Append(text, mark)
  /\ UNCHANGED <<draw, phase, menu, decision, request, children, reading>>

(* The model may also end by itself. *)
MayEnd == phase = "generating" /\ (Ended \/ Len(text) >= MinNewMarks)

Redraw ==
  /\ MayEnd
  /\ LooksDegenerate(text) /\ draw < MaxDraws
  /\ text' \in Openings
  /\ draw' = draw + 1
  /\ UNCHANGED <<phase, menu, decision, request, children, reading>>

(* The last sample stands, degenerate or not. *)
Decide ==
  /\ MayEnd
  /\ LooksDegenerate(text) => draw = MaxDraws
  /\ menu' \in Menus
  /\ \E prose \in BOOLEAN :
       decision' = IF menu' = ActionTokens THEN Read(text) ELSE Coerced(Read(text), menu', prose)
  /\ phase' = "decided"
  /\ UNCHANGED <<text, draw, request, children, reading>>

(* request_spawn. *)
RequestSpawn ==
  /\ phase = "decided"
  /\ decision.action = "SPAWN" /\ SpawnAccepted(decision)
  /\ phase' = "spawning"
  /\ text' = <<>> /\ draw' = 1 /\ menu' = ActionTokens /\ decision' = NoDecision
  /\ UNCHANGED <<request, children, reading>>

(* The notes are written while the request is handled. *)
HandleSpawn ==
  /\ phase = "spawning"
  /\ \E batch \in Batches, spawner \in Spawners, guarded \in BOOLEAN :
       /\ request' = [batch |-> batch, spawner |-> spawner, guarded |-> guarded]
       /\ \E k \in 0 .. Len(batch) :
            children' = HandleSpawnRequest(batch, spawner, guarded, k)
       /\ phase' = IF children'.outcome = "handled" /\ spawner # "gone" THEN "waiting" ELSE "done"
  /\ thoughts' = children'.notes
  /\ UNCHANGED <<text, draw, menu, decision, ended>>

(* A child ends, however it does, and its slot goes to the next queued.    *)
ChildEnds ==
  /\ phase = "waiting"
  /\ \E i \in children.started \ Range(ended) : ended' = Append(ended, i)
  /\ LET next == FirstOf(children.queued, 1)
     IN children' = [children EXCEPT !.started = @ \cup next, !.queued = @ \ next]
  /\ UNCHANGED <<text, draw, phase, menu, decision, request, thoughts>>

(* Mutant of NoneOpen: the first result resumes the agent. *)
FirstResultResumes == ended # <<>>

(* _open_child_task_ids. *)
NoneOpen == children.queued = {} /\ children.started \subseteq Range(ended)

(* handle_parent_notification: results come in the order the children      *)
(* ended in; the agent is resumed by the first to find no child open, with *)
(* the others' perhaps still in the mailbox.                               *)
Delivered == Len(thoughts) - Len(children.notes)

Notified ==
  /\ phase \in {"waiting", "resumed"} /\ Delivered < Len(ended)
  /\ \E n \in ResultLines : thoughts' = Append(thoughts, Line({ended[Delivered + 1]}, n))
  /\ phase' = IF NoneOpen THEN "resumed" ELSE phase
  /\ UNCHANGED <<text, draw, menu, decision, request, children, ended>>

(* run: it thinks, unless only REPORT and DIE are left to it, and decides. *)
(* One whose batch started nothing was released at once.                   *)
DecideAgain ==
  /\ phase = "resumed" \/ (phase = "waiting" /\ DOMAIN children.after = {})
  /\ \E n \in ThinkLengths :
       thoughts' = IF n = 0 THEN thoughts ELSE Append(thoughts, Line({}, n))
  /\ phase' = "reporting"
  /\ UNCHANGED <<text, draw, menu, decision, request, children, ended>>

Next == \/ Generate \/ Redraw \/ Decide \/ RequestSpawn
        \/ HandleSpawn \/ ChildEnds \/ Notified \/ DecideAgain

Spec == Init /\ [][Next]_vars

----------------------------------------------------------------------------
(* Whatever was drafted before, a generation that ends in a complete block *)
(* runs that block: its action, with the object that follows, whole.  The  *)
(* stop criterion, the choice of block and the payload parser must agree.  *)
CompleteBlockRuns ==
  phase = "decided" /\ menu = ActionTokens =>
    \A i \in 1 .. Len(text) - 2 :
      LET raw == Stripped(After(text, i + 1))
      IN /\ text[i].kind = "label" /\ text[i].word \in ActionTokens
         /\ text[i + 1].kind = "payload"
         /\ Parses(raw)
         => decision = Decided(text[i].word, Object(raw), "kept")

(* Stopping early loses nothing: a request in braces that the criterion    *)
(* stopped on is read as the object it is, unless its text is at fault.    *)
StopReadsWhole ==
  phase = "decided" /\ menu = ActionTokens /\ decision.action # "REPORT" =>
    LET p == PayloadMatchFor(text, LastActionMatch(text))
        raw == Stripped(After(text, p))
    IN /\ p # 0 /\ StopFires(text) /\ Opens(raw)
       /\ \A mark \in Range(raw) : mark.kind \in {"open", "close"}
       => decision.payload = "object"

(* A task is ended by an agent that said so, or named no action at all:    *)
(* never by a label decide() could not make out.                           *)
EndsOnPurpose ==
  phase = "decided" /\ menu = ActionTokens /\ decision.action \in {"REPORT", "DIE"} =>
    \/ LastActionMatch(text) = 0
    \/ \E mark \in Range(text) :
         mark.kind \in {"label", "bare", "lower"} /\
         (mark.word = decision.action \/ mark.word = "REPROT")

(* At the cycle cap nothing off the menu is executed, and a SPAWN only     *)
(* with a payload that looks like it would start something.                *)
FinalMenuHolds ==
  phase = "decided" /\ menu # ActionTokens =>
    decision.action \in menu /\ (decision.action = "SPAWN" => IsSpawnPayload(decision))

(* When a decomposer reports, every subtask it worded has been a child of  *)
(* its own that ended, or a note was written to it that names it: whether  *)
(* it left the batch as off topic, for the budget, or waited in the queue. *)
NothingVanishes ==
  phase = "reporting" =>
    \A i \in Prepared(request.batch) :
      i \in Range(ended) \/ \E line \in Range(thoughts) : i \in line.about

(* A child waits only for children of its batch that exist or are queued. *)
DependenciesExist ==
  \A i \in DOMAIN children.after :
    children.after[i] \subseteq (children.started \cup children.queued)

(* A plan that copies the prompt's examples starts nothing, not even the   *)
(* subtasks that are the agent's own.                                      *)
CopiedPlanStartsNothing ==
  phase \in {"waiting", "resumed", "reporting", "done"} /\ request.spawner # "gone" =>
    \A i \in DOMAIN request.batch :
      request.batch[i].task = "copied" => children.started = {} /\ children.queued = {}

----------------------------------------------------------------------------
(* A claim of the repository's comments the code does not keep *)

(* _build_prompt: of an agent's thoughts the prompt has the last 500       *)
(* characters, from the first line that begins within them.                *)
InView ==
  LET size[n \in 0 .. Len(thoughts)] ==
        IF n = 0 THEN 0 ELSE size[n - 1] + thoughts[Len(thoughts) + 1 - n].characters
  IN {i \in DOMAIN thoughts : size[Len(thoughts) + 1 - i] <= 500}

(* "Truncation is only honest if the decomposer knows": a decomposer that  *)
(* decides what to report has every subtask that was left out of its batch *)
(* before it.  Those that were not are in YOUR SUBTASKS, beside its        *)
(* thoughts.                                                               *)
NoticesAreRead ==
  phase = "reporting" =>
    \A i \in Prepared(request.batch) \ DOMAIN children.after :
      \E n \in InView : i \in thoughts[n].about
=============================================================================
