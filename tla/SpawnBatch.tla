----------------------------- MODULE SpawnBatch -----------------------------
(***************************************************************************)
(* orchestrator.py, _handle_spawn_request: what becomes of the subtasks a  *)
(* decomposer asks for.  An entry of a batch is a record: what its task    *)
(* text is (none, plain, off topic, copied from the prompt's examples,     *)
(* software nobody asked for), whether it lists dependencies, and the      *)
(* positions it lists.  A position is an entry's place in the batch as the *)
(* model sent it.                                                          *)
(***************************************************************************)
EXTENDS Integers, FiniteSets, Sequences

(* The spawner: the root decomposer, one below it, an agent of another     *)
(* role, or one that was retired while its request was in the mailbox.     *)
Spawners == {"root", "middle", "executor", "gone"}

CONSTANTS MaxSubtasksRoot, MaxSubtasksNonRoot

(* Entries that are dicts with a task text; the rest is skipped. *)
Prepared(batch) == {i \in DOMAIN batch : batch[i].task # "none"}

(* _screen_derived_subtask_batch.  One copied or software-shaped subtask   *)
(* condemns the batch; off-topic ones only when they are all of it.        *)
OffTopic(batch) == {i \in Prepared(batch) : batch[i].task = "off"}

(* Mutant of Condemned: a copied subtask is judged as an off-topic one is. *)
CondemnedIfAllCopied(batch, guarded) ==
  LET bad == {i \in Prepared(batch) : batch[i].task \in {"off", "copied", "software"}}
  IN Prepared(batch) # {} /\ bad = Prepared(batch)

Condemned(batch, guarded) ==
  \/ guarded /\ \E i \in Prepared(batch) : batch[i].task = "software"
  \/ \E i \in Prepared(batch) : batch[i].task = "copied"
  \/ Prepared(batch) # {} /\ OffTopic(batch) = Prepared(batch)

(* The first k of a set of positions. *)
FirstOf(positions, k) ==
  {i \in positions : Cardinality({j \in positions : j < i}) < k}

(* What is left of the batch once off-topic subtasks are dropped and       *)
(* admission has cut it to the k the budget covers.  The goal-drift gate   *)
(* between the two only measures (GOAL_DRIFT_GATE_ACTS = False).           *)
Admitted(batch, k) == FirstOf(Prepared(batch) \ OffTopic(batch), k)

(* Mutant of Dependencies: dropped targets are kept. *)
DependenciesAsSent(batch, admitted, i) ==
  (IF batch[i].listed THEN batch[i].after
   ELSE {Cardinality({j \in admitted : j < i})}) \cap Prepared(batch)

(* An entry that lists no dependencies depends on the previous index of    *)
(* what is left, looked up among the positions of the batch as sent.       *)
Dependencies(batch, admitted, i) ==
  LET named == IF batch[i].listed THEN batch[i].after
               ELSE {Cardinality({j \in admitted : j < i})}
  IN named \cap admitted

(* An agent that is gone has no role to cap, and nobody to screen for, to  *)
(* admit against or to write to.                                           *)
FanOutCap(spawner, batch) ==
  CASE spawner = "root" -> MaxSubtasksRoot
    [] spawner = "middle" -> MaxSubtasksNonRoot
    [] OTHER -> Cardinality(DOMAIN batch)

(* What a batch became: children started, children queued behind the cap,  *)
(* the dependencies of both, and the lines written to the spawner.         *)
Result(outcome, started, queued, after, notes) ==
  [outcome |-> outcome, started |-> started, queued |-> queued,
   after |-> after, notes |-> notes]

Nothing(outcome) == Result(outcome, {}, {}, <<>>, <<>>)

Children(batch, admitted, spawner, notes) ==
  LET started == FirstOf(admitted, FanOutCap(spawner, batch))
  IN Result("handled", started, admitted \ started,
            [i \in admitted |-> Dependencies(batch, admitted, i)], notes)

(* A line of the harness in an agent's thoughts: the subtasks it is about, *)
(* and its length.  A note takes some 140 characters, and up to 84 for     *)
(* each description it names.                                              *)
Line(about, characters) == [about |-> about, characters |-> characters]

Note(positions) ==
  IF positions = {} THEN <<>> ELSE <<Line(positions, 140 + 64 * Cardinality(positions))>>

(* Mutant of Notes: one note for a batch, the budget's only when no        *)
(* subtask was off topic.                                                  *)
OneNote(batch, k) ==
  IF OffTopic(batch) # {} THEN Note(OffTopic(batch))
  ELSE Note(Prepared(batch) \ Admitted(batch, k))

(* [REVIEW], written by _drop_off_topic_subtasks before admission, and     *)
(* [BUDGET], by _tell_parent_about_dropped_subtasks after it, on what the  *)
(* first had left.                                                         *)
Notes(batch, k) ==
  LET kept == Prepared(batch) \ OffTopic(batch)
  IN Note(OffTopic(batch)) \o Note(kept \ FirstOf(kept, k))

(* _handle_spawn_request, when admission covers k of what is offered.      *)
HandleSpawnRequest(batch, spawner, guarded, k) ==
  IF spawner = "executor" THEN Nothing("structural")
  ELSE IF spawner = "gone" THEN Children(batch, Prepared(batch), spawner, <<>>)
  ELSE IF Condemned(batch, guarded) THEN Nothing("rejected")
  ELSE IF k = 0 /\ Prepared(batch) # {} THEN Nothing("refused")
  ELSE Children(batch, Admitted(batch, k), spawner, Notes(batch, k))
=============================================================================
