---------------------------- MODULE MCDelegation ----------------------------
(* Generations of up to six marks, from several openings, and batches of   *)
(* up to three subtasks.                                                   *)
EXTENDS Delegation

Mark(kind, word) == [kind |-> kind, word |-> word]

SmallMarks ==
  {Mark("label", "SPAWN"), Mark("label", "REPORT"), Mark("label", "SPA"),
   Mark("bare", "SPAWN"), Mark("payload", ""), Mark("open", "batch"),
   Mark("close", ""), Mark("text", "prose"), Mark("blank", "")}

SmallOpenings ==
  {<<Mark("label", "SPAWNSUBTASKS")>>,
   <<Mark("label", "SPWAN")>>,
   <<Mark("lower", "REPORT")>>,
   <<Mark("label", "SPAWN"), Mark("payload", ""), Mark("open", "batch")>>,
   <<Mark("label", "SPAWN"), Mark("payload", ""), Mark("open", "misspelt"), Mark("quote", "")>>,
   <<Mark("label", "REPORT"), Mark("payload", ""), Mark("text", "prose")>>}

Entry(task, listed, after) == [task |-> task, listed |-> listed, after |-> after]

Entries ==
  {Entry("none", FALSE, {})} \cup
  {Entry(task, FALSE, {}) : task \in {"plain", "off", "copied", "software"}} \cup
  {Entry("plain", TRUE, after) : after \in SUBSET {1, 2, 3}}

SmallBatches == UNION {[1 .. n -> Entries] : n \in 1 .. 3}
=============================================================================
