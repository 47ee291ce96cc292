--------------------------- MODULE MCOrchestrator ---------------------------
(* Small colonies: what a SPAWN batch may ask for, by the shape it gives   *)
(* the tree of tasks.  A verifier entry is a leaf below any decomposer; an *)
(* executor entry becomes a decomposer below the root and an executor      *)
(* further down, where "oversize" may turn it into a decomposer again.     *)
EXTENDS Orchestrator

Leaf(after) == [role |-> "verifier", listed |-> TRUE, after |-> after]
Part(after) == [role |-> "executor", listed |-> TRUE, after |-> after]
Following == [role |-> "verifier", listed |-> FALSE, after |-> {}]

Solo == <<Part({})>>
Pair == <<Leaf({}), Leaf({})>>
Mixed == <<Part({}), Leaf({})>>
Trio == <<Leaf({}), Leaf({}), Leaf({})>>

Diamond == <<Leaf({}), Leaf({1}), Leaf({1, 2})>>
Chain == <<Following, Following, Following>>

DelegationBatches == {Solo, Pair}
ColonyBatches == {Mixed, Trio, Diamond, Chain}
OutcomeBatches == {Solo, Pair, <<Following, Following>>}
=============================================================================
