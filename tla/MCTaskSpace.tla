----------------------------- MODULE MCTaskSpace -----------------------------
(* TaskSpace on four tasks and one agent id: enough for a chain, a fork, a  *)
(* join, a diamond, a forward dependency and a cycle of two or more.  One   *)
(* agent id suffices, the graph only asks whether a task has an agent.      *)
EXTENDS TaskSpace, TLC

Symmetry == Permutations(Tasks)

(* Bound: beyond two dependencies per task, or four in all, a state is      *)
(* checked and not followed.                                                *)
MaxDependencies == 2
MaxEdges == 4

FewDependencies ==
  /\ \A t \in Tasks : Cardinality(graph.dependencies[t]) <= MaxDependencies
  /\ Cardinality({e \in Tasks \X Tasks : e[2] \in graph.dependencies[e[1]]})
       <= MaxEdges
=============================================================================
