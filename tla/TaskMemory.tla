----------------------------- MODULE TaskMemory -----------------------------
(***************************************************************************)
(* The vector memory of memory_state.py: the session's cache of finished   *)
(* subtasks, and the ghosts of dead agents, which are saved to two files   *)
(* after every write and read again when a session starts.                 *)
(***************************************************************************)
EXTENDS Integers, Sequences, SequencesExt, FiniteSetsExt

----------------------------------------------------------------------------
(* The success cache: entries by the task that wrote them, the outcome,    *)
(* and how near the task's description is to the one looked up: "far" is   *)
(* below SUCCESS_CACHE_THRESHOLD, "same" at or above CROSS_TASK_....       *)
Entry(task, outcome, near) == [task |-> task, outcome |-> outcome, near |-> near]

Bands == <<"far", "near", "same">>
Rank(e) == CHOOSE i \in DOMAIN Bands : Bands[i] = e.near

(* Mutant of GetSuccessCache: only the nearest neighbour is read. *)
NearestOnly(cache, task) ==
  {e \in cache : /\ \A f \in cache : Rank(f) <= Rank(e)
                 /\ \A f \in cache : f.task = task => e.task = task
                 /\ e.outcome = "accepted" /\ Rank(e) > 1
                 /\ (e.task = task \/ Rank(e) = 3)}

(* Mutant of GetSuccessCache: one threshold for its own and for others'.   *)
AnyNearEntry(cache, task) ==
  {e \in cache : e.outcome = "accepted" /\ Rank(e) > 1}

(* get_success_cache: the accepted entries it may answer with, the nearest *)
(* ones of those near enough.  A failure beside them does not hide them.   *)
GetSuccessCache(cache, task) ==
  LET near == {e \in cache : Rank(e) > 1 /\ e.outcome = "accepted"}
      servable == {e \in near : e.task = task \/ Rank(e) = 3}
  IN {e \in servable : \A f \in servable : Rank(f) <= Rank(e)}

----------------------------------------------------------------------------
(* The ghosts: the index holds the vectors under their ids, the metadata   *)
(* says what each id is the ghost of.                                      *)
NoGhosts == [index |-> {}, metadata |-> <<>>, nextId |-> 0]

(* write("ghost", ...), in memory. *)
WithGhost(store, ghost) ==
  [index |-> store.index \cup {[id |-> store.nextId, ghost |-> ghost]},
   metadata |-> [id \in DOMAIN store.metadata \cup {store.nextId} |->
                   IF id = store.nextId THEN ghost ELSE store.metadata[id]],
   nextId |-> store.nextId + 1]

(* The disk: either file may not be there. *)
EmptyDisk == [faiss |-> "absent", json |-> "absent", index |-> {}, metadata |-> <<>>, nextId |-> 0]

(* _save_ghosts_unlocked: each file is replaced whole, the index, if there *)
(* is one, first.                                                          *)
SaveIndex(disk, store) ==
  IF store.index = {} THEN disk ELSE [disk EXCEPT !.faiss = "whole", !.index = store.index]

SaveMetadata(disk, store) ==
  [disk EXCEPT !.json = "whole", !.metadata = store.metadata, !.nextId = store.nextId]

(* Mutant of LoadGhosts: ids are given out from the start again. *)
LoadGhostsFromZero(disk) ==
  IF disk.faiss = "whole" /\ disk.json = "whole"
    THEN [index |-> disk.index, metadata |-> disk.metadata, nextId |-> 0]
    ELSE NoGhosts

(* _load_ghosts: both files, or none of it. *)
LoadGhosts(disk) ==
  IF disk.faiss = "whole" /\ disk.json = "whole"
    THEN [index |-> disk.index, metadata |-> disk.metadata, nextId |-> disk.nextId]
    ELSE NoGhosts
=============================================================================
