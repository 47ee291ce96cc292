----------------------------- MODULE Synthesis ------------------------------
(***************************************************************************)
(* What the final answer is made of (synthesizer.py): which results go     *)
(* into it, in which order, how many of them there is room for, and what   *)
(* it says was not completed.  A task is [parent, deps, words, metric,     *)
(* size]: its description up to case and spaces, whether that states a     *)
(* figure, and the characters of the description and the result together,  *)
(* as the model is given them.  status says how each one ended.            *)
(***************************************************************************)
EXTENDS TextTails

CONSTANT MaxResultsBlockChars

ASSUME MaxResultsBlockCharsIsNat == MaxResultsBlockChars \in Nat

Root == 0

ChildrenOf(plan, t) == {c \in DOMAIN plan : plan[c].parent = t}
WordsOf(plan, tasks) == {plan[t].words : t \in tasks}

Completed(plan, status) == {t \in DOMAIN plan \ {Root} : status[t] = "completed"}

----------------------------------------------------------------------------
(* Mutant of RollupsToOmit: a failed child counts as covered. *)
RollupsOfClosedChildren(plan, status) ==
  {t \in Completed(plan, status) :
     /\ ChildrenOf(plan, t) # {}
     /\ \A c \in ChildrenOf(plan, t) : status[c] # "open"}

(* _rollups_to_omit: a result whose children are all there themselves, or  *)
(* failed and were done again by a sibling of the same description.        *)
RollupsToOmit(plan, status) ==
  LET completed == Completed(plan, status)
      again(c, t) == /\ status[c] = "failed"
                     /\ plan[c].words \in WordsOf(plan, ChildrenOf(plan, t) \cap completed)
  IN {t \in completed :
        /\ ChildrenOf(plan, t) # {}
        /\ \A c \in ChildrenOf(plan, t) : c \in completed \/ again(c, t)}

(* The depth-first visit: everything a task depends on that is among those *)
(* asked for, in their order, and then the task.                           *)
Visits(plan) == [seen : SUBSET DOMAIN plan, order : Seq(DOMAIN plan)]

(* One call of visit, of which `inner` does the calls it makes.            *)
Visit(plan, among, inner) ==
  [v \in Visits(plan) \X DOMAIN plan |->
     LET done == v[1]
         t == v[2]
         deps == plan[t].deps
         below[k \in 0 .. Len(deps)] ==
           IF k = 0 THEN [done EXCEPT !.seen = @ \cup {t}] ELSE inner[<<below[k - 1], deps[k]>>]
     IN IF t \in done.seen \/ t \notin among THEN done
        ELSE [below[Len(deps)] EXCEPT !.order = Append(@, t)]]

(* Each call inside another has one task more behind it, so no calls are   *)
(* nested deeper than there are tasks.                                     *)
VisitWithin(plan, among) ==
  LET visit[n \in 0 .. Cardinality(DOMAIN plan)] ==
        IF n = 0 THEN [v \in Visits(plan) \X DOMAIN plan |-> v[1]]
        ELSE Visit(plan, among, visit[n - 1])
  IN visit[Cardinality(DOMAIN plan)]

(* From each task in turn, in the order they were added. *)
Visited(plan, among) ==
  LET upTo[n \in 0 .. Cardinality(DOMAIN plan)] ==
        IF n = 0 THEN [seen |-> {}, order |-> <<>>]
        ELSE VisitWithin(plan, among)[<<upTo[n - 1], n - 1>>]
  IN upTo[Cardinality(DOMAIN plan)].order

(* Those of a list that are not in a set. *)
Without(list, omitted) ==
  LET upTo[n \in 0 .. Len(list)] ==
        IF n = 0 THEN <<>>
        ELSE IF list[n] \in omitted THEN upTo[n - 1] ELSE Append(upTo[n - 1], list[n])
  IN upTo[Len(list)]

(* collect_results: in dependency order, roll-ups left out. *)
CollectResults(plan, status) ==
  Without(Visited(plan, Completed(plan, status)), RollupsToOmit(plan, status))

(* Mutant of CollectNotCompleted: an omitted roll-up covers nothing. *)
NotCompletedBesideResults(plan, status, abandoned) ==
  WordsOf(plan, abandoned) \ WordsOf(plan, Range(CollectResults(plan, status)))

(* collect_not_completed: descriptions of abandoned tasks, the root's too, *)
(* that no finished task has.                                              *)
CollectNotCompleted(plan, status, abandoned) ==
  LET covered == Range(CollectResults(plan, status)) \cup RollupsToOmit(plan, status)
  IN WordsOf(plan, abandoned) \ WordsOf(plan, covered)

(* Where each entry of the results block ends, with two line breaks        *)
(* between one and the next.                                               *)
EntryEnds(plan, material) ==
  LET upTo[n \in 0 .. Len(material)] ==
        IF n = 0 THEN 0
        ELSE upTo[n - 1] + plan[material[n]].size + IF n = 1 THEN 0 ELSE 2
  IN upTo

(* Mutant of Shown: the block keeps its end. *)
ShownFromTheEnd(plan, material) ==
  LET ends == EntryEnds(plan, material)
      start(n) == IF n = 1 THEN 0 ELSE ends[n - 1] + 2
      whole(n) == ends[Len(material)] - start(n) <= MaxResultsBlockChars
  IN {material[n] : n \in {k \in DOMAIN material : whole(k)}}

(* The block is cut at its greatest length: the tasks whose entries are    *)
(* still whole.                                                            *)
Shown(plan, material) ==
  LET ends == EntryEnds(plan, material)
      whole(n) == ends[n] <= MaxResultsBlockChars
  IN {material[n] : n \in {k \in DOMAIN material : whole(k)}}

(* The sentence appended last.  Its label has a word of the log register   *)
(* in it, so one that states a figure nobody gave reads as a log line.     *)
NotCompletedSentence(plan, abandoned, named) ==
  IF named = {} THEN <<>>
  ELSE LET figured == \E t \in abandoned : plan[t].words \in named /\ plan[t].metric
       IN <<[text |-> "Not completed", kind |-> IF figured THEN "log" ELSE "not completed",
             ended |-> TRUE, quoted |-> FALSE, characters |-> 40, words |-> 6, noise |-> 0,
             restates |-> ""]>>

(* run, and format_output on what the model wrote; <<>> when nothing of it *)
(* is left, and then nothing is appended either.                           *)
FormatOutput(plan, abandoned, named, raw) ==
  LET clean == CleanSynthesis(raw)
  IN IF clean = <<>> THEN <<>> ELSE clean \o NotCompletedSentence(plan, abandoned, named)
=============================================================================
