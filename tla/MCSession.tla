----------------------------- MODULE MCSession ------------------------------
(* Small plans, and every short text a handful of segments can make.       *)
EXTENDS Session

(* Two of these results just fit a block, and a third is cut off whole. *)
Long == 2999

Task(parent, deps, words, metric) ==
  [parent |-> parent, deps |-> deps, words |-> words, metric |-> metric, size |-> Long]
Goal == Task(-1, <<>>, "goal", FALSE)

(* Two subtasks. *)
Pair == [t \in 0 .. 2 |->
           CASE t = 0 -> Goal
             [] t = 1 -> Task(0, <<2>>, "fee", TRUE)
             [] t = 2 -> Task(0, <<>>, "rule", FALSE)]

(* A subtask with two of its own, that are the same work, one of them cut  *)
(* down again, and one beside it that waits for it.                        *)
Tree == [t \in 0 .. 5 |->
           CASE t = 0 -> Goal
             [] t = 1 -> Task(0, <<5>>, "fee", FALSE)
             [] t = 2 -> Task(1, <<>>, "rate", FALSE)
             [] t = 3 -> Task(1, <<>>, "rate", TRUE)
             [] t = 4 -> Task(3, <<>>, "area", FALSE)
             [] t = 5 -> Task(0, <<>>, "fee", FALSE)]

Segment(text, kind, ended, characters, words) ==
  [text |-> text, kind |-> kind, ended |-> ended, quoted |-> FALSE, characters |-> characters, words |-> words,
   noise |-> IF kind = "noise" THEN characters \div 2 ELSE 0,
   restates |-> IF kind = "echo" THEN "answer" ELSE ""]

Answer == Segment("answer", "prose", TRUE, 70, 12)
Stump == Segment("stump", "prose", FALSE, 20, 4)
Rule == Segment("rule", "prose", TRUE, 30, 5)

Segments ==
  {Answer, Stump, Rule,
   Segment("done", "closer", TRUE, 5, 1),
   Segment("go", "go", TRUE, 3, 1),
   Segment("final state", "log", TRUE, 22, 3),
   Segment("exactly", "echo", TRUE, 8, 2),
   Segment("action requested", "label", TRUE, 33, 5),
   Segment("your role", "role header", FALSE, 19, 3),
   Segment("worked example", "exemplar", TRUE, 60, 9),
   [Segment("placeholder", "exemplar", TRUE, 22, 3) EXCEPT !.quoted = TRUE],
   Segment("fence", "fence", FALSE, 3, 1),
   Segment("dashes", "separator", FALSE, 8, 2),
   Segment("soup", "noise", FALSE, 20, 1),
   Segment("may it", "question", TRUE, 20, 4),
   Segment("not completed", "own list", FALSE, 20, 3)}

ShortTexts == {<<a>> : a \in Segments} \cup (Segments \X Segments)
                \cup ({Answer, Stump, Rule} \X Segments \X Segments)

Setting(tasks, texts, code, ghosts) ==
  [plan |-> tasks, drafts |-> texts, software |-> code, ghosts |-> ghosts,
   crashes |-> IF ghosts = 0 THEN 0 ELSE 2, sessions |-> IF ghosts = 0 THEN 1 ELSE 3]

SmallSettings ==
  {Setting(Pair, {<<Answer>>}, FALSE, 3),
   Setting(Tree, {<<Answer>>, <<Rule, Stump>>}, FALSE, 0),
   Setting(Pair, ShortTexts, FALSE, 0),
   Setting(Pair, ShortTexts, TRUE, 0)}
=============================================================================
