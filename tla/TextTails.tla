----------------------------- MODULE TextTails ------------------------------
(***************************************************************************)
(* The cuts of text_utils.py that stand between a decode and its reader.   *)
(* A text is a sequence of segments: a sentence or a line, with its length *)
(* in characters and in words, its brackets, the kind it reads as, whether *)
(* it ends in a terminator, and whether that has a closing quote or        *)
(* bracket behind it, and, for a fragment, the text it restates.           *)
(***************************************************************************)
EXTENDS Integers, Sequences, SequencesExt, FiniteSetsExt

(* A rule of dashes has no terminator. *)
IsText(t) == t \in Seq(Range(t)) /\ \A i \in DOMAIN t : t[i].kind = "separator" => ~t[i].ended

Prefix(t, n) == SubSeq(t, 1, n)

(* _sentence_spans splits behind a terminator only if it is bare; to       *)
(* drop_incomplete_tail a quoted one will do.                              *)
Breaks(segment) == segment.ended /\ ~segment.quoted

Starts(t) == {i \in DOMAIN t : i = 1 \/ Breaks(t[i - 1])}
EndOf(t, i) == CHOOSE j \in i .. Len(t) :
                 /\ Breaks(t[j]) \/ j = Len(t)
                 /\ \A k \in i .. j - 1 : ~Breaks(t[k])
Sentence(t, i) == SubSeq(t, i, EndOf(t, i))

Characters(s) == FoldFunction(+, 0, [k \in DOMAIN s |-> s[k].characters])
Words(s) == FoldFunction(+, 0, [k \in DOMAIN s |-> s[k].words])
Noise(s) == FoldFunction(+, 0, [k \in DOMAIN s |-> s[k].noise])
OnlyKinds(s, kinds) == \A k \in DOMAIN s : s[k].kind \in kinds
IsQuestion(seg) == seg.kind = "question"

----------------------------------------------------------------------------
(* Where a decode collapses *)

MinRepeat == 15     \* _REPEAT_MIN_SENTENCE_CHARS
LongSentence == 60  \* _REPEAT_LONG_SENTENCE_CHARS
MaxBlock == 4

(* drop_incomplete_tail: back to the last terminator, if there is one. *)
DropIncompleteTail(t) ==
  LET ends == {i \in DOMAIN t : t[i].ended}
  IN IF ends = {} THEN t ELSE Prefix(t, Max(ends))

(* cut_adjacent_repeat: at the second copy of a block that follows itself; *)
(* two segments are the same whatever ends them.                           *)
CutAdjacentRepeat(t) ==
  LET same(a, b) == t[a].text = t[b].text
      repeats == {r \in (1 .. MaxBlock) \X DOMAIN t :
                    /\ r[2] + 2 * r[1] - 1 <= Len(t)
                    /\ \A k \in r[2] .. r[2] + r[1] - 1 : same(k, k + r[1])
                    /\ Characters(SubSeq(t, r[2], r[2] + r[1] - 1)) >= MinRepeat}
  IN IF repeats = {} THEN t
     ELSE Prefix(t, Min({r[1] + r[2] : r \in repeats}) - 1)

(* degeneracy_cut's count: a long sentence may not come twice, another one *)
(* not three times; a result already trimmed, none of them twice.          *)
Threshold(s, strict) == IF strict \/ Characters(s) > LongSentence THEN 2 ELSE 3

Repeated(t, i, strict) ==
  LET s == Sentence(t, i)
  IN /\ Characters(s) > MinRepeat
     /\ Cardinality({j \in Starts(t) : j <= i /\ Sentence(t, j) = s}) >= Threshold(s, strict)

Collapsed(t, i, strict) ==
  LET s == Sentence(t, i)
  IN \/ Repeated(t, i, strict)
     \/ \E k \in DOMAIN s : s[k].kind = "loop"
     \/ Noise(s) >= 8 /\ 3 * Noise(s) > Characters(s)

Labels(t, i) == {k \in i .. EndOf(t, i) : t[k].kind = "label"}
Echoes(t, i) == {k \in i .. EndOf(t, i) : t[k].kind = "exemplar"}

(* degeneracy_cut: at the first sentence that shows it; harness labels are *)
(* cut at their own line.                                                  *)
DegeneracyCut(t, strict) ==
  LET degenerate == {i \in Starts(t) :
                       Collapsed(t, i, strict) \/ Labels(t, i) # {} \/ Echoes(t, i) # {}}
      first == Min(degenerate)
  IN IF degenerate = {} THEN t
     ELSE IF ~Collapsed(t, first, strict) /\ Labels(t, first) # {}
       THEN Prefix(t, Min(Labels(t, first)) - 1)
     ELSE Prefix(t, first - 1)

(* cut_prompt_header_echo: one header may be a sentence; the colony's own  *)
(* "Your role: executor" may not, nor may two of them.                     *)
CutPromptHeaderEcho(t) ==
  LET headers == {i \in DOMAIN t : t[i].kind \in {"header", "role header", "label"}}
  IN IF \/ \E i \in headers : t[i].kind = "role header"
        \/ Cardinality({t[i].text : i \in headers}) >= 2
       THEN Prefix(t, Min(headers) - 1) ELSE t

----------------------------------------------------------------------------
(* Tails *)

(* Where a run of segments or sentences that pass a test reaches the end:  *)
(* how much of the text is left before it.                                 *)
BeforeRun(t, starts, passes) ==
  LET others == {i \in starts : i \notin passes}
  IN IF others = {} THEN 0 ELSE EndOf(t, Max(others))

(* trim_status_tail, over segments: a deploy log, or a "ready, done, go";  *)
(* never the answer to a question.                                         *)
LogKinds == {"log", "go", "closer", "signoff"}
TrimStatusTail(t) ==
  LET others == {i \in DOMAIN t : t[i].kind \notin LogKinds}
      cut == IF others = {} THEN 0 ELSE Max(others)
      run == {t[i].kind : i \in cut + 1 .. Len(t)}
      fires == "log" \in run \/ ("go" \in run /\ Len(t) - cut >= 2)
  IN IF fires /\ (cut = 0 \/ ~IsQuestion(t[cut])) THEN Prefix(t, cut) ELSE t

IsCloser(s) == OnlyKinds(s, {"closer"}) /\ Words(s) <= 3

(* trim_closer_tail: four or more, and never the whole text. *)
TrimCloserTail(t) ==
  LET closers == {i \in Starts(t) : IsCloser(Sentence(t, i))}
      cut == BeforeRun(t, Starts(t), closers)
  IN IF cut > 0 /\ Cardinality({i \in Starts(t) : i > cut}) >= 4 THEN Prefix(t, cut) ELSE t

(* What a fragment may be made of: closers, confirmations, and words the   *)
(* rest of the text uses.                                                  *)
Restates(t, i) ==
  LET s == Sentence(t, i)
  IN /\ Words(s) <= 2
     /\ \A k \in DOMAIN s :
          \/ s[k].kind \in {"closer", "confirmation"}
          \/ \E j \in DOMAIN t \ (i .. EndOf(t, i)) : t[j].text \in {s[k].text, s[k].restates}

(* trim_echo_tail: a run of two such fragments, one of them a closer, or   *)
(* any sign-off; not after a question, and never the whole text.           *)
TrimEchoTail(t) ==
  LET signoffs == {i \in Starts(t) : OnlyKinds(Sentence(t, i), {"signoff"})}
      echoes == {i \in Starts(t) : Restates(t, i)} \cup signoffs
      cut == BeforeRun(t, Starts(t), echoes)
      run == {i \in Starts(t) : i > cut}
      closed == \E i \in run : i \in signoffs \/ IsCloser(Sentence(t, i))
  IN IF /\ cut > 0 /\ closed
        /\ Cardinality(run) >= 2 \/ run \cap signoffs # {}
        /\ ~IsQuestion(t[cut])
       THEN Prefix(t, cut) ELSE t

(* trim_degenerate_tails: until none of them finds anything, which is      *)
(* after a round for each segment at the latest.                           *)
TrimDegenerateTails(t) ==
  LET round(u) == IF TrimStatusTail(u) = <<>> THEN <<>>
                  ELSE TrimEchoTail(TrimCloserTail(TrimStatusTail(u)))
      after[n \in 0 .. Len(t)] == IF n = 0 THEN t ELSE round(after[n - 1])
  IN after[Len(t)]

(* trim_artifact_tail: code fences and JSON unless code was asked for, and *)
(* separators at the end, until there are none.                            *)
TrimArtifactTail(t, allowCode) ==
  LET fenced == {i \in DOMAIN t : t[i].kind \in {"fence", "json"}}
      code(u) == IF allowCode \/ fenced = {} THEN u ELSE Prefix(u, Min(fenced) - 1)
      others(u) == {i \in DOMAIN u : u[i].kind # "separator"}
      kept == code(t)
  IN IF others(kept) = {} THEN <<>> ELSE Prefix(kept, Max(others(kept)))

----------------------------------------------------------------------------
(* The pipelines *)

(* scrub_result, for what a task stores. *)
ScrubResult(t) == TrimDegenerateTails(DegeneracyCut(CutPromptHeaderEcho(t), TRUE))

(* The first of two equal sentences stays: dedupe_global_and_cap, for a    *)
(* text within the cap.                                                    *)
DedupeGlobal(t) ==
  LET start(k) == Max({i \in Starts(t) : i <= k})
      seen(k) == \E j \in Starts(t) : j < start(k) /\ Sentence(t, j) = Sentence(t, start(k))
      upTo[k \in 0 .. Len(t)] ==
        IF k = 0 THEN <<>>
        ELSE IF seen(k) THEN upTo[k - 1] ELSE Append(upTo[k - 1], t[k])
  IN upTo[Len(t)]

(* cut_model_not_completed: from the model's own list on. *)
CutModelNotCompleted(t) ==
  LET lists == {i \in DOMAIN t : t[i].kind = "own list"}
  IN IF lists = {} THEN t ELSE Prefix(t, Min(lists) - 1)

(* Walked back again if something was cut. *)
WalkedBack(before, after) == IF after = before THEN after ELSE DropIncompleteTail(after)

(* format_output, on what the model wrote; <<>> when nothing is left. *)
CleanSynthesis(raw) ==
  LET uncut == DropIncompleteTail(CutModelNotCompleted(raw))
      kept == TrimDegenerateTails(DegeneracyCut(CutAdjacentRepeat(uncut), FALSE))
  IN DedupeGlobal(WalkedBack(uncut, kept))

(* Mutant of GuardFinalAnswer: a report was scrubbed when it was stored. *)
GuardSynthesesOnly(t, source, allowCode) ==
  IF source = "report" THEN t
  ELSE WalkedBack(t, TrimArtifactTail(TrimDegenerateTails(DegeneracyCut(CutAdjacentRepeat(t),
                                                                        FALSE)), allowCode))

(* _guard_final_answer, whatever the answer is. *)
GuardFinalAnswer(t, source, allowCode) ==
  LET tails == TrimDegenerateTails(DegeneracyCut(CutAdjacentRepeat(t), FALSE))
  IN WalkedBack(t, TrimArtifactTail(tails, allowCode))
=============================================================================
