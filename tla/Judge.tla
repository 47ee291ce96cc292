------------------------------- MODULE Judge --------------------------------
(***************************************************************************)
(* The three tiers of judge.py and how a verdict is read out of them.  A   *)
(* completion of the critique is a sequence of lines, each a sequence of   *)
(* words; a report is known by what the tiers tell apart.                  *)
(***************************************************************************)
EXTENDS Integers, Sequences, SequencesExt, FiniteSetsExt

CONSTANT MaxWarnings   \* tier-2 strikes before a drifting agent is executed

ASSUME StrikesAreCounted == MaxWarnings \in Nat \ {0}

----------------------------------------------------------------------------
(* Tier 1 *)

(* Reports that are no answer: nothing, a line ending on a colon, a bare   *)
(* heading, a placeholder word.                                            *)
Empty == {"nothing", "colon", "heading", "placeholder word"}

(* fast_check, for a REPORT, or for what a tool returned: run_code and     *)
(* verify_math are read by their status, any other tool as if it were text *)
(* and what it returned is a dict.                                         *)
FastCheckText(text) == text \notin Empty
FastCheckTool(tool, status) == tool \in {"run_code", "verify_math"} /\ status = "success"

----------------------------------------------------------------------------
(* Tier 3 *)

(* Mutant of CutInvented: nothing is cut. *)
KeptWhole(lines) == lines

(* _cut_invented_continuation: the ruling is the first line; from the      *)
(* first later one that opens with an example or a verdict, the model      *)
(* writes samples of its own.                                              *)
CutInvented(lines) ==
  LET invented == {i \in 2 .. Len(lines) :
                     lines[i] # <<>> /\ Head(lines[i]) \in {"Example:", "VERDICT:"}}
  IN IF invented = {} THEN lines ELSE SubSeq(lines, 1, Min(invented) - 1)

(* What the prompt's prefilled VERDICT: makes of the completion. *)
Prefilled(lines) == IF lines = <<>> THEN << <<"VERDICT:">> >>
                    ELSE <<(<<"VERDICT:">> \o Head(lines))>> \o Tail(lines)

Plain == {"accept", "reject"}
Spaced == [spaced_accept |-> "accept", spaced_reject |-> "reject"]

(* Mutant of FirstRuling: the last one counts. *)
LastRuling(words) ==
  LET plain == {i \in DOMAIN words : words[i] \in Plain}
  IN IF plain # {} THEN words[Max(plain)] ELSE "reject"

(* The first ruling: straight after a VERDICT:, else anywhere, else spelt  *)
(* with spaces; with none at all it fails closed.                          *)
FirstRuling(words) ==
  LET labelled == {i \in DOMAIN words :
                     i > 1 /\ words[i - 1] = "VERDICT:" /\ words[i] \in Plain}
      plain == {i \in DOMAIN words : words[i] \in Plain}
      spaced == {i \in DOMAIN words : words[i] \in DOMAIN Spaced}
  IN IF labelled # {} THEN words[Min(labelled)]
     ELSE IF plain # {} THEN words[Min(plain)]
     ELSE IF spaced # {} THEN Spaced[words[Min(spaced)]]
     ELSE "reject"

(* deep_critique. *)
DeepCritique(completion) == FirstRuling(FlattenSeq(CutInvented(Prefilled(completion))))

----------------------------------------------------------------------------
(* Aggregation *)

Verdict(v, tier) == [verdict |-> v, tier |-> tier]

(* The bands of a similarity: "none" when it is not taken, at most         *)
(* SEMANTIC_EXECUTE_THRESHOLD, at most SEMANTIC_WARN_THRESHOLD, above.     *)
Similarities == {"none", "severe", "low", "clear"}

(* decide: each tier only after the one before it.  Strikes count only     *)
(* against an output that is about to be scored.                           *)
Judged(role, warnings, text, similarity, completion) ==
  LET scored == role # "decomposer" /\ similarity # "none"
  IN IF ~FastCheckText(text) THEN Verdict("execute", 1)
     ELSE IF scored /\ (warnings >= MaxWarnings \/ similarity = "severe")
       THEN Verdict("execute", 2)
     ELSE IF scored /\ similarity = "low" THEN Verdict("warn", 2)
     ELSE IF DeepCritique(completion) = "reject" THEN Verdict("execute", 3)
     ELSE Verdict("promote", 3)
=============================================================================
