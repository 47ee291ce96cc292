----------------------------- MODULE Generation -----------------------------
(***************************************************************************)
(* agent_node.py: how an agent's decision is read out of what its model    *)
(* generates.  A generation is a sequence of marks, each with a kind:      *)
(*   label   "ACTION: w" opening a line         bare/lower  the word alone *)
(*   payload the "PAYLOAD:" label               open/close/quote  of JSON  *)
(*   text    prose                              blank   an empty line      *)
(* "word" is the action a label or a bare line names, or, on the brace     *)
(* that opens an object, what keys the object has.                         *)
(* The generation is stopped as soon as it holds a complete block, and     *)
(* read back afterwards by code that must agree on what a block is.        *)
(***************************************************************************)
EXTENDS Integers, SequencesExt, FiniteSetsExt

CONSTANTS
  MinNewMarks,     \* no generation is stopped, or ends by itself, before
  ReportBudget     \* marks a REPORT may run to (REPORT_MAX_NEW_TOKENS)

ActionTokens == {"THINK", "SPAWN", "TOOL", "REPORT", "DIE"}

(* What difflib makes of a misspelt action, and the words too short to ask *)
(* it about: it would turn SPA into SPAWN.                                 *)
Closest == [SPWAN |-> "SPAWN", REPROT |-> "REPORT", SPA |-> "SPAWN"]
TooShort == {"SPA"}

----------------------------------------------------------------------------
(* Which block is meant *)

LastOf(positions) == IF positions = {} THEN 0 ELSE Max(positions)

(* _last_action_match: the last labelled line that names a real action,    *)
(* else the last labelled line, else the last line opening with a keyword. *)
LastActionMatch(text) ==
  LET labelled == {i \in DOMAIN text : text[i].kind = "label"}
      real == {i \in labelled : text[i].word \in ActionTokens}
      bare == {i \in DOMAIN text :
                 \/ text[i].kind = "bare"
                 \/ text[i].kind = "lower" /\ \A j \in 1 .. i - 1 : text[j].kind = "blank"}
  IN IF labelled = {} THEN LastOf(bare) ELSE LastOf(IF real = {} THEN labelled ELSE real)

(* Mutant of PayloadMatchFor: an abandoned block's payload is taken. *)
PayloadOfAnyBlock(text, at) ==
  LET marks == {i \in DOMAIN text : text[i].kind = "payload"}
  IN IF marks = {} THEN 0 ELSE Min(marks)

(* _payload_match_for: the first PAYLOAD after the block's action; with no *)
(* action at all, the last one.                                            *)
PayloadMatchFor(text, at) ==
  LET marks == {i \in DOMAIN text : text[i].kind = "payload" /\ i > at}
  IN IF marks = {} THEN 0 ELSE IF at = 0 THEN Max(marks) ELSE Min(marks)

Stripped(marks) ==
  LET solid == {i \in DOMAIN marks : marks[i].kind # "blank"}
  IN IF solid = {} THEN <<>> ELSE SubSeq(marks, Min(solid), Max(solid))

After(text, at) == SubSeq(text, at + 1, Len(text))

----------------------------------------------------------------------------
(* Reading a payload *)

Opens(raw) == raw # <<>> /\ raw[1].kind = "open"

(* _extract_first_balanced_object: the length of the object raw opens      *)
(* with, 0 if it never closes.  Braces inside a string do not count.       *)
BalancedPrefix(raw) ==
  LET read(s, i) ==
        IF s.end > 0 THEN s
        ELSE CASE raw[i].kind = "quote" -> [s EXCEPT !.quoted = ~@]
               [] raw[i].kind = "open" /\ ~s.quoted -> [s EXCEPT !.depth = @ + 1]
               [] raw[i].kind = "close" /\ ~s.quoted ->
                    [s EXCEPT !.depth = @ - 1, !.end = IF s.depth = 1 THEN i ELSE 0]
               [] OTHER -> s
  IN IF Opens(raw)
       THEN FoldLeftDomain(read, [depth |-> 0, quoted |-> FALSE, end |-> 0], raw).end
       ELSE 0

(* json.loads or ast.literal_eval succeeds on all of raw: one object, with *)
(* no prose outside its strings and no line break inside one.              *)
Parses(raw) ==
  /\ BalancedPrefix(raw) # 0
  /\ BalancedPrefix(raw) = Len(raw)
  /\ \A i \in DOMAIN raw :
       LET quoted == Cardinality({j \in 1 .. i - 1 : raw[j].kind = "quote"}) % 2 = 1
       IN \/ raw[i].kind \in {"open", "close", "quote"}
          \/ raw[i].kind = IF quoted THEN "text" ELSE "blank"

Object(raw) == [kind |-> "object", shape |-> raw[1].word]
Unread(kind) == [kind |-> kind, shape |-> "none"]

(* raw without the closing brace it ends with, if it has one. *)
OneBraceLess(raw) ==
  IF raw # <<>> /\ Last(raw).kind = "close" THEN Stripped(Front(raw)) ELSE raw

(* decide's reading of what follows PAYLOAD: an object, with up to two     *)
(* braces too many; an object with prose after it; text; or the reason why *)
(* what opens like an object is none.                                      *)
ReadPayload(raw) ==
  LET n == BalancedPrefix(raw)
      readings == {raw, OneBraceLess(raw), OneBraceLess(OneBraceLess(raw))}
  IN IF raw = <<>> THEN Unread("empty")
     ELSE IF ~Opens(raw) THEN Unread("text")
     ELSE IF Last(raw).kind = "close"
       THEN IF \E reading \in readings : Parses(reading)
              THEN Object(raw) ELSE Unread("malformed")
       ELSE IF n > 0 /\ Parses(SubSeq(raw, 1, n)) THEN Object(raw) ELSE Unread("truncated")

(* _PAYLOAD_SHAPE: what keys an unlabelled object needs to be this         *)
(* action's payload.                                                       *)
PayloadShapes ==
  [SPAWN |-> {"batch", "hollow", "single", "described"}, TOOL |-> {"call"}]

(* _recover_unlabelled_payload: the first object of the right shape. *)
Recoverable(action, rest) ==
  {i \in DOMAIN rest :
     /\ rest[i].kind = "open" /\ rest[i].word \in PayloadShapes[action]
     /\ LET raw == SubSeq(rest, i, Len(rest))
        IN BalancedPrefix(raw) > 0 /\ Parses(SubSeq(raw, 1, BalancedPrefix(raw)))}

----------------------------------------------------------------------------
(* decide *)

(* Mutant of NamedAction: fragments are matched too, the rest is REPORT. *)
GuessedAction(text, at) ==
  IF at = 0 THEN "REPORT"
  ELSE LET word == text[at].word
       IN CASE word \in ActionTokens -> word
            [] word \in DOMAIN Closest -> Closest[word]
            [] OTHER -> "REPORT"

(* The action a generation names.  One it cannot make out is a THINK, not  *)
(* a REPORT: REPORT ends the task.                                         *)
NamedAction(text, at) ==
  IF at = 0 THEN "REPORT"
  ELSE LET word == text[at].word
       IN CASE word \in ActionTokens -> word
            [] word \in DOMAIN Closest \ TooShort -> Closest[word]
            [] OTHER -> "THINK"

(* A decision: the action, its payload, what keys the payload has, and     *)
(* what became of fail_reason.                                             *)
Decided(action, read, fail) ==
  [action |-> action, payload |-> read.kind, shape |-> read.shape, fail |-> fail]

(* Everything from the generated text to the menu check. *)
Read(text) ==
  LET at == LastActionMatch(text)
      action == NamedAction(text, at)
      p == PayloadMatchFor(text, at)
      read == IF p = 0 THEN Unread("empty") ELSE ReadPayload(Stripped(After(text, p)))
      found == IF action \in DOMAIN PayloadShapes
                 THEN Recoverable(action, After(text, at)) ELSE {}
  IN IF read.kind \in {"malformed", "truncated"} THEN Decided(action, read, "set")
     ELSE IF read.kind # "empty" THEN Decided(action, read, "kept")
     ELSE IF Stripped(text) = <<>> THEN Decided(action, Unread("placeholder"), "kept")
     ELSE IF action \notin DOMAIN PayloadShapes THEN Decided(action, Unread("generation"), "kept")
     ELSE IF found # {} THEN Decided(action, Object(After(text, at + Min(found) - 1)), "cleared")
     ELSE Decided("THINK", Unread("generation"), "set")

(* _is_spawn_payload: the orchestrator "would start at least one subtask"; *)
(* how the keys are spelt is not checked.                                  *)
IsSpawnPayload(d) ==
  d.payload = "object" /\ d.shape \in {"batch", "single", "described", "misspelt"}

(* What request_spawn takes: a non-empty subtasks list, or a role and a    *)
(* task, spelt so.                                                         *)
SpawnAccepted(d) == d.payload = "object" /\ d.shape \in {"batch", "hollow", "single"}

(* Mutant of Coerced: the menu is only a hint in the prompt. *)
CoercedInPromptOnly(d, menu, prose) ==
  IF d.action \in menu THEN d
  ELSE Decided("THINK", Unread("text"), "cleared")

(* _coerce_final_action and the check before it: at the cycle cap, or once *)
(* SPAWN is closed, an action off the menu becomes a REPORT of whatever    *)
(* prose there is, in the payload or in the agent's thoughts, or a DIE.    *)
Coerced(d, menu, prose) ==
  IF d.action \in menu /\ (d.action = "SPAWN" => IsSpawnPayload(d)) THEN d
  ELSE IF "REPORT" \in menu /\ prose THEN Decided("REPORT", Unread("text"), "cleared")
  ELSE Decided("DIE", Unread("text"), "cleared")

----------------------------------------------------------------------------
(* Stopping a generation *)

(* Mutant of StopFires: any closing brace ends a block. *)
StopsAtABrace(text) ==
  /\ Len(text) >= MinNewMarks
  /\ LastActionMatch(text) # 0
  /\ Last(text).kind = "close"

(* _ActionPayloadStop, asked after every mark. *)
StopFires(text) ==
  LET at == LastActionMatch(text)
      p == PayloadMatchFor(text, at)
      raw == Stripped(After(text, p))
  IN /\ Len(text) >= MinNewMarks
     /\ at # 0
     /\ \/ text[at].word = "REPORT" /\ Len(text) >= ReportBudget
        \/ /\ text[at].kind = "label"
           /\ p # 0
           /\ raw # <<>>
           /\ IF Opens(raw) THEN BalancedPrefix(raw) > 0 ELSE Last(text).kind = "blank"
=============================================================================
