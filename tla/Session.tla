------------------------------ MODULE Session -------------------------------
(***************************************************************************)
(* Runs of the colony one after another, as their files and their user see *)
(* them: the ghosts each leaves on disk, and the answer each ends with.    *)
(* Between the start and the end, tasks end one by one; how is the other   *)
(* modules' matter.                                                        *)
(***************************************************************************)
EXTENDS Synthesis, TaskMemory

CONSTANT
  Settings   \* what each session is given to do and the model may write, and
             \* the bounds: ghosts, crashes and sessions in all

(* Tasks are numbered as they are added: a parent before its children, and *)
(* the root before all.                                                    *)
IsPlan(p) ==
  /\ Cardinality(DOMAIN p) \in Nat /\ DOMAIN p = 0 .. Cardinality(DOMAIN p) - 1
  /\ Root \in DOMAIN p
  /\ \A t \in DOMAIN p : /\ p[t].parent \in Int /\ p[t].parent < t
                         /\ t # Root => p[t].parent \in DOMAIN p
                         /\ p[t].deps \in Seq(DOMAIN p)
                         /\ p[t].size \in Nat

ASSUME SettingsAreSound ==
  \A s \in Settings :
    /\ IsPlan(s.plan) /\ s.software \in BOOLEAN
    /\ \A draft \in s.drafts : IsText(draft)

VARIABLES
  setting,
  session,   \* what the run is doing, its tasks, and its answer
  memory,    \* the ghosts of the running process
  disk,
  written    \* ghosts written so far, crashes and sessions

vars == <<setting, session, memory, disk, written>>

plan == setting.plan

NoAnswer == [source |-> "none", text |-> <<>>, banner |-> FALSE, material |-> <<>>,
             shown |-> {}, named |-> {}]

Fresh(p) == [phase |-> "running", status |-> [t \in DOMAIN p |-> "open"], abandoned |-> {},
             unstarted |-> {}, final |-> NoAnswer, answer |-> NoAnswer]

Init ==
  /\ setting \in Settings
  /\ session = Fresh(setting.plan)
  /\ memory = NoGhosts
  /\ disk = EmptyDisk
  /\ written = [ghosts |-> 0, crashes |-> 0, sessions |-> 1]

Is(phase) == session.phase = phase

----------------------------------------------------------------------------
(* Ghosts *)

(* _retire_agent: the ghost is in memory before any file is written. *)
AgentDies ==
  /\ Is("running")
  /\ written.ghosts < setting.ghosts
  /\ memory' = WithGhost(memory, written.ghosts)
  /\ written' = [written EXCEPT !.ghosts = @ + 1]
  /\ session' = [session EXCEPT !.phase = "save index"]
  /\ UNCHANGED <<setting, disk>>

(* Where a save goes on, or is given up: write's, or terminate's. *)
AtIndex(closing) == Is(IF closing THEN "close index" ELSE "save index")
AtMetadata(closing) == Is(IF closing THEN "close metadata" ELSE "save metadata")
AfterSave(closing) == IF closing THEN "answering" ELSE "running"

SaveFirst(closing) ==
  /\ AtIndex(closing)
  /\ disk' = SaveIndex(disk, memory)
  /\ session' = [session EXCEPT !.phase = IF closing THEN "close metadata" ELSE "save metadata"]
  /\ UNCHANGED <<setting, memory, written>>

SaveSecond(closing) ==
  /\ AtMetadata(closing)
  /\ disk' = SaveMetadata(disk, memory)
  /\ session' = [session EXCEPT !.phase = AfterSave(closing)]
  /\ UNCHANGED <<setting, memory, written>>

(* A save that raises is caught; what it was to write goes with the next.  *)
SaveFails(closing) ==
  /\ AtIndex(closing) \/ AtMetadata(closing)
  /\ setting.ghosts > 0
  /\ session' = [session EXCEPT !.phase = AfterSave(closing)]
  /\ UNCHANGED <<setting, memory, disk, written>>

----------------------------------------------------------------------------
(* Tasks *)

Ended(t, how) == [session EXCEPT !.status[t] = how]

(* A task's subtasks, theirs, and so on. *)
Descendants(tasks, t) ==
  LET under[u \in DOMAIN tasks] ==
        u # Root /\ (tasks[u].parent = t \/ under[tasks[u].parent])
  IN {u \in DOMAIN tasks : under[u]}

(* A subtask is completed once all it depends on and all below it is       *)
(* closed; it may be abandoned before.  One that no agent could be started *)
(* for is closed as failed too (_close_unstartable_child), but not         *)
(* abandoned; nobody has split it up.                                      *)
SubtaskEnds ==
  /\ Is("running")
  /\ UNCHANGED <<setting, memory, disk, written>>
  /\ \E t \in DOMAIN plan \ {Root} :
       /\ session.status[t] = "open"
       /\ \/ /\ \A d \in Range(plan[t].deps) : session.status[d] # "open"
             /\ \A u \in Descendants(plan, t) : session.status[u] # "open"
             /\ session' = Ended(t, "completed")
          \/ session' = [Ended(t, "failed") EXCEPT !.abandoned = @ \cup {t}]
          \/ /\ ChildrenOf(plan, t) = {}
             /\ session' = [Ended(t, "failed") EXCEPT !.unstarted = @ \cup {t}]

(* The synthesizer, on what there is: the answer, or none when it raises.  *)
(* The root's own task is one of those abandoned when it is.               *)
Syntheses(s) ==
  LET material == CollectResults(plan, s.status)
      named == CollectNotCompleted(plan, s.status, s.abandoned)
      answer(text) == [source |-> IF text = <<>> THEN "message" ELSE "synthesis", text |-> text,
                       banner |-> FALSE, material |-> material, shown |-> Shown(plan, material),
                       named |-> named]
      message == [NoAnswer EXCEPT !.source = "message"]
  IN IF material = <<>> THEN {message}
     ELSE {NoAnswer} \cup {answer(FormatOutput(plan, s.abandoned, named, raw)) :
                             raw \in setting.drafts}

(* The root is accepted, with all below it closed: its report is kept for  *)
(* when the synthesizer raised.                                            *)
RootCompletes ==
  /\ Is("running") /\ session.status[Root] = "open"
  /\ \E c \in ChildrenOf(plan, Root) : session.status[c] = "completed"
  /\ \A t \in DOMAIN plan \ {Root} : session.status[t] # "open"
  /\ LET done == Ended(Root, "completed")
         reported(raw) == [NoAnswer EXCEPT !.source = "report", !.text = ScrubResult(raw)]
     IN \E final \in Syntheses(done) :
          IF final # NoAnswer
            THEN session' = [done EXCEPT !.final = final, !.phase = "close index"]
            ELSE \E raw \in setting.drafts :
                   session' = [done EXCEPT !.final = reported(raw), !.phase = "close index"]
  /\ UNCHANGED <<setting, memory, disk, written>>

(* The root is abandoned, or the run ends on its energy or its ticks. *)
RunEnds ==
  /\ Is("running") /\ session.status[Root] = "open"
  /\ \E abandoned \in BOOLEAN :
       session' = [(IF abandoned THEN Ended(Root, "failed") ELSE session) EXCEPT
                     !.phase = "close index",
                     !.abandoned = IF abandoned THEN @ \cup {Root} ELSE @]
  /\ UNCHANGED <<setting, memory, disk, written>>

----------------------------------------------------------------------------
(* terminate, once the ghosts are saved *)

(* Mutant of WithPartialBanner: an accepted root leaves nothing undone. *)
WithBannerUnlessAccepted(s, partial) == partial /\ Completed(plan, s.status) # {}

(* _with_partial_banner: for a run that left work undone and did some. *)
WithPartialBanner(s, partial) ==
  (partial \/ s.abandoned # {}) /\ Completed(plan, s.status) # {}

Guarded(answer) ==
  LET text == GuardFinalAnswer(answer.text, answer.source, setting.software)
  IN IF answer.source = "message" THEN answer
     ELSE [answer EXCEPT !.text = text, !.source = IF text = <<>> THEN "message" ELSE @]

(* _abandon_task: a word on what became of the task, in brackets, and what *)
(* was reported at best, as it stands.                                     *)
Abandoned(partial) ==
  LET said(text, ended, characters, words) ==
        [text |-> text, kind |-> "prose", ended |-> ended, quoted |-> ended,
         characters |-> characters, words |-> words, noise |-> 2, restates |-> ""]
  IN <<said("abandoned", TRUE, 144, 22), said("best partial", FALSE, 96, 14)>> \o partial

RootResults(s) ==
  {[NoAnswer EXCEPT !.source = "message"]} \cup
  IF s.status[Root] = "failed"
    THEN {[NoAnswer EXCEPT !.source = "report", !.text = Abandoned(raw)] : raw \in setting.drafts}
    ELSE {}

(* The stored answer; or a synthesis of what there is; or the root's own   *)
(* result, or the failure said plainly.  Then the guard, then the banner.  *)
Terminate ==
  /\ Is("answering")
  /\ LET success == session.status[Root] = "completed"
         material == CollectResults(plan, session.status)
         synthesized == IF success \/ material = <<>> THEN {} ELSE Syntheses(session) \ {NoAnswer}
         found == IF success THEN {session.final} ELSE synthesized \cup RootResults(session)
     IN \E answer \in found :
          LET partial == ~success /\ answer.material # <<>>
          IN session' = [session EXCEPT
                           !.phase = "ended",
                           !.answer = [Guarded(answer) EXCEPT !.banner =
                                         WithPartialBanner(session, partial)]]
  /\ UNCHANGED <<setting, memory, disk, written>>

----------------------------------------------------------------------------
(* The process *)

Crash ==
  /\ ~Is("ended") /\ ~Is("down")
  /\ written.crashes < setting.crashes
  /\ session' = [Fresh(plan) EXCEPT !.phase = "down"]
  /\ memory' = NoGhosts
  /\ written' = [written EXCEPT !.crashes = @ + 1]
  /\ UNCHANGED <<setting, disk>>

(* A new process: MemoryStore's constructor reads the files. *)
Start ==
  /\ Is("ended") \/ Is("down")
  /\ written.sessions < setting.sessions
  /\ memory' = LoadGhosts(disk)
  /\ session' = Fresh(plan)
  /\ written' = [written EXCEPT !.sessions = @ + 1]
  /\ UNCHANGED <<setting, disk>>

Next == \/ AgentDies
        \/ \E closing \in BOOLEAN : SaveFirst(closing) \/ SaveSecond(closing) \/ SaveFails(closing)
        \/ SubtaskEnds \/ RootCompletes \/ RunEnds \/ Terminate
        \/ Crash \/ Start

Rest == (Is("ended") \/ Is("down")) /\ written.sessions = setting.sessions /\ UNCHANGED vars

Spec == Init /\ [][Next \/ Rest]_vars

----------------------------------------------------------------------------
(* The tasks that stand, on some of the results: those whose own is among  *)
(* them, and those all of whose subtasks stand, one done again standing    *)
(* for one that failed.                                                    *)
StandingOn(results) ==
  LET kids(u) == ChildrenOf(plan, u)
      stand[n \in 0 .. Cardinality(DOMAIN plan)] ==
        results \cup
        IF n = 0 THEN {}
        ELSE LET below == stand[n - 1]
             IN {u \in DOMAIN plan :
                   /\ kids(u) # {}
                   /\ \A c \in kids(u) : \E d \in kids(u) \cap below :
                        plan[d].words = plan[c].words /\ session.status[d] = "completed"}
  IN stand[Cardinality(DOMAIN plan)]

(* Finished work reaches the model that writes the answer.  Each completed *)
(* subtask stands in the results collected, and nothing comes before what  *)
(* it depends on.  When all those results are no longer than their block   *)
(* may be, each completed subtask stands in what the model is shown; when  *)
(* they are longer and the block is cut, no result is shown without those  *)
(* it was built on.                                                        *)
WorkReachesUser ==
  session.answer.source = "synthesis" =>
    LET material == session.answer.material
        shown == session.answer.shown
        done == Completed(plan, session.status)
    IN /\ done \subseteq StandingOn(Range(material))
       /\ \A i, j \in DOMAIN material :
            material[j] \in Range(plan[material[i]].deps) => j < i
       /\ EntryEnds(plan, material)[Len(material)] <= MaxResultsBlockChars
            => done \subseteq StandingOn(shown)
       /\ \A t \in shown : Range(plan[t].deps) \cap Range(material) \subseteq shown

(* An answer names as not completed every description abandoned, and none  *)
(* that a finished subtask has.  One that carries no banner leaves out     *)
(* nothing but what was never started.                                     *)
NamesTheRest ==
  session.answer.source = "synthesis" =>
    LET done == Completed(plan, session.status)
    IN /\ \A t \in session.abandoned :
            (plan[t].words \in session.answer.named)
              <=> ~\E u \in done : plan[u].words = plan[t].words
       /\ ~session.answer.banner => DOMAIN plan \ {Root} \subseteq done \cup session.unstarted

(* Whatever way an answer leaves by, the user is not shown the harness's   *)
(* own labels, a block twice in a row, a rule of dashes at the end, or     *)
(* code not asked for; and is shown something.  One of the prompt's own    *)
(* examples may be left only in what an abandoned root wrote, at the end,  *)
(* where its sentence was cut short.                                       *)
AnswerClean ==
  LET text == session.answer.text
      kinds == {text[i].kind : i \in DOMAIN text}
  IN Is("ended") =>
       /\ session.answer.source # "none"
       /\ session.answer.source # "message" => text # <<>>
       /\ "label" \notin kinds
       /\ "exemplar" \in kinds => /\ session.status[Root] = "failed"
                                  /\ \A i, j \in DOMAIN text :
                                       text[i].kind = "exemplar" /\ i <= j => ~Breaks(text[j])
       /\ text # <<>> => Last(text).kind # "separator"
       /\ kinds \cap {"fence", "json"} # {} => setting.software
       /\ CutAdjacentRepeat(text) = text

(* The lessons a later run can find: their vectors and their records. *)
Findable(d) ==
  IF d.faiss = "whole" /\ d.json = "whole"
    THEN {d.metadata[id] : id \in {n \in DOMAIN d.metadata :
                                     [id |-> n, ghost |-> d.metadata[n]] \in d.index}}
    ELSE {}

(* A lesson once on disk is there for good, through crashes, failed saves  *)
(* and restarts.                                                           *)
LessonsKept == [][Findable(disk) \subseteq Findable(disk')]_vars

(* The sentence that names what is missing is there: synthesizer.py says   *)
(* it is "Appended last, after every cut, so no trim can reach it."        *)
MissingIsNamed ==
  Is("ended") /\ session.answer.source = "synthesis" /\ session.answer.named # {} =>
    \E i \in DOMAIN session.answer.text : session.answer.text[i].text = "Not completed"

(* What was not done is said.  orchestrator.py has it, of an accepted root *)
(* with work below it not done: "Said here and in the answer itself."      *)
UndoneIsSaid ==
  Is("ended") /\ session.status[Root] = "completed" /\ session.answer.source = "synthesis" =>
    LET done == Completed(plan, session.status)
    IN session.answer.banner \/ WordsOf(plan, DOMAIN plan \ {Root})
                                   \subseteq WordsOf(plan, done) \cup session.answer.named

(* What was done is below.  The banner of a synthesis says that its        *)
(* completed subtasks "are synthesized below; anything not mentioned was   *)
(* not reached."                                                           *)
DoneIsBelow ==
  Is("ended") /\ session.answer.source = "synthesis" /\ session.answer.banner =>
    Completed(plan, session.status) \subseteq StandingOn(session.answer.shown)
=============================================================================
