-------------------------- MODULE DelegationProofs --------------------------
(***************************************************************************)
(* Delegation for generations of every length, over any marks, and batches *)
(* of every size, under any fan-out caps.                                  *)
(***************************************************************************)
EXTENDS Delegation, FiniteSetTheorems, WellFoundedInduction, TLAPS

----------------------------------------------------------------------------
(* Positions *)

(* A non-empty finite set of integers has a least element, which is Min.   *)
LEMMA MinOf ==
  ASSUME NEW S \in SUBSET Int, IsFiniteSet(S), S # {}
  PROVE  Min(S) \in S /\ \A x \in S : Min(S) <= x
<1> DEFINE Below(x) == {y \in S : y <= x}
           Parts == {Below(x) : x \in S}
<1>1. Parts \subseteq SUBSET S /\ Parts # {}
  OBVIOUS
<1> HIDE DEF Parts
<1>2. IsWellFoundedOn(StrictSubsetOrdering(S), SUBSET S)
  BY FS_StrictSubsetOrderingWellFounded, FS_FiniteSubsetsOfFinite
<1>3. PICK P \in Parts : \A Q \in Parts : ~(<<Q, P>> \in StrictSubsetOrdering(S))
  BY <1>1, <1>2, WFMin
<1>4. PICK x \in S : P = Below(x)
  BY DEF Parts
<1>5. ASSUME NEW y \in S PROVE x <= y
  <2>1. CASE y < x
    <3>1. Below(y) \in Parts
      BY DEF Parts
    <3>2. ASSUME NEW z \in Below(y) PROVE z \in Below(x)
      BY <2>1, z \in Int, x \in Int, y \in Int, z <= y
    <3>3. Below(y) = Below(x)
      BY <3>1, <3>2, <1>3, <1>4 DEF StrictSubsetOrdering
    <3>4. x \in Below(x)
      OBVIOUS
    <3>5. QED
      BY <3>3, <3>4
  <2>2. QED
    BY <2>1
<1>6. QED
  BY <1>5 DEF Min

(* A non-empty finite set of integers has a greatest, which is Max.        *)
LEMMA MaxOf ==
  ASSUME NEW S \in SUBSET Int, IsFiniteSet(S), S # {}
  PROVE  Max(S) \in S /\ \A x \in S : x <= Max(S)
<1> DEFINE Above(x) == {y \in S : y >= x}
           Parts == {Above(x) : x \in S}
<1>1. Parts \subseteq SUBSET S /\ Parts # {}
  OBVIOUS
<1> HIDE DEF Parts
<1>2. IsWellFoundedOn(StrictSubsetOrdering(S), SUBSET S)
  BY FS_StrictSubsetOrderingWellFounded, FS_FiniteSubsetsOfFinite
<1>3. PICK P \in Parts : \A Q \in Parts : ~(<<Q, P>> \in StrictSubsetOrdering(S))
  BY <1>1, <1>2, WFMin
<1>4. PICK x \in S : P = Above(x)
  BY DEF Parts
<1>5. ASSUME NEW y \in S PROVE y <= x
  <2>1. CASE y > x
    <3>1. Above(y) \in Parts
      BY DEF Parts
    <3>2. ASSUME NEW z \in Above(y) PROVE z \in Above(x)
      BY <2>1, z \in Int, x \in Int, y \in Int, z >= y
    <3>3. Above(y) = Above(x)
      BY <3>1, <3>2, <1>3, <1>4 DEF StrictSubsetOrdering
    <3>4. x \in Above(x)
      OBVIOUS
    <3>5. QED
      BY <3>3, <3>4
  <2>2. QED
    BY <2>1
<1>6. QED
  BY <1>5 DEF Max

(* The same for a set of positions of a text.                              *)
LEMMA Positions ==
  ASSUME NEW t \in Text, NEW S \in SUBSET DOMAIN t, S # {}
  PROVE  /\ Min(S) \in S /\ \A x \in S : Min(S) <= x
         /\ Max(S) \in S /\ \A x \in S : x <= Max(S)
<1>1. Len(t) \in Nat /\ DOMAIN t = 1 .. Len(t)
  BY DEF Text
<1>2. IsFiniteSet(DOMAIN t)
  BY <1>1, FS_Interval, 1 \in Int
<1>3. IsFiniteSet(S)
  BY <1>2, FS_Subset
<1>4. S \subseteq Int
  BY <1>1
<1>5. QED
  BY <1>3, <1>4, MinOf, MaxOf

----------------------------------------------------------------------------
(* What holds of the variables *)

(* The decision on show was read out of the generation on show.            *)
DecisionRead ==
  phase = "decided" =>
    /\ menu \in Menus
    /\ \E prose \in BOOLEAN :
         decision = IF menu = ActionTokens THEN Read(text) ELSE Coerced(Read(text), menu, prose)

Before == {"generating", "decided", "spawning"}

(* A batch as it stands: what the handler made of it, but for children     *)
(* that went from the queue to work since.                                 *)
MadeOf(c, result) ==
  /\ c = Result(result.outcome, c.started, c.queued, result.after, result.notes)
  /\ c.started \cup c.queued = result.started \cup result.queued

(* The children are those of the request.                                  *)
ChildrenOfRequest ==
  IF phase \in Before THEN children = Nothing("none") /\ ended = <<>>
  ELSE /\ \E k \in Int :
            MadeOf(children, HandleSpawnRequest(request.batch, request.spawner, request.guarded, k))
       /\ phase # "done" => children.outcome = "handled" /\ request.spawner # "gone"

IsSequence(s) == s \in Seq(Range(s))

(* What was written to the decomposer stays there, and it is resumed only  *)
(* when its children have ended.                                           *)
NotesKept ==
  phase \in {"waiting", "resumed", "reporting"} =>
    /\ IsSequence(thoughts) /\ Range(children.notes) \subseteq Range(thoughts)
    /\ IsSequence(ended)
    /\ phase # "waiting" => children.started \cup children.queued \subseteq Range(ended)

IInv == text \in Text /\ DecisionRead /\ ChildrenOfRequest /\ NotesKept

LEMMA InitIInv == Init => IInv
BY TextsAreOfMarks DEF Init, IInv, DecisionRead, ChildrenOfRequest, NotesKept, Before

(* Nothing that was written goes away when a line is added.                *)
LEMMA Added ==
  ASSUME NEW s, IsSequence(s), NEW x
  PROVE  IsSequence(Append(s, x)) /\ Range(Append(s, x)) = Range(s) \cup {x}
<1> DEFINE R == Range(s) \cup {x}
<1>1. s \in Seq(R)
  BY DEF IsSequence
<1>2. /\ Append(s, x) \in Seq(R) /\ Len(Append(s, x)) = Len(s) + 1 /\ Len(s) \in Nat
      /\ Append(s, x)[Len(s) + 1] = x
      /\ \A i \in 1 .. Len(s) : Append(s, x)[i] = s[i]
  <2> HIDE DEF R
  <2>1. x \in R
    BY DEF R
  <2>2. QED
    BY <1>1, <2>1
<1>3. DOMAIN s = 1 .. Len(s) /\ DOMAIN Append(s, x) = 1 .. Len(s) + 1
  BY <1>1, <1>2
<1>4. Range(Append(s, x)) = R
  BY <1>2, <1>3 DEF Range
<1>5. QED
  BY <1>2, <1>4 DEF IsSequence

----------------------------------------------------------------------------
(* The batch *)

(* What admission and the fan-out cap take are parts of what they are      *)
(* given.                                                                  *)
LEMMA PartsTaken ==
  ASSUME NEW batch, NEW k
  PROVE  /\ Admitted(batch, k) \subseteq Prepared(batch)
         /\ \A positions : FirstOf(positions, k) \subseteq positions
BY DEF Admitted, FirstOf

(* Two lists, one after the other, hold what each of them holds.           *)
LEMMA Joined ==
  ASSUME NEW s, IsSequence(s), NEW t, IsSequence(t)
  PROVE  IsSequence(s \o t) /\ Range(s \o t) = Range(s) \cup Range(t)
<1> DEFINE R == Range(s) \cup Range(t)
<1>1. s \in Seq(R) /\ t \in Seq(R)
  BY DEF IsSequence
<1>2. /\ s \o t \in Seq(R) /\ Len(s \o t) = Len(s) + Len(t)
      /\ Len(s) \in Nat /\ Len(t) \in Nat
      /\ \A i \in 1 .. Len(s) : (s \o t)[i] = s[i]
      /\ \A i \in Len(s) + 1 .. Len(s) + Len(t) : (s \o t)[i] = t[i - Len(s)]
  <2> HIDE DEF R
  <2>1. QED
    BY <1>1
<1>3. /\ DOMAIN s = 1 .. Len(s) /\ DOMAIN t = 1 .. Len(t)
      /\ DOMAIN (s \o t) = 1 .. Len(s) + Len(t)
  BY <1>1, <1>2
<1>4. ASSUME NEW i \in DOMAIN s PROVE s[i] \in Range(s \o t)
  BY <1>2, <1>3 DEF Range
<1>5. ASSUME NEW i \in DOMAIN t PROVE t[i] \in Range(s \o t)
  <2>1. /\ i + Len(s) \in DOMAIN (s \o t) /\ i + Len(s) \in Len(s) + 1 .. Len(s) + Len(t)
        /\ i + Len(s) - Len(s) = i
    BY <1>2, <1>3
  <2>2. (s \o t)[i + Len(s)] = t[i]
    BY <2>1, <1>2
  <2>3. QED
    BY <2>1, <2>2 DEF Range
<1>6. Range(s \o t) \subseteq R
  <2> HIDE DEF R
  <2>1. \A i \in DOMAIN (s \o t) : (s \o t)[i] \in R
    BY <1>2
  <2>2. QED
    BY <2>1 DEF Range
<1>7. Range(s \o t) = R
  BY <1>4, <1>5, <1>6 DEF Range
<1>8. QED
  BY <1>2, <1>7 DEF IsSequence

(* The notes name whatever the batch lost before the cap.                  *)
LEMMA NotesName ==
  ASSUME NEW batch, NEW k
  PROVE  /\ IsSequence(Notes(batch, k))
         /\ \A i \in Prepared(batch) \ Admitted(batch, k) :
              \E line \in Range(Notes(batch, k)) : i \in line.about
<1> DEFINE kept == Prepared(batch) \ OffTopic(batch)
           cut == kept \ FirstOf(kept, k)
<1>1. ASSUME NEW about
      PROVE  /\ IsSequence(Note(about))
             /\ \A i \in about : \E line \in Range(Note(about)) : i \in line.about
  <2>1. CASE about = {}
    BY <2>1 DEF Note, IsSequence
  <2>2. CASE about # {}
    <3>1. PICK line : Note(about) = <<line>> /\ line.about = about
      BY <2>2 DEF Note, Line
    <3>2. Range(<<line>>) = {line}
      BY DEF Range
    <3>3. QED
      BY <3>1, <3>2 DEF IsSequence
  <2>3. QED
    BY <2>1, <2>2
<1>2. Prepared(batch) \ Admitted(batch, k) \subseteq OffTopic(batch) \cup cut
  BY DEF Admitted
<1>3. Notes(batch, k) = Note(OffTopic(batch)) \o Note(cut)
  BY DEF Notes
<1> HIDE DEF kept, cut
<1>4. /\ IsSequence(Notes(batch, k))
      /\ Range(Notes(batch, k)) = Range(Note(OffTopic(batch))) \cup Range(Note(cut))
  BY <1>1, <1>3, Joined
<1>5. QED
  BY <1>1, <1>2, <1>4

LEMMA Handled ==
  ASSUME NEW batch, NEW spawner, NEW guarded, NEW k \in Int
  PROVE  LET result == HandleSpawnRequest(batch, spawner, guarded, k)
         IN /\ result = Result(result.outcome, result.started, result.queued,
                               result.after, result.notes)
            /\ IsSequence(result.notes)
            /\ DOMAIN result.after = result.started \cup result.queued
            /\ spawner # "gone" /\ result.outcome = "handled" =>
                 \A i \in Prepared(batch) :
                   \/ i \in result.started \cup result.queued
                   \/ \E line \in Range(result.notes) : i \in line.about
            /\ \A i \in DOMAIN result.after :
                 result.after[i] \subseteq (result.started \cup result.queued)
            /\ spawner # "gone" =>
                 \A i \in DOMAIN batch : batch[i].task = "copied" =>
                   result.started = {} /\ result.queued = {}
<1> DEFINE result == HandleSpawnRequest(batch, spawner, guarded, k)
           AsResult == result = Result(result.outcome, result.started, result.queued,
                                       result.after, result.notes)
<1>1. ASSUME NEW admitted, NEW notes, result = Children(batch, admitted, spawner, notes)
      PROVE  /\ AsResult /\ result.outcome = "handled" /\ result.notes = notes
             /\ result.started \cup result.queued = admitted
             /\ DOMAIN result.after = admitted
             /\ \A i \in DOMAIN result.after : result.after[i] \subseteq admitted
  BY <1>1 DEF Children, Result, FirstOf, Dependencies
<1>2. ASSUME NEW outcome, outcome # "handled", result = Nothing(outcome)
      PROVE  /\ AsResult /\ result.outcome # "handled" /\ result.notes = <<>>
             /\ result.started = {} /\ result.queued = {} /\ DOMAIN result.after = {}
  BY <1>2 DEF Nothing, Result
<1>3. IsSequence(<<>>)
  BY DEF IsSequence
<1> HIDE DEF result, AsResult
<1>4. CASE spawner = "executor"
  <2>1. result = Nothing("structural")
    BY <1>4 DEF HandleSpawnRequest, result
  <2>2. QED
    BY <2>1, <1>2, <1>3, <1>4 DEF result, AsResult
<1>5. CASE spawner = "gone"
  <2>1. result = Children(batch, Prepared(batch), spawner, <<>>)
    BY <1>5 DEF HandleSpawnRequest, result
  <2>2. QED
    BY <2>1, <1>1, <1>3, <1>5 DEF result, AsResult
<1>6. CASE spawner \notin {"executor", "gone"}
  <2>1. CASE Condemned(batch, guarded)
    <3>1. result = Nothing("rejected")
      BY <1>6, <2>1 DEF HandleSpawnRequest, result
    <3>2. QED
      BY <3>1, <1>2, <1>3 DEF result, AsResult
  <2>2. CASE ~Condemned(batch, guarded)
    <3>1. ASSUME NEW i \in DOMAIN batch, batch[i].task = "copied" PROVE FALSE
      BY <2>2, <3>1 DEF Condemned, Prepared
    <3>2. CASE k = 0 /\ Prepared(batch) # {}
      <4>1. result = Nothing("refused")
        BY <1>6, <2>2, <3>2 DEF HandleSpawnRequest, result
      <4>2. QED
        BY <4>1, <1>2, <1>3, <3>1 DEF result, AsResult
    <3>3. CASE ~(k = 0 /\ Prepared(batch) # {})
      <4>1. result = Children(batch, Admitted(batch, k), spawner, Notes(batch, k))
        BY <1>6, <2>2, <3>3 DEF HandleSpawnRequest, result
      <4>2. /\ AsResult /\ result.outcome = "handled" /\ result.notes = Notes(batch, k)
            /\ result.started \cup result.queued = Admitted(batch, k)
            /\ DOMAIN result.after = Admitted(batch, k)
            /\ \A i \in DOMAIN result.after : result.after[i] \subseteq Admitted(batch, k)
        BY <4>1, <1>1
      <4>3. QED
        BY <4>2, <3>1, NotesName DEF result, AsResult
    <3>4. QED
      BY <3>2, <3>3
  <2>3. QED
    BY <2>1, <2>2
<1>7. QED
  BY <1>4, <1>5, <1>6

LEMMA NextIInv == IInv /\ [Next]_vars => IInv'
<1> SUFFICES ASSUME IInv, [Next]_vars PROVE IInv'
  OBVIOUS
<1> USE DEF IInv
<1>1. CASE Generate
  <2>1. PICK mark \in Marks : text' = Append(text, mark)
    BY <1>1 DEF Generate
  <2>2. <<mark>> \in Text
    BY TextsAreOfMarks
  <2>3. mark \in [kind : STRING, word : STRING]
    BY <2>2 DEF Text
  <2>4. text' \in Text
    BY <2>1, <2>3 DEF Text
  <2>5. QED
    BY <1>1, <2>4 DEF Generate, DecisionRead, ChildrenOfRequest, NotesKept, Before, reading
<1>2. CASE Redraw
  BY <1>2, TextsAreOfMarks
     DEF Redraw, MayEnd, DecisionRead, ChildrenOfRequest, NotesKept, Before, reading
<1>3. CASE Decide
  <2>1. DecisionRead'
    BY <1>3 DEF Decide, DecisionRead
  <2>2. QED
    BY <1>3, <2>1 DEF Decide, MayEnd, ChildrenOfRequest, NotesKept, Before, reading
<1>4. CASE RequestSpawn
  <2>1. text' \in Text
    BY <1>4 DEF RequestSpawn, Text
  <2>2. QED
    BY <1>4, <2>1
       DEF RequestSpawn, DecisionRead, ChildrenOfRequest, NotesKept, Before, reading
<1>5. CASE HandleSpawn
  <2>1. PICK batch \in Batches, spawner \in Spawners, guarded \in BOOLEAN, k \in Int :
          /\ request' = [batch |-> batch, spawner |-> spawner, guarded |-> guarded]
          /\ children' = HandleSpawnRequest(batch, spawner, guarded, k)
          /\ phase' = IF children'.outcome = "handled" /\ spawner # "gone"
                      THEN "waiting" ELSE "done"
    BY <1>5 DEF HandleSpawn
  <2>2. /\ text' = text /\ thoughts' = children'.notes /\ ended' = ended /\ ended = <<>>
    BY <1>5 DEF HandleSpawn, ChildrenOfRequest, Before
  <2>3. MadeOf(children', HandleSpawnRequest(batch, spawner, guarded, k))
    BY <2>1, Handled DEF MadeOf
  <2>4. ChildrenOfRequest'
    BY <2>1, <2>3 DEF ChildrenOfRequest, Before
  <2>5. IsSequence(children'.notes) /\ IsSequence(<<>>)
    BY <2>1, Handled DEF IsSequence
  <2>6. NotesKept'
    BY <2>1, <2>2, <2>5 DEF NotesKept
  <2>7. QED
    BY <2>1, <2>2, <2>4, <2>6 DEF DecisionRead
<1>6. CASE ChildEnds
  <2> DEFINE next == FirstOf(children.queued, 1)
  <2>1. PICK i : ended' = Append(ended, i)
    BY <1>6 DEF ChildEnds
  <2>2. /\ phase = "waiting" /\ phase' = phase /\ UNCHANGED <<text, request, thoughts>>
        /\ children' = [children EXCEPT !.started = @ \cup next, !.queued = @ \ next]
        /\ next \subseteq children.queued
    BY <1>6, PartsTaken DEF ChildEnds
  <2>3. PICK k \in Int :
          MadeOf(children, HandleSpawnRequest(request.batch, request.spawner, request.guarded, k))
    BY <2>2 DEF ChildrenOfRequest, Before
  <2>4. children.outcome = "handled" /\ request.spawner # "gone"
    BY <2>2 DEF ChildrenOfRequest, Before
  <2> HIDE DEF next
  <2>5. /\ children' = Result(children.outcome, children.started \cup next,
                              children.queued \ next, children.after, children.notes)
    BY <2>2, <2>3 DEF MadeOf, Result
  <2>6. /\ children'.started \cup children'.queued = children.started \cup children.queued
        /\ children'.outcome = children.outcome /\ children'.notes = children.notes
        /\ MadeOf(children', HandleSpawnRequest(request.batch, request.spawner, request.guarded, k))
    <3>1. /\ children'.started = children.started \cup next
          /\ children'.queued = children.queued \ next
          /\ children'.outcome = children.outcome /\ children'.after = children.after
          /\ children'.notes = children.notes
      BY <2>5 DEF Result
    <3>2. children'.started \cup children'.queued = children.started \cup children.queued
      BY <3>1, <2>2
    <3>3. /\ children.outcome = HandleSpawnRequest(request.batch, request.spawner, request.guarded, k).outcome
          /\ children.after = HandleSpawnRequest(request.batch, request.spawner, request.guarded, k).after
          /\ children.notes = HandleSpawnRequest(request.batch, request.spawner, request.guarded, k).notes
      BY <2>3 DEF MadeOf, Result
    <3>4. QED
      BY <2>3, <2>5, <3>1, <3>2, <3>3 DEF MadeOf
  <2>7. ChildrenOfRequest'
    BY <2>2, <2>4, <2>6 DEF ChildrenOfRequest, Before
  <2>8. NotesKept'
    BY <2>1, <2>2, <2>6, Added DEF NotesKept
  <2>9. QED
    BY <2>2, <2>7, <2>8 DEF DecisionRead
<1>7. CASE Notified
  <2>1. PICK line : thoughts' = Append(thoughts, line)
    BY <1>7 DEF Notified
  <2>2. /\ phase \in {"waiting", "resumed"} /\ UNCHANGED <<text, request, children, ended>>
        /\ phase' = IF NoneOpen THEN "resumed" ELSE phase
    BY <1>7 DEF Notified
  <2>3. ChildrenOfRequest'
    BY <2>2 DEF ChildrenOfRequest, Before
  <2>4. IsSequence(thoughts') /\ Range(thoughts) \subseteq Range(thoughts')
    <3>1. IsSequence(thoughts)
      BY <2>2 DEF NotesKept
    <3>2. QED
      BY <2>1, <3>1, Added
  <2>5. NotesKept'
    BY <2>2, <2>4 DEF NotesKept, NoneOpen
  <2>6. QED
    BY <2>2, <2>3, <2>5 DEF DecisionRead
<1>8. CASE DecideAgain
  <2>1. /\ UNCHANGED <<text, request, children, ended>> /\ phase' = "reporting"
        /\ phase \in {"waiting", "resumed"}
        /\ phase = "waiting" => DOMAIN children.after = {}
    BY <1>8 DEF DecideAgain
  <2>2. thoughts' = thoughts \/ \E line : thoughts' = Append(thoughts, line)
    BY <1>8 DEF DecideAgain
  <2>3. ChildrenOfRequest'
    BY <2>1 DEF ChildrenOfRequest, Before
  <2>4. IsSequence(thoughts') /\ Range(thoughts) \subseteq Range(thoughts')
    <3>1. IsSequence(thoughts)
      BY <2>1 DEF NotesKept
    <3>2. CASE thoughts' = thoughts
      BY <3>1, <3>2
    <3>3. CASE thoughts' # thoughts
      <4>1. PICK line : thoughts' = Append(thoughts, line)
        BY <2>2, <3>3
      <4>2. QED
        BY <4>1, <3>1, Added
    <3>4. QED
      BY <3>2, <3>3
  <2>5. PICK k \in Int :
          MadeOf(children, HandleSpawnRequest(request.batch, request.spawner, request.guarded, k))
    BY <2>1 DEF ChildrenOfRequest, Before
  <2>6. DOMAIN children.after = children.started \cup children.queued
    BY <2>5, Handled DEF MadeOf, Result
  <2>7. NotesKept'
    BY <2>1, <2>4, <2>6 DEF NotesKept
  <2>8. QED
    BY <2>1, <2>3, <2>7 DEF DecisionRead
<1>9. CASE UNCHANGED vars
  BY <1>9 DEF vars, DecisionRead, ChildrenOfRequest, NotesKept
<1>10. QED
  BY <1>1, <1>2, <1>3, <1>4, <1>5, <1>6, <1>7, <1>8, <1>9 DEF Next

LEMMA IInvAlways == Spec => []IInv
<1>1. Init => IInv
  BY InitIInv
<1>2. IInv /\ [Next]_vars => IInv'
  BY NextIInv
<1>3. QED
  BY <1>1, <1>2, PTL DEF Spec

LEMMA BatchHolds ==
  ASSUME IInv
  PROVE  NothingVanishes /\ DependenciesExist /\ CopiedPlanStartsNothing
<1>1. CASE phase \notin Before
  <2> DEFINE result(k) ==
               HandleSpawnRequest(request.batch, request.spawner, request.guarded, k)
  <2>1. PICK k \in Int : MadeOf(children, result(k))
    BY <1>1 DEF IInv, ChildrenOfRequest
  <2>2. /\ children.started \cup children.queued = result(k).started \cup result(k).queued
        /\ children.after = result(k).after /\ children.notes = result(k).notes
        /\ children.outcome = result(k).outcome
    BY <2>1 DEF MadeOf, Result
  <2>3. ASSUME phase = "reporting", NEW i \in Prepared(request.batch)
        PROVE  i \in Range(ended) \/ \E line \in Range(thoughts) : i \in line.about
    <3>1. children.outcome = "handled" /\ request.spawner # "gone"
      BY <2>3, <1>1 DEF IInv, ChildrenOfRequest
    <3>2. \/ i \in children.started \cup children.queued
          \/ \E line \in Range(children.notes) : i \in line.about
      <4>1. result(k).outcome = "handled"
        BY <2>2, <3>1
      <4>2. \/ i \in result(k).started \cup result(k).queued
            \/ \E line \in Range(result(k).notes) : i \in line.about
        BY <2>3, <3>1, <4>1, Handled
      <4>3. QED
        BY <2>2, <4>2
    <3>3. QED
      BY <2>3, <3>2 DEF IInv, NotesKept
  <2>4. NothingVanishes
    BY <2>3 DEF NothingVanishes
  <2>5. DependenciesExist
    BY <2>2, Handled DEF DependenciesExist
  <2>6. CopiedPlanStartsNothing
    BY <2>2, Handled DEF CopiedPlanStartsNothing
  <2>7. QED
    BY <2>4, <2>5, <2>6
<1>2. CASE phase \in Before
  BY <1>2 DEF IInv, Before, ChildrenOfRequest, Nothing, Result, NothingVanishes,
              DependenciesExist, CopiedPlanStartsNothing
<1>3. QED
  BY <1>1, <1>2

(* From handle_spawn to the decomposer's next decision: whatever it worded *)
(* was a child of its own that ended, or is named in a note among its      *)
(* thoughts, for batches of every size, under any caps, and in whatever    *)
(* order children end, are drained and are reported.                       *)
THEOREM NothingVanishesAlways == Spec => []NothingVanishes
BY BatchHolds, IInvAlways, PTL

(* handle_spawn: no child is left waiting for a subtask that was dropped.  *)
THEOREM DependenciesExistAlways == Spec => []DependenciesExist
BY BatchHolds, IInvAlways, PTL

(* handle_spawn: one copied subtask condemns the batch, however many others *)
(* it has.                                                                  *)
THEOREM CopiedPlanStartsNothingAlways == Spec => []CopiedPlanStartsNothing
BY BatchHolds, IInvAlways, PTL

----------------------------------------------------------------------------
(* The decision *)

(* _coerce_final_action, whatever was generated: at the cycle cap nothing  *)
(* off the menu is executed, and a SPAWN only with a payload for one.      *)
THEOREM FinalMenuHoldsAlways == Spec => []FinalMenuHolds
<1>1. ASSUME NEW d, NEW m \in Menus \ {ActionTokens}, NEW prose \in BOOLEAN
      PROVE  LET c == Coerced(d, m, prose)
             IN c.action \in m /\ (c.action = "SPAWN" => IsSpawnPayload(c))
  BY DEF Coerced, Decided, Menus
<1>2. IInv => FinalMenuHolds
  BY <1>1 DEF IInv, DecisionRead, FinalMenuHolds
<1>3. QED
  BY <1>2, IInvAlways, PTL

(* The block meant opens with a label or with a keyword.                   *)
LEMMA MatchIsNamed ==
  ASSUME NEW t \in Text, LastActionMatch(t) # 0
  PROVE  /\ LastActionMatch(t) \in DOMAIN t
         /\ t[LastActionMatch(t)].kind \in {"label", "bare", "lower"}
<1> DEFINE labelled == {i \in DOMAIN t : t[i].kind = "label"}
           real == {i \in labelled : t[i].word \in ActionTokens}
           bare == {i \in DOMAIN t :
                      \/ t[i].kind = "bare"
                      \/ t[i].kind = "lower" /\ \A j \in 1 .. i - 1 : t[j].kind = "blank"}
<1>1. PICK S \in SUBSET DOMAIN t :
        /\ LastActionMatch(t) = LastOf(S)
        /\ \A i \in S : t[i].kind \in {"label", "bare", "lower"}
  <2>1. LastActionMatch(t) \in {LastOf(labelled), LastOf(real), LastOf(bare)}
    BY DEF LastActionMatch
  <2>2. QED
    BY <2>1
<1>2. S # {} /\ LastActionMatch(t) = Max(S)
  BY <1>1 DEF LastOf
<1>3. QED
  BY <1>1, <1>2, Positions

LEMMA ReadsTheMatch ==
  ASSUME NEW t
  PROVE  Read(t).action \in {NamedAction(t, LastActionMatch(t)), "THINK"}
BY DEF Read, Decided

(* decide(): REPORT and DIE end a task, and a label that is neither is     *)
(* never taken for one, in a generation of any length.                     *)
THEOREM EndsOnPurposeAlways == Spec => []EndsOnPurpose
<1>1. IInv => EndsOnPurpose
  <2> SUFFICES ASSUME IInv, phase = "decided", menu = ActionTokens,
                      decision.action \in {"REPORT", "DIE"}, LastActionMatch(text) # 0
               PROVE  \E mark \in Range(text) :
                        mark.kind \in {"label", "bare", "lower"} /\
                        (mark.word = decision.action \/ mark.word = "REPROT")
    BY DEF EndsOnPurpose
  <2> DEFINE at == LastActionMatch(text)
  <2>1. at \in DOMAIN text /\ text[at].kind \in {"label", "bare", "lower"}
    BY MatchIsNamed DEF IInv
  <2>2. decision.action = NamedAction(text, at)
    BY ReadsTheMatch DEF IInv, DecisionRead
  <2>3. text[at].word = decision.action \/ text[at].word = "REPROT"
    BY <2>2 DEF NamedAction, Closest, TooShort, ActionTokens
  <2>4. text[at] \in Range(text)
    BY <2>1 DEF Range
  <2>5. QED
    BY <2>1, <2>3, <2>4
<1>2. QED
  BY <1>1, IInvAlways, PTL

LEMMA PartOfText ==
  ASSUME NEW t \in Text, NEW a \in Nat \ {0}, NEW b \in Nat, b <= Len(t)
  PROVE  /\ SubSeq(t, a, b) \in Text
         /\ \A i \in a .. b : i - a + 1 \in DOMAIN SubSeq(t, a, b) /\ SubSeq(t, a, b)[i - a + 1] = t[i]
<1> DEFINE M == [kind : STRING, word : STRING]
<1>1. t \in Seq(M)
  BY DEF Text
<1> HIDE DEF M
<1>2. /\ SubSeq(t, a, b) \in Seq(M)
      /\ \A i \in a .. b : i - a + 1 \in DOMAIN SubSeq(t, a, b) /\ SubSeq(t, a, b)[i - a + 1] = t[i]
  BY <1>1
<1>3. QED
  BY <1>2 DEF Text, M

LEMMA StrippedIsText ==
  ASSUME NEW t \in Text
  PROVE  Stripped(t) \in Text
<1> DEFINE solid == {j \in DOMAIN t : t[j].kind # "blank"}
<1>1. CASE solid = {}
  BY <1>1 DEF Stripped, Text
<1>2. CASE solid # {}
  <2>1. Min(solid) \in DOMAIN t /\ Max(solid) \in DOMAIN t
    <3>1. solid \in SUBSET DOMAIN t
      OBVIOUS
    <3>2. QED
      BY <3>1, <1>2, Positions
  <2>2. Stripped(t) = SubSeq(t, Min(solid), Max(solid))
    BY <1>2 DEF Stripped
  <2> HIDE DEF solid
  <2>3. Min(solid) \in Nat \ {0} /\ Max(solid) \in Nat /\ Max(solid) <= Len(t)
    BY <2>1 DEF Text
  <2>4. QED
    BY <2>2, <2>3, PartOfText
<1>3. QED
  BY <1>1, <1>2

(* What is left of some marks without the blank ones around them keeps     *)
(* every mark that is not blank.                                           *)
LEMMA StrippedKeeps ==
  ASSUME NEW t \in Text, NEW i \in DOMAIN t, t[i].kind # "blank"
  PROVE  \E j \in DOMAIN Stripped(t) : Stripped(t)[j] = t[i]
<1> DEFINE solid == {j \in DOMAIN t : t[j].kind # "blank"}
<1>1. /\ solid \in SUBSET DOMAIN t
      /\ i \in solid
  OBVIOUS
<1>2. /\ Min(solid) \in DOMAIN t /\ Max(solid) \in DOMAIN t
      /\ Min(solid) <= i /\ i <= Max(solid)
  BY <1>1, Positions
<1>3. Stripped(t) = SubSeq(t, Min(solid), Max(solid))
  BY <1>1 DEF Stripped
<1> HIDE DEF solid
<1>4. /\ Min(solid) \in Nat \ {0} /\ Max(solid) \in Nat /\ Max(solid) <= Len(t)
      /\ i \in Min(solid) .. Max(solid)
  BY <1>2 DEF Text
<1>5. /\ i - Min(solid) + 1 \in DOMAIN SubSeq(t, Min(solid), Max(solid))
      /\ SubSeq(t, Min(solid), Max(solid))[i - Min(solid) + 1] = t[i]
  BY <1>4, PartOfText
<1>6. QED
  BY <1>3, <1>5

(* No label, and no second PAYLOAD, follows the payload of a complete      *)
(* block.                                                                  *)
LEMMA NothingFollows ==
  ASSUME NEW t \in Text, NEW i \in DOMAIN t, Parses(Stripped(After(t, i))),
         NEW j \in DOMAIN t, j > i
  PROVE  t[j].kind \notin {"label", "payload"}
<1> SUFFICES ASSUME t[j].kind \in {"label", "payload"} PROVE FALSE
  OBVIOUS
<1>1. /\ After(t, i) \in Text
      /\ j - i \in DOMAIN After(t, i) /\ After(t, i)[j - i] = t[j]
  <2>1. i + 1 \in Nat \ {0} /\ Len(t) \in Nat /\ j \in i + 1 .. Len(t) /\ j - i = j - (i + 1) + 1
    BY DEF Text
  <2>2. QED
    BY <2>1, PartOfText, SMTT(30) DEF After
<1>2. PICK n \in DOMAIN Stripped(After(t, i)) : Stripped(After(t, i))[n] = t[j]
  BY <1>1, StrippedKeeps
<1>3. Stripped(After(t, i))[n].kind \in {"open", "close", "quote", "text", "blank"}
  BY DEF Parses
<1>4. QED
  BY <1>2, <1>3

(* So that block is the one meant, and its payload is what is read.        *)
LEMMA BlockIsMeant ==
  ASSUME NEW t \in Text, NEW i \in 1 .. Len(t) - 2,
         t[i].kind = "label", t[i].word \in ActionTokens, t[i + 1].kind = "payload",
         Parses(Stripped(After(t, i + 1)))
  PROVE  LastActionMatch(t) = i /\ PayloadMatchFor(t, i) = i + 1
<1> DEFINE labelled == {j \in DOMAIN t : t[j].kind = "label"}
           real == {j \in labelled : t[j].word \in ActionTokens}
           marks == {j \in DOMAIN t : t[j].kind = "payload" /\ j > i}
<1>1. Len(t) \in Nat /\ DOMAIN t = 1 .. Len(t)
  BY DEF Text
<1>2. i \in real /\ real \in SUBSET DOMAIN t
  BY <1>1
<1>3. ASSUME NEW j \in real PROVE j <= i
  <2>1. CASE j > i + 1
    BY <2>1, <1>1, NothingFollows
  <2>2. j # i + 1
    OBVIOUS
  <2>3. QED
    BY <2>1, <2>2, <1>1
<1>4. LastActionMatch(t) = Max(real)
  BY <1>2 DEF LastActionMatch, LastOf
<1> HIDE DEF real
<1>5. Max(real) \in real /\ \A x \in real : x <= Max(real)
  BY <1>2, Positions
<1>6. LastActionMatch(t) = i
  BY <1>1, <1>2, <1>3, <1>4, <1>5
<1>7. i + 1 \in marks /\ marks \in SUBSET DOMAIN t /\ \A x \in marks : i + 1 <= x
  BY <1>1
<1>8. Min(marks) \in marks /\ \A x \in marks : Min(marks) <= x
  BY <1>7, Positions
<1>9. PayloadMatchFor(t, i) = Min(marks)
  BY <1>1, <1>7 DEF PayloadMatchFor
<1> HIDE DEF marks
<1>10. PayloadMatchFor(t, i) = i + 1
  BY <1>1, <1>7, <1>8, <1>9
<1>11. QED
  BY <1>6, <1>10

(* What parses as one object is read as that object.                       *)
LEMMA ReadsAnObject ==
  ASSUME NEW raw \in Text, Parses(raw)
  PROVE  ReadPayload(raw) = Object(raw)
<1>1. BalancedPrefix(raw) # 0 /\ BalancedPrefix(raw) = Len(raw)
  BY DEF Parses
<1>2. Opens(raw) /\ raw # <<>>
  BY <1>1 DEF BalancedPrefix, Opens
<1>3. SubSeq(raw, 1, Len(raw)) = raw
  BY DEF Text
<1>4. Len(raw) > 0
  BY <1>1 DEF Text
<1>5. CASE Last(raw).kind = "close"
  BY <1>2, <1>5 DEF ReadPayload
<1>6. CASE Last(raw).kind # "close"
  BY <1>1, <1>2, <1>3, <1>4, <1>6 DEF ReadPayload
<1>7. QED
  BY <1>5, <1>6

(* decide(): a generation that ends in a complete block runs that block,   *)
(* with the whole object, however long it is and whatever was drafted      *)
(* before it.                                                              *)
THEOREM CompleteBlockRunsAlways == Spec => []CompleteBlockRuns
<1>1. IInv => CompleteBlockRuns
  <2> SUFFICES ASSUME IInv, phase = "decided", menu = ActionTokens,
                      NEW i \in 1 .. Len(text) - 2,
                      text[i].kind = "label", text[i].word \in ActionTokens,
                      text[i + 1].kind = "payload",
                      Parses(Stripped(After(text, i + 1)))
               PROVE  decision = Decided(text[i].word, Object(Stripped(After(text, i + 1))), "kept")
    BY DEF CompleteBlockRuns
  <2> DEFINE raw == Stripped(After(text, i + 1))
  <2>1. text \in Text /\ decision = Read(text)
    BY DEF IInv, DecisionRead
  <2>2. LastActionMatch(text) = i /\ PayloadMatchFor(text, i) = i + 1
    BY <2>1, BlockIsMeant
  <2>3. i # 0 /\ i + 1 # 0
    OBVIOUS
  <2>4. raw \in Text
    <3>1. i + 2 \in Nat \ {0} /\ Len(text) \in Nat /\ i + 1 + 1 = i + 2
      BY <2>1 DEF Text
    <3>2. After(text, i + 1) \in Text
      BY <2>1, <3>1, PartOfText DEF After
    <3>3. QED
      BY <3>2, StrippedIsText
  <2>5. ReadPayload(raw) = Object(raw)
    BY <2>4, ReadsAnObject
  <2>6. NamedAction(text, i) = text[i].word
    BY <2>3 DEF NamedAction, Closest, TooShort, ActionTokens
  <2>7. Object(raw).kind = "object"
    BY DEF Object
  <2>8. QED
    BY <2>1, <2>2, <2>3, <2>5, <2>6, <2>7 DEF Read
<1>2. QED
  BY <1>1, IInvAlways, PTL
=============================================================================
