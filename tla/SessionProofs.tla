---------------------------- MODULE SessionProofs ----------------------------
(***************************************************************************)
(* The ghosts of dead agents across sessions: two files that are never     *)
(* replaced together, processes that crash between them, and saves that    *)
(* fail; for any plans, drafts and bounds.                                 *)
(***************************************************************************)
EXTENDS Session, FiniteSetTheorems, WellFoundedInduction, TLAPS

----------------------------------------------------------------------------
(* The invariant *)

(* A store has its records under ids given out already, and a vector if it *)
(* has a record at all.                                                    *)
Store(s) ==
  /\ s = [index |-> s.index, metadata |-> s.metadata, nextId |-> s.nextId]
  /\ s.nextId \in Nat
  /\ \A n \in DOMAIN s.metadata : n \in Nat /\ n < s.nextId
  /\ s.index = {} => DOMAIN s.metadata = {}

FileFields == {"faiss", "json", "index", "metadata", "nextId"}

(* So do the files; and a record is only there when both of them are.      *)
Files(d) ==
  /\ d = [x \in FileFields |-> d[x]]
  /\ d.faiss \in {"absent", "whole"} /\ d.json \in {"absent", "whole"}
  /\ d.nextId \in Nat
  /\ \A n \in DOMAIN d.metadata : n \in Nat /\ n < d.nextId
  /\ d.faiss = "absent" \/ d.json = "absent" => DOMAIN d.metadata = {}
  /\ d.faiss = "whole" => d.index # {}

Vector(n, ghost) == [id |-> n, ghost |-> ghost]

(* A process that may save knows every record on disk, with its vector.    *)
Knows(s, d) ==
  \A n \in DOMAIN d.metadata :
    /\ n \in DOMAIN s.metadata /\ s.metadata[n] = d.metadata[n]
    /\ Vector(n, d.metadata[n]) \in d.index => Vector(n, d.metadata[n]) \in s.index

(* Between the two files of a save, the first has what the second is about *)
(* to record.                                                              *)
HalfSaved(s, d) == s.index # {} => d.faiss = "whole" /\ d.index = s.index

GhostInv ==
  /\ "phase" \in DOMAIN session
  /\ Store(memory) /\ Files(disk)
  /\ ~Is("down") => Knows(memory, disk)
  /\ Is("save metadata") \/ Is("close metadata") => HalfSaved(memory, disk)

----------------------------------------------------------------------------
(* The operators *)

LEMMA NoGhostsStore == Store(NoGhosts) /\ DOMAIN NoGhosts.metadata = {}
BY DEF Store, NoGhosts

(* A new ghost gets an id of its own, and takes nothing from the others.   *)
LEMMA WithGhostKeeps ==
  ASSUME NEW s, NEW ghost, NEW d, Store(s), Knows(s, d)
  PROVE  Store(WithGhost(s, ghost)) /\ Knows(WithGhost(s, ghost), d)
<1> DEFINE m == WithGhost(s, ghost)
<1>1. /\ m.index = s.index \cup {Vector(s.nextId, ghost)}
      /\ m.metadata = [id \in DOMAIN s.metadata \cup {s.nextId} |->
                         IF id = s.nextId THEN ghost ELSE s.metadata[id]]
      /\ m.nextId = s.nextId + 1
      /\ m = [index |-> m.index, metadata |-> m.metadata, nextId |-> m.nextId]
  BY DEF WithGhost, Vector
<1> HIDE DEF m
<1>2. s.nextId \in Nat /\ \A n \in DOMAIN s.metadata : n \in Nat /\ n < s.nextId
  BY DEF Store
<1>3. DOMAIN m.metadata = DOMAIN s.metadata \cup {s.nextId}
      /\ \A n \in DOMAIN s.metadata : m.metadata[n] = s.metadata[n]
  BY <1>1, <1>2
<1>4. Store(m)
  BY <1>1, <1>2, <1>3 DEF Store
<1>5. Knows(m, d)
  BY <1>1, <1>3 DEF Knows
<1>6. QED
  BY <1>4, <1>5 DEF m

(* The first file of a save: what was findable still is.                   *)
LEMMA SaveIndexKeeps ==
  ASSUME NEW s, NEW d, Store(s), Files(d), Knows(s, d)
  PROVE  LET e == SaveIndex(d, s)
         IN Files(e) /\ Knows(s, e) /\ HalfSaved(s, e) /\ Findable(d) \subseteq Findable(e)
<1> DEFINE e == SaveIndex(d, s)
<1>1. CASE s.index = {}
  <2>1. e = d
    BY <1>1 DEF SaveIndex
  <2>2. QED
    BY <1>1, <2>1 DEF HalfSaved
<1>2. CASE s.index # {}
  <2>1. /\ e.faiss = "whole" /\ e.json = d.json /\ e.index = s.index
        /\ e.metadata = d.metadata /\ e.nextId = d.nextId
        /\ e = [x \in FileFields |-> e[x]]
    BY <1>2 DEF SaveIndex, Files, FileFields
  <2> HIDE DEF e
  <2>2. Files(e)
    BY <1>2, <2>1 DEF Files
  <2>3. Knows(s, e)
    BY <2>1 DEF Knows
  <2>4. HalfSaved(s, e)
    BY <2>1 DEF HalfSaved
  <2>5. ASSUME NEW x \in Findable(d) PROVE x \in Findable(e)
    <3>1. d.faiss = "whole" /\ d.json = "whole"
          /\ \E n \in DOMAIN d.metadata : x = d.metadata[n] /\ Vector(n, x) \in d.index
      BY <2>5, Zenon DEF Findable, Vector
    <3>2. PICK n \in DOMAIN d.metadata : x = d.metadata[n] /\ Vector(n, x) \in d.index
      BY <3>1
    <3>3. Vector(n, e.metadata[n]) \in e.index /\ n \in DOMAIN e.metadata /\ x = e.metadata[n]
      BY <2>1, <3>2 DEF Knows
    <3>4. QED
      BY <2>1, <3>1, <3>3 DEF Findable, Vector
  <2>6. QED
    BY <2>2, <2>3, <2>4, <2>5 DEF e
<1>3. QED
  BY <1>1, <1>2

(* The second.                                                             *)
LEMMA SaveMetadataKeeps ==
  ASSUME NEW s, NEW d, Store(s), Files(d), Knows(s, d), HalfSaved(s, d)
  PROVE  LET e == SaveMetadata(d, s)
         IN Files(e) /\ Knows(s, e) /\ Findable(d) \subseteq Findable(e)
<1> DEFINE e == SaveMetadata(d, s)
<1>1. /\ e.faiss = d.faiss /\ e.json = "whole" /\ e.index = d.index
      /\ e.metadata = s.metadata /\ e.nextId = s.nextId
      /\ e = [x \in FileFields |-> e[x]]
  BY DEF SaveMetadata, Files, FileFields
<1> HIDE DEF e
<1>2. Files(e)
  BY <1>1 DEF Files, Store, HalfSaved
<1>3. Knows(s, e)
  BY <1>1 DEF Knows, HalfSaved, Store
<1>4. ASSUME NEW x \in Findable(d) PROVE x \in Findable(e)
  <2>1. d.faiss = "whole" /\ d.json = "whole"
        /\ \E n \in DOMAIN d.metadata : x = d.metadata[n] /\ Vector(n, x) \in d.index
    BY <1>4, Zenon DEF Findable, Vector
  <2>2. PICK n \in DOMAIN d.metadata : x = d.metadata[n] /\ Vector(n, x) \in d.index
    BY <2>1
  <2>3. Vector(n, e.metadata[n]) \in e.index /\ n \in DOMAIN e.metadata /\ x = e.metadata[n]
    BY <1>1, <2>2 DEF Knows
  <2>4. QED
    BY <1>1, <2>1, <2>3 DEF Findable, Vector
<1>5. QED
  BY <1>2, <1>3, <1>4 DEF e

(* A new process reads both files or neither, and knows what there is.     *)
LEMMA LoadGhostsKnows ==
  ASSUME NEW d, Files(d)
  PROVE  Store(LoadGhosts(d)) /\ Knows(LoadGhosts(d), d)
<1>1. CASE d.faiss = "whole" /\ d.json = "whole"
  BY <1>1 DEF LoadGhosts, Store, Files, Knows
<1>2. CASE ~(d.faiss = "whole" /\ d.json = "whole")
  <2>1. LoadGhosts(d) = NoGhosts /\ DOMAIN d.metadata = {}
    BY <1>2 DEF LoadGhosts, Files
  <2>2. QED
    BY <2>1, NoGhostsStore DEF Knows
<1>3. QED
  BY <1>1, <1>2

----------------------------------------------------------------------------
(* The steps *)

LEMMA GhostInit == Init => GhostInv
<1> SUFFICES ASSUME Init PROVE GhostInv
  OBVIOUS
<1>1. Files(EmptyDisk) /\ DOMAIN EmptyDisk.metadata = {}
  BY DEF Files, EmptyDisk, FileFields
<1>2. Is("running") /\ ~Is("save metadata") /\ ~Is("close metadata")
  BY DEF Init, Fresh, Is
<1>3. "phase" \in DOMAIN session
  BY DEF Init, Fresh
<1>4. memory = NoGhosts /\ disk = EmptyDisk
  BY DEF Init
<1>5. Knows(memory, disk)
  BY <1>1, <1>4 DEF Knows
<1>6. QED
  BY <1>1, <1>2, <1>3, <1>4, <1>5, NoGhostsStore DEF GhostInv

(* A step that leaves memory and files alone, and does not get between the *)
(* two files.                                                              *)
LEMMA ElsewhereKeeps ==
  ASSUME GhostInv, UNCHANGED <<memory, disk>>, "phase" \in DOMAIN session',
         ~Is("down"), session'.phase \notin {"save metadata", "close metadata"}
  PROVE  GhostInv'
BY DEF GhostInv, Is

LEMMA GhostStep ==
  ASSUME GhostInv, [Next \/ Rest]_vars
  PROVE  GhostInv' /\ Findable(disk) \subseteq Findable(disk')
<1>1. "phase" \in DOMAIN session /\ Store(memory) /\ Files(disk)
  BY DEF GhostInv
<1>2. ASSUME AgentDies
      PROVE  GhostInv' /\ disk' = disk
  <2>1. ~Is("down") /\ memory' = WithGhost(memory, written.ghosts) /\ disk' = disk
        /\ session' = [session EXCEPT !.phase = "save index"]
    BY <1>2 DEF AgentDies, Is
  <2>2. "phase" \in DOMAIN session' /\ session'.phase = "save index"
    BY <1>1, <2>1
  <2>3. Store(memory') /\ Knows(memory', disk)
    BY <1>1, <2>1, WithGhostKeeps DEF GhostInv
  <2>4. QED
    BY <1>1, <2>1, <2>2, <2>3 DEF GhostInv, Is
<1>3. ASSUME NEW closing \in BOOLEAN, SaveFirst(closing)
      PROVE  GhostInv' /\ Findable(disk) \subseteq Findable(disk')
  <2>1. ~Is("down") /\ disk' = SaveIndex(disk, memory) /\ memory' = memory
        /\ session' = [session EXCEPT !.phase = IF closing THEN "close metadata"
                                                            ELSE "save metadata"]
    BY <1>3 DEF SaveFirst, AtIndex, Is
  <2>2. "phase" \in DOMAIN session' /\ session'.phase \in {"close metadata", "save metadata"}
    BY <1>1, <2>1
  <2>3. Files(disk') /\ Knows(memory, disk') /\ HalfSaved(memory, disk')
        /\ Findable(disk) \subseteq Findable(disk')
    BY <1>1, <2>1, SaveIndexKeeps DEF GhostInv
  <2>4. QED
    BY <1>1, <2>1, <2>2, <2>3 DEF GhostInv, Is
<1>4. ASSUME NEW closing \in BOOLEAN, SaveSecond(closing)
      PROVE  GhostInv' /\ Findable(disk) \subseteq Findable(disk')
  <2>1. /\ ~Is("down") /\ (Is("save metadata") \/ Is("close metadata"))
        /\ disk' = SaveMetadata(disk, memory) /\ memory' = memory
        /\ session' = [session EXCEPT !.phase = AfterSave(closing)]
    BY <1>4 DEF SaveSecond, AtMetadata, Is
  <2>2. "phase" \in DOMAIN session' /\ session'.phase \in {"answering", "running"}
    BY <1>1, <2>1 DEF AfterSave
  <2>3. Files(disk') /\ Knows(memory, disk') /\ Findable(disk) \subseteq Findable(disk')
    BY <1>1, <2>1, SaveMetadataKeeps DEF GhostInv
  <2>4. QED
    BY <1>1, <2>1, <2>2, <2>3 DEF GhostInv, Is
<1>5. ASSUME NEW closing \in BOOLEAN, SaveFails(closing)
      PROVE  GhostInv' /\ disk' = disk
  <2>1. ~Is("down") /\ UNCHANGED <<memory, disk>>
        /\ session' = [session EXCEPT !.phase = AfterSave(closing)]
    BY <1>5 DEF SaveFails, AtIndex, AtMetadata, Is
  <2>2. "phase" \in DOMAIN session' /\ session'.phase \in {"answering", "running"}
    BY <1>1, <2>1 DEF AfterSave
  <2>3. QED
    BY <2>1, <2>2, ElsewhereKeeps
<1>6. ASSUME SubtaskEnds
      PROVE  GhostInv' /\ disk' = disk
  <2>1. Is("running") /\ UNCHANGED <<memory, disk>>
    BY <1>6 DEF SubtaskEnds
  <2>2. PICK t : session' \in {Ended(t, "completed"),
                              [Ended(t, "failed") EXCEPT !.abandoned = @ \cup {t}],
                              [Ended(t, "failed") EXCEPT !.unstarted = @ \cup {t}]}
    <3>1. \E t : session' \in {Ended(t, "completed"),
                              [Ended(t, "failed") EXCEPT !.abandoned = @ \cup {t}],
                              [Ended(t, "failed") EXCEPT !.unstarted = @ \cup {t}]}
      BY <1>6, Zenon DEF SubtaskEnds
    <3>2. QED
      BY <3>1
  <2>3. "phase" \in DOMAIN session' /\ session'.phase = "running"
    BY <1>1, <2>1, <2>2 DEF Ended, Is
  <2>4. QED
    BY <2>1, <2>3, ElsewhereKeeps DEF Is
<1>7. ASSUME RootCompletes \/ RunEnds \/ Terminate
      PROVE  GhostInv' /\ disk' = disk
  <2>1. UNCHANGED <<memory, disk>> /\ ~Is("down")
    BY <1>7 DEF RootCompletes, RunEnds, Terminate, Is
  <2>2. "phase" \in DOMAIN session' /\ session'.phase \in {"close index", "ended"}
    <3>1. CASE RootCompletes
      BY <1>1, <3>1 DEF RootCompletes, Ended
    <3>2. CASE RunEnds
      BY <1>1, <3>2 DEF RunEnds, Ended
    <3>3. CASE Terminate
      BY <1>1, <3>3 DEF Terminate
    <3>4. QED
      BY <1>7, <3>1, <3>2, <3>3
  <2>3. QED
    BY <2>1, <2>2, ElsewhereKeeps
<1>8. ASSUME Crash
      PROVE  GhostInv' /\ disk' = disk
  <2>1. memory' = NoGhosts /\ disk' = disk /\ session' = [Fresh(plan) EXCEPT !.phase = "down"]
    BY <1>8 DEF Crash
  <2>2. "phase" \in DOMAIN session' /\ session'.phase = "down"
    BY <2>1 DEF Fresh
  <2>3. QED
    BY <1>1, <2>1, <2>2, NoGhostsStore DEF GhostInv, Is
<1>9. ASSUME Start
      PROVE  GhostInv' /\ disk' = disk
  <2>1. memory' = LoadGhosts(disk) /\ disk' = disk /\ session' = Fresh(plan)
    BY <1>9 DEF Start
  <2>2. "phase" \in DOMAIN session' /\ session'.phase = "running"
    BY <2>1 DEF Fresh
  <2>3. QED
    BY <1>1, <2>1, <2>2, LoadGhostsKnows DEF GhostInv, Is
<1>10. ASSUME Rest \/ UNCHANGED vars
       PROVE  GhostInv' /\ disk' = disk
  BY <1>10 DEF Rest, vars, GhostInv, Is
<1>11. QED
  BY <1>2, <1>3, <1>4, <1>5, <1>6, <1>7, <1>8, <1>9, <1>10 DEF Next

LEMMA GhostAlways == Spec => []GhostInv
<1>1. GhostInv /\ [Next \/ Rest]_vars => GhostInv'
  BY GhostStep
<1>2. QED
  BY GhostInit, <1>1, PTL DEF Spec

(* A lesson once on disk is found by every later run: no save, crash,      *)
(* failed save or restart leaves it without its vector or its record       *)
(* (_save_ghosts_unlocked, _load_ghosts).                                  *)
THEOREM LessonsAlwaysKept == Spec => LessonsKept
<1>1. GhostInv /\ [Next \/ Rest]_vars => [Findable(disk) \subseteq Findable(disk')]_vars
  BY GhostStep
<1>2. QED
  BY GhostAlways, <1>1, PTL DEF Spec, LessonsKept

----------------------------------------------------------------------------
(* Cuts *)

(* A non-empty finite set of integers has a least element and a greatest.  *)
LEMMA BoundsOf ==
  ASSUME NEW S \in SUBSET Int, IsFiniteSet(S), S # {}
  PROVE  (\E x \in S : \A y \in S : x <= y) /\ (\E x \in S : \A y \in S : y <= x)
<1> DEFINE Below(x) == {y \in S : y <= x}
           Above(x) == {y \in S : x <= y}
           Belows == {Below(x) : x \in S}
           Aboves == {Above(x) : x \in S}
<1>1. /\ Belows \subseteq SUBSET S /\ Belows # {}
      /\ Aboves \subseteq SUBSET S /\ Aboves # {}
  OBVIOUS
<1>2. /\ \A y \in S : Below(y) \in Belows /\ Above(y) \in Aboves
      /\ \A P \in Belows : \E x \in S : P = Below(x)
      /\ \A P \in Aboves : \E x \in S : P = Above(x)
  OBVIOUS
<1> HIDE DEF Belows, Aboves
<1>3. IsWellFoundedOn(StrictSubsetOrdering(S), SUBSET S)
  BY FS_StrictSubsetOrderingWellFounded, FS_FiniteSubsetsOfFinite
<1>4. PICK P \in Belows : \A Q \in Belows : ~(<<Q, P>> \in StrictSubsetOrdering(S))
  BY <1>1, <1>3, WFMin
<1>5. PICK R \in Aboves : \A Q \in Aboves : ~(<<Q, R>> \in StrictSubsetOrdering(S))
  BY <1>1, <1>3, WFMin
<1>6. PICK x \in S : P = Below(x)
  BY <1>2
<1>7. PICK z \in S : R = Above(z)
  BY <1>2
<1>8. ASSUME NEW y \in S PROVE x <= y
  <2>1. SUFFICES ASSUME y < x PROVE FALSE
    OBVIOUS
  <2>a. x \in Int /\ y \in Int /\ \A w \in S : w \in Int
    OBVIOUS
  <2>b. x \in Below(x)
    BY <2>a
  <2>c. x \notin Below(y)
    BY <2>a, <2>1
  <2>d. ASSUME NEW w \in Below(y) PROVE w \in Below(x)
    BY <2>a, <2>1
  <2>2. Below(y) \subseteq Below(x) /\ x \in Below(x) /\ x \notin Below(y)
    BY <2>b, <2>c, <2>d
  <2>3. QED
    BY <2>2, <1>2, <1>4, <1>6 DEF StrictSubsetOrdering
<1>9. ASSUME NEW y \in S PROVE y <= z
  <2>1. SUFFICES ASSUME z < y PROVE FALSE
    OBVIOUS
  <2>a. z \in Int /\ y \in Int /\ \A w \in S : w \in Int
    OBVIOUS
  <2>b. z \in Above(z)
    BY <2>a
  <2>c. z \notin Above(y)
    BY <2>a, <2>1
  <2>d. ASSUME NEW w \in Above(y) PROVE w \in Above(z)
    BY <2>a, <2>1
  <2>2. Above(y) \subseteq Above(z) /\ z \in Above(z) /\ z \notin Above(y)
    BY <2>b, <2>c, <2>d
  <2>3. QED
    BY <2>2, <1>2, <1>5, <1>7 DEF StrictSubsetOrdering
<1>10. QED
  BY <1>8, <1>9

(* So Min and Max are what they should be of positions of a text.          *)
LEMMA Positions ==
  ASSUME NEW n \in Nat, NEW S \in SUBSET (0 .. n), S # {}
  PROVE  /\ Min(S) \in S /\ \A y \in S : Min(S) <= y
         /\ Max(S) \in S /\ \A y \in S : y <= Max(S)
<1>1. IsFiniteSet(0 .. n)
  BY FS_Interval, 0 \in Int, n \in Int
<1>a. IsFiniteSet(S)
  BY <1>1, FS_Subset
<1>2. IsFiniteSet(S) /\ S \in SUBSET Int
  BY <1>a
<1>3. (\E x \in S : \A y \in S : x <= y) /\ (\E x \in S : \A y \in S : y <= x)
  BY <1>2, BoundsOf
<1>4. (\E x \in S : \A y \in S : x =< y) /\ (\E x \in S : \A y \in S : x >= y)
  BY <1>2, <1>3
<1>5. QED
  BY <1>4 DEF Min, Max

(* What is left of a text that was cut: a prefix of it.                    *)
CutOf(S, t, u) ==
  /\ t \in Seq(S) /\ u \in Seq(S)
  /\ Len(u) <= Len(t) /\ \A i \in 1 .. Len(u) : u[i] = t[i]

LEMMA PrefixIsCut ==
  ASSUME NEW S, NEW t \in Seq(S), NEW n \in 0 .. Len(t)
  PROVE  CutOf(S, t, Prefix(t, n)) /\ Len(Prefix(t, n)) = n
BY DEF CutOf, Prefix

LEMMA UncutIsCut ==
  ASSUME NEW S, NEW t \in Seq(S)
  PROVE  CutOf(S, t, t) /\ CutOf(S, t, <<>>)
BY DEF CutOf

LEMMA CutTwice ==
  ASSUME NEW S, NEW t, NEW u, NEW v, CutOf(S, t, u), CutOf(S, u, v)
  PROVE  CutOf(S, t, v)
<1>1. Len(t) \in Nat /\ Len(u) \in Nat /\ Len(v) \in Nat
  BY DEF CutOf
<1>2. ASSUME NEW i \in 1 .. Len(v) PROVE v[i] = t[i]
  <2>1. i \in 1 .. Len(u)
    BY <1>1 DEF CutOf
  <2>2. QED
    BY <2>1 DEF CutOf
<1>3. QED
  BY <1>1, <1>2 DEF CutOf

(* A sentence ends where it should.                                        *)
LEMMA EndOfIs ==
  ASSUME NEW S, NEW t \in Seq(S), NEW i \in 1 .. Len(t)
  PROVE  /\ EndOf(t, i) \in i .. Len(t)
         /\ Breaks(t[EndOf(t, i)]) \/ EndOf(t, i) = Len(t)
         /\ \A k \in i .. EndOf(t, i) - 1 : ~Breaks(t[k])
<1> DEFINE stops == {j \in i .. Len(t) : Breaks(t[j]) \/ j = Len(t)}
<1>1. Len(t) \in Nat
  OBVIOUS
<1>2. Len(t) \in stops /\ stops \in SUBSET (0 .. Len(t))
  BY <1>1
<1> DEFINE least == Min(stops)
<1>3. least \in stops /\ \A y \in stops : least <= y
  BY <1>1, <1>2, Positions
<1> HIDE DEF least
<1>4. least \in i .. Len(t) /\ (Breaks(t[least]) \/ least = Len(t))
  BY <1>3
<1>5. ASSUME NEW k \in i .. least - 1 PROVE ~Breaks(t[k])
  BY <1>1, <1>3, <1>4
<1>6. QED
  BY <1>4, <1>5 DEF EndOf

LEMMA DropIncompleteTailCuts ==
  ASSUME NEW S, NEW t \in Seq(S)
  PROVE  CutOf(S, t, DropIncompleteTail(t))
<1> DEFINE ends == {i \in DOMAIN t : t[i].ended}
<1>1. CASE ends = {}
  BY <1>1, UncutIsCut DEF DropIncompleteTail
<1>2. CASE ends # {}
  <2>1. ends \in SUBSET (0 .. Len(t))
    OBVIOUS
  <2>2. Max(ends) \in ends
    BY <1>2, <2>1, Positions, Len(t) \in Nat
  <2>3. Max(ends) \in 0 .. Len(t)
    BY <2>1, <2>2
  <2>4. DropIncompleteTail(t) = Prefix(t, Max(ends))
    BY <1>2 DEF DropIncompleteTail
  <2>5. QED
    BY <2>3, <2>4, PrefixIsCut
<1>3. QED
  BY <1>1, <1>2

(* The blocks that follow themselves: how long, and where.                 *)
Repeats(t) ==
  {r \in (1 .. MaxBlock) \X DOMAIN t :
     /\ r[2] + 2 * r[1] - 1 <= Len(t)
     /\ \A k \in r[2] .. r[2] + r[1] - 1 : t[k].text = t[k + r[1]].text
     /\ Characters(SubSeq(t, r[2], r[2] + r[1] - 1)) >= MinRepeat}

LEMMA RepeatsOfCut ==
  ASSUME NEW S, NEW t, NEW u, CutOf(S, t, u), NEW r \in Repeats(u)
  PROVE  r \in Repeats(t) /\ r[1] + r[2] <= Len(u)
<1> DEFINE size == r[1]
           at == r[2]
<1>1. MaxBlock = 4 /\ Len(t) \in Nat /\ Len(u) \in Nat /\ Len(u) <= Len(t)
      /\ DOMAIN t = 1 .. Len(t) /\ DOMAIN u = 1 .. Len(u)
      /\ \A i \in 1 .. Len(u) : u[i] = t[i]
  BY DEF MaxBlock, CutOf
<1>2. /\ size \in 1 .. 4 /\ at \in 1 .. Len(u) /\ r \in (1 .. 4) \X (1 .. Len(u))
      /\ at + 2 * size - 1 <= Len(u)
      /\ \A k \in at .. at + size - 1 : u[k].text = u[k + size].text
      /\ Characters(SubSeq(u, at, at + size - 1)) >= MinRepeat
  BY <1>1 DEF Repeats
<1>3. r = <<size, at>>
  BY <1>2
<1> HIDE DEF size, at
<1>4. ASSUME NEW k \in at .. at + size - 1
      PROVE  k \in 1 .. Len(u) /\ k + size \in 1 .. Len(u)
  BY <1>1, <1>2
<1>5. \A k \in at .. at + size - 1 : t[k].text = t[k + size].text
  BY <1>1, <1>2, <1>4
<1>6. SubSeq(u, at, at + size - 1) = SubSeq(t, at, at + size - 1)
  <2>1. at + size - 1 \in at .. Len(u) /\ at + size - 1 <= Len(t) /\ at \in 1 .. Len(t)
    BY <1>1, <1>2
  <2>2. t \in Seq(S) /\ u \in Seq(S)
    BY DEF CutOf
  <2>3. QED
    BY <1>1, <1>2, <2>1, <2>2
<1>7. at \in 1 .. Len(t) /\ at + 2 * size - 1 <= Len(t) /\ size + at <= Len(u)
  BY <1>1, <1>2
<1>8. <<size, at>> \in Repeats(t)
  BY <1>1, <1>2, <1>5, <1>6, <1>7 DEF Repeats
<1>9. QED
  BY <1>3, <1>7, <1>8 DEF size, at

(* Before the first of them there is none.                                 *)
LEMMA CutAdjacentRepeatCuts ==
  ASSUME NEW S, NEW t \in Seq(S)
  PROVE  CutOf(S, t, CutAdjacentRepeat(t)) /\ Repeats(CutAdjacentRepeat(t)) = {}
<1> DEFINE second == {r[1] + r[2] : r \in Repeats(t)}
           u == CutAdjacentRepeat(t)
           m == Min(second)
<1>1. Len(t) \in Nat /\ DOMAIN t = 1 .. Len(t) /\ MaxBlock = 4
  BY DEF MaxBlock
<1>2. u = IF Repeats(t) = {} THEN t ELSE Prefix(t, m - 1)
  BY Zenon DEF CutAdjacentRepeat, Repeats
<1>3. \A r \in Repeats(t) :
        /\ r \in (1 .. 4) \X (1 .. Len(t)) /\ r[1] + r[2] \in second
        /\ r[2] + 2 * r[1] - 1 <= Len(t)
  BY <1>1 DEF Repeats
<1> HIDE DEF u
<1>4. CASE Repeats(t) = {}
  BY <1>2, <1>4, UncutIsCut DEF u
<1>5. CASE Repeats(t) # {}
  <2>1. second # {}
    BY <1>3, <1>5
  <2>2. ASSUME NEW x \in second PROVE x \in 1 .. Len(t)
    <3>1. PICK r \in Repeats(t) : x = r[1] + r[2]
      OBVIOUS
    <3>2. r[1] \in 1 .. 4 /\ r[2] \in 1 .. Len(t) /\ r[2] + 2 * r[1] - 1 <= Len(t)
      BY <1>3, <3>1
    <3>3. QED
      BY <1>1, <3>1, <3>2
  <2>3. second \in SUBSET (0 .. Len(t))
    BY <1>1, <2>2
  <2> HIDE DEF second
  <2>4. m \in second /\ \A y \in second : m <= y
    BY <1>1, <2>1, <2>3, Positions
  <2> HIDE DEF m
  <2>5. m \in 1 .. Len(t)
    BY <2>2, <2>4
  <2>6. m - 1 \in 0 .. Len(t)
    BY <1>1, <2>5
  <2>7. CutOf(S, t, u) /\ Len(u) = m - 1
    BY <1>2, <1>5, <2>6, PrefixIsCut
  <2>8. ASSUME NEW r \in Repeats(u) PROVE FALSE
    <3>1. r \in Repeats(t) /\ r[1] + r[2] <= m - 1
      BY <2>7, RepeatsOfCut
    <3>2. m <= r[1] + r[2] /\ r[1] + r[2] \in 1 .. Len(t)
      BY <1>3, <2>2, <2>4, <3>1
    <3>3. QED
      BY <2>5, <3>1, <3>2
  <2>9. QED
    BY <2>7, <2>8 DEF u
<1>6. QED
  BY <1>4, <1>5

(* And so none in what is left of that.                                    *)
LEMMA NoRepeatInACut ==
  ASSUME NEW S, NEW t, NEW u, CutOf(S, t, u), Repeats(t) = {}
  PROVE  CutAdjacentRepeat(u) = u
<1>1. Repeats(u) = {}
  BY RepeatsOfCut
<1>2. QED
  BY <1>1, Zenon DEF CutAdjacentRepeat, Repeats

LEMMA DegeneracyCutCuts ==
  ASSUME NEW S, NEW t \in Seq(S), NEW strict \in BOOLEAN
  PROVE  CutOf(S, t, DegeneracyCut(t, strict))
<1> DEFINE degenerate == {i \in Starts(t) : Collapsed(t, i, strict) \/ Labels(t, i) # {}
                                              \/ Echoes(t, i) # {}}
           first == Min(degenerate)
           labels == Labels(t, first)
<1>1. Len(t) \in Nat /\ DOMAIN t = 1 .. Len(t)
  OBVIOUS
<1>2. degenerate \in SUBSET (0 .. Len(t)) /\ degenerate \subseteq 1 .. Len(t)
  BY <1>1 DEF Starts
<1>3. DegeneracyCut(t, strict) = IF degenerate = {} THEN t
                                 ELSE IF ~Collapsed(t, first, strict) /\ labels # {}
                                   THEN Prefix(t, Min(labels) - 1)
                                 ELSE Prefix(t, first - 1)
  BY DEF DegeneracyCut
<1> HIDE DEF degenerate
<1>4. CASE degenerate = {}
  BY <1>3, <1>4, UncutIsCut
<1>5. CASE degenerate # {}
  <2>1. first \in 1 .. Len(t)
    BY <1>1, <1>2, <1>5, Positions
  <2> HIDE DEF first
  <2>2. EndOf(t, first) \in first .. Len(t)
    BY <2>1, EndOfIs
  <2>3. labels \in SUBSET (0 .. Len(t)) /\ labels \subseteq 1 .. Len(t)
    BY <1>1, <2>1, <2>2 DEF Labels
  <2> HIDE DEF labels
  <2>4. ASSUME labels # {} PROVE Min(labels) - 1 \in 0 .. Len(t)
    <3>1. Min(labels) \in labels
      BY <1>1, <2>3, <2>4, Positions
    <3>2. Min(labels) \in 1 .. Len(t)
      BY <2>3, <3>1
    <3>3. QED
      BY <1>1, <3>2
  <2>5. first - 1 \in 0 .. Len(t)
    BY <1>1, <2>1
  <2>6. CASE ~Collapsed(t, first, strict) /\ labels # {}
    BY <1>3, <1>5, <2>4, <2>6, PrefixIsCut
  <2>7. CASE ~(~Collapsed(t, first, strict) /\ labels # {})
    BY <1>3, <1>5, <2>5, <2>7, PrefixIsCut
  <2>8. QED
    BY <2>6, <2>7
<1>6. QED
  BY <1>4, <1>5

LEMMA BeforeRunIs ==
  ASSUME NEW S, NEW t \in Seq(S), NEW starts \in SUBSET (DOMAIN t), NEW passes
  PROVE  BeforeRun(t, starts, passes) \in 0 .. Len(t)
<1> DEFINE others == {i \in starts : i \notin passes}
<1>1. Len(t) \in Nat /\ others \in SUBSET (0 .. Len(t)) /\ others \subseteq 1 .. Len(t)
  OBVIOUS
<1>2. BeforeRun(t, starts, passes) = IF others = {} THEN 0 ELSE EndOf(t, Max(others))
  BY DEF BeforeRun
<1> HIDE DEF others
<1>3. CASE others # {}
  <2>1. Max(others) \in 1 .. Len(t)
    BY <1>1, <1>3, Positions
  <2>2. EndOf(t, Max(others)) \in Max(others) .. Len(t)
    BY <2>1, EndOfIs
  <2>3. QED
    BY <1>1, <1>2, <1>3, <2>1, <2>2
<1>4. QED
  BY <1>1, <1>2, <1>3

LEMMA TrimStatusTailCuts ==
  ASSUME NEW S, NEW t \in Seq(S)
  PROVE  CutOf(S, t, TrimStatusTail(t))
<1> DEFINE others == {i \in DOMAIN t : t[i].kind \notin LogKinds}
           cut == IF others = {} THEN 0 ELSE Max(others)
<1>1. Len(t) \in Nat /\ others \in SUBSET (0 .. Len(t))
  OBVIOUS
<1>2. TrimStatusTail(t) \in {t, Prefix(t, cut)}
  BY DEF TrimStatusTail
<1> HIDE DEF others
<1>3. cut \in 0 .. Len(t)
  <2>1. CASE others # {}
    <3>1. Max(others) \in others
      BY <1>1, <2>1, Positions
    <3>2. QED
      BY <1>1, <2>1, <3>1
  <2>2. QED
    BY <1>1, <2>1
<1> HIDE DEF cut
<1>4. QED
  BY <1>2, <1>3, PrefixIsCut, UncutIsCut

LEMMA TrimCloserTailCuts ==
  ASSUME NEW S, NEW t \in Seq(S)
  PROVE  CutOf(S, t, TrimCloserTail(t))
<1> DEFINE closers == {i \in Starts(t) : IsCloser(Sentence(t, i))}
           cut == BeforeRun(t, Starts(t), closers)
<1>1. TrimCloserTail(t) \in {t, Prefix(t, cut)}
  BY DEF TrimCloserTail
<1> HIDE DEF closers
<1>2. cut \in 0 .. Len(t)
  BY BeforeRunIs DEF Starts
<1> HIDE DEF cut
<1>3. QED
  BY <1>1, <1>2, PrefixIsCut, UncutIsCut

LEMMA TrimEchoTailCuts ==
  ASSUME NEW S, NEW t \in Seq(S)
  PROVE  CutOf(S, t, TrimEchoTail(t))
<1> DEFINE signoffs == {i \in Starts(t) : OnlyKinds(Sentence(t, i), {"signoff"})}
           echoes == {i \in Starts(t) : Restates(t, i)} \cup signoffs
           cut == BeforeRun(t, Starts(t), echoes)
<1>1. TrimEchoTail(t) \in {t, Prefix(t, cut)}
  BY DEF TrimEchoTail
<1> HIDE DEF echoes
<1>2. cut \in 0 .. Len(t)
  BY BeforeRunIs DEF Starts
<1> HIDE DEF cut
<1>3. QED
  BY <1>1, <1>2, PrefixIsCut, UncutIsCut

LEMMA TrimArtifactTailCuts ==
  ASSUME NEW S, NEW t \in Seq(S), NEW allowCode \in BOOLEAN
  PROVE  LET u == TrimArtifactTail(t, allowCode)
         IN /\ CutOf(S, t, u)
            /\ u # <<>> => u[Len(u)].kind # "separator"
            /\ ~allowCode => \A i \in DOMAIN u : u[i].kind \notin {"fence", "json"}
<1> DEFINE fenced == {i \in DOMAIN t : t[i].kind \in {"fence", "json"}}
           kept == IF allowCode \/ fenced = {} THEN t ELSE Prefix(t, Min(fenced) - 1)
           others == {i \in DOMAIN kept : kept[i].kind # "separator"}
           u == TrimArtifactTail(t, allowCode)
<1>1. Len(t) \in Nat /\ DOMAIN t = 1 .. Len(t) /\ fenced \in SUBSET (0 .. Len(t))
      /\ fenced \subseteq 1 .. Len(t)
  OBVIOUS
<1>2. u = IF others = {} THEN <<>> ELSE Prefix(kept, Max(others))
  BY Zenon DEF TrimArtifactTail
<1>a. \A i \in 1 .. Len(t) : t[i].kind \in {"fence", "json"} => i \in fenced
  BY <1>1
<1> HIDE DEF fenced, u
<1>3. CutOf(S, t, kept) /\ (~allowCode => \A i \in 1 .. Len(kept) : kept[i].kind \notin {"fence", "json"})
  <2>1. CASE allowCode \/ fenced = {}
    BY <1>1, <1>a, <2>1, UncutIsCut
  <2>2. CASE ~(allowCode \/ fenced = {})
    <3>1. Min(fenced) \in fenced /\ \A y \in fenced : Min(fenced) <= y
      BY <1>1, <2>2, Positions
    <3>a. Min(fenced) \in 1 .. Len(t)
      BY <1>1, <3>1
    <3>2. Min(fenced) - 1 \in 0 .. Len(t)
      BY <1>1, <3>a
    <3>3. kept = Prefix(t, Min(fenced) - 1)
      BY <2>2
    <3> HIDE DEF kept
    <3>4. CutOf(S, t, kept) /\ Len(kept) = Min(fenced) - 1
      BY <3>2, <3>3, PrefixIsCut
    <3>5. ASSUME NEW i \in 1 .. Len(kept) PROVE kept[i].kind \notin {"fence", "json"}
      <4>1. kept[i] = t[i] /\ i \in 1 .. Len(t) /\ ~(Min(fenced) <= i)
        BY <1>1, <3>a, <3>4 DEF CutOf
      <4>2. QED
        BY <1>a, <3>1, <4>1
    <3>6. QED
      BY <3>4, <3>5
  <2>3. QED
    BY <2>1, <2>2
<1> HIDE DEF kept
<1>4. kept \in Seq(S)
  BY <1>3 DEF CutOf
<1>5. Len(kept) \in Nat /\ DOMAIN kept = 1 .. Len(kept) /\ others \in SUBSET (0 .. Len(kept))
      /\ others \subseteq 1 .. Len(kept)
  BY <1>4
<1>b. \A i \in others : kept[i].kind # "separator"
  OBVIOUS
<1> HIDE DEF others
<1>6. CASE others = {}
  BY <1>2, <1>6, UncutIsCut DEF u
<1>7. CASE others # {}
  <2>1. Max(others) \in others
    BY <1>5, <1>7, Positions
  <2>a. Max(others) \in 1 .. Len(kept)
    BY <1>5, <2>1
  <2>2. Max(others) \in 0 .. Len(kept) /\ Max(others) >= 1
    BY <1>5, <2>a
  <2>3. CutOf(S, kept, u) /\ Len(u) = Max(others)
    BY <1>2, <1>4, <1>7, <2>2, PrefixIsCut
  <2>4. CutOf(S, t, u)
    BY <1>3, <2>3, CutTwice
  <2>5. u \in Seq(S) /\ DOMAIN u = 1 .. Len(u) /\ \A i \in 1 .. Len(u) : u[i] = kept[i] /\ i \in 1 .. Len(kept)
    <3>1. u \in Seq(S)
      BY <2>3 DEF CutOf
    <3>2. QED
      BY <1>5, <2>3, <3>1 DEF CutOf
  <2>6. u[Len(u)].kind # "separator"
    BY <1>b, <2>1, <2>2, <2>3, <2>5
  <2>7. ~allowCode => \A i \in DOMAIN u : u[i].kind \notin {"fence", "json"}
    BY <1>3, <2>5
  <2>8. QED
    BY <2>4, <2>6, <2>7 DEF u
<1>8. QED
  BY <1>6, <1>7

----------------------------------------------------------------------------
(* Loops *)

(* A set of numbers that holds 0, and with each number the next, holds all *)
(* there are up to a bound.                                                *)
LEMMA Induct ==
  ASSUME NEW n \in Nat, NEW P \in SUBSET (0 .. n), 0 \in P,
         \A i \in 1 .. n : i - 1 \in P => i \in P
  PROVE  P = 0 .. n
<1> DEFINE Bad == (0 .. n) \ P
           Below(x) == {y \in Bad : y <= x}
           Parts == {Below(x) : x \in Bad}
<1>1. SUFFICES ASSUME Bad # {} PROVE FALSE
  OBVIOUS
<1>2. IsFiniteSet(Bad)
  <2>1. IsFiniteSet(0 .. n)
    BY FS_Interval, 0 \in Int, n \in Int
  <2>2. QED
    BY <2>1, FS_Subset
<1>3. \A x \in Bad : x \in Int /\ x - 1 \in Bad
  OBVIOUS
<1> HIDE DEF Bad
<1>4. Parts \subseteq SUBSET Bad /\ Parts # {}
  BY <1>1
<1> HIDE DEF Parts
<1>5. IsWellFoundedOn(StrictSubsetOrdering(Bad), SUBSET Bad)
  BY <1>2, FS_StrictSubsetOrderingWellFounded, FS_FiniteSubsetsOfFinite
<1>6. PICK B \in Parts : \A C \in Parts : ~(<<C, B>> \in StrictSubsetOrdering(Bad))
  BY <1>4, <1>5, WFMin
<1>7. PICK x \in Bad : B = Below(x)
  BY DEF Parts
<1>8. x - 1 \in Bad /\ x \in Int
  BY <1>3
<1>9. Below(x - 1) \in Parts
  BY <1>8 DEF Parts
<1>10. x \in Below(x) /\ x \notin Below(x - 1)
  BY <1>8
<1>11. ASSUME NEW y \in Below(x - 1) PROVE y \in Below(x)
  BY <1>3, <1>8
<1> HIDE DEF Below
<1>12. <<Below(x - 1), B>> \in StrictSubsetOrdering(Bad)
  BY <1>4, <1>7, <1>9, <1>10, <1>11 DEF StrictSubsetOrdering
<1>13. QED
  BY <1>6, <1>9, <1>12

(* A loop makes one state out of the last, n times over.                   *)
Loop(f, n, first, body) ==
  f = [i \in 0 .. n |-> IF i = 0 THEN first ELSE body[<<f[i - 1], i>>]]

(* If the body takes a state allowed after i - 1 rounds to one allowed     *)
(* after i, the loop can be run, and stays among the states allowed.       *)
LEMMA LoopRuns ==
  ASSUME NEW n \in Nat, NEW Allowed, NEW first \in Allowed[0], NEW body,
         \A i \in 1 .. n : \A x \in Allowed[i - 1] : body[<<x, i>>] \in Allowed[i]
  PROVE  \E f : Loop(f, n, first, body) /\ \A i \in 0 .. n : f[i] \in Allowed[i]
<1> DEFINE Runs(k, f) == /\ f = [i \in 0 .. k |-> IF i = 0 THEN first ELSE body[<<f[i - 1], i>>]]
                         /\ \A i \in 0 .. k : f[i] \in Allowed[i]
           P == {k \in 0 .. n : \E f : Runs(k, f)}
<1>1. 0 \in P
  <2> DEFINE f == [i \in 0 .. 0 |-> first]
  <2>1. \A i \in 0 .. 0 : i = 0 /\ f[i] = first
    OBVIOUS
  <2>2. f = [i \in 0 .. 0 |-> IF i = 0 THEN first ELSE body[<<f[i - 1], i>>]]
    BY <2>1
  <2>3. \A i \in 0 .. 0 : f[i] \in Allowed[i]
    BY <2>1
  <2> HIDE DEF f
  <2>4. Runs(0, f)
    BY <2>2, <2>3
  <2>5. QED
    BY <2>4
<1>2. ASSUME NEW k \in 1 .. n, k - 1 \in P PROVE k \in P
  <2>1. PICK f : Runs(k - 1, f)
    BY <1>2
  <2> DEFINE g == [i \in 0 .. k |-> IF i = k THEN body[<<f[k - 1], k>>] ELSE f[i]]
  <2>2. \A i \in 0 .. k - 1 : g[i] = f[i]
    OBVIOUS
  <2>3. g[k] = body[<<f[k - 1], k>>]
    OBVIOUS
  <2>4. \A i \in 0 .. k : i = k \/ i \in 0 .. k - 1
    OBVIOUS
  <2>5. DOMAIN g = 0 .. k /\ g = [i \in 0 .. k |-> g[i]]
    OBVIOUS
  <2> HIDE DEF g
  <2>6. ASSUME NEW i \in 0 .. k
        PROVE  /\ g[i] = IF i = 0 THEN first ELSE body[<<g[i - 1], i>>]
               /\ g[i] \in Allowed[i]
    <3>1. CASE i = k
      <4>1. k - 1 \in 0 .. k - 1 /\ k # 0
        OBVIOUS
      <4>2. g[k - 1] = f[k - 1] /\ f[k - 1] \in Allowed[k - 1]
        BY <2>1, <2>2, <4>1
      <4>3. QED
        BY <2>3, <3>1, <4>1, <4>2
    <3>2. CASE i = 0 /\ i # k
      <4>1. i \in 0 .. k - 1
        BY <3>2
      <4>2. f[i] = first /\ f[i] \in Allowed[i]
        BY <2>1, <3>2, <4>1
      <4>3. QED
        BY <2>2, <3>2, <4>1, <4>2
    <3>3. CASE i # 0 /\ i # k
      <4>1. i \in 0 .. k - 1 /\ i - 1 \in 0 .. k - 1
        BY <3>3
      <4>2. f[i] = body[<<f[i - 1], i>>] /\ f[i] \in Allowed[i]
        BY <2>1, <3>3, <4>1
      <4>3. QED
        BY <2>2, <3>3, <4>1, <4>2
    <3>4. QED
      BY <3>1, <3>2, <3>3
  <2>7. g = [i \in 0 .. k |-> IF i = 0 THEN first ELSE body[<<g[i - 1], i>>]]
    BY <2>5, <2>6
  <2>8. Runs(k, g)
    BY <2>6, <2>7
  <2> HIDE DEF Runs
  <2>9. QED
    BY <2>8
<1>3. P = 0 .. n
  <2> HIDE DEF P
  <2>1. P \in SUBSET (0 .. n)
    BY DEF P
  <2>2. QED
    BY <1>1, <1>2, <2>1, Induct
<1>4. n \in P
  BY <1>3
<1>5. QED
  BY <1>4 DEF Loop

(* The rounds of trims cut, and cut again.                                 *)
Trimmed(u) ==
  IF TrimStatusTail(u) = <<>> THEN <<>> ELSE TrimEchoTail(TrimCloserTail(TrimStatusTail(u)))

LEMMA TrimmedCuts ==
  ASSUME NEW S, NEW t \in Seq(S)
  PROVE  CutOf(S, t, Trimmed(t))
<1> DEFINE a == TrimStatusTail(t)
           b == TrimCloserTail(a)
<1>1. CutOf(S, t, a)
  BY TrimStatusTailCuts
<1> HIDE DEF a
<1>2. a \in Seq(S)
  BY <1>1 DEF CutOf
<1>3. CutOf(S, a, b)
  BY <1>2, TrimCloserTailCuts
<1> HIDE DEF b
<1>4. b \in Seq(S)
  BY <1>3 DEF CutOf
<1>5. CutOf(S, b, TrimEchoTail(b))
  BY <1>4, TrimEchoTailCuts
<1>6. CutOf(S, t, TrimEchoTail(b))
  BY <1>1, <1>3, <1>5, CutTwice
<1>7. Trimmed(t) \in {<<>>, TrimEchoTail(b)}
  BY DEF Trimmed, a, b
<1>8. QED
  BY <1>6, <1>7, UncutIsCut

LEMMA TrimDegenerateTailsCuts ==
  ASSUME NEW S, NEW t \in Seq(S)
  PROVE  CutOf(S, t, TrimDegenerateTails(t))
<1> DEFINE n == Len(t)
           Cuts == {u \in Seq(S) : CutOf(S, t, u)}
           Allowed == [i \in 0 .. n |-> Cuts]
           body == [x \in Cuts \X (1 .. n) |-> Trimmed(x[1])]
           Rounds(f) == f = [i \in 0 .. n |-> IF i = 0 THEN t ELSE Trimmed(f[i - 1])]
<1>1. n \in Nat
  OBVIOUS
<1>2. t \in Cuts
  BY UncutIsCut
<1>3. ASSUME NEW u \in Cuts PROVE Trimmed(u) \in Cuts
  <2>1. u \in Seq(S) /\ CutOf(S, t, u)
    OBVIOUS
  <2>2. CutOf(S, u, Trimmed(u))
    BY <2>1, TrimmedCuts
  <2>3. CutOf(S, t, Trimmed(u))
    BY <2>1, <2>2, CutTwice
  <2>4. QED
    BY <2>3 DEF CutOf
<1>a. \A u \in Cuts : CutOf(S, t, u)
  OBVIOUS
<1> HIDE DEF n, Cuts
<1>4. \A i \in 0 .. n : Allowed[i] = Cuts
  OBVIOUS
<1>5. \A i \in 1 .. n, x \in Cuts : body[<<x, i>>] = Trimmed(x)
  OBVIOUS
<1> HIDE DEF Allowed, body
<1>6. \A i \in 1 .. n : i \in 0 .. n /\ i - 1 \in 0 .. n
  BY <1>1
<1>7. \E f : Loop(f, n, t, body) /\ \A i \in 0 .. n : f[i] \in Allowed[i]
  <2>1. t \in Allowed[0]
    BY <1>1, <1>2, <1>4
  <2>2. ASSUME NEW i \in 1 .. n, NEW x \in Allowed[i - 1] PROVE body[<<x, i>>] \in Allowed[i]
    <3>1. x \in Cuts /\ Allowed[i] = Cuts
      BY <1>4, <1>6
    <3>2. body[<<x, i>>] = Trimmed(x)
      BY <1>5, <3>1
    <3>3. QED
      BY <1>3, <3>1, <3>2
  <2>3. QED
    BY <1>1, <2>1, <2>2, LoopRuns
<1>8. PICK f : Loop(f, n, t, body) /\ \A i \in 0 .. n : f[i] \in Allowed[i]
  BY <1>7
<1>9. Rounds(f)
  <2>1. f = [i \in 0 .. n |-> IF i = 0 THEN t ELSE body[<<f[i - 1], i>>]]
    BY <1>8 DEF Loop
  <2>2. ASSUME NEW i \in 1 .. n PROVE body[<<f[i - 1], i>>] = Trimmed(f[i - 1])
    BY <1>4, <1>5, <1>6, <1>8
  <2>3. \A i \in 0 .. n : i = 0 \/ i \in 1 .. n
    BY <1>1
  <2>4. QED
    BY <2>1, <2>2, <2>3
<1> HIDE DEF Rounds
<1>10. PICK g : Rounds(g) /\ TrimDegenerateTails(t) = g[n]
  <2>1. \E g : Rounds(g)
    BY <1>9
  <2> DEFINE g == CHOOSE g : Rounds(g)
  <2>2. Rounds(g)
    BY <2>1
  <2>3. TrimDegenerateTails(t) = g[n]
    BY Zenon DEF TrimDegenerateTails, Rounds, n, Trimmed
  <2>4. QED
    BY <2>2, <2>3
<1>11. g = [i \in 0 .. n |-> IF i = 0 THEN t ELSE Trimmed(g[i - 1])]
  BY <1>10 DEF Rounds
<1> DEFINE P == {i \in 0 .. n : g[i] \in Cuts}
<1>12. 0 \in P
  BY <1>1, <1>2, <1>11
<1>13. ASSUME NEW i \in 1 .. n, i - 1 \in P PROVE i \in P
  <2>1. i # 0 /\ i \in 0 .. n
    BY <1>1
  <2>2. g[i] = Trimmed(g[i - 1])
    BY <1>11, <2>1
  <2>3. QED
    BY <1>3, <1>13, <2>1, <2>2
<1>14. P \in SUBSET (0 .. n) /\ \A i \in P : g[i] \in Cuts
  OBVIOUS
<1> HIDE DEF P
<1>15. P = 0 .. n
  BY <1>1, <1>12, <1>13, <1>14, Induct
<1>16. g[n] \in Cuts
  BY <1>1, <1>14, <1>15
<1>17. QED
  BY <1>a, <1>10, <1>16

(* What is left without its repeated sentences is made of the same         *)
(* segments.                                                               *)
LEMMA DedupeGlobalKeeps ==
  ASSUME NEW S, NEW t \in Seq(S)
  PROVE  DedupeGlobal(t) \in Seq(S)
<1> DEFINE n == Len(t)
           start(k) == Max({i \in Starts(t) : i <= k})
           seen(k) == \E j \in Starts(t) : j < start(k) /\ Sentence(t, j) = Sentence(t, start(k))
           Kept(s, k) == IF seen(k) THEN s ELSE Append(s, t[k])
           Allowed == [i \in 0 .. n |-> Seq(S)]
           body == [x \in Seq(S) \X (1 .. n) |-> Kept(x[1], x[2])]
           Goes(f) == f = [k \in 0 .. n |-> IF k = 0 THEN <<>> ELSE Kept(f[k - 1], k)]
<1>1. n \in Nat /\ \A k \in 1 .. n : t[k] \in S
  OBVIOUS
<1>a. \A f : Goes(f) <=> f = [k \in 0 .. n |->
                                IF k = 0 THEN <<>>
                                ELSE IF seen(k) THEN f[k - 1] ELSE Append(f[k - 1], t[k])]
  BY Zenon
<1>b. DedupeGlobal(t) = (CHOOSE f : Goes(f))[n]
  BY Zenon DEF DedupeGlobal
<1>2. <<>> \in Seq(S)
  OBVIOUS
<1> HIDE DEF n, seen
<1>3. ASSUME NEW k \in 1 .. n, NEW s \in Seq(S) PROVE Kept(s, k) \in Seq(S)
  BY <1>1
<1>4. \A i \in 0 .. n : Allowed[i] = Seq(S)
  OBVIOUS
<1>5. \A i \in 1 .. n, x \in Seq(S) : body[<<x, i>>] = Kept(x, i)
  OBVIOUS
<1> HIDE DEF Allowed, body, Kept
<1>6. \A i \in 1 .. n : i \in 0 .. n /\ i - 1 \in 0 .. n
  BY <1>1
<1>7. \E f : Loop(f, n, <<>>, body) /\ \A i \in 0 .. n : f[i] \in Allowed[i]
  <2>a. 0 \in 0 .. n
    BY <1>1
  <2>b. Allowed[0] = Seq(S)
    BY <1>4, <2>a
  <2>1. <<>> \in Allowed[0]
    BY <1>2, <2>b
  <2>2. ASSUME NEW i \in 1 .. n, NEW x \in Allowed[i - 1] PROVE body[<<x, i>>] \in Allowed[i]
    <3>1. x \in Seq(S) /\ Allowed[i] = Seq(S)
      BY <1>4, <1>6
    <3>2. body[<<x, i>>] = Kept(x, i)
      BY <1>5, <3>1
    <3>3. QED
      BY <1>3, <3>1, <3>2
  <2> DEFINE none == <<>>
  <2>3. none \in Allowed[0]
    BY <2>1
  <2> HIDE DEF none
  <2>4. \E f : Loop(f, n, none, body) /\ \A i \in 0 .. n : f[i] \in Allowed[i]
    BY <1>1, <2>2, <2>3, LoopRuns
  <2>5. QED
    BY <2>4 DEF none
<1>8. PICK f : Loop(f, n, <<>>, body) /\ \A i \in 0 .. n : f[i] \in Allowed[i]
  BY <1>7
<1>9. Goes(f)
  <2>1. f = [i \in 0 .. n |-> IF i = 0 THEN <<>> ELSE body[<<f[i - 1], i>>]]
    BY <1>8 DEF Loop
  <2>2. ASSUME NEW i \in 1 .. n PROVE body[<<f[i - 1], i>>] = Kept(f[i - 1], i)
    BY <1>4, <1>5, <1>6, <1>8
  <2>3. \A i \in 0 .. n : i = 0 \/ i \in 1 .. n
    BY <1>1
  <2>4. QED
    BY <2>1, <2>2, <2>3
<1> HIDE DEF Goes
<1>10. PICK g : Goes(g) /\ DedupeGlobal(t) = g[n]
  BY <1>9, <1>b
<1>11. g = [k \in 0 .. n |-> IF k = 0 THEN <<>> ELSE Kept(g[k - 1], k)]
  BY <1>10 DEF Goes
<1> DEFINE P == {i \in 0 .. n : g[i] \in Seq(S)}
<1>12. 0 \in P
  BY <1>1, <1>2, <1>11
<1>13. ASSUME NEW i \in 1 .. n, i - 1 \in P PROVE i \in P
  <2>1. i # 0 /\ i \in 0 .. n
    BY <1>1
  <2>2. g[i] = Kept(g[i - 1], i)
    BY <1>11, <2>1
  <2>3. QED
    BY <1>3, <1>13, <2>1, <2>2
<1>14. P \in SUBSET (0 .. n) /\ \A i \in P : g[i] \in Seq(S)
  OBVIOUS
<1> HIDE DEF P
<1>15. P = 0 .. n
  BY <1>1, <1>12, <1>13, <1>14, Induct
<1>16. QED
  BY <1>1, <1>10, <1>14, <1>15

----------------------------------------------------------------------------
(* What the cuts take out *)

LabelFree(t) == \A i \in DOMAIN t : t[i].kind # "label"

(* Every segment is in a sentence.                                         *)
LEMMA InASentence ==
  ASSUME NEW S, NEW t \in Seq(S), NEW k \in 1 .. Len(t)
  PROVE  \E i \in Starts(t) : i <= k /\ k \in i .. EndOf(t, i)
<1> DEFINE before == {j \in Starts(t) : j <= k}
           from == Max(before)
<1>1. Len(t) \in Nat /\ DOMAIN t = 1 .. Len(t) /\ Starts(t) \subseteq 1 .. Len(t)
  BY DEF Starts
<1>2. 1 \in before /\ before \in SUBSET (0 .. Len(t))
  BY <1>1 DEF Starts
<1>3. from \in before /\ \A y \in before : y <= from
  BY <1>1, <1>2, Positions
<1> HIDE DEF from
<1>4. from \in 1 .. Len(t) /\ from \in Starts(t) /\ from <= k
  BY <1>1, <1>3
<1> DEFINE end == EndOf(t, from)
<1>a. from \in 1 .. Len(t)
  BY <1>4
<1>b. end \in from .. Len(t)
  BY <1>a, EndOfIs
<1>5. Breaks(t[end]) \/ end = Len(t)
  BY <1>a, EndOfIs
<1> HIDE DEF end
<1>6. CASE end < k
  <2>e. k \in Int /\ k <= Len(t)
    BY <1>1
  <2>f. from \in Int /\ 1 <= from
    BY <1>1, <1>4
  <2>g. end \in Int /\ from <= end
    BY <1>1, <1>b, <2>f
  <2>a. from \in Int /\ end \in Int /\ 1 <= from /\ from <= end /\ k \in Int /\ k <= Len(t)
    BY <2>e, <2>f, <2>g
  <2>b. end # Len(t)
    BY <1>6, <2>a, Len(t) \in Nat
  <2>c. Breaks(t[end])
    BY <1>5, <2>b
  <2>d. end + 1 <= k
    BY <1>6, <2>a
  <2>h. end + 1 \in 1 .. Len(t)
    BY <1>1, <2>a, <2>d
  <2>k. (end + 1) - 1 = end
    BY <2>a
  <2>1. end + 1 \in 1 .. Len(t) /\ end + 1 <= k
    BY <2>d, <2>h
  <2>2. end + 1 \in Starts(t)
    BY <1>1, <2>c, <2>h, <2>k DEF Starts
  <2>3. end + 1 \in before
    BY <2>1, <2>2
  <2>4. end + 1 <= from
    BY <1>3, <2>3
  <2>5. QED
    BY <2>4, <2>a
<1>7. CASE ~(end < k)
  BY <1>1, <1>4, <1>b, <1>7 DEF end
<1>8. QED
  BY <1>6, <1>7

(* And in one that begins no earlier than another does which has ended.    *)
LEMMA SentencesFollow ==
  ASSUME NEW S, NEW t \in Seq(S), NEW i \in Starts(t), NEW j \in Starts(t), i < j
  PROVE  EndOf(t, i) < j
<1>1. Len(t) \in Nat /\ i \in 1 .. Len(t) /\ j \in 1 .. Len(t)
  BY DEF Starts
<1>2. Breaks(t[j - 1]) /\ j - 1 \in i .. Len(t)
  BY <1>1 DEF Starts
<1> DEFINE end == EndOf(t, i)
<1>3. end \in i .. Len(t) /\ \A k \in i .. end - 1 : ~Breaks(t[k])
  BY <1>1, EndOfIs
<1> HIDE DEF end
<1>4. ~(j - 1 \in i .. end - 1)
  BY <1>2, <1>3
<1>5. QED
  BY <1>1, <1>2, <1>3, <1>4 DEF end

(* A degeneracy cut leaves no label.  It leaves an example only if that is *)
(* in a sentence with a label, which it cuts at the label's line: what is  *)
(* left of the sentence does not break.                                    *)
LEMMA DegeneracyCutCleans ==
  ASSUME NEW S, NEW t \in Seq(S), NEW strict \in BOOLEAN
  PROVE  LET u == DegeneracyCut(t, strict)
         IN /\ LabelFree(u)
            /\ \A k \in DOMAIN u : u[k].kind = "exemplar" =>
                 ~LabelFree(t) /\ \A j \in DOMAIN u : k <= j => ~Breaks(u[j])
<1> DEFINE degenerate == {i \in Starts(t) : Collapsed(t, i, strict) \/ Labels(t, i) # {}
                                              \/ Echoes(t, i) # {}}
           first == Min(degenerate)
           labels == Labels(t, first)
           u == DegeneracyCut(t, strict)
           Fine(k) == /\ u[k].kind # "label"
                      /\ u[k].kind = "exemplar" =>
                           ~LabelFree(t) /\ \A j \in DOMAIN u : k <= j => ~Breaks(u[j])
<1>1. Len(t) \in Nat /\ DOMAIN t = 1 .. Len(t) /\ Starts(t) \subseteq 1 .. Len(t)
  BY DEF Starts
<1>2. degenerate \in SUBSET (0 .. Len(t)) /\ degenerate \subseteq Starts(t)
  BY <1>1
<1>3. u = IF degenerate = {} THEN t
          ELSE IF ~Collapsed(t, first, strict) /\ labels # {} THEN Prefix(t, Min(labels) - 1)
          ELSE Prefix(t, first - 1)
  BY DEF DegeneracyCut
<1>4. CutOf(S, t, u)
  BY DegeneracyCutCuts
<1>5. \A i \in Starts(t) : Labels(t, i) # {} \/ Echoes(t, i) # {} => i \in degenerate
  OBVIOUS
<1> HIDE DEF degenerate, u
<1>6. DOMAIN u = 1 .. Len(u) /\ Len(u) \in Nat /\ \A k \in 1 .. Len(u) : k \in 1 .. Len(t) /\ u[k] = t[k]
  BY <1>1, <1>4 DEF CutOf
<1>7. ASSUME NEW k \in 1 .. Len(u), t[k].kind \in {"label", "exemplar"}
      PROVE  \E i \in degenerate : /\ i <= k /\ k \in i .. EndOf(t, i)
                                   /\ t[k].kind = "label" => k \in Labels(t, i)
  <2>1. PICK i \in Starts(t) : i <= k /\ k \in i .. EndOf(t, i)
    BY <1>6, InASentence
  <2>2. k \in Labels(t, i) \/ k \in Echoes(t, i)
    BY <1>7, <2>1 DEF Labels, Echoes
  <2>3. i \in degenerate
    BY <1>5, <2>2
  <2>4. t[k].kind = "label" => k \in Labels(t, i)
    BY <2>1 DEF Labels
  <2>5. QED
    BY <2>1, <2>3, <2>4
<1>8. ASSUME NEW k \in 1 .. Len(u), t[k].kind \in {"label", "exemplar"} PROVE Fine(k)
  <2>1. PICK i \in degenerate : /\ i <= k /\ k \in i .. EndOf(t, i)
                                /\ t[k].kind = "label" => k \in Labels(t, i)
    BY <1>7, <1>8
  <2>2. degenerate # {}
    BY <2>1
  <2>3. first \in degenerate /\ first <= i
    BY <1>1, <1>2, <2>1, <2>2, Positions
  <2>4. first \in Starts(t) /\ first \in 1 .. Len(t) /\ i \in Starts(t) /\ i \in 1 .. Len(t)
    BY <1>1, <1>2, <2>1, <2>3
  <2> HIDE DEF first
  <2>5. CASE ~(~Collapsed(t, first, strict) /\ labels # {})
    <3>1. first - 1 \in 0 .. Len(t) /\ u = Prefix(t, first - 1)
      BY <1>1, <1>3, <2>2, <2>4, <2>5
    <3>2. Len(u) = first - 1
      BY <3>1, PrefixIsCut
    <3>3. QED
      BY <1>1, <2>1, <2>3, <2>4, <3>2
  <2>6. CASE ~Collapsed(t, first, strict) /\ labels # {}
    <3> DEFINE m == Min(labels)
    <3>1. EndOf(t, first) \in first .. Len(t) /\ \A j \in first .. EndOf(t, first) - 1 : ~Breaks(t[j])
      BY <2>4, EndOfIs
    <3>2. /\ labels \in SUBSET (0 .. Len(t))
          /\ \A x \in labels : x \in first .. EndOf(t, first) /\ t[x].kind = "label"
      BY <1>1, <2>4, <3>1 DEF Labels
    <3>3. m \in labels /\ \A x \in labels : m <= x
      BY <1>1, <2>6, <3>2, Positions
    <3>4. u = Prefix(t, m - 1)
      BY <1>3, <2>2, <2>6
    <3> HIDE DEF labels, m
    <3>5. m \in 1 .. Len(t) /\ m - 1 \in 0 .. Len(t)
      BY <1>1, <2>4, <3>1, <3>2, <3>3
    <3>6. Len(u) = m - 1
      BY <3>4, <3>5, PrefixIsCut
    <3>7. i = first
      <4>1. SUFFICES ASSUME first < i PROVE FALSE
        BY <2>3, <2>4
      <4>2. EndOf(t, first) < i
        BY <2>4, <4>1, SentencesFollow
      <4>3. QED
        BY <1>1, <2>1, <2>4, <3>1, <3>2, <3>3, <3>5, <3>6, <4>2
    <3>8. t[k].kind # "label"
      <4>1. SUFFICES ASSUME t[k].kind = "label" PROVE FALSE
        OBVIOUS
      <4>2. k \in labels
        BY <2>1, <3>7, <4>1 DEF labels
      <4>3. m <= k
        BY <3>3, <4>2
      <4>4. QED
        BY <3>5, <3>6, <4>3
    <3>9. ~LabelFree(t)
      BY <1>1, <3>2, <3>3, <3>5 DEF LabelFree
    <3>10. ASSUME NEW j \in 1 .. Len(u), k <= j PROVE ~Breaks(u[j])
      <4>1. j \in first .. EndOf(t, first) - 1
        BY <1>1, <2>1, <2>4, <3>1, <3>2, <3>3, <3>5, <3>6, <3>7, <3>10
      <4>2. QED
        BY <1>6, <3>1, <4>1
    <3>11. QED
      BY <1>6, <3>8, <3>9, <3>10
  <2>7. QED
    BY <2>5, <2>6
<1>9. \A k \in 1 .. Len(u) : Fine(k)
  BY <1>6, <1>8
<1>10. QED
  BY <1>6, <1>9 DEF LabelFree, u

(* A text made of the segments of another.                                 *)
LEMMA MadeOf ==
  ASSUME NEW t, IsText(t), NEW u \in Seq(Range(t))
  PROVE  IsText(u) /\ (LabelFree(t) => LabelFree(u))
<1>1. \A i \in DOMAIN u : \E j \in DOMAIN t : u[i] = t[j]
  BY DEF Range
<1>2. u \in Seq(Range(u))
  <2>1. \A i \in 1 .. Len(u) : u[i] \in Range(u)
    BY DEF Range
  <2>2. QED
    BY <2>1
<1>3. QED
  BY <1>1, <1>2 DEF IsText, LabelFree

LEMMA CutIsText ==
  ASSUME NEW t, IsText(t), NEW u, CutOf(Range(t), t, u)
  PROVE  IsText(u) /\ (LabelFree(t) => LabelFree(u))
<1>1. u \in Seq(Range(t))
  BY DEF CutOf
<1>2. QED
  BY <1>1, MadeOf

LEMMA BothAreText ==
  ASSUME NEW t, NEW u, IsText(t), IsText(u)
  PROVE  IsText(t \o u) /\ (LabelFree(t) /\ LabelFree(u) => LabelFree(t \o u))
<1>1. t \in Seq(Range(t)) /\ u \in Seq(Range(u))
  BY DEF IsText
<1>2. t \o u \in Seq(Range(t) \cup Range(u))
  BY <1>1
<1>3. \A i \in DOMAIN (t \o u) : \/ \E j \in DOMAIN t : (t \o u)[i] = t[j]
                                 \/ \E j \in DOMAIN u : (t \o u)[i] = u[j]
  <2>1. ASSUME NEW i \in DOMAIN (t \o u), i <= Len(t) PROVE \E j \in DOMAIN t : (t \o u)[i] = t[j]
    BY <1>1, <2>1
  <2>2. ASSUME NEW i \in DOMAIN (t \o u), ~(i <= Len(t)) PROVE \E j \in DOMAIN u : (t \o u)[i] = u[j]
    <3>1. i - Len(t) \in DOMAIN u /\ (t \o u)[i] = u[i - Len(t)]
      BY <1>1, <2>2
    <3>2. QED
      BY <3>1
  <2>3. QED
    BY <2>1, <2>2
<1>4. t \o u \in Seq(Range(t \o u))
  <2>1. \A i \in 1 .. Len(t \o u) : (t \o u)[i] \in Range(t \o u)
    BY <1>2 DEF Range
  <2>2. QED
    BY <1>2, <2>1
<1>5. QED
  BY <1>3, <1>4 DEF IsText, LabelFree

LEMMA NothingIsText == IsText(<<>>) /\ LabelFree(<<>>)
BY DEF IsText, LabelFree, Range

LEMMA CutPromptHeaderEchoCuts ==
  ASSUME NEW S, NEW t \in Seq(S)
  PROVE  CutOf(S, t, CutPromptHeaderEcho(t))
<1> DEFINE headers == {i \in DOMAIN t : t[i].kind \in {"header", "role header", "label"}}
           texts == {t[i].text : i \in headers}
           fires == (\E i \in headers : t[i].kind = "role header") \/ Cardinality(texts) >= 2
<1>a. Len(t) \in Nat /\ DOMAIN t = 1 .. Len(t)
  OBVIOUS
<1>b. headers \subseteq 1 .. Len(t)
  BY <1>a
<1>d. \A i \in 1 .. Len(t) : i \in 0 .. Len(t)
  BY <1>a
<1>c. headers \subseteq 0 .. Len(t)
  BY <1>b, <1>d
<1>1. Len(t) \in Nat /\ headers \in SUBSET (0 .. Len(t)) /\ headers \subseteq 1 .. Len(t)
  BY <1>a, <1>b, <1>c
<1>2. CutPromptHeaderEcho(t) = IF fires THEN Prefix(t, Min(headers) - 1) ELSE t
  BY Zenon DEF CutPromptHeaderEcho
<1>3. ASSUME headers = {} PROVE ~fires
  <2>1. texts = {}
    BY <1>3
  <2> HIDE DEF texts
  <2>2. Cardinality(texts) = 0
    BY <2>1, FS_EmptySet
  <2>3. ~(Cardinality(texts) >= 2)
    BY <2>2
  <2>4. ~\E i \in headers : t[i].kind = "role header"
    BY <1>3
  <2>5. QED
    BY <2>3, <2>4
<1> HIDE DEF headers, fires
<1>4. CASE headers # {}
  <2>1. Min(headers) \in headers
    BY <1>1, <1>4, Positions
  <2>2. Min(headers) \in 1 .. Len(t)
    BY <1>1, <2>1
  <2>3. Min(headers) - 1 \in 0 .. Len(t)
    BY <1>1, <2>2
  <2>4. QED
    BY <1>2, <2>3, PrefixIsCut, UncutIsCut
<1>5. QED
  BY <1>2, <1>3, <1>4, UncutIsCut

LEMMA CutModelNotCompletedCuts ==
  ASSUME NEW S, NEW t \in Seq(S)
  PROVE  CutOf(S, t, CutModelNotCompleted(t))
<1> DEFINE lists == {i \in DOMAIN t : t[i].kind = "own list"}
<1>a. Len(t) \in Nat /\ DOMAIN t = 1 .. Len(t)
  OBVIOUS
<1>b. lists \subseteq 1 .. Len(t)
  BY <1>a
<1>d. \A i \in 1 .. Len(t) : i \in 0 .. Len(t)
  BY <1>a
<1>c. lists \subseteq 0 .. Len(t)
  BY <1>b, <1>d
<1>1. Len(t) \in Nat /\ lists \in SUBSET (0 .. Len(t)) /\ lists \subseteq 1 .. Len(t)
  BY <1>a, <1>b, <1>c
<1>2. CutModelNotCompleted(t) = IF lists = {} THEN t ELSE Prefix(t, Min(lists) - 1)
  BY DEF CutModelNotCompleted
<1> HIDE DEF lists
<1>3. CASE lists # {}
  <2>1. Min(lists) \in lists
    BY <1>1, <1>3, Positions
  <2>2. Min(lists) \in 1 .. Len(t)
    BY <1>1, <2>1
  <2>3. Min(lists) - 1 \in 0 .. Len(t)
    BY <1>1, <2>2
  <2>4. QED
    BY <1>2, <2>3, PrefixIsCut, UncutIsCut
<1>4. QED
  BY <1>2, <1>3, UncutIsCut

(* The cuts a synthesis, a stored result and an answer on its way out have *)
(* in common, and what each comes to.                                      *)
LEMMA TailsCut ==
  ASSUME NEW t, IsText(t), NEW strict \in BOOLEAN
  PROVE  LET u == DegeneracyCut(t, strict)
             v == TrimDegenerateTails(u)
         IN CutOf(Range(t), t, u) /\ CutOf(Range(t), u, v) /\ IsText(v) /\ LabelFree(v)
<1> DEFINE S == Range(t)
           u == DegeneracyCut(t, strict)
           v == TrimDegenerateTails(u)
<1>1. t \in Seq(S)
  BY DEF IsText
<1> HIDE DEF S
<1>2. CutOf(S, t, u) /\ LabelFree(u)
  BY <1>1, DegeneracyCutCuts, DegeneracyCutCleans
<1>3. u \in Seq(S)
  BY <1>2 DEF CutOf
<1> HIDE DEF u
<1>4. CutOf(S, u, v)
  BY <1>3, TrimDegenerateTailsCuts
<1> HIDE DEF v
<1>5. IsText(u)
  BY <1>2, CutIsText DEF S
<1>6. CutOf(S, t, v)
  BY <1>2, <1>4, CutTwice
<1>7. IsText(v)
  BY <1>6, CutIsText DEF S
<1>8. \A i \in DOMAIN v : i \in DOMAIN u /\ v[i] = u[i]
  <2>1. u \in Seq(S) /\ v \in Seq(S) /\ Len(v) <= Len(u) /\ \A i \in 1 .. Len(v) : v[i] = u[i]
    BY <1>4 DEF CutOf
  <2>2. QED
    BY <2>1
<1>9. LabelFree(v)
  BY <1>2, <1>8 DEF LabelFree
<1>10. QED
  BY <1>2, <1>4, <1>7, <1>9 DEF S, u, v

LEMMA WalkedBackCuts ==
  ASSUME NEW S, NEW t, NEW u \in Seq(S)
  PROVE  CutOf(S, u, WalkedBack(t, u))
BY DropIncompleteTailCuts, UncutIsCut DEF WalkedBack

LEMMA CleanSynthesisCleans ==
  ASSUME NEW raw, IsText(raw)
  PROVE  IsText(CleanSynthesis(raw)) /\ LabelFree(CleanSynthesis(raw))
<1> DEFINE listless == CutModelNotCompleted(raw)
           uncut == DropIncompleteTail(listless)
           once == CutAdjacentRepeat(uncut)
           kept == TrimDegenerateTails(DegeneracyCut(once, FALSE))
           back == WalkedBack(uncut, kept)
<1>1. IsText(listless)
  BY CutModelNotCompletedCuts, CutIsText DEF IsText
<1> HIDE DEF listless
<1>2. IsText(uncut)
  BY <1>1, DropIncompleteTailCuts, CutIsText DEF IsText
<1> HIDE DEF uncut
<1>3. IsText(once)
  BY <1>2, CutAdjacentRepeatCuts, CutIsText DEF IsText
<1> HIDE DEF once
<1>4. IsText(kept) /\ LabelFree(kept)
  BY <1>3, TailsCut
<1> HIDE DEF kept
<1>5. IsText(back) /\ LabelFree(back)
  BY <1>4, WalkedBackCuts, CutIsText DEF IsText
<1> HIDE DEF back
<1>6. DedupeGlobal(back) \in Seq(Range(back))
  BY <1>5, DedupeGlobalKeeps DEF IsText
<1>7. IsText(DedupeGlobal(back)) /\ LabelFree(DedupeGlobal(back))
  BY <1>5, <1>6, MadeOf
<1>8. QED
  BY <1>7 DEF CleanSynthesis, listless, uncut, once, kept, back

LEMMA ScrubResultCleans ==
  ASSUME NEW raw, IsText(raw)
  PROVE  IsText(ScrubResult(raw)) /\ LabelFree(ScrubResult(raw))
<1> DEFINE headless == CutPromptHeaderEcho(raw)
<1>1. IsText(headless)
  BY CutPromptHeaderEchoCuts, CutIsText DEF IsText
<1> HIDE DEF headless
<1>2. QED
  BY <1>1, TailsCut DEF ScrubResult, headless

LEMMA OneIsText ==
  \A segment, t : segment.kind \in {"log", "not completed"} /\ t = <<segment>> =>
                    IsText(t) /\ LabelFree(t)
<1> TAKE segment, t
<1> DEFINE one == <<segment>>
<1>a. DOMAIN one = 1 .. 1 /\ Len(one) = 1 /\ one[1] = segment /\ one \in Seq({segment})
  OBVIOUS
<1>b. \A i \in DOMAIN one : one[i] = segment
  OBVIOUS
<1>0. SUFFICES ASSUME segment.kind \in {"log", "not completed"} /\ t = one
              PROVE  IsText(t) /\ LabelFree(t)
  OBVIOUS
<1> HIDE DEF one
<1>1. DOMAIN t = 1 .. 1 /\ Len(t) = 1 /\ t[1] = segment /\ t \in Seq({segment})
  BY <1>0, <1>a
<1>2. \A i \in DOMAIN t : t[i] = segment
  BY <1>0, <1>b
<1>3. Range(t) = {segment}
  <2>1. \A x \in Range(t) : x = segment
    BY <1>2 DEF Range
  <2>2. segment \in Range(t)
    BY <1>1 DEF Range
  <2>3. QED
    BY <2>1, <2>2
<1>4. segment.kind # "label" /\ segment.kind # "separator"
  BY <1>0
<1>5. QED
  BY <1>1, <1>2, <1>3, <1>4 DEF IsText, LabelFree

LEMMA TheSentenceIsText ==
  ASSUME NEW tasks, NEW abandoned, NEW named
  PROVE  LET sentence == NotCompletedSentence(tasks, abandoned, named)
         IN IsText(sentence) /\ LabelFree(sentence)
<1> DEFINE sentence == NotCompletedSentence(tasks, abandoned, named)
           Said(kind) == [text |-> "Not completed", kind |-> kind, ended |-> TRUE,
                          quoted |-> FALSE, characters |-> 40, words |-> 6, noise |-> 0,
                          restates |-> ""]
           figured == \E t \in abandoned : tasks[t].words \in named /\ tasks[t].metric
           it == Said(IF figured THEN "log" ELSE "not completed")
<1>1. sentence = IF named = {} THEN <<>> ELSE <<it>>
  BY Zenon DEF NotCompletedSentence
<1>2. it.kind \in {"log", "not completed"}
  BY DEF Said
<1> HIDE DEF sentence, it
<1>3. ASSUME named # {} PROVE sentence = <<it>>
  BY <1>1, <1>3
<1>4. ASSUME named = {} PROVE sentence = <<>>
  BY <1>1, <1>4
<1>5. ASSUME named = {} PROVE IsText(sentence) /\ LabelFree(sentence)
  BY <1>4, <1>5, NothingIsText
<1>7. ASSUME named # {} PROVE IsText(sentence) /\ LabelFree(sentence)
  <2>1. it.kind \in {"log", "not completed"} /\ sentence = <<it>>
    BY <1>2, <1>3, <1>7
  <2>2. QED
    BY <2>1, OneIsText, Zenon
<1>6. QED
  BY <1>5, <1>7 DEF sentence

LEMMA FormatOutputCleans ==
  ASSUME NEW tasks, NEW abandoned, NEW named, NEW raw, IsText(raw)
  PROVE  LET text == FormatOutput(tasks, abandoned, named, raw) IN IsText(text) /\ LabelFree(text)
<1> DEFINE sentence == NotCompletedSentence(tasks, abandoned, named)
           clean == CleanSynthesis(raw)
<1>1. IsText(sentence) /\ LabelFree(sentence)
  BY TheSentenceIsText
<1> HIDE DEF sentence
<1>2. IsText(clean) /\ LabelFree(clean)
  BY CleanSynthesisCleans
<1>3. IsText(clean \o sentence) /\ LabelFree(clean \o sentence)
  BY <1>1, <1>2, BothAreText
<1>4. QED
  BY <1>3, NothingIsText DEF FormatOutput, clean, sentence

LEMMA AbandonedIsText ==
  ASSUME NEW partial, IsText(partial)
  PROVE  IsText(Abandoned(partial))
<1>1. \E t : IsText(t) /\ Abandoned(partial) = t \o partial
  <2>1. ASSUME NEW a, NEW b, a.kind = "prose", b.kind = "prose" PROVE IsText(<<a, b>>)
    BY <2>1 DEF IsText, Range
  <2>2. \E a, b : a.kind = "prose" /\ b.kind = "prose" /\ Abandoned(partial) = <<a, b>> \o partial
    BY DEF Abandoned
  <2>3. QED
    BY <2>1, <2>2
<1>2. QED
  BY <1>1, BothAreText


(* The guard on the way out, whatever it is given.                         *)
LEMMA DropIncompleteTailEnds ==
  ASSUME NEW S, NEW t \in Seq(S)
  PROVE  LET u == DropIncompleteTail(t) IN u = t \/ (u # <<>> /\ u[Len(u)].ended)
<1> DEFINE ends == {i \in DOMAIN t : t[i].ended}
           u == DropIncompleteTail(t)
           m == Max(ends)
<1>1. Len(t) \in Nat /\ DOMAIN t = 1 .. Len(t)
  OBVIOUS
<1>2. u = IF ends = {} THEN t ELSE Prefix(t, m)
  BY DEF DropIncompleteTail
<1>3. ends \in SUBSET (0 .. Len(t)) /\ \A i \in ends : i \in 1 .. Len(t) /\ t[i].ended
  BY <1>1
<1> HIDE DEF u, ends
<1>4. ASSUME ends # {} PROVE u # <<>> /\ u[Len(u)].ended
  <2>1. m \in ends
    BY <1>1, <1>3, <1>4, Positions
  <2> HIDE DEF m
  <2>2. m \in 1 .. Len(t) /\ t[m].ended
    BY <1>3, <2>1
  <2>3. m \in 0 .. Len(t) /\ 1 <= m
    BY <1>1, <2>2
  <2>4. CutOf(S, t, u) /\ Len(u) = m
    BY <1>2, <1>4, <2>3, PrefixIsCut
  <2>5. u[Len(u)] = t[m]
    BY <2>2, <2>3, <2>4 DEF CutOf
  <2>6. u # <<>>
    BY <2>3, <2>4
  <2>7. QED
    BY <2>2, <2>5, <2>6
<1>5. ASSUME ends = {} PROVE u = t
  BY <1>2, <1>5
<1>6. QED
  BY <1>4, <1>5 DEF u

(* What Cleaned says of the text t is what AnswerClean says of an answer.  *)
Cleaned(u, allowCode) ==
  /\ LabelFree(u)
  /\ u # <<>> => u[Len(u)].kind # "separator"
  /\ ~allowCode => \A i \in DOMAIN u : u[i].kind \notin {"fence", "json"}
  /\ CutAdjacentRepeat(u) = u

Unbroken(u) ==
  \A i, j \in DOMAIN u : u[i].kind = "exemplar" /\ i <= j => ~Breaks(u[j])

LEMMA GuardCleans ==
  ASSUME NEW t, IsText(t), NEW source, NEW allowCode \in BOOLEAN
  PROVE  LET u == GuardFinalAnswer(t, source, allowCode)
         IN /\ IsText(u) /\ Cleaned(u, allowCode) /\ Unbroken(u)
            /\ LabelFree(t) => \A i \in DOMAIN u : u[i].kind # "exemplar"
<1> DEFINE S == Range(t)
           a == CutAdjacentRepeat(t)
           b == DegeneracyCut(a, FALSE)
           c == TrimDegenerateTails(b)
           d == TrimArtifactTail(c, allowCode)
           u == WalkedBack(t, d)
<1>1. t \in Seq(S)
  BY DEF IsText
<1>0. IsText(t) /\ S = Range(t)
  OBVIOUS
<1> HIDE DEF S
<1>2. CutOf(S, t, a) /\ Repeats(a) = {}
  BY <1>1, CutAdjacentRepeatCuts
<1>3. a \in Seq(S)
  BY <1>2 DEF CutOf
<1> HIDE DEF a
<1>4. CutOf(S, a, b) /\ LabelFree(b)
      /\ \A k \in DOMAIN b : b[k].kind = "exemplar" =>
           ~LabelFree(a) /\ \A j \in DOMAIN b : k <= j => ~Breaks(b[j])
  BY <1>3, DegeneracyCutCuts, DegeneracyCutCleans
<1>5. b \in Seq(S)
  BY <1>4 DEF CutOf
<1> HIDE DEF b
<1>6. CutOf(S, b, c)
  BY <1>5, TrimDegenerateTailsCuts
<1>7. c \in Seq(S)
  BY <1>6 DEF CutOf
<1> HIDE DEF c
<1>8. /\ CutOf(S, c, d)
      /\ d # <<>> => d[Len(d)].kind # "separator"
      /\ ~allowCode => \A i \in DOMAIN d : d[i].kind \notin {"fence", "json"}
  BY <1>7, TrimArtifactTailCuts
<1>9. d \in Seq(S)
  BY <1>8 DEF CutOf
<1> HIDE DEF d
<1>10. CutOf(S, d, u)
  BY <1>9, WalkedBackCuts
<1>11. u = d \/ (u # <<>> /\ u[Len(u)].ended)
  BY <1>9, DropIncompleteTailEnds DEF WalkedBack
<1>b. u \in Seq(S)
  BY <1>10 DEF CutOf
<1> HIDE DEF u
<1>12. CutOf(S, b, u) /\ CutOf(S, a, u) /\ CutOf(S, t, u)
  <2>1. CutOf(S, b, d)
    BY <1>6, <1>8, CutTwice
  <2>2. CutOf(S, b, u)
    BY <2>1, <1>10, CutTwice
  <2>3. CutOf(S, a, u)
    BY <2>2, <1>4, CutTwice
  <2>4. CutOf(S, t, u)
    BY <2>3, <1>2, CutTwice
  <2>5. QED
    BY <2>2, <2>3, <2>4
<1>13. IsText(u)
  BY <1>0, <1>12, CutIsText
<1>14. CutAdjacentRepeat(u) = u
  BY <1>2, <1>12, NoRepeatInACut
<1>15. /\ \A i \in DOMAIN u : i \in DOMAIN b /\ u[i] = b[i]
       /\ \A i \in DOMAIN u : i \in DOMAIN d /\ u[i] = d[i]
  <2>1. /\ b \in Seq(S) /\ Len(u) <= Len(b) /\ \A i \in 1 .. Len(u) : u[i] = b[i]
        /\ d \in Seq(S) /\ Len(u) <= Len(d) /\ \A i \in 1 .. Len(u) : u[i] = d[i]
    BY <1>10, <1>12 DEF CutOf
  <2>2. DOMAIN u = 1 .. Len(u) /\ DOMAIN b = 1 .. Len(b) /\ DOMAIN d = 1 .. Len(d)
        /\ Len(u) \in Nat /\ Len(b) \in Nat /\ Len(d) \in Nat
    BY <1>b, <1>5, <1>9
  <2>3. \A i \in 1 .. Len(u) : i \in 1 .. Len(b) /\ i \in 1 .. Len(d)
    BY <2>1, <2>2
  <2>4. QED
    BY <2>1, <2>2, <2>3
<1>16. LabelFree(u)
  BY <1>4, <1>15 DEF LabelFree
<1>17. Unbroken(u)
  BY <1>4, <1>15 DEF Unbroken
<1>18. ASSUME LabelFree(t) PROVE \A i \in DOMAIN u : u[i].kind # "exemplar"
  <2>1. LabelFree(a)
    <3>1. IsText(a)
      BY <1>0, <1>2, CutIsText
    <3>2. QED
      BY <1>0, <1>2, <1>18, CutIsText
  <2>2. QED
    BY <2>1, <1>4, <1>15
<1>19. ASSUME u # <<>> PROVE u[Len(u)].kind # "separator"
  <2>1. CASE u = d
    BY <1>8, <1>19, <2>1
  <2>2. CASE u[Len(u)].ended
    <3>1. Len(u) \in DOMAIN u
      BY <1>b, <1>19
    <3>2. QED
      BY <1>13, <2>2, <3>1 DEF IsText
  <2>3. QED
    BY <1>11, <2>1, <2>2
<1>20. ~allowCode => \A i \in DOMAIN u : u[i].kind \notin {"fence", "json"}
  BY <1>8, <1>15
<1>21. Cleaned(u, allowCode)
  BY <1>14, <1>16, <1>19, <1>20 DEF Cleaned
<1>22. u = GuardFinalAnswer(t, source, allowCode)
  BY DEF GuardFinalAnswer, a, b, c, d, u
<1>23. QED
  BY <1>13, <1>17, <1>18, <1>21, <1>22

LEMMA NothingIsClean == Cleaned(<<>>, FALSE) /\ Unbroken(<<>>)
<1>1. CutAdjacentRepeat(<<>>) = <<>>
  <2> DEFINE t == <<>>
  <2>1. CutAdjacentRepeat(t) = t
    <3>1. t \in Seq({})
      OBVIOUS
    <3>2. CutOf({}, t, CutAdjacentRepeat(t))
      BY <3>1, CutAdjacentRepeatCuts
    <3>3. \A u : CutOf({}, t, u) => u = t
      BY DEF CutOf
    <3>4. QED
      BY <3>2, <3>3
  <2>2. QED
    BY <2>1
<1>2. QED
  BY <1>1, NothingIsText DEF Cleaned, Unbroken

----------------------------------------------------------------------------
(* The answers *)

AnswerFields == {"source", "text", "banner", "material", "shown", "named"}

(* An answer that is a text of the model's, or says that there is none.    *)
Answered(a) ==
  /\ AnswerFields \subseteq DOMAIN a
  /\ IsText(a.text)
  /\ a.source = "message" => a.text = <<>>

(* One that has been through the pipeline of what it is.                   *)
Sound(a) == Answered(a) /\ LabelFree(a.text)

LEMMA SourceIsNone == NoAnswer.source = "none"
BY DEF NoAnswer

LEMMA WordlessIsSound ==
  ASSUME NEW source
  PROVE  LET a == [NoAnswer EXCEPT !.source = source] IN Sound(a) /\ a.source = source
<1> DEFINE a == [NoAnswer EXCEPT !.source = source]
<1>1. AnswerFields \subseteq DOMAIN a /\ a.text = <<>> /\ a.source = source
  BY DEF NoAnswer, AnswerFields
<1> HIDE DEF a
<1>2. Sound(a)
  BY <1>1, NothingIsText DEF Sound, Answered
<1>3. QED
  BY <1>1, <1>2 DEF a

LEMMA ReportIsAnswered ==
  ASSUME NEW text, IsText(text)
  PROVE  LET a == [NoAnswer EXCEPT !.source = "report", !.text = text]
         IN Answered(a) /\ a.source = "report" /\ (LabelFree(text) => Sound(a))
<1> DEFINE a == [NoAnswer EXCEPT !.source = "report", !.text = text]
<1>1. AnswerFields \subseteq DOMAIN a /\ a.text = text /\ a.source = "report"
  BY DEF NoAnswer, AnswerFields
<1> HIDE DEF a
<1>2. Answered(a) /\ (LabelFree(text) => Sound(a))
  BY <1>1 DEF Sound, Answered
<1>3. QED
  BY <1>1, <1>2 DEF a

(* What the synthesizer returns.                                           *)
LEMMA SynthesesAreSound ==
  ASSUME setting \in Settings, NEW s, NEW a \in Syntheses(s)
  PROVE  Sound(a) /\ (a # NoAnswer => a.source # "none")
<1> DEFINE material == CollectResults(plan, s.status)
           named == CollectNotCompleted(plan, s.status, s.abandoned)
           Answer(text) == [source |-> IF text = <<>> THEN "message" ELSE "synthesis",
                            text |-> text, banner |-> FALSE, material |-> material,
                            shown |-> Shown(plan, material), named |-> named]
           message == [NoAnswer EXCEPT !.source = "message"]
           Text(raw) == FormatOutput(plan, s.abandoned, named, raw)
<1>1. \/ a = message
      \/ a = NoAnswer
      \/ \E raw \in setting.drafts : a = Answer(Text(raw))
  BY Zenon DEF Syntheses
<1>2. CASE a = message
  BY <1>2, WordlessIsSound
<1>3. CASE a = NoAnswer
  <2>1. AnswerFields \subseteq DOMAIN NoAnswer /\ NoAnswer.text = <<>>
    BY DEF NoAnswer, AnswerFields
  <2>2. Sound(NoAnswer)
    BY <2>1, NothingIsText DEF Sound, Answered
  <2>3. QED
    BY <1>3, <2>2
<1>4. ASSUME NEW raw \in setting.drafts, a = Answer(Text(raw))
      PROVE  Sound(a) /\ a.source # "none"
  <2>1. IsText(raw)
    BY SettingsAreSound
  <2>2. IsText(Text(raw)) /\ LabelFree(Text(raw))
    BY <2>1, FormatOutputCleans
  <2> HIDE DEF Text
  <2>3. AnswerFields \subseteq DOMAIN a /\ a.text = Text(raw)
        /\ a.source = IF Text(raw) = <<>> THEN "message" ELSE "synthesis"
    BY <1>4 DEF AnswerFields
  <2>4. QED
    BY <2>2, <2>3 DEF Sound, Answered
<1>5. QED
  BY <1>1, <1>2, <1>3, <1>4

(* What Terminate may find for a run's answer.                             *)
LEMMA RootResultsAreAnswers ==
  ASSUME setting \in Settings, NEW s, NEW a \in RootResults(s)
  PROVE  /\ Answered(a) /\ a.source # "none"
         /\ LabelFree(a.text) \/ s.status[Root] = "failed"
<1> DEFINE message == [NoAnswer EXCEPT !.source = "message"]
           Report(raw) == [NoAnswer EXCEPT !.source = "report", !.text = Abandoned(raw)]
<1>1. \/ a = message
      \/ s.status[Root] = "failed" /\ \E raw \in setting.drafts : a = Report(raw)
  BY Zenon DEF RootResults
<1>2. CASE a = message
  BY <1>2, WordlessIsSound DEF Sound
<1>3. ASSUME NEW raw \in setting.drafts, a = Report(raw)
      PROVE  Answered(a) /\ a.source = "report"
  <2>1. IsText(raw)
    BY SettingsAreSound
  <2>2. IsText(Abandoned(raw))
    BY <2>1, AbandonedIsText
  <2>3. QED
    BY <1>3, <2>2, ReportIsAnswered
<1>4. QED
  BY <1>1, <1>2, <1>3

(* And what the guard lets out.                                            *)
LEMMA GuardedIsClean ==
  ASSUME NEW a, Answered(a), a.source # "none", setting.software \in BOOLEAN
  PROVE  LET g == Guarded(a)
         IN /\ AnswerFields \subseteq DOMAIN g
            /\ Cleaned(g.text, setting.software) /\ Unbroken(g.text)
            /\ LabelFree(a.text) => \A i \in DOMAIN g.text : g.text[i].kind # "exemplar"
            /\ g.source # "none" /\ (g.source # "message" => g.text # <<>>)
<1> DEFINE text == GuardFinalAnswer(a.text, a.source, setting.software)
           g == Guarded(a)
           cut == [a EXCEPT !.text = text, !.source = IF text = <<>> THEN "message" ELSE @]
<1>1. g = IF a.source = "message" THEN a ELSE cut
  BY Zenon DEF Guarded
<1>2. AnswerFields \subseteq DOMAIN a /\ IsText(a.text) /\ (a.source = "message" => a.text = <<>>)
  BY DEF Answered
<1>3. /\ Cleaned(text, setting.software) /\ Unbroken(text)
      /\ LabelFree(a.text) => \A i \in DOMAIN text : text[i].kind # "exemplar"
  BY <1>2, GuardCleans
<1> HIDE DEF text, g
<1>4. CASE a.source = "message"
  <2>1. g = a /\ a.text = <<>>
    BY <1>1, <1>2, <1>4
  <2>2. Cleaned(a.text, setting.software) /\ Unbroken(a.text)
    BY <2>1, NothingIsClean DEF Cleaned
  <2>3. \A i \in DOMAIN a.text : a.text[i].kind # "exemplar"
    BY <2>1
  <2>4. QED
    BY <1>2, <1>4, <2>1, <2>2, <2>3 DEF g
<1>5. CASE a.source # "message"
  <2>1. g = cut
    BY <1>1, <1>5
  <2>2. "text" \in DOMAIN a /\ "source" \in DOMAIN a
    BY <1>2 DEF AnswerFields
  <2>3. /\ DOMAIN cut = DOMAIN a /\ cut.text = text
        /\ cut.source = IF text = <<>> THEN "message" ELSE a.source
    BY <2>2
  <2> HIDE DEF cut
  <2>4. QED
    BY <1>2, <1>3, <1>5, <2>1, <2>3 DEF g
<1>6. QED
  BY <1>4, <1>5

SessionFields == {"phase", "status", "abandoned", "unstarted", "final", "answer"}

(* What AnswerClean says, of the answer of a session that has ended.       *)
Presented(s, software) ==
  LET text == s.answer.text
  IN /\ s.answer.source # "none"
     /\ s.answer.source # "message" => text # <<>>
     /\ Cleaned(text, software) /\ Unbroken(text)
     /\ (\E i \in DOMAIN text : text[i].kind = "exemplar") => s.status[Root] = "failed"

AnswerInv ==
  /\ setting \in Settings
  /\ SessionFields \subseteq DOMAIN session /\ Root \in DOMAIN session.status
  /\ Sound(session.final)
  /\ session.status[Root] = "completed" => session.final.source # "none"
  /\ Is("ended") => Presented(session, setting.software)

LEMMA PresentedIsClean ==
  ASSUME AnswerInv
  PROVE  AnswerClean
<1> DEFINE text == session.answer.text
           kinds == {text[i].kind : i \in DOMAIN text}
<1>1. SUFFICES ASSUME Is("ended")
               PROVE  /\ session.answer.source # "none"
                      /\ session.answer.source # "message" => text # <<>>
                      /\ "label" \notin kinds
                      /\ "exemplar" \in kinds =>
                           /\ session.status[Root] = "failed"
                           /\ \A i, j \in DOMAIN text :
                                text[i].kind = "exemplar" /\ i <= j => ~Breaks(text[j])
                      /\ text # <<>> => Last(text).kind # "separator"
                      /\ kinds \cap {"fence", "json"} # {} => setting.software
                      /\ CutAdjacentRepeat(text) = text
  BY Zenon DEF AnswerClean
<1>2. Presented(session, setting.software)
  BY <1>1 DEF AnswerInv
<1>3. /\ session.answer.source # "none"
      /\ session.answer.source # "message" => text # <<>>
      /\ Cleaned(text, setting.software) /\ Unbroken(text)
      /\ (\E i \in DOMAIN text : text[i].kind = "exemplar") => session.status[Root] = "failed"
  BY <1>2 DEF Presented
<1> HIDE DEF text
<1>4. "label" \notin kinds
  BY <1>3 DEF Cleaned, LabelFree
<1>5. "exemplar" \in kinds => /\ session.status[Root] = "failed"
                              /\ \A i, j \in DOMAIN text :
                                   text[i].kind = "exemplar" /\ i <= j => ~Breaks(text[j])
  BY <1>3 DEF Unbroken
<1>6. text # <<>> => Last(text).kind # "separator"
  BY <1>3 DEF Cleaned, Last
<1>7. kinds \cap {"fence", "json"} # {} => setting.software
  BY <1>3 DEF Cleaned
<1>8. QED
  BY <1>3, <1>4, <1>5, <1>6, <1>7 DEF Cleaned

LEMMA FreshIs ==
  ASSUME NEW p, Root \in DOMAIN p
  PROVE  /\ SessionFields \subseteq DOMAIN Fresh(p) /\ Root \in DOMAIN Fresh(p).status
         /\ Fresh(p).status[Root] = "open" /\ Fresh(p).final = NoAnswer
         /\ Fresh(p).phase = "running"
BY DEF Fresh, SessionFields

LEMMA NoAnswerIsSound == Sound(NoAnswer)
<1>1. AnswerFields \subseteq DOMAIN NoAnswer /\ NoAnswer.text = <<>>
      /\ NoAnswer.source # "message"
  BY DEF NoAnswer, AnswerFields
<1>2. QED
  BY <1>1, NothingIsText DEF Sound, Answered

LEMMA AnswerInit == Init => AnswerInv
<1> SUFFICES ASSUME Init PROVE AnswerInv
  OBVIOUS
<1>1. setting \in Settings /\ session = Fresh(setting.plan)
  BY DEF Init
<1>2. Root \in DOMAIN setting.plan
  BY <1>1, SettingsAreSound DEF IsPlan
<1>3. QED
  BY <1>1, <1>2, FreshIs, NoAnswerIsSound DEF AnswerInv, Is

(* A step after which the session has not ended, and that leaves the root  *)
(* and the stored answer as they were.                                     *)
LEMMA OpenEndedKeeps ==
  ASSUME AnswerInv, setting' = setting,
         SessionFields \subseteq DOMAIN session', Root \in DOMAIN session'.status,
         session'.status[Root] \in {session.status[Root], "failed"},
         session'.final = session.final, session'.phase # "ended"
  PROVE  AnswerInv'
BY DEF AnswerInv, Is

LEMMA PhaseKeeps ==
  ASSUME AnswerInv, setting' = setting, NEW phase, phase # "ended",
         session' = [session EXCEPT !.phase = phase]
  PROVE  AnswerInv'
<1>1. SessionFields \subseteq DOMAIN session /\ Root \in DOMAIN session.status
  BY DEF AnswerInv
<1>2. "phase" \in DOMAIN session
  BY <1>1 DEF SessionFields
<1>3. DOMAIN session' = DOMAIN session /\ session'.phase = phase
      /\ session'.status = session.status /\ session'.final = session.final
  BY <1>2
<1>4. QED
  BY <1>1, <1>3, OpenEndedKeeps

LEMMA EndedIs ==
  ASSUME SessionFields \subseteq DOMAIN session, Root \in DOMAIN session.status, NEW t, NEW how
  PROVE  LET s == Ended(t, how)
         IN /\ DOMAIN s = DOMAIN session /\ s.phase = session.phase /\ s.final = session.final
            /\ DOMAIN s.status = DOMAIN session.status
            /\ s.status[Root] = IF t = Root THEN how ELSE session.status[Root]
<1>1. "status" \in DOMAIN session
  BY DEF SessionFields
<1> DEFINE s == Ended(t, how)
<1>2. DOMAIN s = DOMAIN session /\ s.phase = session.phase /\ s.final = session.final
      /\ s.status = [session.status EXCEPT ![t] = how]
  BY <1>1 DEF Ended
<1> HIDE DEF s
<1>3. DOMAIN s.status = DOMAIN session.status
      /\ s.status[Root] = IF t = Root THEN how ELSE session.status[Root]
  BY <1>2
<1>4. QED
  BY <1>2, <1>3 DEF s

LEMMA SubtaskEndsKeepsAnswer ==
  ASSUME AnswerInv, SubtaskEnds
  PROVE  AnswerInv'
<1>1. SessionFields \subseteq DOMAIN session /\ Root \in DOMAIN session.status
  BY DEF AnswerInv
<1>2. session.phase = "running" /\ setting' = setting
  BY DEF SubtaskEnds, Is
<1>3. PICK t \in DOMAIN plan \ {Root} :
        session' \in {Ended(t, "completed"),
                     [Ended(t, "failed") EXCEPT !.abandoned = @ \cup {t}],
                     [Ended(t, "failed") EXCEPT !.unstarted = @ \cup {t}]}
  <2>1. \E t \in DOMAIN plan \ {Root} :
          session' \in {Ended(t, "completed"),
                       [Ended(t, "failed") EXCEPT !.abandoned = @ \cup {t}],
                       [Ended(t, "failed") EXCEPT !.unstarted = @ \cup {t}]}
    BY Zenon DEF SubtaskEnds
  <2>2. QED
    BY <2>1
<1>4. \E how : LET s == Ended(t, how) IN
                 /\ DOMAIN session' = DOMAIN s /\ session'.phase = s.phase
                 /\ session'.final = s.final /\ session'.status = s.status
  <2>1. CASE session' = Ended(t, "completed")
    BY <2>1
  <2>2. CASE session' \in {[Ended(t, "failed") EXCEPT !.abandoned = @ \cup {t}],
                           [Ended(t, "failed") EXCEPT !.unstarted = @ \cup {t}]}
    <3> DEFINE s == Ended(t, "failed")
    <3>1. session' \in {[s EXCEPT !.abandoned = @ \cup {t}],
                        [s EXCEPT !.unstarted = @ \cup {t}]}
      BY <2>2
    <3>2. DOMAIN s = DOMAIN session
      BY <1>1, EndedIs
    <3>3. "abandoned" \in DOMAIN s /\ "unstarted" \in DOMAIN s
      BY <1>1, <3>2 DEF SessionFields
    <3> HIDE DEF s
    <3>4. DOMAIN session' = DOMAIN s /\ session'.phase = s.phase
          /\ session'.final = s.final /\ session'.status = s.status
      <4>1. CASE session' = [s EXCEPT !.abandoned = @ \cup {t}]
        BY <3>3, <4>1
      <4>2. CASE session' = [s EXCEPT !.unstarted = @ \cup {t}]
        BY <3>3, <4>2
      <4>3. QED
        BY <3>1, <4>1, <4>2
    <3>5. QED
      BY <3>4 DEF s
  <2>3. QED
    BY <1>3, <2>1, <2>2
<1>5. PICK how : LET s == Ended(t, how) IN
                 /\ DOMAIN session' = DOMAIN s /\ session'.phase = s.phase
                 /\ session'.final = s.final /\ session'.status = s.status
  BY <1>4
<1>6. /\ DOMAIN session' = DOMAIN session /\ session'.phase = session.phase
      /\ session'.final = session.final
      /\ DOMAIN session'.status = DOMAIN session.status
      /\ session'.status[Root] = session.status[Root]
  BY <1>1, <1>3, <1>5, EndedIs
<1>7. QED
  BY <1>1, <1>2, <1>6, OpenEndedKeeps

LEMMA RootCompletesKeepsAnswer ==
  ASSUME AnswerInv, RootCompletes
  PROVE  AnswerInv'
<1> DEFINE done == Ended(Root, "completed")
           Reported(raw) == [NoAnswer EXCEPT !.source = "report", !.text = ScrubResult(raw)]
           Left(final) == [done EXCEPT !.final = final, !.phase = "close index"]
<1>1. SessionFields \subseteq DOMAIN session /\ Root \in DOMAIN session.status
      /\ setting \in Settings
  BY DEF AnswerInv
<1>2. setting' = setting
  BY DEF RootCompletes
<1>3. \E final \in Syntheses(done) :
        IF final # NoAnswer THEN session' = Left(final)
        ELSE \E raw \in setting.drafts : session' = Left(Reported(raw))
  BY Zenon DEF RootCompletes
<1>4. \E final : Sound(final) /\ final.source # "none" /\ session' = Left(final)
  <2>1. PICK final \in Syntheses(done) :
          IF final # NoAnswer THEN session' = Left(final)
          ELSE \E raw \in setting.drafts : session' = Left(Reported(raw))
    BY <1>3
  <2> HIDE DEF done, Left
  <2>2. CASE final # NoAnswer
    BY <1>1, <2>1, <2>2, SynthesesAreSound
  <2>3. CASE final = NoAnswer
    <3>1. PICK raw \in setting.drafts : session' = Left(Reported(raw))
      BY <2>1, <2>3
    <3>2. IsText(raw)
      BY <1>1, SettingsAreSound
    <3>3. IsText(ScrubResult(raw)) /\ LabelFree(ScrubResult(raw))
      BY <3>2, ScrubResultCleans
    <3>4. Sound(Reported(raw)) /\ Reported(raw).source = "report"
      BY <3>3, ReportIsAnswered
    <3>5. Reported(raw).source # "none"
      BY <3>4
    <3> HIDE DEF Reported
    <3>6. QED
      BY <3>1, <3>4, <3>5
  <2>4. QED
    BY <2>2, <2>3
<1>5. PICK final : Sound(final) /\ final.source # "none" /\ session' = Left(final)
  BY <1>4
<1>6. DOMAIN done = DOMAIN session /\ DOMAIN done.status = DOMAIN session.status
  BY <1>1, EndedIs
<1> HIDE DEF done
<1>7. "final" \in DOMAIN done /\ "phase" \in DOMAIN done
  BY <1>1, <1>6 DEF SessionFields
<1>8. DOMAIN session' = DOMAIN done /\ session'.final = final /\ session'.phase = "close index"
      /\ session'.status = done.status
  BY <1>5, <1>7
<1>9. QED
  BY <1>1, <1>2, <1>5, <1>6, <1>8 DEF AnswerInv, Is

LEMMA RunEndsKeepsAnswer ==
  ASSUME AnswerInv, RunEnds
  PROVE  AnswerInv'
<1>1. SessionFields \subseteq DOMAIN session /\ Root \in DOMAIN session.status
  BY DEF AnswerInv
<1>2. setting' = setting
  BY DEF RunEnds
<1>3. PICK abandoned \in BOOLEAN :
        session' = [(IF abandoned THEN Ended(Root, "failed") ELSE session) EXCEPT
                     !.phase = "close index",
                     !.abandoned = IF abandoned THEN @ \cup {Root} ELSE @]
  BY DEF RunEnds
<1> DEFINE s == IF abandoned THEN Ended(Root, "failed") ELSE session
<1>4. /\ DOMAIN s = DOMAIN session /\ s.final = session.final
      /\ DOMAIN s.status = DOMAIN session.status
      /\ s.status[Root] \in {session.status[Root], "failed"}
  BY <1>1, EndedIs
<1>5. session' = [s EXCEPT !.phase = "close index",
                           !.abandoned = IF abandoned THEN @ \cup {Root} ELSE @]
  BY <1>3
<1> HIDE DEF s
<1>6. "phase" \in DOMAIN s /\ "abandoned" \in DOMAIN s
  BY <1>1, <1>4 DEF SessionFields
<1>7. DOMAIN session' = DOMAIN s /\ session'.phase = "close index"
      /\ session'.final = s.final /\ session'.status = s.status
  BY <1>5, <1>6
<1>8. QED
  BY <1>1, <1>2, <1>4, <1>7, OpenEndedKeeps

LEMMA TerminateKeepsAnswer ==
  ASSUME AnswerInv, Terminate
  PROVE  AnswerInv'
<1> DEFINE success == session.status[Root] = "completed"
           material == CollectResults(plan, session.status)
           synthesized == IF success \/ material = <<>> THEN {} ELSE Syntheses(session) \ {NoAnswer}
           found == IF success THEN {session.final} ELSE synthesized \cup RootResults(session)
<1>1. SessionFields \subseteq DOMAIN session /\ Root \in DOMAIN session.status
      /\ setting \in Settings /\ setting.software \in BOOLEAN
  BY SettingsAreSound DEF AnswerInv
<1>2. setting' = setting
  BY DEF Terminate
<1>3. \E answer \in found : \E banner :
        session' = [session EXCEPT !.phase = "ended",
                                   !.answer = [Guarded(answer) EXCEPT !.banner = banner]]
  BY Zenon DEF Terminate
<1>4. PICK answer \in found : \E banner :
        session' = [session EXCEPT !.phase = "ended",
                                   !.answer = [Guarded(answer) EXCEPT !.banner = banner]]
  BY <1>3
<1>5. /\ Answered(answer) /\ answer.source # "none"
      /\ LabelFree(answer.text) \/ session.status[Root] = "failed"
  <2>1. CASE answer = session.final /\ success
    BY <2>1 DEF AnswerInv, Sound
  <2>2. CASE answer \in Syntheses(session) \ {NoAnswer}
    BY <1>1, <2>2, SynthesesAreSound DEF Sound
  <2>3. CASE answer \in RootResults(session)
    BY <1>1, <2>3, RootResultsAreAnswers
  <2>4. \/ answer = session.final /\ success
        \/ answer \in Syntheses(session) \ {NoAnswer}
        \/ answer \in RootResults(session)
    OBVIOUS
  <2>5. QED
    BY <2>1, <2>2, <2>3, <2>4
<1>a. PICK banner :
        session' = [session EXCEPT !.phase = "ended",
                                   !.answer = [Guarded(answer) EXCEPT !.banner = banner]]
  BY <1>4
<1> DEFINE g == Guarded(answer)
           shown == [g EXCEPT !.banner = banner]
<1>6. /\ AnswerFields \subseteq DOMAIN g
      /\ Cleaned(g.text, setting.software) /\ Unbroken(g.text)
      /\ LabelFree(answer.text) => \A i \in DOMAIN g.text : g.text[i].kind # "exemplar"
      /\ g.source # "none" /\ (g.source # "message" => g.text # <<>>)
  BY <1>1, <1>5, GuardedIsClean
<1>7. session' = [session EXCEPT !.phase = "ended", !.answer = shown]
  BY <1>a
<1> HIDE DEF g, found
<1>8. "text" \in DOMAIN g /\ "source" \in DOMAIN g
  BY <1>6 DEF AnswerFields
<1>9. shown.text = g.text /\ shown.source = g.source
  BY <1>8
<1> HIDE DEF shown
<1>10. "phase" \in DOMAIN session /\ "answer" \in DOMAIN session
  BY <1>1 DEF SessionFields
<1>11. /\ DOMAIN session' = DOMAIN session /\ session'.phase = "ended" /\ session'.answer = shown
       /\ session'.status = session.status /\ session'.final = session.final
  BY <1>7, <1>10
<1>12. Presented(session', setting.software)
  BY <1>5, <1>6, <1>9, <1>11 DEF Presented
<1>13. QED
  BY <1>2, <1>11, <1>12 DEF AnswerInv

LEMMA AnswerStep ==
  ASSUME AnswerInv, [Next \/ Rest]_vars
  PROVE  AnswerInv'
<1>1. CASE AgentDies
  <2>1. setting' = setting /\ session' = [session EXCEPT !.phase = "save index"]
    BY <1>1 DEF AgentDies
  <2>2. QED
    BY <2>1, PhaseKeeps
<1>2. ASSUME NEW closing \in BOOLEAN, SaveFirst(closing) \/ SaveSecond(closing) \/ SaveFails(closing)
      PROVE  AnswerInv'
  <2>1. setting' = setting /\ session' \in {[session EXCEPT !.phase = "close metadata"],
                                           [session EXCEPT !.phase = "save metadata"],
                                           [session EXCEPT !.phase = "answering"],
                                           [session EXCEPT !.phase = "running"]}
    BY <1>2 DEF SaveFirst, SaveSecond, SaveFails, AfterSave
  <2>2. QED
    BY <2>1, PhaseKeeps
<1>3. CASE Crash
  <2>1. setting' = setting /\ session' = [Fresh(setting.plan) EXCEPT !.phase = "down"]
    BY <1>3 DEF Crash, plan
  <2>2. Root \in DOMAIN setting.plan
    BY SettingsAreSound DEF AnswerInv, IsPlan
  <2> DEFINE s == Fresh(setting.plan)
  <2>3. /\ SessionFields \subseteq DOMAIN s /\ Root \in DOMAIN s.status
        /\ s.status[Root] = "open" /\ s.final = NoAnswer
    BY <2>2, FreshIs
  <2> HIDE DEF s
  <2>4. DOMAIN session' = DOMAIN s /\ session'.phase = "down"
        /\ session'.status = s.status /\ session'.final = s.final
    BY <2>1, <2>3 DEF s, SessionFields
  <2>5. QED
    BY <2>1, <2>3, <2>4, NoAnswerIsSound DEF AnswerInv, Is
<1>4. CASE Start
  <2>1. setting' = setting /\ session' = Fresh(setting.plan)
    BY <1>4 DEF Start, plan
  <2>2. Root \in DOMAIN setting.plan
    BY SettingsAreSound DEF AnswerInv, IsPlan
  <2>3. QED
    BY <2>1, <2>2, FreshIs, NoAnswerIsSound DEF AnswerInv, Is
<1>5. CASE Rest \/ UNCHANGED vars
  BY <1>5 DEF Rest, vars, AnswerInv, Is
<1>6. QED
  BY <1>1, <1>2, <1>3, <1>4, <1>5, SubtaskEndsKeepsAnswer, RootCompletesKeepsAnswer,
     RunEndsKeepsAnswer, TerminateKeepsAnswer DEF Next

(* Whatever the model writes and whatever way the answer leaves by, the    *)
(* guard lets out nothing of the harness's (_guard_final_answer).          *)
THEOREM AnswersAreClean == Spec => []AnswerClean
<1>1. AnswerInv /\ [Next \/ Rest]_vars => AnswerInv'
  BY AnswerStep
<1>2. AnswerInv => AnswerClean
  BY PresentedIsClean
<1>3. QED
  BY AnswerInit, <1>1, <1>2, PTL DEF Spec

----------------------------------------------------------------------------
(* The visit *)

(* A list without repetitions, in which nothing is before what it depends  *)
(* on, of those that are asked for.                                        *)
InOrder(p, among, list) ==
  /\ \A i, j \in DOMAIN list : list[i] = list[j] => i = j
  /\ \A i \in DOMAIN list : \A d \in Range(p[list[i]].deps) \cap among :
       \E j \in DOMAIN list : j < i /\ list[j] = d

LEMMA NothingIsInOrder ==
  ASSUME NEW p, NEW among
  PROVE  InOrder(p, among, <<>>) /\ Range(<<>>) = {}
BY DEF InOrder, Range

LEMMA AppendInOrder ==
  ASSUME NEW p, NEW among, NEW S, NEW list \in Seq(S), InOrder(p, among, list),
         NEW x \in S, x \notin Range(list), Range(p[x].deps) \cap among \subseteq Range(list)
  PROVE  LET longer == Append(list, x)
         IN /\ longer \in Seq(S) /\ Range(longer) = Range(list) \cup {x}
            /\ InOrder(p, among, longer)
<1> DEFINE longer == Append(list, x)
           n == Len(list)
<1>1. n \in Nat /\ DOMAIN list = 1 .. n /\ longer \in Seq(S)
      /\ DOMAIN longer = 1 .. n + 1 /\ longer[n + 1] = x
      /\ \A i \in 1 .. n : longer[i] = list[i] /\ i # n + 1
  OBVIOUS
<1>2. \A i \in 1 .. n + 1 : i = n + 1 \/ i \in 1 .. n
  BY <1>1
<1>a. \A i \in 1 .. n : i \in 1 .. n + 1 /\ i < n + 1
  BY <1>1
<1>b. n + 1 \in 1 .. n + 1
  BY <1>1
<1> HIDE DEF n, longer
<1>3. \A i \in 1 .. n : list[i] \in Range(list) /\ list[i] # x
  BY <1>1 DEF Range
<1>4. Range(longer) = Range(list) \cup {x}
  <2>1. \A y \in Range(longer) : y \in Range(list) \cup {x}
    BY <1>1, <1>2, <1>3 DEF Range
  <2>2. \A y \in Range(list) : y \in Range(longer)
    BY <1>1, <1>a DEF Range
  <2>3. x \in Range(longer)
    BY <1>1, <1>b DEF Range
  <2>4. QED
    BY <2>1, <2>2, <2>3
<1>5. \A i, j \in DOMAIN longer : longer[i] = longer[j] => i = j
  <2>1. ASSUME NEW i \in 1 .. n + 1, NEW j \in 1 .. n + 1, longer[i] = longer[j] PROVE i = j
    <3>1. CASE i \in 1 .. n /\ j \in 1 .. n
      BY <1>1, <2>1, <3>1 DEF InOrder
    <3>2. CASE i = n + 1 \/ j = n + 1
      BY <1>1, <1>2, <1>3, <2>1, <3>2
    <3>3. QED
      BY <1>2, <3>1, <3>2
  <2>2. QED
    BY <1>1, <2>1
<1>6. ASSUME NEW i \in 1 .. n + 1, NEW d \in Range(p[longer[i]].deps) \cap among
      PROVE  \E j \in 1 .. n + 1 : j < i /\ longer[j] = d
  <2>1. CASE i \in 1 .. n
    <3>1. PICK j \in 1 .. n : j < i /\ list[j] = d
      BY <1>1, <1>6, <2>1 DEF InOrder
    <3>2. QED
      BY <1>1, <1>a, <3>1
  <2>2. CASE i = n + 1
    <3>1. d \in Range(list)
      BY <1>1, <1>6, <2>2
    <3>2. PICK j \in 1 .. n : list[j] = d
      BY <1>1, <3>1 DEF Range
    <3>3. QED
      BY <1>1, <1>a, <2>2, <3>2
  <2>3. QED
    BY <1>2, <2>1, <2>2
<1>7. InOrder(p, among, longer)
  BY <1>1, <1>5, <1>6 DEF InOrder
<1>8. QED
  BY <1>1, <1>4, <1>7 DEF longer

(* A visit under way: what it has listed is in order; what it has begun is *)
(* not listed yet.                                                         *)
Begun(v) == v.seen \ Range(v.order)

UnderWay(p, among, v) ==
  /\ v \in Visits(p) /\ Range(v.order) \subseteq v.seen
  /\ Range(v.order) \subseteq among /\ InOrder(p, among, v.order)

(* The tasks asked for have ranks: what one depends on has a lower one.    *)
Ranked(p, among, rank) ==
  /\ IsPlan(p) /\ among \subseteq DOMAIN p
  /\ \A t \in among : rank[t] \in Nat
  /\ \A t \in among : \A d \in Range(p[t].deps) \cap among : rank[d] < rank[t]

(* What a call may be asked, if calls may be nested n deep in it, and what *)
(* it then does.                                                           *)
MayVisit(p, among, rank, n, done, t) ==
  /\ UnderWay(p, among, done) /\ Begun(done) \subseteq among
  /\ Cardinality(among \ done.seen) <= n
  /\ t \in among => \A g \in Begun(done) : rank[t] < rank[g]

HasVisited(p, among, done, t, after) ==
  /\ UnderWay(p, among, after) /\ Begun(after) = Begun(done)
  /\ done.seen \subseteq after.seen /\ Range(done.order) \subseteq Range(after.order)
  /\ t \in among => t \in Range(after.order)

Calls(p) == [Visits(p) \X DOMAIN p -> Visits(p)]

Does(p, among, rank, n, call) ==
  \A done \in Visits(p), t \in DOMAIN p :
    MayVisit(p, among, rank, n, done, t) =>
      HasVisited(p, among, done, t, call[<<done, t>>])

Entered(done, t) == [done EXCEPT !.seen = @ \cup {t}]

(* The calls one call makes. *)
Below(p, done, t, inner, below) ==
  below = [k \in 0 .. Len(p[t].deps) |->
             IF k = 0 THEN Entered(done, t)
             ELSE inner[<<below[k - 1], p[t].deps[k]>>]]

LEMMA VisitsBelow ==
  ASSUME NEW p, IsPlan(p), NEW inner \in Calls(p), NEW done \in Visits(p), NEW t \in DOMAIN p
  PROVE  \E below : Below(p, done, t, inner, below)
<1> DEFINE n == Len(p[t].deps)
           deps == p[t].deps
           first == Entered(done, t)
           Allowed == [i \in 0 .. n |-> Visits(p)]
           body == [x \in Visits(p) \X (1 .. n) |-> inner[<<x[1], deps[x[2]]>>]]
<1>1. n \in Nat /\ \A k \in 1 .. n : deps[k] \in DOMAIN p
  BY DEF IsPlan
<1>2. first \in Visits(p)
  BY DEF Visits, Entered
<1>3. ASSUME NEW k \in 1 .. n, NEW v \in Visits(p) PROVE inner[<<v, deps[k]>>] \in Visits(p)
  BY <1>1, <1>3 DEF Calls
<1>4. \A i \in 0 .. n : Allowed[i] = Visits(p)
  OBVIOUS
<1>5. \A i \in 1 .. n : \A v \in Visits(p) : body[<<v, i>>] = inner[<<v, deps[i]>>]
  OBVIOUS
<1>6. \A f : Below(p, done, t, inner, f) <=>
               f = [k \in 0 .. n |-> IF k = 0 THEN first ELSE inner[<<f[k - 1], deps[k]>>]]
  BY DEF Below
<1> HIDE DEF n, deps, first, Allowed, body
<1>7. \A i \in 1 .. n : i \in 0 .. n /\ i - 1 \in 0 .. n
  BY <1>1
<1>8. \E f : Loop(f, n, first, body) /\ \A i \in 0 .. n : f[i] \in Allowed[i]
  <2>1. first \in Allowed[0]
    BY <1>1, <1>2, <1>4
  <2>2. ASSUME NEW i \in 1 .. n, NEW x \in Allowed[i - 1] PROVE body[<<x, i>>] \in Allowed[i]
    <3>1. x \in Visits(p) /\ Allowed[i] = Visits(p)
      BY <1>4, <1>7
    <3>2. body[<<x, i>>] = inner[<<x, deps[i]>>]
      BY <1>5, <3>1
    <3>3. QED
      BY <1>3, <3>1, <3>2
  <2>3. QED
    BY <1>1, <2>1, <2>2, LoopRuns
<1>9. PICK f : Loop(f, n, first, body) /\ \A i \in 0 .. n : f[i] \in Allowed[i]
  BY <1>8
<1>10. f = [k \in 0 .. n |-> IF k = 0 THEN first ELSE inner[<<f[k - 1], deps[k]>>]]
  <2>1. f = [i \in 0 .. n |-> IF i = 0 THEN first ELSE body[<<f[i - 1], i>>]]
    BY <1>9 DEF Loop
  <2>2. ASSUME NEW i \in 1 .. n PROVE body[<<f[i - 1], i>>] = inner[<<f[i - 1], deps[i]>>]
    BY <1>4, <1>5, <1>7, <1>9
  <2>3. \A i \in 0 .. n : i = 0 \/ i \in 1 .. n
    BY <1>1
  <2>4. QED
    BY <2>1, <2>2, <2>3
<1>11. QED
  BY <1>6, <1>10

Listed(v, t) == [v EXCEPT !.order = Append(@, t)]

(* A call returns at once, or after the calls it makes.                    *)
LEMMA VisitIs ==
  ASSUME NEW p, IsPlan(p), NEW among, NEW inner \in Calls(p),
         NEW done \in Visits(p), NEW t \in DOMAIN p
  PROVE  LET r == Visit(p, among, inner)[<<done, t>>]
         IN /\ t \in done.seen \/ t \notin among => r = done
            /\ t \notin done.seen /\ t \in among =>
                 \E below : /\ Below(p, done, t, inner, below)
                            /\ r = Listed(below[Len(p[t].deps)], t)
<1> DEFINE below == CHOOSE f : Below(p, done, t, inner, f)
           r == Visit(p, among, inner)[<<done, t>>]
<1>1. Below(p, done, t, inner, below)
  BY VisitsBelow
<1>2. r = IF t \in done.seen \/ t \notin among THEN done
          ELSE Listed(below[Len(p[t].deps)], t)
  <2>1. <<done, t>> \in Visits(p) \X DOMAIN p /\ <<done, t>>[1] = done /\ <<done, t>>[2] = t
    OBVIOUS
  <2> DEFINE v == <<done, t>>
  <2>2. v \in Visits(p) \X DOMAIN p /\ v[1] = done /\ v[2] = t
    BY <2>1
  <2> HIDE DEF v
  <2>3. Visit(p, among, inner)[v] =
          IF v[2] \in v[1].seen \/ v[2] \notin among THEN v[1]
          ELSE Listed((CHOOSE f : Below(p, v[1], v[2], inner, f))[Len(p[v[2]].deps)], v[2])
    BY <2>2, Zenon DEF Visit, Below, Listed, Entered
  <2>4. QED
    BY <2>2, <2>3 DEF v
<1> HIDE DEF below, r
<1>3. QED
  BY <1>1, <1>2 DEF r

BelowSays(p, done, t, inner, below) ==
  /\ below[0] = Entered(done, t)
  /\ \A k \in 1 .. Len(p[t].deps) : below[k] = inner[<<below[k - 1], p[t].deps[k]>>]

LEMMA BelowIs ==
  ASSUME NEW p, IsPlan(p), NEW inner, NEW done, NEW t \in DOMAIN p,
         NEW below, Below(p, done, t, inner, below)
  PROVE  BelowSays(p, done, t, inner, below)
<1> DEFINE n == Len(p[t].deps)
           deps == p[t].deps
           first == Entered(done, t)
<1>1. n \in Nat
  BY DEF IsPlan
<1>2. below = [k \in 0 .. n |-> IF k = 0 THEN first ELSE inner[<<below[k - 1], deps[k]>>]]
  BY DEF Below
<1>3. 0 \in 0 .. n /\ \A k \in 1 .. n : k \in 0 .. n /\ k # 0
  BY <1>1
<1> HIDE DEF n, deps, first
<1>4. below[0] = first
  BY <1>2, <1>3
<1>5. ASSUME NEW k \in 1 .. n PROVE below[k] = inner[<<below[k - 1], deps[k]>>]
  BY <1>2, <1>3
<1>6. QED
  BY <1>4, <1>5 DEF n, deps, first, BelowSays

LEMMA BelowStays ==
  ASSUME NEW p, IsPlan(p), NEW inner \in Calls(p), NEW done \in Visits(p), NEW t \in DOMAIN p,
         NEW below, Below(p, done, t, inner, below)
  PROVE  \A k \in 0 .. Len(p[t].deps) : below[k] \in Visits(p)
<1> DEFINE n == Len(p[t].deps)
           P == {k \in 0 .. n : below[k] \in Visits(p)}
<1>1. n \in Nat /\ \A k \in 1 .. n : p[t].deps[k] \in DOMAIN p
  BY DEF IsPlan
<1>2. BelowSays(p, done, t, inner, below)
  BY BelowIs
<1>a. below[0] = Entered(done, t)
      /\ \A k \in 1 .. n : below[k] = inner[<<below[k - 1], p[t].deps[k]>>]
  BY <1>2 DEF BelowSays
<1> HIDE DEF n
<1>3. 0 \in P
  BY <1>1, <1>a DEF Visits, Entered
<1>4. ASSUME NEW i \in 1 .. n, i - 1 \in P PROVE i \in P
  <2>1. below[i - 1] \in Visits(p) /\ p[t].deps[i] \in DOMAIN p
    BY <1>1, <1>4
  <2>2. inner[<<below[i - 1], p[t].deps[i]>>] \in Visits(p)
    BY <2>1 DEF Calls
  <2>3. below[i] = inner[<<below[i - 1], p[t].deps[i]>>]
    BY <1>a
  <2>4. QED
    BY <2>2, <2>3
<1>5. P \in SUBSET (0 .. n) /\ \A i \in P : below[i] \in Visits(p)
  OBVIOUS
<1> HIDE DEF P
<1>6. P = 0 .. n
  BY <1>1, <1>3, <1>4, <1>5, Induct
<1>7. QED
  BY <1>5, <1>6 DEF n

LEMMA ListedStays ==
  ASSUME NEW p, NEW v \in Visits(p), NEW t \in DOMAIN p
  PROVE  /\ Listed(v, t) \in Visits(p) /\ Listed(v, t).seen = v.seen
         /\ Listed(v, t).order = Append(v.order, t)
<1>1. v.order \in Seq(DOMAIN p) /\ v.seen \in SUBSET (DOMAIN p)
  BY DEF Visits
<1>2. Append(v.order, t) \in Seq(DOMAIN p)
  BY <1>1
<1> DEFINE longer == Append(v.order, t)
<1> HIDE DEF longer
<1>3. Listed(v, t) = [v EXCEPT !.order = longer]
  BY DEF Listed, longer
<1>4. Listed(v, t) \in Visits(p) /\ Listed(v, t).seen = v.seen /\ Listed(v, t).order = longer
  BY <1>1, <1>2, <1>3 DEF Visits, longer
<1>5. QED
  BY <1>4 DEF longer

LEMMA VisitStays ==
  ASSUME NEW p, IsPlan(p), NEW among, NEW inner \in Calls(p)
  PROVE  Visit(p, among, inner) \in Calls(p)
<1>1. ASSUME NEW done \in Visits(p), NEW t \in DOMAIN p
      PROVE  Visit(p, among, inner)[<<done, t>>] \in Visits(p)
  <2> DEFINE r == Visit(p, among, inner)[<<done, t>>]
             n == Len(p[t].deps)
  <2>1. n \in Nat
    BY DEF IsPlan
  <2>2. CASE t \in done.seen \/ t \notin among
    BY <2>2, VisitIs
  <2>3. CASE t \notin done.seen /\ t \in among
    <3>1. \E below : Below(p, done, t, inner, below) /\ r = Listed(below[n], t)
      BY <2>3, VisitIs
    <3>2. PICK below : Below(p, done, t, inner, below) /\ r = Listed(below[n], t)
      BY <3>1
    <3>3. n \in 0 .. n
      BY <2>1
    <3>4. below[n] \in Visits(p)
      BY <3>2, <3>3, BelowStays
    <3> HIDE DEF n, r
    <3>5. r \in Visits(p)
      BY <3>2, <3>4, ListedStays
    <3>6. QED
      BY <3>5 DEF r
  <2>4. QED
    BY <2>2, <2>3
<1> DEFINE f == Visit(p, among, inner)
<1>2. DOMAIN f = Visits(p) \X DOMAIN p /\ f = [v \in Visits(p) \X DOMAIN p |-> f[v]]
  BY DEF Visit
<1> HIDE DEF f
<1>3. ASSUME NEW v \in Visits(p) \X DOMAIN p PROVE f[v] \in Visits(p)
  <2>1. v = <<v[1], v[2]>> /\ v[1] \in Visits(p) /\ v[2] \in DOMAIN p
    OBVIOUS
  <2>2. f[<<v[1], v[2]>>] \in Visits(p)
    BY <1>1, <2>1 DEF f
  <2>3. QED
    BY <2>1, <2>2
<1>4. f \in Calls(p)
  BY <1>2, <1>3 DEF Calls
<1>5. QED
  BY <1>4 DEF f

LEMMA PlanIsFinite ==
  ASSUME NEW p, IsPlan(p)
  PROVE  IsFiniteSet(DOMAIN p)
<1>1. DOMAIN p = 0 .. Cardinality(DOMAIN p) - 1 /\ Cardinality(DOMAIN p) \in Nat
  BY DEF IsPlan
<1> DEFINE last == Cardinality(DOMAIN p) - 1
<1>2. last \in Int /\ DOMAIN p = 0 .. last
  BY <1>1
<1> HIDE DEF last
<1>3. QED
  BY <1>2, FS_Interval, 0 \in Int

(* One task less to go.                                                    *)
LEMMA OneLess ==
  ASSUME NEW p, IsPlan(p), NEW among \in SUBSET (DOMAIN p), NEW seen, NEW t \in among,
         t \notin seen, NEW n \in Nat, Cardinality(among \ seen) <= n
  PROVE  n # 0 /\ \A more : seen \cup {t} \subseteq more => Cardinality(among \ more) <= n - 1
<1> DEFINE left == among \ seen
           less == left \ {t}
<1>1. IsFiniteSet(among)
  BY PlanIsFinite, FS_Subset
<1>2. IsFiniteSet(left) /\ t \in left
  BY <1>1, FS_Subset
<1>3. IsFiniteSet(less) /\ Cardinality(less) = Cardinality(left) - 1
  BY <1>2, FS_RemoveElement
<1>4. Cardinality(left) \in Nat /\ Cardinality(less) \in Nat
  BY <1>2, <1>3, FS_CardinalityType
<1>5. Cardinality(left) <= n
  OBVIOUS
<1>6. ASSUME NEW more, seen \cup {t} \subseteq more PROVE Cardinality(among \ more) <= n - 1
  <2>1. among \ more \subseteq less
    BY <1>6
  <2> DEFINE rest == among \ more
  <2>a. rest \subseteq less
    BY <2>1
  <2> HIDE DEF rest, less, left
  <2>2. Cardinality(rest) <= Cardinality(less) /\ IsFiniteSet(rest)
    BY <1>3, <2>a, FS_Subset
  <2>3. Cardinality(rest) \in Nat
    BY <2>2, FS_CardinalityType
  <2>4. Cardinality(rest) <= n - 1
    BY <1>3, <1>4, <1>5, <2>2, <2>3
  <2>5. QED
    BY <2>4 DEF rest
<1>7. n # 0
  BY <1>3, <1>4, <1>5
<1>8. QED
  BY <1>6, <1>7
(* Inside a call for t, once its first k dependencies have been seen to. *)
Inside(p, among, done, t, v, k) ==
  /\ UnderWay(p, among, v) /\ Begun(v) = Begun(done) \cup {t}
  /\ done.seen \cup {t} \subseteq v.seen /\ Range(done.order) \subseteq Range(v.order)
  /\ \A j \in 1 .. k : p[t].deps[j] \in among => p[t].deps[j] \in Range(v.order)

LEMMA EntersInside ==
  ASSUME NEW p, NEW among \in SUBSET (DOMAIN p), NEW done, UnderWay(p, among, done), NEW t \in among,
         t \notin done.seen
  PROVE  Inside(p, among, done, t, Entered(done, t), 0)
<1> DEFINE v == Entered(done, t)
<1>1. v \in Visits(p) /\ v.seen = done.seen \cup {t} /\ v.order = done.order
  BY DEF UnderWay, Visits, Entered
<1> HIDE DEF v
<1>2. UnderWay(p, among, v)
  BY <1>1 DEF UnderWay
<1>3. Begun(v) = Begun(done) \cup {t}
  BY <1>1 DEF UnderWay, Begun
<1>4. Inside(p, among, done, t, v, 0)
  BY <1>1, <1>2, <1>3 DEF Inside
<1>5. QED
  BY <1>4 DEF v

LEMMA LeavesInside ==
  ASSUME NEW p, NEW among \in SUBSET (DOMAIN p), IsPlan(p), NEW done, NEW t \in among, t \notin done.seen,
         NEW v, Inside(p, among, done, t, v, Len(p[t].deps))
  PROVE  HasVisited(p, among, done, t, Listed(v, t))
<1> DEFINE after == Listed(v, t)
<1>1. v \in Visits(p) /\ v.order \in Seq(DOMAIN p) /\ UnderWay(p, among, v)
  BY DEF Inside, UnderWay, Visits
<1>2. after \in Visits(p) /\ after.seen = v.seen /\ after.order = Append(v.order, t)
  BY <1>1, ListedStays
<1> HIDE DEF after
<1>3. t \in v.seen /\ t \notin Range(v.order)
  BY DEF Inside, Begun
<1>4. Range(p[t].deps) \cap among \subseteq Range(v.order)
  <2>1. \A d \in Range(p[t].deps) : \E j \in 1 .. Len(p[t].deps) : d = p[t].deps[j]
    BY DEF IsPlan, Range
  <2>2. QED
    BY <2>1 DEF Inside
<1>5. Range(after.order) = Range(v.order) \cup {t} /\ InOrder(p, among, after.order)
  <2>1. InOrder(p, among, v.order)
    BY <1>1 DEF UnderWay
  <2>2. QED
    BY <1>1, <1>2, <1>3, <1>4, <2>1, AppendInOrder
<1>6. UnderWay(p, among, after)
  BY <1>1, <1>2, <1>3, <1>5 DEF UnderWay
<1>7. Begun(after) = Begun(done)
  BY <1>2, <1>3, <1>5 DEF Inside, Begun
<1>8. done.seen \subseteq after.seen /\ Range(done.order) \subseteq Range(after.order)
  BY <1>2, <1>5 DEF Inside
<1>9. HasVisited(p, among, done, t, after)
  BY <1>5, <1>6, <1>7, <1>8 DEF HasVisited
<1>10. QED
  BY <1>9 DEF after

LEMMA GoesOnInside ==
  ASSUME NEW p, NEW among, NEW rank, Ranked(p, among, rank), NEW n \in Nat, n # 0,
         NEW inner, Does(p, among, rank, n - 1, inner),
         NEW done, NEW t \in among, MayVisit(p, among, rank, n, done, t), t \notin done.seen,
         NEW k \in 1 .. Len(p[t].deps), NEW v, Inside(p, among, done, t, v, k - 1)
  PROVE  Inside(p, among, done, t, inner[<<v, p[t].deps[k]>>], k)
<1> DEFINE d == p[t].deps[k]
           after == inner[<<v, d>>]
<1>1. among \in SUBSET (DOMAIN p) /\ IsPlan(p) /\ t \in DOMAIN p
  BY DEF Ranked
<1>2. d \in DOMAIN p /\ d \in Range(p[t].deps) /\ Len(p[t].deps) \in Nat
  BY <1>1 DEF IsPlan, Range
<1>3. v \in Visits(p) /\ UnderWay(p, among, v)
  BY DEF Inside, UnderWay
<1>4. Cardinality(among \ v.seen) <= n - 1
  <2>1. done.seen \cup {t} \subseteq v.seen
    BY DEF Inside
  <2>2. Cardinality(among \ done.seen) <= n
    BY DEF MayVisit
  <2>3. QED
    BY <1>1, <2>1, <2>2, OneLess
<1> HIDE DEF d, after
<1>5. Begun(v) \subseteq among
  BY DEF Inside, MayVisit
<1>6. d \in among => \A g \in Begun(v) : rank[d] < rank[g]
  <2> SUFFICES ASSUME d \in among, NEW g \in Begun(v) PROVE rank[d] < rank[g]
    OBVIOUS
  <2>1. rank[d] < rank[t] /\ rank[d] \in Nat /\ rank[t] \in Nat
    BY <1>2 DEF Ranked
  <2>2. g \in among /\ rank[g] \in Nat
    BY <1>5 DEF Ranked
  <2>3. g = t \/ g \in Begun(done)
    BY DEF Inside
  <2>4. g \in Begun(done) => rank[t] < rank[g]
    BY DEF MayVisit
  <2>5. QED
    BY <2>1, <2>2, <2>3, <2>4
<1>7. MayVisit(p, among, rank, n - 1, v, d)
  BY <1>3, <1>4, <1>5, <1>6 DEF MayVisit
<1>8. HasVisited(p, among, v, d, after)
  BY <1>2, <1>3, <1>7 DEF Does, after
<1>9. UnderWay(p, among, after) /\ Begun(after) = Begun(done) \cup {t}
  BY <1>8 DEF HasVisited, Inside
<1>10. done.seen \cup {t} \subseteq after.seen /\ Range(done.order) \subseteq Range(after.order)
  BY <1>8 DEF HasVisited, Inside
<1>11. ASSUME NEW j \in 1 .. k, p[t].deps[j] \in among PROVE p[t].deps[j] \in Range(after.order)
  <2>1. j = k \/ j \in 1 .. k - 1
    BY <1>2
  <2>2. CASE j = k
    BY <1>8, <1>11, <2>2 DEF HasVisited, d
  <2>3. CASE j \in 1 .. k - 1
    <3>1. p[t].deps[j] \in Range(v.order)
      BY <1>11, <2>3 DEF Inside
    <3>2. QED
      BY <1>8, <3>1 DEF HasVisited
  <2>4. QED
    BY <2>1, <2>2, <2>3
<1>12. Inside(p, among, done, t, after, k)
  BY <1>9, <1>10, <1>11 DEF Inside
<1>13. QED
  BY <1>12 DEF after, d

(* What has been seen, and may be visited, is listed.                      *)
LEMMA SeenIsListed ==
  ASSUME NEW p, NEW among, NEW rank, Ranked(p, among, rank), NEW n, NEW done, NEW t,
         MayVisit(p, among, rank, n, done, t), t \in done.seen \/ t \notin among
  PROVE  HasVisited(p, among, done, t, done)
<1>1. t \in among => t \in Range(done.order)
  <2> SUFFICES ASSUME t \in among, t \notin Range(done.order) PROVE FALSE
    OBVIOUS
  <2>1. t \in Begun(done)
    BY DEF Begun
  <2>2. rank[t] < rank[t] /\ rank[t] \in Nat
    BY <2>1 DEF MayVisit, Ranked
  <2>3. QED
    BY <2>2
<1>2. QED
  BY <1>1 DEF MayVisit, HasVisited

LEMMA VisitStep ==
  ASSUME NEW p, NEW among, NEW rank, Ranked(p, among, rank), NEW n \in Nat, n # 0,
         NEW inner \in Calls(p), Does(p, among, rank, n - 1, inner)
  PROVE  Does(p, among, rank, n, Visit(p, among, inner))
<1>1. among \in SUBSET (DOMAIN p) /\ IsPlan(p)
  BY DEF Ranked
<1>2. ASSUME NEW done \in Visits(p), NEW t \in DOMAIN p, MayVisit(p, among, rank, n, done, t)
      PROVE  HasVisited(p, among, done, t, Visit(p, among, inner)[<<done, t>>])
  <2> DEFINE r == Visit(p, among, inner)[<<done, t>>]
             m == Len(p[t].deps)
  <2>1. CASE t \in done.seen \/ t \notin among
    <3>1. r = done
      BY <1>1, <2>1, VisitIs
    <3>2. HasVisited(p, among, done, t, done)
      BY <1>2, <2>1, SeenIsListed
    <3> HIDE DEF r
    <3>3. HasVisited(p, among, done, t, r)
      BY <3>1, <3>2
    <3>4. QED
      BY <3>3 DEF r
  <2>2. CASE t \notin done.seen /\ t \in among
    <3>1. \E below : Below(p, done, t, inner, below) /\ r = Listed(below[m], t)
      BY <1>1, <2>2, VisitIs
    <3>2. PICK below : Below(p, done, t, inner, below) /\ r = Listed(below[m], t)
      BY <3>1
    <3>3. BelowSays(p, done, t, inner, below)
      BY <1>1, <3>2, BelowIs
    <3>b. m \in Nat
      BY <1>1 DEF IsPlan
    <3>a. below[0] = Entered(done, t)
          /\ \A k \in 1 .. m : below[k] = inner[<<below[k - 1], p[t].deps[k]>>]
      BY <3>3 DEF BelowSays
    <3> DEFINE P == {k \in 0 .. m : Inside(p, among, done, t, below[k], k)}
    <3>4. Inside(p, among, done, t, below[0], 0)
      <4>1. UnderWay(p, among, done)
        BY <1>2 DEF MayVisit
      <4>2. QED
        BY <1>1, <2>2, <3>a, <4>1, EntersInside
    <3>5. ASSUME NEW k \in 1 .. m, k - 1 \in P PROVE k \in P
      <4>1. Inside(p, among, done, t, below[k - 1], k - 1)
        BY <3>5
      <4>2. Inside(p, among, done, t, inner[<<below[k - 1], p[t].deps[k]>>], k)
        BY <1>2, <2>2, <4>1, GoesOnInside
      <4>3. Inside(p, among, done, t, below[k], k) /\ k \in 0 .. m
        BY <3>b, <3>a, <4>2
      <4>4. QED
        BY <4>3
    <3>6. 0 \in P
      BY <3>b, <3>4
    <3>7. P \in SUBSET (0 .. m) /\ \A k \in P : Inside(p, among, done, t, below[k], k)
      OBVIOUS
    <3> HIDE DEF P, m, r
    <3>8. P = 0 .. m
      BY <3>b, <3>5, <3>6, <3>7, Induct
    <3>9. Inside(p, among, done, t, below[m], m)
      BY <3>b, <3>7, <3>8
    <3>10. HasVisited(p, among, done, t, Listed(below[m], t))
      BY <1>1, <2>2, <3>9, LeavesInside DEF m
    <3>11. HasVisited(p, among, done, t, r)
      BY <3>2, <3>10
    <3>12. QED
      BY <3>11 DEF r
  <2>3. QED
    BY <2>1, <2>2
<1>3. QED
  BY <1>2 DEF Does

(* The calls nested ever deeper. *)
NoVisit(p) == [v \in Visits(p) \X DOMAIN p |-> v[1]]

Nested(p, among, visit) ==
  visit = [n \in 0 .. Cardinality(DOMAIN p) |->
             IF n = 0 THEN NoVisit(p) ELSE Visit(p, among, visit[n - 1])]

LEMMA NoVisitIs ==
  ASSUME NEW p
  PROVE  /\ NoVisit(p) \in Calls(p)
         /\ \A done \in Visits(p), t \in DOMAIN p : NoVisit(p)[<<done, t>>] = done
<1>1. \A v \in Visits(p) \X DOMAIN p : NoVisit(p)[v] = v[1] /\ v[1] \in Visits(p)
  BY DEF NoVisit
<1>2. NoVisit(p) = [v \in Visits(p) \X DOMAIN p |-> v[1]]
  BY DEF NoVisit
<1>3. NoVisit(p) \in Calls(p)
  BY <1>1, <1>2 DEF Calls
<1>4. ASSUME NEW done \in Visits(p), NEW t \in DOMAIN p PROVE NoVisit(p)[<<done, t>>] = done
  <2>1. <<done, t>> \in Visits(p) \X DOMAIN p /\ <<done, t>>[1] = done
    OBVIOUS
  <2>2. QED
    BY <1>1, <2>1
<1>5. QED
  BY <1>3, <1>4

LEMMA NestedExists ==
  ASSUME NEW p, IsPlan(p), NEW among
  PROVE  \E visit : Nested(p, among, visit)
<1> DEFINE n == Cardinality(DOMAIN p)
           first == NoVisit(p)
           S == Calls(p)
           Allowed == [i \in 0 .. n |-> S]
           body == [x \in S \X (1 .. n) |-> Visit(p, among, x[1])]
<1>1. n \in Nat
  BY DEF IsPlan
<1>2. first \in S
  BY NoVisitIs
<1>3. ASSUME NEW x \in S PROVE Visit(p, among, x) \in S
  BY VisitStays
<1>4. \A i \in 0 .. n : Allowed[i] = S
  OBVIOUS
<1>5. \A i \in 1 .. n : \A x \in S : body[<<x, i>>] = Visit(p, among, x)
  OBVIOUS
<1>6. \A f : Nested(p, among, f) <=>
               f = [k \in 0 .. n |-> IF k = 0 THEN first ELSE Visit(p, among, f[k - 1])]
  BY DEF Nested
<1> HIDE DEF n, first, S, Allowed, body
<1>7. \A i \in 1 .. n : i \in 0 .. n /\ i - 1 \in 0 .. n
  BY <1>1
<1>8. \E f : Loop(f, n, first, body) /\ \A i \in 0 .. n : f[i] \in Allowed[i]
  <2>1. first \in Allowed[0]
    BY <1>1, <1>2, <1>4
  <2>2. ASSUME NEW i \in 1 .. n, NEW x \in Allowed[i - 1] PROVE body[<<x, i>>] \in Allowed[i]
    <3>1. x \in S /\ Allowed[i] = S
      BY <1>4, <1>7
    <3>2. body[<<x, i>>] = Visit(p, among, x)
      BY <1>5, <3>1
    <3>3. QED
      BY <1>3, <3>1, <3>2
  <2>3. QED
    BY <1>1, <2>1, <2>2, LoopRuns
<1>9. PICK f : Loop(f, n, first, body) /\ \A i \in 0 .. n : f[i] \in Allowed[i]
  BY <1>8
<1>10. f = [k \in 0 .. n |-> IF k = 0 THEN first ELSE Visit(p, among, f[k - 1])]
  <2>1. f = [i \in 0 .. n |-> IF i = 0 THEN first ELSE body[<<f[i - 1], i>>]]
    BY <1>9 DEF Loop
  <2>2. ASSUME NEW i \in 1 .. n PROVE body[<<f[i - 1], i>>] = Visit(p, among, f[i - 1])
    BY <1>4, <1>5, <1>7, <1>9
  <2>3. \A i \in 0 .. n : i = 0 \/ i \in 1 .. n
    BY <1>1
  <2>4. QED
    BY <2>1, <2>2, <2>3
<1>11. QED
  BY <1>6, <1>10

NestedSays(p, among, visit) ==
  /\ visit[0] = NoVisit(p)
  /\ \A n \in 1 .. Cardinality(DOMAIN p) : visit[n] = Visit(p, among, visit[n - 1])

LEMMA NestedIs ==
  ASSUME NEW p, IsPlan(p), NEW among, NEW visit, Nested(p, among, visit)
  PROVE  NestedSays(p, among, visit)
<1> DEFINE n == Cardinality(DOMAIN p)
           first == NoVisit(p)
<1>1. n \in Nat
  BY DEF IsPlan
<1>2. visit = [k \in 0 .. n |-> IF k = 0 THEN first ELSE Visit(p, among, visit[k - 1])]
  BY DEF Nested
<1>3. 0 \in 0 .. n /\ \A k \in 1 .. n : k \in 0 .. n /\ k # 0
  BY <1>1
<1> HIDE DEF n, first
<1>4. visit[0] = first
  BY <1>2, <1>3
<1>5. ASSUME NEW k \in 1 .. n PROVE visit[k] = Visit(p, among, visit[k - 1])
  BY <1>2, <1>3
<1>6. QED
  BY <1>4, <1>5 DEF n, first, NestedSays

LEMMA VisitWithinIs ==
  ASSUME NEW p, IsPlan(p), NEW among
  PROVE  \E visit : /\ Nested(p, among, visit)
                    /\ VisitWithin(p, among) = visit[Cardinality(DOMAIN p)]
<1> DEFINE visit == CHOOSE f : Nested(p, among, f)
<1>1. Nested(p, among, visit)
  BY NestedExists
<1>2. VisitWithin(p, among) = visit[Cardinality(DOMAIN p)]
  BY Zenon DEF VisitWithin, Nested, NoVisit
<1> HIDE DEF visit
<1>3. QED
  BY <1>1, <1>2

(* With nothing left to go, there is nothing a call has to do.             *)
LEMMA NoVisitDoes ==
  ASSUME NEW p, NEW among, NEW rank, Ranked(p, among, rank)
  PROVE  Does(p, among, rank, 0, NoVisit(p))
<1>1. ASSUME NEW done \in Visits(p), NEW t \in DOMAIN p, MayVisit(p, among, rank, 0, done, t)
      PROVE  HasVisited(p, among, done, t, NoVisit(p)[<<done, t>>])
  <2>1. t \in done.seen \/ t \notin among
    <3> SUFFICES ASSUME t \notin done.seen, t \in among PROVE FALSE
      OBVIOUS
    <3>1. Cardinality(among \ done.seen) <= 0 /\ IsPlan(p) /\ among \in SUBSET (DOMAIN p)
      BY <1>1 DEF MayVisit, Ranked
    <3>2. 0 # 0
      BY <3>1, OneLess, 0 \in Nat
    <3>3. QED
      BY <3>2
  <2>2. HasVisited(p, among, done, t, done)
    BY <1>1, <2>1, SeenIsListed
  <2>3. QED
    BY <2>2, NoVisitIs
<1>2. QED
  BY <1>1 DEF Does

LEMMA VisitWithinDoes ==
  ASSUME NEW p, NEW among, NEW rank, Ranked(p, among, rank)
  PROVE  /\ VisitWithin(p, among) \in Calls(p)
         /\ Does(p, among, rank, Cardinality(DOMAIN p), VisitWithin(p, among))
<1> DEFINE n == Cardinality(DOMAIN p)
<1>1. IsPlan(p)
  BY DEF Ranked
<1>2. n \in Nat
  BY <1>1 DEF IsPlan
<1>3. \E visit : Nested(p, among, visit) /\ VisitWithin(p, among) = visit[n]
  BY <1>1, VisitWithinIs
<1>4. PICK visit : Nested(p, among, visit) /\ VisitWithin(p, among) = visit[n]
  BY <1>3
<1>5. NestedSays(p, among, visit)
  BY <1>1, <1>4, NestedIs
<1>6. visit[0] = NoVisit(p) /\ \A k \in 1 .. n : visit[k] = Visit(p, among, visit[k - 1])
  BY <1>5 DEF NestedSays
<1> DEFINE P == {k \in 0 .. n : visit[k] \in Calls(p) /\ Does(p, among, rank, k, visit[k])}
<1>7. 0 \in P
  BY <1>2, <1>6, NoVisitIs, NoVisitDoes
<1>8. ASSUME NEW k \in 1 .. n, k - 1 \in P PROVE k \in P
  <2>1. visit[k - 1] \in Calls(p) /\ Does(p, among, rank, k - 1, visit[k - 1])
    BY <1>8
  <2>2. k \in Nat /\ k # 0 /\ k \in 0 .. n
    BY <1>2
  <2>3. Visit(p, among, visit[k - 1]) \in Calls(p)
    BY <1>1, <2>1, VisitStays
  <2>4. Does(p, among, rank, k, Visit(p, among, visit[k - 1]))
    BY <2>1, <2>2, VisitStep
  <2>5. visit[k] \in Calls(p) /\ Does(p, among, rank, k, visit[k])
    BY <1>6, <2>3, <2>4
  <2>6. QED
    BY <2>2, <2>5
<1>9. P \in SUBSET (0 .. n)
      /\ \A k \in P : visit[k] \in Calls(p) /\ Does(p, among, rank, k, visit[k])
  OBVIOUS
<1> HIDE DEF P, n
<1>10. P = 0 .. n
  BY <1>2, <1>7, <1>8, <1>9, Induct
<1>11. visit[n] \in Calls(p) /\ Does(p, among, rank, n, visit[n])
  BY <1>2, <1>9, <1>10
<1>12. VisitWithin(p, among) \in Calls(p) /\ Does(p, among, rank, n, VisitWithin(p, among))
  BY <1>4, <1>11
<1>13. QED
  BY <1>12 DEF n

(* The visits from each task in turn. *)
NothingSeen == [seen |-> {}, order |-> <<>>]

Touring(p, call, upTo) ==
  upTo = [n \in 0 .. Cardinality(DOMAIN p) |->
            IF n = 0 THEN NothingSeen ELSE call[<<upTo[n - 1], n - 1>>]]

TouringSays(p, call, upTo) ==
  /\ upTo[0] = NothingSeen
  /\ \A n \in 1 .. Cardinality(DOMAIN p) : upTo[n] = call[<<upTo[n - 1], n - 1>>]

LEMMA NothingSeenIs ==
  ASSUME NEW p, NEW among
  PROVE  /\ NothingSeen \in Visits(p) /\ UnderWay(p, among, NothingSeen)
         /\ NothingSeen.seen = {} /\ Begun(NothingSeen) = {}
<1>1. NothingSeen \in Visits(p) /\ NothingSeen.seen = {} /\ NothingSeen.order = <<>>
  BY DEF NothingSeen, Visits
<1>2. InOrder(p, among, NothingSeen.order) /\ Range(NothingSeen.order) = {}
  BY <1>1, NothingIsInOrder
<1>3. QED
  BY <1>1, <1>2 DEF UnderWay, Begun

LEMMA TouringExists ==
  ASSUME NEW p, IsPlan(p), NEW call \in Calls(p)
  PROVE  \E upTo : Touring(p, call, upTo)
<1> DEFINE n == Cardinality(DOMAIN p)
           S == Visits(p)
           first == NothingSeen
           Allowed == [i \in 0 .. n |-> S]
           body == [x \in S \X (1 .. n) |-> call[<<x[1], x[2] - 1>>]]
<1>1. n \in Nat
  BY DEF IsPlan
<1>2. first \in S
  BY NothingSeenIs
<1>3. ASSUME NEW x \in S, NEW i \in 1 .. n PROVE call[<<x, i - 1>>] \in S
  <2>1. DOMAIN p = 0 .. n - 1
    BY DEF IsPlan
  <2>2. i - 1 \in DOMAIN p
    BY <1>1, <2>1
  <2>3. QED
    BY <2>2 DEF Calls
<1>4. \A i \in 0 .. n : Allowed[i] = S
  OBVIOUS
<1>5. \A i \in 1 .. n : \A x \in S : body[<<x, i>>] = call[<<x, i - 1>>]
  OBVIOUS
<1>6. \A f : Touring(p, call, f) <=>
               f = [k \in 0 .. n |-> IF k = 0 THEN first ELSE call[<<f[k - 1], k - 1>>]]
  BY DEF Touring
<1> HIDE DEF n, first, S, Allowed, body
<1>7. \A i \in 1 .. n : i \in 0 .. n /\ i - 1 \in 0 .. n
  BY <1>1
<1>8. \E f : Loop(f, n, first, body) /\ \A i \in 0 .. n : f[i] \in Allowed[i]
  <2>1. first \in Allowed[0]
    BY <1>1, <1>2, <1>4
  <2>2. ASSUME NEW i \in 1 .. n, NEW x \in Allowed[i - 1] PROVE body[<<x, i>>] \in Allowed[i]
    <3>1. x \in S /\ Allowed[i] = S
      BY <1>4, <1>7
    <3>2. body[<<x, i>>] = call[<<x, i - 1>>]
      BY <1>5, <3>1
    <3>3. QED
      BY <1>3, <3>1, <3>2
  <2>3. QED
    BY <1>1, <2>1, <2>2, LoopRuns
<1>9. PICK f : Loop(f, n, first, body) /\ \A i \in 0 .. n : f[i] \in Allowed[i]
  BY <1>8
<1>10. f = [k \in 0 .. n |-> IF k = 0 THEN first ELSE call[<<f[k - 1], k - 1>>]]
  <2>1. f = [i \in 0 .. n |-> IF i = 0 THEN first ELSE body[<<f[i - 1], i>>]]
    BY <1>9 DEF Loop
  <2>2. ASSUME NEW i \in 1 .. n PROVE body[<<f[i - 1], i>>] = call[<<f[i - 1], i - 1>>]
    BY <1>4, <1>5, <1>7, <1>9
  <2>3. \A i \in 0 .. n : i = 0 \/ i \in 1 .. n
    BY <1>1
  <2>4. QED
    BY <2>1, <2>2, <2>3
<1>11. QED
  BY <1>6, <1>10

LEMMA TouringIs ==
  ASSUME NEW p, IsPlan(p), NEW call, NEW upTo, Touring(p, call, upTo)
  PROVE  TouringSays(p, call, upTo)
<1> DEFINE n == Cardinality(DOMAIN p)
           first == NothingSeen
<1>1. n \in Nat
  BY DEF IsPlan
<1>2. upTo = [k \in 0 .. n |-> IF k = 0 THEN first ELSE call[<<upTo[k - 1], k - 1>>]]
  BY DEF Touring
<1>3. 0 \in 0 .. n /\ \A k \in 1 .. n : k \in 0 .. n /\ k # 0
  BY <1>1
<1> HIDE DEF n, first
<1>4. upTo[0] = first
  BY <1>2, <1>3
<1>5. ASSUME NEW k \in 1 .. n PROVE upTo[k] = call[<<upTo[k - 1], k - 1>>]
  BY <1>2, <1>3
<1>6. QED
  BY <1>4, <1>5 DEF n, first, TouringSays

(* Once the visits from the first k tasks are over. *)
Toured(p, among, v, k) ==
  /\ UnderWay(p, among, v) /\ Begun(v) = {}
  /\ \A t \in DOMAIN p : t < k /\ t \in among => t \in Range(v.order)

LEMMA TourGoesOn ==
  ASSUME NEW p, NEW among, NEW rank, Ranked(p, among, rank),
         NEW call, Does(p, among, rank, Cardinality(DOMAIN p), call),
         NEW k \in 1 .. Cardinality(DOMAIN p), NEW v, Toured(p, among, v, k - 1)
  PROVE  Toured(p, among, call[<<v, k - 1>>], k)
<1> DEFINE n == Cardinality(DOMAIN p)
           t == k - 1
           after == call[<<v, t>>]
<1>1. IsPlan(p) /\ among \in SUBSET (DOMAIN p) /\ n \in Nat /\ DOMAIN p = 0 .. n - 1
  BY DEF Ranked, IsPlan
<1>2. t \in DOMAIN p /\ v \in Visits(p)
  BY <1>1 DEF Toured, UnderWay
<1>3. Cardinality(among \ v.seen) <= n
  <2>1. IsFiniteSet(DOMAIN p) /\ among \ v.seen \subseteq DOMAIN p
    BY <1>1, PlanIsFinite
  <2>2. QED
    BY <2>1, FS_Subset
<1>4. MayVisit(p, among, rank, n, v, t)
  BY <1>3 DEF MayVisit, Toured
<1>5. HasVisited(p, among, v, t, after)
  BY <1>2, <1>4 DEF Does
<1>6. ASSUME NEW u \in DOMAIN p, u < k, u \in among PROVE u \in Range(after.order)
  <2>1. u = t \/ u < k - 1
    BY <1>1, <1>6
  <2>2. CASE u = t
    BY <1>5, <1>6, <2>2 DEF HasVisited
  <2>3. CASE u < k - 1
    <3>1. u \in Range(v.order)
      BY <1>6, <2>3 DEF Toured
    <3>2. Range(v.order) \subseteq Range(after.order)
      BY <1>5 DEF HasVisited
    <3>3. QED
      BY <3>1, <3>2
  <2>4. QED
    BY <2>1, <2>2, <2>3
<1>7. UnderWay(p, among, after) /\ Begun(after) = {}
  BY <1>5 DEF HasVisited, Toured
<1> HIDE DEF after, t
<1>8. Toured(p, among, after, k)
  BY <1>6, <1>7 DEF Toured
<1>9. QED
  BY <1>8 DEF after, t

LEMMA VisitedIs ==
  ASSUME NEW p, IsPlan(p), NEW among, VisitWithin(p, among) \in Calls(p)
  PROVE  \E upTo : /\ Touring(p, VisitWithin(p, among), upTo)
                   /\ Visited(p, among) = upTo[Cardinality(DOMAIN p)].order
<1> DEFINE upTo == CHOOSE f : Touring(p, VisitWithin(p, among), f)
<1>1. Touring(p, VisitWithin(p, among), upTo)
  BY TouringExists
<1>2. Visited(p, among) = upTo[Cardinality(DOMAIN p)].order
  BY Zenon DEF Visited, Touring, NothingSeen
<1> HIDE DEF upTo
<1>3. QED
  BY <1>1, <1>2

(* All that is asked for, each once, nothing before what it depends on.    *)
LEMMA VisitedListsAll ==
  ASSUME NEW p, NEW among, NEW rank, Ranked(p, among, rank)
  PROVE  /\ Visited(p, among) \in Seq(DOMAIN p) /\ Range(Visited(p, among)) = among
         /\ InOrder(p, among, Visited(p, among))
<1> DEFINE n == Cardinality(DOMAIN p)
           call == VisitWithin(p, among)
           list == Visited(p, among)
<1>1. IsPlan(p) /\ n \in Nat /\ DOMAIN p = 0 .. n - 1 /\ among \subseteq DOMAIN p
  BY DEF Ranked, IsPlan
<1>2. call \in Calls(p) /\ Does(p, among, rank, n, call)
  BY VisitWithinDoes
<1>3. \E upTo : Touring(p, call, upTo) /\ list = upTo[n].order
  BY <1>1, <1>2, VisitedIs
<1>4. PICK upTo : Touring(p, call, upTo) /\ list = upTo[n].order
  BY <1>3
<1>5. TouringSays(p, call, upTo)
  BY <1>1, <1>4, TouringIs
<1>6. upTo[0] = NothingSeen /\ \A k \in 1 .. n : upTo[k] = call[<<upTo[k - 1], k - 1>>]
  BY <1>5 DEF TouringSays
<1> DEFINE P == {k \in 0 .. n : Toured(p, among, upTo[k], k)}
<1> HIDE DEF list, call
<1>7. 0 \in P
  <2>1. \A t \in DOMAIN p : ~(t < 0)
    BY <1>1
  <2>2. Toured(p, among, NothingSeen, 0)
    BY <2>1, NothingSeenIs DEF Toured
  <2>3. QED
    BY <1>1, <1>6, <2>2
<1>8. ASSUME NEW k \in 1 .. n, k - 1 \in P PROVE k \in P
  <2>1. Toured(p, among, upTo[k - 1], k - 1)
    BY <1>8
  <2>2. Toured(p, among, call[<<upTo[k - 1], k - 1>>], k)
    BY <1>2, <2>1, TourGoesOn
  <2>3. k \in 0 .. n /\ Toured(p, among, upTo[k], k)
    BY <1>1, <1>6, <2>2
  <2>4. QED
    BY <2>3
<1>9. P \in SUBSET (0 .. n) /\ \A k \in P : Toured(p, among, upTo[k], k)
  OBVIOUS
<1> HIDE DEF P, n
<1>10. P = 0 .. n
  BY <1>1, <1>7, <1>8, <1>9, Induct
<1>11. Toured(p, among, upTo[n], n)
  BY <1>1, <1>9, <1>10
<1> DEFINE v == upTo[n]
<1>12. v \in Visits(p) /\ Range(v.order) \subseteq among /\ InOrder(p, among, v.order)
  BY <1>11 DEF Toured, UnderWay
<1>13. among \subseteq Range(v.order)
  <2>1. \A t \in DOMAIN p : t < n
    BY <1>1
  <2>2. QED
    BY <1>1, <1>11, <2>1 DEF Toured
<1>14. list = v.order /\ v.order \in Seq(DOMAIN p)
  BY <1>4, <1>12 DEF Visits
<1> HIDE DEF v
<1>15. list \in Seq(DOMAIN p) /\ Range(list) = among /\ InOrder(p, among, list)
  BY <1>12, <1>13, <1>14
<1>16. QED
  BY <1>15 DEF list

(* Leaving some out of a list. *)
Leaving(list, omitted, upTo) ==
  upTo = [n \in 0 .. Len(list) |->
            IF n = 0 THEN <<>>
            ELSE IF list[n] \in omitted THEN upTo[n - 1] ELSE Append(upTo[n - 1], list[n])]

Left(list, omitted, s, k) == IF list[k] \in omitted THEN s ELSE Append(s, list[k])

NothingListed == <<>>

LEMMA LeavingExists ==
  ASSUME NEW S, NEW list \in Seq(S), NEW omitted
  PROVE  \E upTo : Leaving(list, omitted, upTo)
<1> DEFINE n == Len(list)
           T == Seq(S)
           first == NothingListed
           Allowed == [i \in 0 .. n |-> T]
           body == [x \in T \X (1 .. n) |-> Left(list, omitted, x[1], x[2])]
<1>1. n \in Nat /\ \A k \in 1 .. n : list[k] \in S
  OBVIOUS
<1>2. first \in T
  BY DEF NothingListed
<1>3. ASSUME NEW x \in T, NEW i \in 1 .. n PROVE Left(list, omitted, x, i) \in T
  BY <1>1 DEF Left
<1>4. \A i \in 0 .. n : Allowed[i] = T
  OBVIOUS
<1>5. \A i \in 1 .. n : \A x \in T : body[<<x, i>>] = Left(list, omitted, x, i)
  OBVIOUS
<1>6. \A f : Leaving(list, omitted, f) <=>
               f = [k \in 0 .. n |-> IF k = 0 THEN first ELSE Left(list, omitted, f[k - 1], k)]
  BY Zenon DEF Leaving, Left, NothingListed
<1> HIDE DEF n, first, T, Allowed, body
<1>7. \A i \in 1 .. n : i \in 0 .. n /\ i - 1 \in 0 .. n
  BY <1>1
<1>8. \E f : Loop(f, n, first, body) /\ \A i \in 0 .. n : f[i] \in Allowed[i]
  <2>1. first \in Allowed[0]
    BY <1>1, <1>2, <1>4
  <2>2. ASSUME NEW i \in 1 .. n, NEW x \in Allowed[i - 1] PROVE body[<<x, i>>] \in Allowed[i]
    <3>1. x \in T /\ Allowed[i] = T
      BY <1>4, <1>7
    <3>2. body[<<x, i>>] = Left(list, omitted, x, i)
      BY <1>5, <3>1
    <3>3. QED
      BY <1>3, <3>1, <3>2
  <2>3. QED
    BY <1>1, <2>1, <2>2, LoopRuns
<1>9. PICK f : Loop(f, n, first, body) /\ \A i \in 0 .. n : f[i] \in Allowed[i]
  BY <1>8
<1>10. f = [k \in 0 .. n |-> IF k = 0 THEN first ELSE Left(list, omitted, f[k - 1], k)]
  <2>1. f = [i \in 0 .. n |-> IF i = 0 THEN first ELSE body[<<f[i - 1], i>>]]
    BY <1>9 DEF Loop
  <2>2. ASSUME NEW i \in 1 .. n PROVE body[<<f[i - 1], i>>] = Left(list, omitted, f[i - 1], i)
    BY <1>4, <1>5, <1>7, <1>9
  <2>3. \A i \in 0 .. n : i = 0 \/ i \in 1 .. n
    BY <1>1
  <2>4. QED
    BY <2>1, <2>2, <2>3
<1>11. QED
  BY <1>6, <1>10

LeavingSays(list, omitted, upTo) ==
  /\ upTo[0] = NothingListed
  /\ \A k \in 1 .. Len(list) : upTo[k] = Left(list, omitted, upTo[k - 1], k)

LEMMA LeavingIs ==
  ASSUME NEW S, NEW list \in Seq(S), NEW omitted, NEW upTo, Leaving(list, omitted, upTo)
  PROVE  LeavingSays(list, omitted, upTo)
<1> DEFINE n == Len(list)
           first == NothingListed
<1>1. n \in Nat
  OBVIOUS
<1>2. upTo = [k \in 0 .. n |-> IF k = 0 THEN first ELSE Left(list, omitted, upTo[k - 1], k)]
  BY Zenon DEF Leaving, Left, NothingListed
<1>3. 0 \in 0 .. n /\ \A k \in 1 .. n : k \in 0 .. n /\ k # 0
  BY <1>1
<1> HIDE DEF n, first
<1>4. upTo[0] = first
  BY <1>2, <1>3
<1>5. ASSUME NEW k \in 1 .. n PROVE upTo[k] = Left(list, omitted, upTo[k - 1], k)
  BY <1>2, <1>3
<1>6. QED
  BY <1>4, <1>5 DEF n, first, LeavingSays

LEMMA WithoutIs ==
  ASSUME NEW S, NEW list \in Seq(S), NEW omitted
  PROVE  \E upTo : Leaving(list, omitted, upTo) /\ Without(list, omitted) = upTo[Len(list)]
<1> DEFINE upTo == CHOOSE f : Leaving(list, omitted, f)
<1>1. Leaving(list, omitted, upTo)
  BY LeavingExists
<1>2. Without(list, omitted) = upTo[Len(list)]
  BY Zenon DEF Without, Leaving
<1> HIDE DEF upTo
<1>3. QED
  BY <1>1, <1>2

(* What is left of the first k, still in order.                            *)
LeftOf(p, among, list, omitted, s, k) ==
  /\ s \in Seq(DOMAIN p) /\ InOrder(p, among \ omitted, s)
  /\ Range(s) = {list[i] : i \in 1 .. k} \ omitted

LEMMA LeavingGoesOn ==
  ASSUME NEW p, NEW among, NEW list \in Seq(DOMAIN p), InOrder(p, among, list), NEW omitted,
         NEW k \in 1 .. Len(list), NEW s, LeftOf(p, among, list, omitted, s, k - 1)
  PROVE  LeftOf(p, among, list, omitted, Left(list, omitted, s, k), k)
<1> DEFINE x == list[k]
           before == {list[i] : i \in 1 .. k - 1}
           upto == {list[i] : i \in 1 .. k}
           n == Len(list)
<1>1. n \in Nat /\ k \in 1 .. n /\ DOMAIN list = 1 .. n /\ x \in DOMAIN p
  OBVIOUS
<1>2. upto = before \cup {x}
  <2> HIDE DEF n
  <2>1. \A i \in 1 .. k : i = k \/ i \in 1 .. k - 1
    BY <1>1
  <2>2. \A i \in 1 .. k - 1 : i \in 1 .. k
    BY <1>1
  <2>3. k \in 1 .. k
    BY <1>1
  <2>4. QED
    BY <2>1, <2>2, <2>3
<1>3. s \in Seq(DOMAIN p) /\ InOrder(p, among \ omitted, s) /\ Range(s) = before \ omitted
  BY DEF LeftOf
<1>4. x \notin before
  <2> HIDE DEF n, x
  <2>1. ASSUME NEW i \in 1 .. k - 1, list[i] = list[k] PROVE FALSE
    <3>1. i \in 1 .. n /\ i # k
      BY <1>1
    <3>2. i = k
      BY <1>1, <2>1, <3>1 DEF InOrder
    <3>3. QED
      BY <3>1, <3>2
  <2>2. QED
    BY <2>1 DEF x
<1>5. Range(p[x].deps) \cap among \subseteq before
  <2> HIDE DEF n
  <2>1. ASSUME NEW d \in Range(p[x].deps) \cap among PROVE d \in before
    <3>1. PICK j \in 1 .. n : j < k /\ list[j] = d
      BY <1>1, <2>1 DEF InOrder
    <3>2. j \in 1 .. k - 1
      BY <1>1, <3>1
    <3>3. QED
      BY <3>1, <3>2
  <2>2. QED
    BY <2>1
<1> HIDE DEF x, before, upto
<1>6. CASE x \in omitted
  <2>1. Left(list, omitted, s, k) = s
    BY <1>6 DEF Left, x
  <2>2. Range(s) = upto \ omitted
    BY <1>2, <1>3, <1>6
  <2>3. LeftOf(p, among, list, omitted, s, k)
    BY <1>3, <2>2 DEF LeftOf, upto
  <2>4. QED
    BY <2>1, <2>3
<1>7. CASE x \notin omitted
  <2> DEFINE longer == Append(s, x)
  <2>1. Left(list, omitted, s, k) = longer
    BY <1>7 DEF Left, x
  <2>2. x \notin Range(s) /\ Range(p[x].deps) \cap (among \ omitted) \subseteq Range(s)
    BY <1>3, <1>4, <1>5
  <2>3. /\ longer \in Seq(DOMAIN p) /\ Range(longer) = Range(s) \cup {x}
        /\ InOrder(p, among \ omitted, longer)
    BY <1>1, <1>3, <2>2, AppendInOrder
  <2> HIDE DEF longer
  <2>4. Range(longer) = upto \ omitted
    BY <1>2, <1>3, <1>7, <2>3
  <2>5. LeftOf(p, among, list, omitted, longer, k)
    BY <2>3, <2>4 DEF LeftOf, upto
  <2>6. QED
    BY <2>1, <2>5
<1>8. QED
  BY <1>6, <1>7

LEMMA WithoutKeepsOrder ==
  ASSUME NEW p, NEW among, NEW list \in Seq(DOMAIN p), InOrder(p, among, list), NEW omitted
  PROVE  /\ Without(list, omitted) \in Seq(DOMAIN p)
         /\ Range(Without(list, omitted)) = Range(list) \ omitted
         /\ InOrder(p, among \ omitted, Without(list, omitted))
<1> DEFINE n == Len(list)
           rest == Without(list, omitted)
<1>1. n \in Nat /\ DOMAIN list = 1 .. n
  OBVIOUS
<1>2. \E upTo : Leaving(list, omitted, upTo) /\ rest = upTo[n]
  BY WithoutIs
<1>3. PICK upTo : Leaving(list, omitted, upTo) /\ rest = upTo[n]
  BY <1>2
<1>4. LeavingSays(list, omitted, upTo)
  BY <1>3, LeavingIs
<1>5. upTo[0] = NothingListed /\ \A k \in 1 .. n : upTo[k] = Left(list, omitted, upTo[k - 1], k)
  BY <1>4 DEF LeavingSays
<1> DEFINE P == {k \in 0 .. n : LeftOf(p, among, list, omitted, upTo[k], k)}
<1> HIDE DEF rest
<1>6. 0 \in P
  <2>1. {list[i] : i \in 1 .. 0} = {}
    OBVIOUS
  <2>2. NothingListed \in Seq(DOMAIN p) /\ InOrder(p, among \ omitted, NothingListed)
        /\ Range(NothingListed) = {}
    BY NothingIsInOrder DEF NothingListed
  <2> DEFINE none == {list[i] : i \in 1 .. 0}
  <2>a. none = {}
    BY <2>1
  <2> HIDE DEF none
  <2>b. Range(NothingListed) = none \ omitted
    BY <2>2, <2>a
  <2>3. LeftOf(p, among, list, omitted, NothingListed, 0)
    BY <2>2, <2>b DEF LeftOf, none
  <2>4. QED
    BY <1>1, <1>5, <2>3
<1>7. ASSUME NEW k \in 1 .. n, k - 1 \in P PROVE k \in P
  <2>1. LeftOf(p, among, list, omitted, upTo[k - 1], k - 1)
    BY <1>7
  <2>2. LeftOf(p, among, list, omitted, Left(list, omitted, upTo[k - 1], k), k)
    BY <2>1, LeavingGoesOn
  <2>3. k \in 0 .. n /\ LeftOf(p, among, list, omitted, upTo[k], k)
    BY <1>1, <1>5, <2>2
  <2>4. QED
    BY <2>3
<1>8. P \in SUBSET (0 .. n) /\ \A k \in P : LeftOf(p, among, list, omitted, upTo[k], k)
  OBVIOUS
<1> HIDE DEF P
<1>9. P = 0 .. n
  BY <1>1, <1>6, <1>7, <1>8, Induct
<1>10. LeftOf(p, among, list, omitted, upTo[n], n)
  BY <1>1, <1>8, <1>9
<1>11. LeftOf(p, among, list, omitted, rest, n)
  BY <1>3, <1>10
<1>12. {list[i] : i \in 1 .. n} = Range(list)
  BY <1>1 DEF Range
<1>13. Range(rest) = Range(list) \ omitted /\ rest \in Seq(DOMAIN p)
       /\ InOrder(p, among \ omitted, rest)
  <2> HIDE DEF n
  <2>1. QED
    BY <1>11, <1>12 DEF LeftOf
<1>14. QED
  BY <1>13 DEF rest

(* What the answer is made of, when the completed tasks have ranks.        *)
LEMMA CollectedIs ==
  ASSUME NEW p, NEW status, NEW rank, Ranked(p, Completed(p, status), rank)
  PROVE  LET list == CollectResults(p, status)
             rest == Completed(p, status) \ RollupsToOmit(p, status)
         IN list \in Seq(DOMAIN p) /\ Range(list) = rest /\ InOrder(p, rest, list)
<1> DEFINE among == Completed(p, status)
           omitted == RollupsToOmit(p, status)
           all == Visited(p, among)
           list == Without(all, omitted)
<1>1. all \in Seq(DOMAIN p) /\ Range(all) = among /\ InOrder(p, among, all)
  BY VisitedListsAll
<1>2. CollectResults(p, status) = list
  BY DEF CollectResults
<1> HIDE DEF among, omitted, all
<1>a. all \in Seq(DOMAIN p) /\ InOrder(p, among, all)
  BY <1>1
<1>3. /\ Without(all, omitted) \in Seq(DOMAIN p)
      /\ Range(Without(all, omitted)) = Range(all) \ omitted
      /\ InOrder(p, among \ omitted, Without(all, omitted))
  BY <1>a, WithoutKeepsOrder, Zenon
<1> HIDE DEF list
<1>4. list \in Seq(DOMAIN p) /\ Range(list) = among \ omitted /\ InOrder(p, among \ omitted, list)
  BY <1>1, <1>3 DEF list
<1>5. QED
  BY <1>2, <1>4 DEF among, omitted

(* Standing for a subtask whose subtasks all stand, or were done again.    *)
StandsOn(p, status, below) ==
  {u \in DOMAIN p :
     /\ ChildrenOf(p, u) # {}
     /\ \A c \in ChildrenOf(p, u) : \E d \in ChildrenOf(p, u) \cap below :
          p[d].words = p[c].words /\ status[d] = "completed"}

Standing(p, status, listed, stand) ==
  stand = [n \in 0 .. Cardinality(DOMAIN p) |->
             listed \cup IF n = 0 THEN {} ELSE StandsOn(p, status, stand[n - 1])]

StandingSays(p, status, listed, stand) ==
  /\ stand[0] = listed
  /\ \A n \in 1 .. Cardinality(DOMAIN p) :
       stand[n] = listed \cup StandsOn(p, status, stand[n - 1])

LEMMA StandingIs ==
  ASSUME NEW p, IsPlan(p), NEW status, NEW listed, NEW stand, Standing(p, status, listed, stand)
  PROVE  StandingSays(p, status, listed, stand)
<1> DEFINE n == Cardinality(DOMAIN p)
           On(x) == StandsOn(p, status, x)
<1>1. n \in Nat
  BY DEF IsPlan
<1>2. stand = [k \in 0 .. n |-> listed \cup IF k = 0 THEN {} ELSE On(stand[k - 1])]
  BY DEF Standing
<1>3. 0 \in 0 .. n /\ \A k \in 1 .. n : k \in 0 .. n /\ k # 0
  BY <1>1
<1> HIDE DEF n, On
<1>4. stand[0] = listed
  BY <1>2, <1>3
<1>5. ASSUME NEW k \in 1 .. n PROVE stand[k] = listed \cup On(stand[k - 1])
  BY <1>2, <1>3
<1>6. QED
  BY <1>4, <1>5 DEF n, On, StandingSays

LEMMA StandingExists ==
  ASSUME NEW p, IsPlan(p), NEW status, NEW listed
  PROVE  \E stand : Standing(p, status, listed, stand)
<1> DEFINE n == Cardinality(DOMAIN p)
           S == SUBSET (listed \cup DOMAIN p)
           On(x) == listed \cup StandsOn(p, status, x)
           Allowed == [i \in 0 .. n |-> S]
           body == [x \in S \X (1 .. n) |-> On(x[1])]
<1>1. n \in Nat
  BY DEF IsPlan
<1>2. listed \in S
  OBVIOUS
<1>3. ASSUME NEW x PROVE On(x) \in S
  BY DEF StandsOn
<1>4. \A i \in 0 .. n : Allowed[i] = S
  OBVIOUS
<1>5. \A i \in 1 .. n : \A x \in S : body[<<x, i>>] = On(x)
  OBVIOUS
<1>6. \A f : Standing(p, status, listed, f) <=>
               f = [k \in 0 .. n |-> IF k = 0 THEN listed ELSE On(f[k - 1])]
  <2>1. ASSUME NEW f
        PROVE  [k \in 0 .. n |-> IF k = 0 THEN listed ELSE On(f[k - 1])]
               = [k \in 0 .. n |-> listed \cup IF k = 0 THEN {} ELSE StandsOn(p, status, f[k - 1])]
    OBVIOUS
  <2>2. QED
    BY <2>1 DEF Standing
<1> HIDE DEF n, S, Allowed, body, On
<1>7. \A i \in 1 .. n : i \in 0 .. n /\ i - 1 \in 0 .. n
  BY <1>1
<1>8. \E f : Loop(f, n, listed, body) /\ \A i \in 0 .. n : f[i] \in Allowed[i]
  <2>1. listed \in Allowed[0]
    BY <1>1, <1>2, <1>4
  <2>2. ASSUME NEW i \in 1 .. n, NEW x \in Allowed[i - 1] PROVE body[<<x, i>>] \in Allowed[i]
    <3>1. x \in S /\ Allowed[i] = S
      BY <1>4, <1>7
    <3>2. body[<<x, i>>] = On(x)
      BY <1>5, <3>1
    <3>3. QED
      BY <1>3, <3>1, <3>2
  <2>3. QED
    BY <1>1, <2>1, <2>2, LoopRuns
<1>9. PICK f : Loop(f, n, listed, body) /\ \A i \in 0 .. n : f[i] \in Allowed[i]
  BY <1>8
<1>10. f = [k \in 0 .. n |-> IF k = 0 THEN listed ELSE On(f[k - 1])]
  <2>1. f = [i \in 0 .. n |-> IF i = 0 THEN listed ELSE body[<<f[i - 1], i>>]]
    BY <1>9 DEF Loop
  <2>2. ASSUME NEW i \in 1 .. n PROVE body[<<f[i - 1], i>>] = On(f[i - 1])
    BY <1>4, <1>5, <1>7, <1>9
  <2>3. \A i \in 0 .. n : i = 0 \/ i \in 1 .. n
    BY <1>1
  <2>4. QED
    BY <2>1, <2>2, <2>3
<1>11. QED
  BY <1>6, <1>10

DoneAgain(p, status, c, t) ==
  /\ status[c] = "failed"
  /\ p[c].words \in WordsOf(p, ChildrenOf(p, t) \cap Completed(p, status))

(* Tasks are numbered after their parents: from the last one down, each    *)
(* completed one stands.                                                   *)
LEMMA CompletedStand ==
  ASSUME NEW p, IsPlan(p), NEW status, NEW listed,
         listed = Completed(p, status) \ RollupsToOmit(p, status),
         NEW stand, Standing(p, status, listed, stand)
  PROVE  Completed(p, status) \subseteq stand[Cardinality(DOMAIN p)]
<1> DEFINE n == Cardinality(DOMAIN p)
           done == Completed(p, status)
           P == {k \in 0 .. n : \A u \in done : u >= n - k => u \in stand[k]}
<1>1. n \in Nat /\ DOMAIN p = 0 .. n - 1 /\ \A c \in DOMAIN p : p[c].parent \in Int /\ p[c].parent < c
  BY DEF IsPlan
<1>2. done \subseteq DOMAIN p
  BY DEF Completed
<1>3. StandingSays(p, status, listed, stand)
  BY StandingIs
<1>4. stand[0] = listed /\ \A k \in 1 .. n : stand[k] = listed \cup StandsOn(p, status, stand[k - 1])
  BY <1>3 DEF StandingSays
<1>5. 0 \in P
  <2>1. \A u \in done : ~(u >= n - 0)
    BY <1>1, <1>2
  <2>2. QED
    BY <1>1, <2>1
<1> HIDE DEF n
<1>6. ASSUME NEW k \in 1 .. n, k - 1 \in P PROVE k \in P
  <2> DEFINE below == stand[k - 1]
  <2>1. \A u \in done : u >= n - (k - 1) => u \in below
    BY <1>6
  <2>2. stand[k] = listed \cup StandsOn(p, status, below) /\ k \in 0 .. n /\ k \in Nat
    BY <1>1, <1>4
  <2> HIDE DEF below
  <2>3. ASSUME NEW u \in done, u >= n - k PROVE u \in stand[k]
    <3>1. CASE u \notin RollupsToOmit(p, status)
      BY <2>2, <3>1
    <3>2. CASE u \in RollupsToOmit(p, status)
      <4> DEFINE kids == ChildrenOf(p, u)
      <4>1. u \in DOMAIN p /\ u \in Nat
        BY <1>1, <1>2
      <4>2. kids # {} /\ \A c \in kids : c \in done \/ DoneAgain(p, status, c, u)
        BY <3>2 DEF RollupsToOmit, DoneAgain
      <4>3. ASSUME NEW d \in kids \cap done PROVE d \in below
        <5>1. d \in Nat /\ u < d
          BY <1>1, <1>2 DEF ChildrenOf
        <5>2. d >= n - (k - 1)
          BY <1>1, <2>2, <2>3, <4>1, <5>1
        <5>3. QED
          BY <2>1, <5>2
      <4>4. ASSUME NEW c \in kids
            PROVE  \E d \in kids \cap below : p[d].words = p[c].words /\ status[d] = "completed"
        <5>1. \A d \in done : status[d] = "completed"
          BY DEF Completed
        <5>2. \E d \in kids \cap done : p[d].words = p[c].words
          BY <4>2 DEF DoneAgain, WordsOf
        <5>3. QED
          BY <4>3, <5>1, <5>2
      <4>5. u \in StandsOn(p, status, below)
        BY <4>1, <4>2, <4>4 DEF StandsOn
      <4>6. QED
        BY <2>2, <4>5
    <3>3. QED
      BY <3>1, <3>2
  <2>4. QED
    BY <2>2, <2>3
<1>7. P \in SUBSET (0 .. n) /\ \A k \in P : \A u \in done : u >= n - k => u \in stand[k]
  OBVIOUS
<1> HIDE DEF P, done
<1>8. P = 0 .. n
  BY <1>1, <1>5, <1>6, <1>7, Induct
<1>9. \A u \in done : u >= n - n => u \in stand[n]
  BY <1>1, <1>7, <1>8
<1>10. \A u \in done : u >= n - n
  BY <1>1, <1>2
<1>11. QED
  BY <1>9, <1>10 DEF done, n

(* The results block *)

WithEntry(p, material, ended, k) ==
  ended + p[material[k]].size + IF k = 1 THEN 0 ELSE 2

Ending(p, material, upTo) ==
  upTo = [k \in 0 .. Len(material) |->
            IF k = 0 THEN 0 ELSE WithEntry(p, material, upTo[k - 1], k)]

LEMMA EndingExists ==
  ASSUME NEW p, IsPlan(p), NEW material \in Seq(DOMAIN p)
  PROVE  \E upTo : Ending(p, material, upTo)
<1> DEFINE n == Len(material)
           first == 0
           Allowed == [i \in 0 .. n |-> Nat]
           body == [x \in Nat \X (1 .. n) |-> WithEntry(p, material, x[1], x[2])]
<1>1. n \in Nat /\ \A k \in 1 .. n : p[material[k]].size \in Nat
  BY DEF IsPlan
<1>2. \A i \in 0 .. n : Allowed[i] = Nat
  OBVIOUS
<1>3. \A i \in 1 .. n : \A x \in Nat : body[<<x, i>>] = WithEntry(p, material, x, i)
  OBVIOUS
<1>4. \A f : Ending(p, material, f) <=>
               f = [k \in 0 .. n |-> IF k = 0 THEN first ELSE WithEntry(p, material, f[k - 1], k)]
  BY Zenon DEF Ending
<1>5. ASSUME NEW x \in Nat, NEW k \in 1 .. n PROVE WithEntry(p, material, x, k) \in Nat
  BY <1>1 DEF WithEntry
<1>a. first \in Nat
  OBVIOUS
<1> HIDE DEF n, first, Allowed, body
<1>6. \A i \in 1 .. n : i \in 0 .. n /\ i - 1 \in 0 .. n
  BY <1>1
<1>7. \E f : Loop(f, n, first, body) /\ \A i \in 0 .. n : f[i] \in Allowed[i]
  <2>1. first \in Allowed[0]
    BY <1>1, <1>2, <1>a
  <2>2. ASSUME NEW i \in 1 .. n, NEW x \in Allowed[i - 1] PROVE body[<<x, i>>] \in Allowed[i]
    <3>1. x \in Nat /\ Allowed[i] = Nat
      BY <1>2, <1>6
    <3>2. body[<<x, i>>] = WithEntry(p, material, x, i)
      BY <1>3, <3>1
    <3>3. QED
      BY <1>5, <3>1, <3>2
  <2>3. QED
    BY <1>1, <2>1, <2>2, LoopRuns
<1>8. PICK f : Loop(f, n, first, body) /\ \A i \in 0 .. n : f[i] \in Allowed[i]
  BY <1>7
<1>9. f = [k \in 0 .. n |-> IF k = 0 THEN first ELSE WithEntry(p, material, f[k - 1], k)]
  <2>1. f = [i \in 0 .. n |-> IF i = 0 THEN first ELSE body[<<f[i - 1], i>>]]
    BY <1>8 DEF Loop
  <2>2. ASSUME NEW i \in 1 .. n PROVE body[<<f[i - 1], i>>] = WithEntry(p, material, f[i - 1], i)
    BY <1>2, <1>3, <1>6, <1>8
  <2>3. \A i \in 0 .. n : i = 0 \/ i \in 1 .. n
    BY <1>1
  <2>4. QED
    BY <2>1, <2>2, <2>3
<1>10. QED
  BY <1>4, <1>9

(* No entry ends before the one in front of it.                            *)
LEMMA EntriesFollow ==
  ASSUME NEW p, IsPlan(p), NEW material \in Seq(DOMAIN p)
  PROVE  LET ends == EntryEnds(p, material)
         IN \A k \in 0 .. Len(material) : \A i \in 0 .. k :
              ends[i] \in Nat /\ ends[i] <= ends[k]
<1> DEFINE ends == CHOOSE f : Ending(p, material, f)
           n == Len(material)
           Follows(i, k) == ends[i] \in Nat /\ ends[i] <= ends[k]
           P == {k \in 0 .. n : \A i \in 0 .. k : Follows(i, k)}
<1>1. Ending(p, material, ends)
  BY EndingExists
<1>2. EntryEnds(p, material) = ends
  BY Zenon DEF EntryEnds, Ending, WithEntry
<1> HIDE DEF ends
<1>3. n \in Nat /\ \A k \in 1 .. n : p[material[k]].size \in Nat
  BY DEF IsPlan
<1>4. ends = [k \in 0 .. n |-> IF k = 0 THEN 0 ELSE WithEntry(p, material, ends[k - 1], k)]
  BY <1>1 DEF Ending
<1> HIDE DEF n
<1>5. ends[0] = 0 /\ \A k \in 1 .. n : ends[k] = WithEntry(p, material, ends[k - 1], k)
  <2>1. 0 \in 0 .. n /\ \A k \in 1 .. n : k \in 0 .. n /\ k # 0
    BY <1>3
  <2>2. QED
    BY <1>4, <2>1
<1>6. 0 \in P
  <2>1. \A i \in 0 .. 0 : i = 0
    OBVIOUS
  <2>2. QED
    BY <1>3, <1>5, <2>1
<1>7. ASSUME NEW k \in 1 .. n, k - 1 \in P PROVE k \in P
  <2>1. \A i \in 0 .. k - 1 : ends[i] \in Nat /\ ends[i] <= ends[k - 1]
    BY <1>7
  <2> DEFINE before == ends[k - 1]
             longer == WithEntry(p, material, before, k)
  <2>a. before \in Nat
    <3>1. k - 1 \in 0 .. k - 1
      BY <1>3
    <3>2. QED
      BY <2>1, <3>1
  <2>2. longer \in Nat /\ before <= longer
    BY <1>3, <2>a DEF WithEntry
  <2>3. ends[k] = longer
    BY <1>5
  <2> HIDE DEF longer
  <2>4. ASSUME NEW i \in 0 .. k PROVE Follows(i, k)
    <3>1. CASE i = k
      BY <2>2, <2>3, <3>1
    <3>2. CASE i # k
      <4>1. i \in 0 .. k - 1
        BY <1>3, <3>2
      <4>2. ends[i] \in Nat /\ ends[i] <= before
        BY <2>1, <4>1
      <4>3. QED
        BY <2>2, <2>3, <2>a, <4>2
    <3>3. QED
      BY <3>1, <3>2
  <2>5. k \in 0 .. n
    BY <1>3
  <2>6. QED
    BY <2>4, <2>5
<1>8. P \in SUBSET (0 .. n)
      /\ \A k \in P : \A i \in 0 .. k : ends[i] \in Nat /\ ends[i] <= ends[k]
  OBVIOUS
<1> HIDE DEF P
<1>9. P = 0 .. n
  BY <1>3, <1>6, <1>7, <1>8, Induct
<1>10. QED
  BY <1>2, <1>8, <1>9 DEF n

(* What is shown is all there is, when it fits; and always with what is    *)
(* before it.                                                              *)
LEMMA ShownIs ==
  ASSUME NEW p, IsPlan(p), NEW material \in Seq(DOMAIN p)
  PROVE  LET ends == EntryEnds(p, material)
             shown == Shown(p, material)
         IN /\ shown \subseteq Range(material)
            /\ ends[Len(material)] <= MaxResultsBlockChars => shown = Range(material)
            /\ \A t \in shown : \E k \in DOMAIN material :
                 /\ material[k] = t
                 /\ \A i \in DOMAIN material : i <= k => material[i] \in shown
<1> DEFINE ends == EntryEnds(p, material)
           shown == Shown(p, material)
           n == Len(material)
           Whole(k) == ends[k] <= MaxResultsBlockChars
<1>1. n \in Nat /\ DOMAIN material = 1 .. n
  OBVIOUS
<1>2. \A k \in 0 .. n : \A i \in 0 .. k : ends[i] \in Nat /\ ends[i] <= ends[k]
  BY EntriesFollow
<1>3. shown = {material[k] : k \in {k \in DOMAIN material : Whole(k)}}
  BY Zenon DEF Shown
<1> HIDE DEF shown, n
<1>4. ASSUME NEW k \in 0 .. n, Whole(k), NEW i \in 1 .. n, i <= k
      PROVE  material[i] \in shown
  <2>1. i \in 0 .. k /\ k \in 0 .. k
    BY <1>1, <1>4
  <2>2. ends[i] \in Nat /\ ends[k] \in Nat /\ ends[i] <= ends[k]
    BY <1>2, <2>1
  <2> DEFINE x == ends[i]
             y == ends[k]
  <2>3. x \in Nat /\ y \in Nat /\ x <= y /\ y <= MaxResultsBlockChars
    BY <1>4, <2>2
  <2> HIDE DEF ends, x, y
  <2>a. x <= MaxResultsBlockChars
    BY <2>3, MaxResultsBlockCharsIsNat
  <2>4. Whole(i)
    BY <2>a DEF x
  <2>5. QED
    BY <1>1, <1>3, <1>4, <2>4
<1>5. shown \subseteq Range(material)
  BY <1>3 DEF Range
<1>6. ASSUME Whole(n) PROVE shown = Range(material)
  <2>1. n \in 0 .. n /\ \A i \in 1 .. n : i <= n
    BY <1>1
  <2>2. \A i \in 1 .. n : material[i] \in shown
    BY <1>4, <1>6, <2>1
  <2>3. QED
    BY <1>1, <1>5, <2>2 DEF Range
<1>7. ASSUME NEW t \in shown
      PROVE  \E k \in DOMAIN material :
               /\ material[k] = t
               /\ \A i \in DOMAIN material : i <= k => material[i] \in shown
  <2>1. PICK k \in DOMAIN material : Whole(k) /\ material[k] = t
    BY <1>3, <1>7
  <2>2. k \in 0 .. n
    BY <1>1
  <2>3. \A i \in DOMAIN material : i <= k => material[i] \in shown
    BY <1>1, <1>4, <2>1, <2>2
  <2>4. QED
    BY <2>1, <2>3
<1>8. QED
  BY <1>5, <1>6, <1>7 DEF shown, n

----------------------------------------------------------------------------
(* What an answer says it is made of, it is made of. *)
Made(s, a) ==
  a.source = "synthesis" =>
    /\ a.material = CollectResults(plan, s.status) /\ a.material # <<>>
    /\ a.shown = Shown(plan, a.material)
    /\ a.named = CollectNotCompleted(plan, s.status, s.abandoned)

RanksOf(p, status, n, rank) ==
  /\ rank \in [DOMAIN p -> 0 .. n]
  /\ \A t \in Completed(p, status) : \A d \in Range(p[t].deps) \cap Completed(p, status) :
       rank[d] < rank[t]

(* Tasks are completed after what they depend on has ended, which ranks    *)
(* them: by when they were.                                                *)
Rankable(p, status) ==
  /\ DOMAIN status = DOMAIN p
  /\ \A t \in Completed(p, status) : \A d \in Range(p[t].deps) : status[d] # "open"
  /\ \E n \in Nat : \E rank : RanksOf(p, status, n, rank)

Closing == {"close index", "close metadata", "answering", "ended"}

CollectInv ==
  /\ Rankable(plan, session.status)
  /\ session.status[Root] = "completed" => session.phase \in Closing /\ Made(session, session.final)
  /\ Is("ended") => Made(session, session.answer)
  /\ ~Is("ended") => session.answer.source # "synthesis"

LEMMA NothingCompletedIsRankable ==
  ASSUME NEW p, NEW status, DOMAIN status = DOMAIN p, \A t \in DOMAIN p : status[t] = "open"
  PROVE  Rankable(p, status)
<1>1. Completed(p, status) = {}
  BY DEF Completed
<1> DEFINE rank == [t \in DOMAIN p |-> 0]
<1>2. rank \in [DOMAIN p -> 0 .. 0]
  OBVIOUS
<1> HIDE DEF rank
<1>3. RanksOf(p, status, 0, rank)
  BY <1>1, <1>2 DEF RanksOf
<1>4. QED
  BY <1>1, <1>3, 0 \in Nat DEF Rankable

(* A task that ends otherwise changes nothing to that.                     *)
LEMMA SameCompletedIsRankable ==
  ASSUME NEW p, IsPlan(p), NEW status, Rankable(p, status), NEW next, DOMAIN next = DOMAIN p,
         Completed(p, next) = Completed(p, status),
         \A t \in DOMAIN p : next[t] # status[t] => next[t] # "open"
  PROVE  Rankable(p, next)
<1>1. PICK n \in Nat : \E rank : RanksOf(p, status, n, rank)
  BY DEF Rankable
<1>2. PICK rank : RanksOf(p, status, n, rank)
  BY <1>1
<1>3. RanksOf(p, next, n, rank)
  BY <1>2 DEF RanksOf
<1>4. \A t \in Completed(p, next) : \A d \in Range(p[t].deps) : next[d] # "open"
  <2>1. \A t \in Completed(p, status) : t \in DOMAIN p
    BY DEF Completed
  <2>2. \A t \in DOMAIN p : \A d \in Range(p[t].deps) : d \in DOMAIN p
    BY DEF IsPlan, Range
  <2>3. \A t \in Completed(p, status) : \A d \in Range(p[t].deps) : status[d] # "open"
    BY DEF Rankable
  <2>4. QED
    BY <2>1, <2>2, <2>3
<1>5. QED
  BY <1>3, <1>4 DEF Rankable

LEMMA OneMoreIsRankable ==
  ASSUME NEW p, IsPlan(p), NEW status, Rankable(p, status), NEW t \in DOMAIN p \ {Root},
         status[t] = "open", \A d \in Range(p[t].deps) : status[d] # "open",
         NEW next, next = [status EXCEPT ![t] = "completed"]
  PROVE  Rankable(p, next)
<1> DEFINE was == Completed(p, status)
           now == Completed(p, next)
<1>1. DOMAIN next = DOMAIN p /\ next[t] = "completed" /\ t \in DOMAIN p
      /\ \A u \in DOMAIN p : u # t => next[u] = status[u]
  BY DEF Rankable
<1>2. now = was \cup {t} /\ t \notin was /\ \A u \in was : u \in DOMAIN p /\ u # t
  BY <1>1 DEF Completed
<1>3. \A u \in DOMAIN p : \A d \in Range(p[u].deps) : d \in DOMAIN p
  BY DEF IsPlan, Range
<1>a. \A u \in was : \A d \in Range(p[u].deps) : status[d] # "open"
  BY DEF Rankable
<1>4. \A u \in now : \A d \in Range(p[u].deps) : status[d] # "open" /\ d # t
  BY <1>2, <1>a
<1>5. \A u \in now : \A d \in Range(p[u].deps) : next[d] # "open"
  BY <1>1, <1>2, <1>3, <1>4
<1>6. PICK n \in Nat : \E rank : RanksOf(p, status, n, rank)
  BY DEF Rankable
<1>7. PICK rank : RanksOf(p, status, n, rank)
  BY <1>6
<1>8. rank \in [DOMAIN p -> 0 .. n]
      /\ \A u \in was : \A d \in Range(p[u].deps) \cap was : rank[d] < rank[u]
  BY <1>7 DEF RanksOf
<1> HIDE DEF was, now
<1> DEFINE later == [rank EXCEPT ![t] = n + 1]
<1>9. later[t] = n + 1 /\ \A u \in DOMAIN p : u # t => later[u] = rank[u]
  BY <1>1, <1>8
<1>10. later \in [DOMAIN p -> 0 .. n + 1]
  BY <1>8
<1> HIDE DEF later
<1>11. ASSUME NEW u \in now, NEW d \in Range(p[u].deps) \cap now PROVE later[d] < later[u]
  <2>1. d # t /\ d \in was /\ d \in DOMAIN p /\ later[d] = rank[d]
    BY <1>2, <1>4, <1>9
  <2>2. CASE u = t
    <3>1. rank[d] \in 0 .. n
      BY <1>8, <2>1
    <3>2. QED
      BY <1>9, <2>1, <2>2, <3>1
  <2>3. CASE u # t
    <3>1. u \in was /\ later[u] = rank[u]
      BY <1>2, <1>9, <2>3
    <3>2. QED
      BY <1>8, <2>1, <3>1
  <2>4. QED
    BY <2>2, <2>3
<1>12. RanksOf(p, next, n + 1, later)
  BY <1>10, <1>11 DEF RanksOf, now
<1>13. n + 1 \in Nat
  OBVIOUS
<1>14. QED
  BY <1>1, <1>5, <1>12, <1>13 DEF Rankable, now

(* The ranks of the completed tasks, as the visit asks for them.           *)
LEMMA RankableIsRanked ==
  ASSUME NEW p, IsPlan(p), NEW status, Rankable(p, status)
  PROVE  \E rank : Ranked(p, Completed(p, status), rank)
<1>1. PICK n \in Nat : \E rank : RanksOf(p, status, n, rank)
  BY DEF Rankable
<1>2. PICK rank : RanksOf(p, status, n, rank)
  BY <1>1
<1>3. Completed(p, status) \subseteq DOMAIN p
  BY DEF Completed
<1>4. rank \in [DOMAIN p -> 0 .. n]
  BY <1>2 DEF RanksOf
<1>5. \A t \in DOMAIN p : rank[t] \in Nat
  BY <1>4
<1>6. Ranked(p, Completed(p, status), rank)
  BY <1>2, <1>3, <1>5 DEF RanksOf, Ranked
<1>7. QED
  BY <1>6

LEMMA SynthesesAreMade ==
  ASSUME NEW s, NEW a \in Syntheses(s)
  PROVE  Made(s, a)
<1> DEFINE material == CollectResults(plan, s.status)
           named == CollectNotCompleted(plan, s.status, s.abandoned)
           Answer(text) == [source |-> IF text = <<>> THEN "message" ELSE "synthesis",
                            text |-> text, banner |-> FALSE, material |-> material,
                            shown |-> Shown(plan, material), named |-> named]
           message == [NoAnswer EXCEPT !.source = "message"]
           Text(raw) == FormatOutput(plan, s.abandoned, named, raw)
<1>1. \/ a = message
      \/ a = NoAnswer
      \/ material # <<>> /\ \E raw \in setting.drafts : a = Answer(Text(raw))
  BY Zenon DEF Syntheses
<1>2. CASE a = message
  BY <1>2, WordlessIsSound DEF Made
<1>3. CASE a = NoAnswer
  BY <1>3, SourceIsNone DEF Made
<1>4. ASSUME NEW raw \in setting.drafts, a = Answer(Text(raw)), material # <<>> PROVE Made(s, a)
  <2>1. a.material = material /\ a.named = named /\ a.shown = Shown(plan, material)
    BY <1>4
  <2>2. QED
    BY <1>4, <2>1 DEF Made
<1>5. QED
  BY <1>1, <1>2, <1>3, <1>4

LEMMA RootResultsAreMade ==
  ASSUME NEW s, NEW a \in RootResults(s)
  PROVE  Made(s, a)
<1> DEFINE message == [NoAnswer EXCEPT !.source = "message"]
           Report(raw) == [NoAnswer EXCEPT !.source = "report", !.text = Abandoned(raw)]
<1>1. \/ a = message
      \/ \E raw \in setting.drafts : a = Report(raw)
  BY Zenon DEF RootResults
<1>2. a.source # "synthesis"
  BY <1>1 DEF NoAnswer
<1>3. QED
  BY <1>2 DEF Made

(* The guard and the banner change nothing to what an answer is made of.   *)
LEMMA GuardedIsMade ==
  ASSUME NEW a, Answered(a), NEW s, Made(s, a), NEW banner
  PROVE  Made(s, [Guarded(a) EXCEPT !.banner = banner])
<1> DEFINE text == GuardFinalAnswer(a.text, a.source, setting.software)
           cut == [a EXCEPT !.text = text, !.source = IF text = <<>> THEN "message" ELSE @]
           g == Guarded(a)
           shown == [g EXCEPT !.banner = banner]
<1>1. g = IF a.source = "message" THEN a ELSE cut
  BY Zenon DEF Guarded
<1>2. AnswerFields \subseteq DOMAIN a
  BY DEF Answered
<1> HIDE DEF text, g
<1>3. DOMAIN g = DOMAIN a /\ g.material = a.material /\ g.named = a.named
      /\ g.shown = a.shown /\ g.source \in {a.source, "message"}
  BY <1>1, <1>2 DEF AnswerFields
<1>4. shown.material = g.material /\ shown.named = g.named /\ shown.source = g.source
      /\ shown.shown = g.shown
  BY <1>2, <1>3 DEF AnswerFields
<1> HIDE DEF shown
<1>5. Made(s, shown)
  BY <1>3, <1>4 DEF Made
<1>6. QED
  BY <1>5 DEF shown, g

LEMMA FreshIsCollected ==
  ASSUME NEW s, DOMAIN s.status = DOMAIN plan, \A t \in DOMAIN plan : s.status[t] = "open",
         Root \in DOMAIN plan, s.answer = NoAnswer, s.phase # "ended",
         session = s
  PROVE  CollectInv
<1>1. Rankable(plan, s.status)
  BY NothingCompletedIsRankable
<1>2. QED
  BY <1>1, SourceIsNone DEF CollectInv, Is

LEMMA CollectInit == Init => CollectInv
<1> SUFFICES ASSUME Init PROVE CollectInv
  OBVIOUS
<1>1. setting \in Settings /\ session = Fresh(plan)
  BY DEF Init, plan
<1>2. Root \in DOMAIN plan
  BY <1>1, SettingsAreSound DEF IsPlan, plan
<1> DEFINE s == Fresh(plan)
<1>3. DOMAIN s.status = DOMAIN plan /\ (\A t \in DOMAIN plan : s.status[t] = "open")
      /\ s.answer = NoAnswer /\ s.phase # "ended"
  BY DEF Fresh
<1> HIDE DEF s
<1>4. QED
  BY <1>1, <1>2, <1>3, FreshIsCollected DEF s

(* A step that changes the phase only.                                     *)
LEMMA PhaseKeepsCollected ==
  ASSUME AnswerInv, CollectInv, setting' = setting, NEW phase, phase # "ended",
         session' = [session EXCEPT !.phase = phase], ~Is("ended"),
         session.status[Root] = "completed" => phase \in Closing
  PROVE  CollectInv'
<1>1. SessionFields \subseteq DOMAIN session
  BY DEF AnswerInv
<1>2. "phase" \in DOMAIN session
  BY <1>1 DEF SessionFields
<1>3. session'.phase = phase /\ session'.status = session.status
      /\ session'.final = session.final /\ session'.abandoned = session.abandoned
      /\ session'.answer = session.answer
  BY <1>2
<1>4. plan' = plan
  BY DEF plan
<1>5. Made(session, session.final) => Made(session, session.final)'
  BY <1>3, <1>4 DEF Made
<1>6. QED
  BY <1>3, <1>4, <1>5 DEF CollectInv, Is

LEMMA SubtaskEndsKeepsCollected ==
  ASSUME AnswerInv, CollectInv, SubtaskEnds
  PROVE  CollectInv'
<1>1. SessionFields \subseteq DOMAIN session /\ Root \in DOMAIN session.status
      /\ setting \in Settings
  BY DEF AnswerInv
<1>2. session.phase = "running" /\ setting' = setting /\ plan' = plan
  BY DEF SubtaskEnds, Is, plan
<1>3. IsPlan(plan)
  BY <1>1, SettingsAreSound DEF plan
<1>4. \E t \in DOMAIN plan \ {Root} :
        /\ session.status[t] = "open"
        /\ \/ /\ \A d \in Range(plan[t].deps) : session.status[d] # "open"
              /\ session' = Ended(t, "completed")
           \/ session' \in {[Ended(t, "failed") EXCEPT !.abandoned = @ \cup {t}],
                           [Ended(t, "failed") EXCEPT !.unstarted = @ \cup {t}]}
  BY Zenon DEF SubtaskEnds
<1>5. PICK t \in DOMAIN plan \ {Root} :
        /\ session.status[t] = "open"
        /\ \/ /\ \A d \in Range(plan[t].deps) : session.status[d] # "open"
              /\ session' = Ended(t, "completed")
           \/ session' \in {[Ended(t, "failed") EXCEPT !.abandoned = @ \cup {t}],
                           [Ended(t, "failed") EXCEPT !.unstarted = @ \cup {t}]}
  BY <1>4
<1>6. Rankable(plan, session.status) /\ DOMAIN session.status = DOMAIN plan
  BY DEF CollectInv, Rankable
<1>7. session.status[Root] # "completed"
  BY <1>2 DEF CollectInv, Closing
<1>8. \E how \in {"completed", "failed"} :
        /\ session'.status = [session.status EXCEPT ![t] = how]
        /\ session'.phase = session.phase /\ session'.answer = session.answer
        /\ how = "completed" => \A d \in Range(plan[t].deps) : session.status[d] # "open"
  <2>1. CASE /\ \A d \in Range(plan[t].deps) : session.status[d] # "open"
             /\ session' = Ended(t, "completed")
    <3>1. session'.status = [session.status EXCEPT ![t] = "completed"]
          /\ session'.phase = session.phase /\ session'.answer = session.answer
      BY <1>1, <2>1 DEF Ended, SessionFields
    <3>2. QED
      BY <2>1, <3>1
  <2>2. CASE session' \in {[Ended(t, "failed") EXCEPT !.abandoned = @ \cup {t}],
                           [Ended(t, "failed") EXCEPT !.unstarted = @ \cup {t}]}
    <3> DEFINE s == Ended(t, "failed")
    <3>1. session' \in {[s EXCEPT !.abandoned = @ \cup {t}],
                        [s EXCEPT !.unstarted = @ \cup {t}]}
      BY <2>2
    <3>2. DOMAIN s = DOMAIN session /\ s.status = [session.status EXCEPT ![t] = "failed"]
          /\ s.phase = session.phase /\ s.answer = session.answer
      BY <1>1 DEF Ended, SessionFields
    <3>3. "abandoned" \in DOMAIN s /\ "unstarted" \in DOMAIN s
      BY <1>1, <3>2 DEF SessionFields
    <3> HIDE DEF s
    <3>4. session'.status = s.status /\ session'.phase = s.phase /\ session'.answer = s.answer
      <4>1. CASE session' = [s EXCEPT !.abandoned = @ \cup {t}]
        BY <3>3, <4>1
      <4>2. CASE session' = [s EXCEPT !.unstarted = @ \cup {t}]
        BY <3>3, <4>2
      <4>3. QED
        BY <3>1, <4>1, <4>2
    <3>5. session'.status = [session.status EXCEPT ![t] = "failed"]
          /\ session'.phase = session.phase /\ session'.answer = session.answer
      BY <3>2, <3>4
    <3>6. QED
      BY <3>5
  <2>3. QED
    BY <1>5, <2>1, <2>2
<1>9. PICK how \in {"completed", "failed"} :
        /\ session'.status = [session.status EXCEPT ![t] = how]
        /\ session'.phase = session.phase /\ session'.answer = session.answer
        /\ how = "completed" => \A d \in Range(plan[t].deps) : session.status[d] # "open"
  BY <1>8
<1>10. Rankable(plan, session'.status)
  <2>1. CASE how = "completed"
    <3>1. session'.status = [session.status EXCEPT ![t] = "completed"]
          /\ \A d \in Range(plan[t].deps) : session.status[d] # "open"
      BY <1>9, <2>1
    <3>2. QED
      BY <1>3, <1>5, <1>6, <3>1, OneMoreIsRankable
  <2>2. CASE how = "failed"
    <3> DEFINE next == session'.status
    <3>1. DOMAIN next = DOMAIN plan /\ next[t] = "failed"
          /\ \A u \in DOMAIN plan : u # t => next[u] = session.status[u]
      BY <1>6, <1>9, <2>2
    <3> HIDE DEF next
    <3>2. Completed(plan, next) = Completed(plan, session.status)
      BY <1>5, <3>1 DEF Completed
    <3>3. \A u \in DOMAIN plan : next[u] # session.status[u] => next[u] # "open"
      BY <3>1
    <3>4. Rankable(plan, next)
      BY <1>3, <1>6, <3>1, <3>2, <3>3, SameCompletedIsRankable
    <3>5. QED
      BY <3>4 DEF next
  <2>3. QED
    BY <2>1, <2>2
<1>11. session'.status[Root] = session.status[Root]
  BY <1>5, <1>9
<1>12. QED
  BY <1>2, <1>7, <1>9, <1>10, <1>11 DEF CollectInv, Is

LEMMA RootEndsRankable ==
  ASSUME AnswerInv, CollectInv, NEW how, how # "open", NEW s,
         s.status = [session.status EXCEPT ![Root] = how]
  PROVE  Rankable(plan, s.status) /\ s.status[Root] = how
<1>1. IsPlan(plan) /\ Root \in DOMAIN session.status
  BY SettingsAreSound DEF AnswerInv, plan
<1>2. Rankable(plan, session.status) /\ DOMAIN session.status = DOMAIN plan
  BY DEF CollectInv, Rankable
<1> DEFINE next == s.status
<1>3. DOMAIN next = DOMAIN plan /\ next[Root] = how
      /\ \A u \in DOMAIN plan : u # Root => next[u] = session.status[u]
  BY <1>1, <1>2
<1> HIDE DEF next
<1>4. Completed(plan, next) = Completed(plan, session.status)
  BY <1>3 DEF Completed
<1>5. \A u \in DOMAIN plan : next[u] # session.status[u] => next[u] # "open"
  BY <1>3
<1>6. Rankable(plan, next)
  BY <1>1, <1>2, <1>3, <1>4, <1>5, SameCompletedIsRankable
<1>7. QED
  BY <1>3, <1>6 DEF next

LEMMA RootCompletesKeepsCollected ==
  ASSUME AnswerInv, CollectInv, RootCompletes
  PROVE  CollectInv'
<1> DEFINE done == Ended(Root, "completed")
           Reported(raw) == [NoAnswer EXCEPT !.source = "report", !.text = ScrubResult(raw)]
           Leaves(final) == [done EXCEPT !.final = final, !.phase = "close index"]
<1>1. SessionFields \subseteq DOMAIN session
  BY DEF AnswerInv
<1>2. session.phase = "running" /\ setting' = setting /\ plan' = plan
  BY DEF RootCompletes, Is, plan
<1>3. \E final \in Syntheses(done) :
        IF final # NoAnswer THEN session' = Leaves(final)
        ELSE \E raw \in setting.drafts : session' = Leaves(Reported(raw))
  BY Zenon DEF RootCompletes
<1>4. \E final : Made(done, final) /\ session' = Leaves(final)
  <2>1. PICK final \in Syntheses(done) :
          IF final # NoAnswer THEN session' = Leaves(final)
          ELSE \E raw \in setting.drafts : session' = Leaves(Reported(raw))
    BY <1>3
  <2>2. \A raw : Reported(raw).source # "synthesis"
    BY DEF NoAnswer
  <2> HIDE DEF done, Leaves, Reported
  <2>3. CASE final # NoAnswer
    BY <2>1, <2>3, SynthesesAreMade
  <2>4. CASE final = NoAnswer
    <3>1. PICK raw \in setting.drafts : session' = Leaves(Reported(raw))
      BY <2>1, <2>4
    <3>2. Made(done, Reported(raw))
      BY <2>2 DEF Made
    <3>3. QED
      BY <3>1, <3>2
  <2>5. QED
    BY <2>3, <2>4
<1>5. PICK final : Made(done, final) /\ session' = Leaves(final)
  BY <1>4
<1>6. /\ DOMAIN done = DOMAIN session /\ done.status = [session.status EXCEPT ![Root] = "completed"]
      /\ done.abandoned = session.abandoned /\ done.answer = session.answer
  BY <1>1 DEF Ended, SessionFields
<1>7. Rankable(plan, done.status)
  BY <1>6, RootEndsRankable
<1> HIDE DEF done
<1>8. "final" \in DOMAIN done /\ "phase" \in DOMAIN done
  BY <1>1, <1>6 DEF SessionFields
<1>9. session'.final = final /\ session'.phase = "close index" /\ session'.status = done.status
      /\ session'.abandoned = done.abandoned /\ session'.answer = done.answer
  BY <1>5, <1>8
<1>10. Made(session, session.final)'
  BY <1>2, <1>5, <1>9 DEF Made
<1>11. QED
  BY <1>2, <1>6, <1>7, <1>9, <1>10 DEF CollectInv, Is, Closing

LEMMA RunEndsKeepsCollected ==
  ASSUME AnswerInv, CollectInv, RunEnds
  PROVE  CollectInv'
<1>1. SessionFields \subseteq DOMAIN session
  BY DEF AnswerInv
<1>2. session.phase = "running" /\ setting' = setting /\ plan' = plan
      /\ session.status[Root] = "open"
  BY DEF RunEnds, Is, plan
<1>3. PICK abandoned \in BOOLEAN :
        session' = [(IF abandoned THEN Ended(Root, "failed") ELSE session) EXCEPT
                     !.phase = "close index",
                     !.abandoned = IF abandoned THEN @ \cup {Root} ELSE @]
  BY DEF RunEnds
<1> DEFINE s == IF abandoned THEN Ended(Root, "failed") ELSE session
<1>4. DOMAIN s = DOMAIN session /\ s.answer = session.answer
      /\ s.status \in {session.status, [session.status EXCEPT ![Root] = "failed"]}
  BY <1>1 DEF Ended, SessionFields
<1>5. Rankable(plan, s.status) /\ s.status[Root] # "completed"
  <2> HIDE DEF s
  <2>1. CASE s.status = session.status
    BY <1>2, <2>1 DEF CollectInv
  <2>2. CASE s.status = [session.status EXCEPT ![Root] = "failed"]
    <3>1. Rankable(plan, s.status) /\ s.status[Root] = "failed"
      BY <2>2, RootEndsRankable
    <3>2. QED
      BY <3>1
  <2>3. QED
    BY <1>4, <2>1, <2>2
<1>6. session' = [s EXCEPT !.phase = "close index",
                           !.abandoned = IF abandoned THEN @ \cup {Root} ELSE @]
  BY <1>3
<1> HIDE DEF s
<1>7. "phase" \in DOMAIN s /\ "abandoned" \in DOMAIN s
  BY <1>1, <1>4 DEF SessionFields
<1>8. session'.phase = "close index" /\ session'.status = s.status /\ session'.answer = s.answer
  BY <1>6, <1>7
<1>9. QED
  BY <1>2, <1>4, <1>5, <1>8 DEF CollectInv, Is

LEMMA TerminateKeepsCollected ==
  ASSUME AnswerInv, CollectInv, Terminate
  PROVE  CollectInv'
<1> DEFINE success == session.status[Root] = "completed"
           material == CollectResults(plan, session.status)
           synthesized == IF success \/ material = <<>> THEN {} ELSE Syntheses(session) \ {NoAnswer}
           found == IF success THEN {session.final} ELSE synthesized \cup RootResults(session)
<1>1. SessionFields \subseteq DOMAIN session /\ setting \in Settings
  BY DEF AnswerInv
<1>2. setting' = setting /\ plan' = plan
  BY DEF Terminate, plan
<1>3. \E answer \in found : \E banner :
        session' = [session EXCEPT !.phase = "ended",
                                   !.answer = [Guarded(answer) EXCEPT !.banner = banner]]
  BY Zenon DEF Terminate
<1>4. PICK answer \in found : \E banner :
        session' = [session EXCEPT !.phase = "ended",
                                   !.answer = [Guarded(answer) EXCEPT !.banner = banner]]
  BY <1>3
<1>5. Answered(answer) /\ Made(session, answer)
  <2>1. CASE answer = session.final /\ success
    BY <2>1 DEF AnswerInv, Sound, CollectInv
  <2>2. CASE answer \in Syntheses(session) \ {NoAnswer}
    BY <1>1, <2>2, SynthesesAreSound, SynthesesAreMade DEF Sound
  <2>3. CASE answer \in RootResults(session)
    BY <1>1, <2>3, RootResultsAreAnswers, RootResultsAreMade
  <2>4. \/ answer = session.final /\ success
        \/ answer \in Syntheses(session) \ {NoAnswer}
        \/ answer \in RootResults(session)
    OBVIOUS
  <2>5. QED
    BY <2>1, <2>2, <2>3, <2>4
<1>6. PICK banner :
        session' = [session EXCEPT !.phase = "ended",
                                   !.answer = [Guarded(answer) EXCEPT !.banner = banner]]
  BY <1>4
<1> DEFINE shown == [Guarded(answer) EXCEPT !.banner = banner]
<1>7. Made(session, shown)
  BY <1>5, GuardedIsMade
<1>8. session' = [session EXCEPT !.phase = "ended", !.answer = shown]
  BY <1>6
<1> HIDE DEF shown, found
<1>9. "phase" \in DOMAIN session /\ "answer" \in DOMAIN session
  BY <1>1 DEF SessionFields
<1>10. /\ session'.phase = "ended" /\ session'.answer = shown /\ session'.status = session.status
       /\ session'.final = session.final /\ session'.abandoned = session.abandoned
  BY <1>8, <1>9
<1>11. Made(session, session.answer)'
  BY <1>2, <1>7, <1>10 DEF Made
<1>12. Made(session, session.final) => Made(session, session.final)'
  BY <1>2, <1>10 DEF Made
<1>13. QED
  BY <1>2, <1>10, <1>11, <1>12 DEF CollectInv, Is, Closing

LEMMA CollectStep ==
  ASSUME AnswerInv, CollectInv, [Next \/ Rest]_vars
  PROVE  CollectInv'
<1>1. CASE AgentDies
  <2>1. setting' = setting /\ session' = [session EXCEPT !.phase = "save index"]
        /\ session.phase = "running"
    BY <1>1 DEF AgentDies, Is
  <2>2. session.status[Root] # "completed" /\ ~Is("ended")
    BY <2>1 DEF CollectInv, Closing, Is
  <2>3. QED
    BY <2>1, <2>2, PhaseKeepsCollected
<1>2. ASSUME NEW closing \in BOOLEAN, SaveFirst(closing) \/ SaveSecond(closing) \/ SaveFails(closing)
      PROVE  CollectInv'
  <2>1. CASE closing
    <3>1. setting' = setting /\ session' \in {[session EXCEPT !.phase = "close metadata"],
                                             [session EXCEPT !.phase = "answering"]}
      BY <1>2, <2>1 DEF SaveFirst, SaveSecond, SaveFails, AfterSave
    <3>2. ~Is("ended")
      BY <1>2, <2>1 DEF SaveFirst, SaveSecond, SaveFails, AtIndex, AtMetadata, Is
    <3>3. "close metadata" \in Closing /\ "answering" \in Closing
      BY DEF Closing
    <3>4. QED
      BY <3>1, <3>2, <3>3, PhaseKeepsCollected
  <2>2. CASE ~closing
    <3>1. setting' = setting /\ session' \in {[session EXCEPT !.phase = "save metadata"],
                                             [session EXCEPT !.phase = "running"]}
      BY <1>2, <2>2 DEF SaveFirst, SaveSecond, SaveFails, AfterSave
    <3>2. session.phase \in {"save index", "save metadata"}
      BY <1>2, <2>2 DEF SaveFirst, SaveSecond, SaveFails, AtIndex, AtMetadata, Is
    <3>3. session.status[Root] # "completed" /\ ~Is("ended")
      BY <3>2 DEF CollectInv, Closing, Is
    <3>4. QED
      BY <3>1, <3>3, PhaseKeepsCollected
  <2>3. QED
    BY <2>1, <2>2
<1>3. CASE Crash \/ Start
  <2>1. setting' = setting /\ session' \in {[Fresh(plan) EXCEPT !.phase = "down"], Fresh(plan)}
    BY <1>3 DEF Crash, Start
  <2>2. Root \in DOMAIN plan /\ plan' = plan
    BY <2>1, SettingsAreSound DEF AnswerInv, IsPlan, plan
  <2>3. DOMAIN session'.status = DOMAIN plan /\ (\A t \in DOMAIN plan : session'.status[t] = "open")
        /\ session'.answer = NoAnswer /\ session'.phase # "ended"
    BY <2>1 DEF Fresh
  <2>4. Rankable(plan, session'.status)
    BY <2>3, NothingCompletedIsRankable
  <2>5. QED
    BY <2>2, <2>3, <2>4, SourceIsNone DEF CollectInv, Is
<1>4. CASE Rest \/ UNCHANGED vars
  <2>1. setting' = setting /\ session' = session
    BY <1>4 DEF Rest, vars
  <2>2. plan' = plan
    BY <2>1 DEF plan
  <2>3. /\ Made(session, session.final)' <=> Made(session, session.final)
        /\ Made(session, session.answer)' <=> Made(session, session.answer)
    BY <2>1, <2>2 DEF Made
  <2>4. QED
    BY <2>1, <2>2, <2>3 DEF CollectInv, Is
<1>5. QED
  BY <1>1, <1>2, <1>3, <1>4, SubtaskEndsKeepsCollected, RootCompletesKeepsCollected,
     RunEndsKeepsCollected, TerminateKeepsCollected DEF Next

(* What a synthesis that has been shown was made of.                       *)
LEMMA ShownIsCollected ==
  ASSUME AnswerInv, CollectInv, session.answer.source = "synthesis"
  PROVE  LET material == session.answer.material
             done == Completed(plan, session.status)
             rest == done \ RollupsToOmit(plan, session.status)
         IN /\ IsPlan(plan)
            /\ material = CollectResults(plan, session.status)
            /\ session.answer.named
                 = CollectNotCompleted(plan, session.status, session.abandoned)
            /\ material \in Seq(DOMAIN plan)
            /\ Range(material) = rest /\ InOrder(plan, rest, material)
            /\ session.answer.shown = Shown(plan, material)
<1>1. IsPlan(plan)
  BY SettingsAreSound DEF AnswerInv, plan
<1>2. Made(session, session.answer) /\ Rankable(plan, session.status)
  BY DEF CollectInv
<1>3. \E rank : Ranked(plan, Completed(plan, session.status), rank)
  BY <1>1, <1>2, RankableIsRanked
<1>4. PICK rank : Ranked(plan, Completed(plan, session.status), rank)
  BY <1>3
<1> DEFINE status == session.status
           list == CollectResults(plan, status)
           rest == Completed(plan, status) \ RollupsToOmit(plan, status)
<1>5. list \in Seq(DOMAIN plan) /\ Range(list) = rest /\ InOrder(plan, rest, list)
  BY <1>4, CollectedIs
<1>6. session.answer.material = list /\ session.answer.shown = Shown(plan, list)
      /\ session.answer.named = CollectNotCompleted(plan, status, session.abandoned)
  BY <1>2 DEF Made
<1> HIDE DEF list
<1>7. QED
  BY <1>1, <1>5, <1>6 DEF list

LEMMA StandingOnIs ==
  ASSUME NEW results
  PROVE  LET stand == CHOOSE f : Standing(plan, session.status, results, f)
         IN StandingOn(results) = stand[Cardinality(DOMAIN plan)]
BY Zenon DEF StandingOn, Standing, StandsOn

(* Each completed task stands on the results collected. *)
LEMMA CompletedStandOnCollected ==
  ASSUME IsPlan(plan), NEW results,
         results = Completed(plan, session.status) \ RollupsToOmit(plan, session.status)
  PROVE  Completed(plan, session.status) \subseteq StandingOn(results)
<1> DEFINE stand == CHOOSE f : Standing(plan, session.status, results, f)
<1>1. Standing(plan, session.status, results, stand)
  BY StandingExists
<1>2. StandingOn(results) = stand[Cardinality(DOMAIN plan)]
  BY StandingOnIs
<1> HIDE DEF stand
<1>3. QED
  BY <1>1, <1>2, CompletedStand

LEMMA CollectedReachesUser ==
  ASSUME AnswerInv, CollectInv
  PROVE  WorkReachesUser
<1> DEFINE material == session.answer.material
           shown == session.answer.shown
           done == Completed(plan, session.status)
           rest == done \ RollupsToOmit(plan, session.status)
           deps(t) == Range(plan[t].deps)
           fits == EntryEnds(plan, material)[Len(material)] <= MaxResultsBlockChars
<1>1. SUFFICES ASSUME session.answer.source = "synthesis"
               PROVE  /\ done \subseteq StandingOn(Range(material))
                      /\ \A i, j \in DOMAIN material : material[j] \in deps(material[i]) => j < i
                      /\ fits => done \subseteq StandingOn(shown)
                      /\ \A t \in shown : deps(t) \cap Range(material) \subseteq shown
  BY Zenon DEF WorkReachesUser
<1>2. /\ IsPlan(plan) /\ material \in Seq(DOMAIN plan)
      /\ Range(material) = rest /\ InOrder(plan, rest, material)
      /\ shown = Shown(plan, material)
  BY <1>1, ShownIsCollected
<1>3. done \subseteq StandingOn(Range(material))
  BY <1>2, CompletedStandOnCollected
<1>4. /\ fits => shown = Range(material)
      /\ \A t \in shown : \E k \in DOMAIN material :
           /\ material[k] = t
           /\ \A i \in DOMAIN material : i <= k => material[i] \in shown
  BY <1>2, ShownIs
<1>a. \A i \in DOMAIN material : i \in Nat
  BY <1>2
<1> HIDE DEF material, rest, shown, fits, done
<1>5. ASSUME NEW i \in DOMAIN material, NEW j \in DOMAIN material,
             material[j] \in deps(material[i])
      PROVE  j < i
  <2>1. material[j] \in rest
    BY <1>2, <1>5 DEF Range
  <2>2. PICK k \in DOMAIN material : k < i /\ material[k] = material[j]
    BY <1>2, <1>5, <2>1 DEF InOrder
  <2>3. k = j
    BY <1>2, <2>2 DEF InOrder
  <2>4. QED
    BY <2>2, <2>3
<1>6. ASSUME NEW t \in shown, NEW d \in deps(t) \cap Range(material) PROVE d \in shown
  <2>1. PICK k \in DOMAIN material :
          /\ material[k] = t
          /\ \A i \in DOMAIN material : i <= k => material[i] \in shown
    BY <1>4, <1>6
  <2>2. PICK j \in DOMAIN material : material[j] = d
    BY <1>6 DEF Range
  <2>3. j < k
    BY <1>5, <1>6, <2>1, <2>2
  <2>4. j <= k
    BY <1>a, <2>3
  <2>5. QED
    BY <2>1, <2>2, <2>4
<1>7. QED
  BY <1>3, <1>4, <1>5, <1>6

----------------------------------------------------------------------------
(* What is left undone *)

(* A subtask that failed was abandoned or never started; none is open once *)
(* the root is done.                                                       *)
Accounted(s) ==
  \A t \in DOMAIN plan \ {Root} :
    /\ s.status[t] \in {"open", "completed", "failed"}
    /\ s.status[t] = "failed" => t \in s.abandoned \cup s.unstarted
    /\ s.status[Root] = "completed" => s.status[t] # "open"

(* A synthesis without a banner is of a run whose root was accepted, and   *)
(* that abandoned nothing.                                                 *)
Bannered(s) ==
  s.answer.source = "synthesis" /\ ~s.answer.banner
    => s.status[Root] = "completed" /\ s.abandoned = {}

RestInv ==
  /\ Accounted(session)
  /\ session.status[Root] = "completed" => session.phase \in Closing
  /\ Is("ended") => Bannered(session)
  /\ ~Is("ended") => session.answer.source # "synthesis"

LEMMA FreshIsAccounted ==
  ASSUME NEW s, DOMAIN s.status = DOMAIN plan, \A t \in DOMAIN plan : s.status[t] = "open",
         Root \in DOMAIN plan, s.answer = NoAnswer, s.phase # "ended"
  PROVE  /\ Accounted(s) /\ s.status[Root] # "completed"
         /\ s.answer.source # "synthesis"
BY SourceIsNone DEF Accounted

LEMMA RestInit == Init => RestInv
<1> SUFFICES ASSUME Init PROVE RestInv
  OBVIOUS
<1>1. setting \in Settings /\ session = Fresh(plan)
  BY DEF Init, plan
<1>2. Root \in DOMAIN plan
  BY <1>1, SettingsAreSound DEF IsPlan, plan
<1> DEFINE s == Fresh(plan)
<1>3. DOMAIN s.status = DOMAIN plan /\ (\A t \in DOMAIN plan : s.status[t] = "open")
      /\ s.answer = NoAnswer /\ s.phase # "ended"
  BY DEF Fresh
<1> HIDE DEF s
<1>4. QED
  BY <1>1, <1>2, <1>3, FreshIsAccounted DEF s, RestInv, Is

(* A step that changes the phase only.                                     *)
LEMMA PhaseKeepsRest ==
  ASSUME AnswerInv, RestInv, setting' = setting, NEW phase, phase # "ended",
         session' = [session EXCEPT !.phase = phase], ~Is("ended"),
         session.status[Root] = "completed" => phase \in Closing
  PROVE  RestInv'
<1>1. SessionFields \subseteq DOMAIN session
  BY DEF AnswerInv
<1>2. "phase" \in DOMAIN session
  BY <1>1 DEF SessionFields
<1>3. session'.phase = phase /\ session'.status = session.status
      /\ session'.abandoned = session.abandoned /\ session'.unstarted = session.unstarted
      /\ session'.answer = session.answer
  BY <1>2
<1>4. plan' = plan
  BY DEF plan
<1>5. Accounted(session)'
  BY <1>3, <1>4 DEF RestInv, Accounted
<1>6. QED
  BY <1>3, <1>5 DEF RestInv, Is

LEMMA SubtaskEndsKeepsRest ==
  ASSUME AnswerInv, CollectInv, RestInv, SubtaskEnds
  PROVE  RestInv'
<1>1. SessionFields \subseteq DOMAIN session /\ DOMAIN session.status = DOMAIN plan
  BY DEF AnswerInv, CollectInv, Rankable
<1>2. session.phase = "running" /\ setting' = setting /\ plan' = plan
  BY DEF SubtaskEnds, Is, plan
<1>3. session.status[Root] # "completed"
  BY <1>2 DEF RestInv, Closing
<1>4. PICK t \in DOMAIN plan \ {Root} :
        session' \in {Ended(t, "completed"),
                     [Ended(t, "failed") EXCEPT !.abandoned = @ \cup {t}],
                     [Ended(t, "failed") EXCEPT !.unstarted = @ \cup {t}]}
  <2>1. \E t \in DOMAIN plan \ {Root} :
          session' \in {Ended(t, "completed"),
                       [Ended(t, "failed") EXCEPT !.abandoned = @ \cup {t}],
                       [Ended(t, "failed") EXCEPT !.unstarted = @ \cup {t}]}
    BY Zenon DEF SubtaskEnds
  <2>2. QED
    BY <2>1
<1>5. \E how \in {"completed", "failed"} :
        /\ session'.status = [session.status EXCEPT ![t] = how]
        /\ session'.phase = session.phase /\ session'.answer = session.answer
        /\ session.abandoned \subseteq session'.abandoned
        /\ session.unstarted \subseteq session'.unstarted
        /\ how = "failed" => t \in session'.abandoned \cup session'.unstarted
  <2>1. ASSUME NEW how
        PROVE  LET s == Ended(t, how)
               IN /\ DOMAIN s = DOMAIN session /\ s.status = [session.status EXCEPT ![t] = how]
                  /\ s.phase = session.phase /\ s.answer = session.answer
                  /\ s.abandoned = session.abandoned /\ s.unstarted = session.unstarted
    BY <1>1 DEF Ended, SessionFields
  <2>2. CASE session' = Ended(t, "completed")
    BY <2>1, <2>2
  <2>3. CASE session' \in {[Ended(t, "failed") EXCEPT !.abandoned = @ \cup {t}],
                           [Ended(t, "failed") EXCEPT !.unstarted = @ \cup {t}]}
    <3> DEFINE s == Ended(t, "failed")
    <3>1. session' \in {[s EXCEPT !.abandoned = @ \cup {t}],
                        [s EXCEPT !.unstarted = @ \cup {t}]}
      BY <2>3
    <3>2. DOMAIN s = DOMAIN session /\ s.status = [session.status EXCEPT ![t] = "failed"]
          /\ s.phase = session.phase /\ s.answer = session.answer
          /\ s.abandoned = session.abandoned /\ s.unstarted = session.unstarted
      BY <2>1
    <3>3. "abandoned" \in DOMAIN s /\ "unstarted" \in DOMAIN s
      BY <1>1, <3>2 DEF SessionFields
    <3> HIDE DEF s
    <3>4. session'.status = s.status /\ session'.phase = s.phase /\ session'.answer = s.answer
      <4>1. CASE session' = [s EXCEPT !.abandoned = @ \cup {t}]
        BY <3>3, <4>1
      <4>2. CASE session' = [s EXCEPT !.unstarted = @ \cup {t}]
        BY <3>3, <4>2
      <4>3. QED
        BY <3>1, <4>1, <4>2
    <3>5. /\ s.abandoned \subseteq session'.abandoned /\ s.unstarted \subseteq session'.unstarted
          /\ t \in session'.abandoned \cup session'.unstarted
      <4>1. CASE session' = [s EXCEPT !.abandoned = @ \cup {t}]
        BY <3>3, <4>1
      <4>2. CASE session' = [s EXCEPT !.unstarted = @ \cup {t}]
        BY <3>3, <4>2
      <4>3. QED
        BY <3>1, <4>1, <4>2
    <3>6. QED
      BY <3>2, <3>4, <3>5
  <2>4. QED
    BY <1>4, <2>2, <2>3
<1>6. PICK how \in {"completed", "failed"} :
        /\ session'.status = [session.status EXCEPT ![t] = how]
        /\ session'.phase = session.phase /\ session'.answer = session.answer
        /\ session.abandoned \subseteq session'.abandoned
        /\ session.unstarted \subseteq session'.unstarted
        /\ how = "failed" => t \in session'.abandoned \cup session'.unstarted
  BY <1>5
<1> DEFINE next == session'.status
<1>7. next[t] = how /\ \A u : u # t => next[u] = session.status[u]
  BY <1>1, <1>6
<1>8. next[Root] # "completed"
  BY <1>3, <1>4, <1>7
<1> HIDE DEF next
<1>9. ASSUME NEW u \in DOMAIN plan \ {Root}
      PROVE  /\ next[u] \in {"open", "completed", "failed"}
             /\ next[u] = "failed" => u \in session'.abandoned \cup session'.unstarted
  <2>1. /\ session.status[u] \in {"open", "completed", "failed"}
        /\ session.status[u] = "failed" => u \in session.abandoned \cup session.unstarted
    BY DEF RestInv, Accounted
  <2>2. QED
    BY <1>6, <1>7, <2>1
<1>10. Accounted(session)'
  BY <1>2, <1>8, <1>9 DEF Accounted, next
<1>11. QED
  BY <1>2, <1>6, <1>8, <1>10 DEF RestInv, Is, next

LEMMA RootEndsKeepsRest ==
  ASSUME AnswerInv, CollectInv, RestInv, RootCompletes \/ RunEnds
  PROVE  RestInv'
<1>1. SessionFields \subseteq DOMAIN session /\ DOMAIN session.status = DOMAIN plan
      /\ Root \in DOMAIN plan
  BY SettingsAreSound DEF AnswerInv, CollectInv, Rankable, IsPlan, plan
<1>2. session.phase = "running" /\ setting' = setting /\ plan' = plan
  BY DEF RootCompletes, RunEnds, Is, plan
<1>3. session.status[Root] = "open" /\ session.answer.source # "synthesis"
  BY <1>2 DEF RootCompletes, RunEnds, RestInv, Is
<1>4. ASSUME NEW how
      PROVE  LET s == Ended(Root, how)
             IN /\ DOMAIN s = DOMAIN session /\ s.status = [session.status EXCEPT ![Root] = how]
                /\ s.answer = session.answer
                /\ s.abandoned = session.abandoned /\ s.unstarted = session.unstarted
  BY <1>1 DEF Ended, SessionFields
<1>5. /\ session'.phase = "close index" /\ session'.answer = session.answer
      /\ session.abandoned \subseteq session'.abandoned
      /\ session'.unstarted = session.unstarted
      /\ \/ /\ session'.status = [session.status EXCEPT ![Root] = "completed"]
            /\ \A t \in DOMAIN plan \ {Root} : session.status[t] # "open"
         \/ session'.status = [session.status EXCEPT ![Root] = "failed"]
         \/ session'.status = session.status
  <2>1. CASE RootCompletes
    <3> DEFINE done == Ended(Root, "completed")
    <3>1. \A t \in DOMAIN plan \ {Root} : session.status[t] # "open"
      BY <2>1 DEF RootCompletes
    <3>2. \E final : session' = [done EXCEPT !.final = final, !.phase = "close index"]
      BY <2>1, Zenon DEF RootCompletes
    <3>3. /\ DOMAIN done = DOMAIN session
          /\ done.status = [session.status EXCEPT ![Root] = "completed"]
          /\ done.answer = session.answer
          /\ done.abandoned = session.abandoned /\ done.unstarted = session.unstarted
      BY <1>4
    <3>4. "phase" \in DOMAIN done
      BY <1>1, <3>3 DEF SessionFields
    <3> HIDE DEF done
    <3>5. /\ session'.phase = "close index" /\ session'.answer = done.answer
          /\ session'.status = done.status
          /\ session'.abandoned = done.abandoned /\ session'.unstarted = done.unstarted
      BY <3>2, <3>4
    <3>6. QED
      BY <3>1, <3>3, <3>5
  <2>2. CASE RunEnds
    <3>1. PICK abandoned \in BOOLEAN :
            session' = [(IF abandoned THEN Ended(Root, "failed") ELSE session) EXCEPT
                         !.phase = "close index",
                         !.abandoned = IF abandoned THEN @ \cup {Root} ELSE @]
      BY <2>2 DEF RunEnds
    <3> DEFINE s == IF abandoned THEN Ended(Root, "failed") ELSE session
    <3>2. /\ DOMAIN s = DOMAIN session /\ s.answer = session.answer
          /\ s.status \in {session.status, [session.status EXCEPT ![Root] = "failed"]}
          /\ s.abandoned = session.abandoned /\ s.unstarted = session.unstarted
      BY <1>4
    <3>3. session' = [s EXCEPT !.phase = "close index",
                               !.abandoned = IF abandoned THEN @ \cup {Root} ELSE @]
      BY <3>1
    <3> HIDE DEF s
    <3>4. "phase" \in DOMAIN s /\ "abandoned" \in DOMAIN s
      BY <1>1, <3>2 DEF SessionFields
    <3>5. /\ session'.phase = "close index" /\ session'.answer = s.answer
          /\ session'.status = s.status /\ session'.unstarted = s.unstarted
          /\ s.abandoned \subseteq session'.abandoned
      BY <3>3, <3>4
    <3>6. QED
      BY <3>2, <3>5
  <2>3. QED
    BY <2>1, <2>2
<1> DEFINE next == session'.status
<1>6. /\ \A u \in DOMAIN plan : u # Root => next[u] = session.status[u]
      /\ next[Root] = "completed"
           => \A t \in DOMAIN plan \ {Root} : session.status[t] # "open"
  BY <1>1, <1>3, <1>5
<1> HIDE DEF next
<1>7. ASSUME NEW u \in DOMAIN plan \ {Root}
      PROVE  /\ next[u] \in {"open", "completed", "failed"}
             /\ next[u] = "failed" => u \in session'.abandoned \cup session'.unstarted
             /\ next[Root] = "completed" => next[u] # "open"
  <2>1. /\ session.status[u] \in {"open", "completed", "failed"}
        /\ session.status[u] = "failed" => u \in session.abandoned \cup session.unstarted
    BY DEF RestInv, Accounted
  <2>2. QED
    BY <1>5, <1>6, <2>1
<1>8. Accounted(session)'
  BY <1>2, <1>7 DEF Accounted, next
<1>9. QED
  BY <1>3, <1>5, <1>8 DEF RestInv, Is, Closing

(* A synthesis has something to be made of. *)
LEMMA MaterialIsCompleted ==
  ASSUME AnswerInv, CollectInv, NEW a, a.source = "synthesis", Made(session, a)
  PROVE  Completed(plan, session.status) # {} /\ a.material # <<>>
<1>1. IsPlan(plan) /\ Rankable(plan, session.status)
  BY SettingsAreSound DEF AnswerInv, CollectInv, plan
<1>2. \E rank : Ranked(plan, Completed(plan, session.status), rank)
  BY <1>1, RankableIsRanked
<1>3. PICK rank : Ranked(plan, Completed(plan, session.status), rank)
  BY <1>2
<1> DEFINE list == CollectResults(plan, session.status)
<1>4. list \in Seq(DOMAIN plan) /\ Range(list) \subseteq Completed(plan, session.status)
  BY <1>3, CollectedIs
<1>5. a.material = list /\ list # <<>>
  BY DEF Made
<1> HIDE DEF list
<1>6. 1 \in DOMAIN list
  BY <1>4, <1>5
<1>7. list[1] \in Range(list)
  BY <1>6 DEF Range
<1>8. QED
  BY <1>4, <1>5, <1>7

LEMMA TerminateKeepsRest ==
  ASSUME AnswerInv, CollectInv, RestInv, Terminate
  PROVE  RestInv'
<1> DEFINE success == session.status[Root] = "completed"
           material == CollectResults(plan, session.status)
           synthesized == IF success \/ material = <<>> THEN {} ELSE Syntheses(session) \ {NoAnswer}
           found == IF success THEN {session.final} ELSE synthesized \cup RootResults(session)
           Partial(answer) == ~success /\ answer.material # <<>>
           Banner(answer) == WithPartialBanner(session, Partial(answer))
<1>1. SessionFields \subseteq DOMAIN session /\ setting \in Settings
  BY DEF AnswerInv
<1>2. setting' = setting /\ plan' = plan /\ session.phase = "answering"
  BY DEF Terminate, plan, Is
<1>3. \E answer \in found :
        session' = [session EXCEPT !.phase = "ended",
                                   !.answer = [Guarded(answer) EXCEPT !.banner = Banner(answer)]]
  BY Zenon DEF Terminate
<1>4. PICK answer \in found :
        session' = [session EXCEPT !.phase = "ended",
                                   !.answer = [Guarded(answer) EXCEPT !.banner = Banner(answer)]]
  BY <1>3
<1>5. Answered(answer) /\ Made(session, answer)
  <2>1. CASE answer = session.final /\ success
    BY <2>1 DEF AnswerInv, Sound, CollectInv
  <2>2. CASE answer \in Syntheses(session) \ {NoAnswer}
    BY <1>1, <2>2, SynthesesAreSound, SynthesesAreMade DEF Sound
  <2>3. CASE answer \in RootResults(session)
    BY <1>1, <2>3, RootResultsAreAnswers, RootResultsAreMade
  <2>4. \/ answer = session.final /\ success
        \/ answer \in Syntheses(session) \ {NoAnswer}
        \/ answer \in RootResults(session)
    OBVIOUS
  <2>5. QED
    BY <2>1, <2>2, <2>3, <2>4
<1> HIDE DEF found
<1> DEFINE banner == Banner(answer)
           g == Guarded(answer)
           shown == [g EXCEPT !.banner = banner]
<1>6. AnswerFields \subseteq DOMAIN g /\ g.source \in {answer.source, "message"}
  <2> DEFINE text == GuardFinalAnswer(answer.text, answer.source, setting.software)
             cut == [answer EXCEPT !.text = text, !.source = IF text = <<>> THEN "message" ELSE @]
  <2>1. g = IF answer.source = "message" THEN answer ELSE cut
    BY Zenon DEF Guarded
  <2>2. AnswerFields \subseteq DOMAIN answer
    BY <1>5 DEF Answered
  <2> HIDE DEF text, g
  <2>3. QED
    BY <2>1, <2>2 DEF AnswerFields
<1>7. session' = [session EXCEPT !.phase = "ended", !.answer = shown]
  BY <1>4
<1> HIDE DEF g, banner
<1>8. shown.source = g.source /\ shown.banner = banner
  BY <1>6 DEF AnswerFields
<1> HIDE DEF shown
<1>9. "phase" \in DOMAIN session /\ "answer" \in DOMAIN session
  BY <1>1 DEF SessionFields
<1>10. /\ session'.phase = "ended" /\ session'.answer = shown /\ session'.status = session.status
       /\ session'.abandoned = session.abandoned /\ session'.unstarted = session.unstarted
  BY <1>7, <1>9
<1>11. ASSUME shown.source = "synthesis", ~banner
       PROVE  success /\ session.abandoned = {}
  <2>1. answer.source = "synthesis"
    BY <1>6, <1>8, <1>11
  <2>2. Completed(plan, session.status) # {} /\ answer.material # <<>>
    BY <1>5, <2>1, MaterialIsCompleted
  <2>3. banner = ((Partial(answer) \/ session.abandoned # {}) /\ Completed(plan, session.status) # {})
    BY Zenon DEF banner, WithPartialBanner
  <2>4. QED
    BY <1>11, <2>2, <2>3
<1>12. Bannered(session')
  BY <1>8, <1>10, <1>11 DEF Bannered
<1>13. Accounted(session)'
  BY <1>2, <1>10 DEF RestInv, Accounted
<1>14. QED
  BY <1>10, <1>12, <1>13 DEF RestInv, Is, Closing

LEMMA RestStep ==
  ASSUME AnswerInv, CollectInv, RestInv, [Next \/ Rest]_vars
  PROVE  RestInv'
<1>1. CASE AgentDies
  <2>1. setting' = setting /\ session' = [session EXCEPT !.phase = "save index"]
        /\ session.phase = "running"
    BY <1>1 DEF AgentDies, Is
  <2>2. session.status[Root] # "completed" /\ ~Is("ended")
    BY <2>1 DEF RestInv, Closing, Is
  <2>3. QED
    BY <2>1, <2>2, PhaseKeepsRest
<1>2. ASSUME NEW closing \in BOOLEAN, SaveFirst(closing) \/ SaveSecond(closing) \/ SaveFails(closing)
      PROVE  RestInv'
  <2>1. CASE closing
    <3>1. setting' = setting /\ session' \in {[session EXCEPT !.phase = "close metadata"],
                                             [session EXCEPT !.phase = "answering"]}
      BY <1>2, <2>1 DEF SaveFirst, SaveSecond, SaveFails, AfterSave
    <3>2. ~Is("ended")
      BY <1>2, <2>1 DEF SaveFirst, SaveSecond, SaveFails, AtIndex, AtMetadata, Is
    <3>3. "close metadata" \in Closing /\ "answering" \in Closing
      BY DEF Closing
    <3>4. QED
      BY <3>1, <3>2, <3>3, PhaseKeepsRest
  <2>2. CASE ~closing
    <3>1. setting' = setting /\ session' \in {[session EXCEPT !.phase = "save metadata"],
                                             [session EXCEPT !.phase = "running"]}
      BY <1>2, <2>2 DEF SaveFirst, SaveSecond, SaveFails, AfterSave
    <3>2. session.phase \in {"save index", "save metadata"}
      BY <1>2, <2>2 DEF SaveFirst, SaveSecond, SaveFails, AtIndex, AtMetadata, Is
    <3>3. session.status[Root] # "completed" /\ ~Is("ended")
      BY <3>2 DEF RestInv, Closing, Is
    <3>4. QED
      BY <3>1, <3>3, PhaseKeepsRest
  <2>3. QED
    BY <2>1, <2>2
<1>3. CASE Crash \/ Start
  <2>1. setting' = setting /\ session' \in {[Fresh(plan) EXCEPT !.phase = "down"], Fresh(plan)}
    BY <1>3 DEF Crash, Start
  <2>2. Root \in DOMAIN plan /\ plan' = plan
    BY <2>1, SettingsAreSound DEF AnswerInv, IsPlan, plan
  <2>3. DOMAIN session'.status = DOMAIN plan /\ (\A t \in DOMAIN plan : session'.status[t] = "open")
        /\ session'.answer = NoAnswer /\ session'.phase # "ended"
    BY <2>1 DEF Fresh
  <2>4. /\ Accounted(session') /\ session'.status[Root] # "completed"
        /\ session'.answer.source # "synthesis"
    BY <2>2, <2>3, FreshIsAccounted
  <2>5. Accounted(session)'
    BY <2>2, <2>4 DEF Accounted
  <2>6. QED
    BY <2>3, <2>4, <2>5 DEF RestInv, Is
<1>4. CASE Rest \/ UNCHANGED vars
  <2>1. setting' = setting /\ session' = session
    BY <1>4 DEF Rest, vars
  <2>2. plan' = plan
    BY <2>1 DEF plan
  <2>3. Accounted(session)' <=> Accounted(session)
    BY <2>1, <2>2 DEF Accounted
  <2>4. QED
    BY <2>1, <2>3 DEF RestInv, Is, Bannered
<1>5. QED
  BY <1>1, <1>2, <1>3, <1>4, SubtaskEndsKeepsRest, RootEndsKeepsRest, TerminateKeepsRest DEF Next

LEMMA CollectedNamesTheRest ==
  ASSUME AnswerInv, CollectInv, RestInv
  PROVE  NamesTheRest
<1> DEFINE material == session.answer.material
           done == Completed(plan, session.status)
           omitted == RollupsToOmit(plan, session.status)
<1>1. SUFFICES ASSUME session.answer.source = "synthesis"
               PROVE  /\ \A t \in session.abandoned :
                           (plan[t].words \in session.answer.named)
                             <=> ~\E u \in done : plan[u].words = plan[t].words
                      /\ ~session.answer.banner
                           => DOMAIN plan \ {Root} \subseteq done \cup session.unstarted
  BY Zenon DEF NamesTheRest
<1>2. /\ material = CollectResults(plan, session.status)
      /\ session.answer.named = CollectNotCompleted(plan, session.status, session.abandoned)
      /\ Range(material) = done \ omitted
  BY <1>1, ShownIsCollected
<1>3. session.answer.named
        = WordsOf(plan, session.abandoned) \ WordsOf(plan, Range(material) \cup omitted)
  BY <1>2 DEF CollectNotCompleted
<1>4. Range(material) \cup omitted = done
  BY <1>2 DEF RollupsToOmit
<1> HIDE DEF material, omitted
<1>5. session.answer.named = WordsOf(plan, session.abandoned) \ WordsOf(plan, done)
  BY <1>3, <1>4
<1>6. ASSUME NEW t \in session.abandoned
      PROVE  (plan[t].words \in session.answer.named)
               <=> ~\E u \in done : plan[u].words = plan[t].words
  <2> HIDE DEF done
  <2>1. QED
    BY <1>5 DEF WordsOf
<1>7. ASSUME ~session.answer.banner, NEW t \in DOMAIN plan \ {Root}
      PROVE  t \in done \cup session.unstarted
  <2>1. session.status[Root] = "completed" /\ session.abandoned = {}
    BY <1>1, <1>7 DEF RestInv, Bannered
  <2>2. /\ session.status[t] \in {"completed", "failed"}
        /\ session.status[t] = "failed" => t \in session.unstarted
    BY <2>1 DEF RestInv, Accounted
  <2>3. QED
    BY <2>2 DEF Completed
<1>8. QED
  BY <1>6, <1>7

(* Nothing finished is lost on the way to the model that writes the answer *)
(* (collect_results), whatever the tasks depend on, but for the end of     *)
(* what there is no room for (format_output).                              *)
THEOREM WorkAlwaysReachesUser == Spec => []WorkReachesUser
<1>1. AnswerInv /\ CollectInv /\ [Next \/ Rest]_vars => AnswerInv' /\ CollectInv'
  BY AnswerStep, CollectStep
<1>2. AnswerInv /\ CollectInv => WorkReachesUser
  BY CollectedReachesUser
<1>3. QED
  BY AnswerInit, CollectInit, <1>1, <1>2, PTL DEF Spec

(* And what was abandoned is named, or was done again                      *)
(* (collect_not_completed); without a banner (terminate), there is nothing *)
(* else undone but what was never started.                                 *)
THEOREM RestAlwaysNamed == Spec => []NamesTheRest
<1>1. AnswerInv /\ CollectInv /\ RestInv /\ [Next \/ Rest]_vars
        => AnswerInv' /\ CollectInv' /\ RestInv'
  BY AnswerStep, CollectStep, RestStep
<1>2. AnswerInv /\ CollectInv /\ RestInv => NamesTheRest
  BY CollectedNamesTheRest
<1>3. QED
  BY AnswerInit, CollectInit, RestInit, <1>1, <1>2, PTL DEF Spec
=============================================================================
