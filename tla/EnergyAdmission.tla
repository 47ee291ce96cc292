--------------------------- MODULE EnergyAdmission ---------------------------
(***************************************************************************)
(* The energy side of orchestrator.py, which Orchestrator leaves to        *)
(* choices: what every unfinished task holds of the budget, which new work *)
(* is admitted against it, and the ceiling on what one task may spend.     *)
(*                                                                         *)
(* Amounts are natural numbers, in quarters of an energy unit (the code's  *)
(* figures are multiples of .25).  The steps that spend or commit energy   *)
(* are the actions; what an agent or a handler does besides is not here,   *)
(* except the order it imposes: a handler that starts several children     *)
(* finishes before anything else is done ("starting").                     *)
(***************************************************************************)
EXTENDS Integers, FiniteSets, Sequences

CONSTANTS
  MaxTasks,               \* task ids the bounded model can create
  Budget,                 \* ColonyState.starting_budget
  DeathThreshold,         \* energy_threshold_death
  AdmissionFloor,         \* ADMISSION_FLOOR
  SpawnExecutor,          \* energy_when_new_by_role, verifiers included
  SpawnDecomposer,
  ReserveExecutor,        \* RESERVE_EXECUTOR
  ReserveDecomposerBase,  \* RESERVE_DECOMPOSER_BASE
  ReservePerChild,        \* RESERVE_PER_CHILD
  ReserveRootExtra,       \* RESERVE_ROOT_EXTRA
  TaskCeilingAttempts,    \* TASK_CEILING_ATTEMPTS
  MaxSubtasksRoot,        \* MAX_SUBTASKS_ROOT
  MaxSubtasksNonRoot,     \* MAX_SUBTASKS_NON_ROOT
  MaxBatch,               \* subtasks a SPAWN asks for at most
  Costs                   \* what one debit may amount to

ASSUME AmountsAreNatural ==
  /\ {MaxTasks, Budget, DeathThreshold, AdmissionFloor, SpawnExecutor,
      SpawnDecomposer, ReserveExecutor, ReserveDecomposerBase, ReservePerChild,
      ReserveRootExtra, TaskCeilingAttempts, MaxSubtasksRoot, MaxSubtasksNonRoot, MaxBatch}
       \subseteq Nat
  /\ Costs \subseteq Nat
  /\ MaxTasks > 0

(* ADMISSION_FLOOR is the threshold and one unit more; the smallest budget *)
(* the phaser gives is far above it.                                       *)
ASSUME BudgetAboveFloor ==
  /\ DeathThreshold < AdmissionFloor
  /\ AdmissionFloor <= Budget

(* "e" and "alpha" are prices of a whole attempt, its spawn included.      *)
ASSUME ReservesCoverSpawning ==
  /\ SpawnExecutor <= ReserveExecutor
  /\ SpawnDecomposer <= ReserveDecomposerBase

(* What __init__ claims of the figures: a decomposer priced at its fan-out *)
(* cap is dearer than an executor.                                         *)
ASSUME DecomposersAreDearer ==
  ReserveExecutor <= ReserveDecomposerBase + ReservePerChild * MaxSubtasksNonRoot

Tasks == 1 .. MaxTasks
Root == 1
None == 0
Kinds == {"executor", "decomposer", "root"}

(* TaskReservation; "attempts" only tells a first agent from a respawn,    *)
(* which are different actions here.                                       *)
Reservations == [kind : Kinds, k : Nat, spawned : BOOLEAN,
                 sunk : Nat, convSunk : Nat, kPeak : Nat]

FirstReservation(kind) == [kind |-> kind, k |-> 0, spawned |-> FALSE,
                           sunk |-> 0, convSunk |-> 0, kPeak |-> 0]

Larger(m, n) == IF m >= n THEN m ELSE n

----------------------------------------------------------------------------
(* Prices *)

(* _own_cost: one attempt, a decomposer that has not spawned at k = 1.     *)
OwnCost(r) ==
  IF r.kind = "executor" THEN ReserveExecutor
  ELSE ReserveDecomposerBase
         + ReservePerChild * (IF r.spawned THEN r.k ELSE 1)
         + (IF r.kind = "root" THEN ReserveRootExtra ELSE 0)

(* _unspawned_children_reservation: a decomposer that has not spawned also *)
(* holds its cheapest child, and the root that child's own child.          *)
UnspawnedChildren(r) ==
  CASE r.kind = "executor" \/ r.spawned -> 0
    [] r.kind = "decomposer" /\ ~r.spawned -> OwnCost(FirstReservation("executor"))
    [] r.kind = "root" /\ ~r.spawned ->
         OwnCost(FirstReservation("decomposer")) + OwnCost(FirstReservation("executor"))

(* _remaining_reservation *)
Remaining(r, spentOnIt) ==
  Larger(0, r.sunk + OwnCost(r) - spentOnIt) + UnspawnedChildren(r)

(* _ceiling_k and task_energy_ceiling *)
CeilingK(r) ==
  Larger(IF r.kind = "root" THEN MaxSubtasksRoot ELSE MaxSubtasksNonRoot,
         Larger(r.kPeak, IF r.spawned THEN r.k ELSE 0))

Ceiling(r) ==
  r.convSunk + TaskCeilingAttempts *
    (IF r.kind = "executor" THEN OwnCost(r)
     ELSE OwnCost([r EXCEPT !.k = CeilingK(r), !.spawned = TRUE]))

SpawnCost(r) == IF r.kind = "executor" THEN SpawnExecutor ELSE SpawnDecomposer

----------------------------------------------------------------------------
(* The books: one record "e".  A task's status is "queued" while it waits  *)
(* in pending_overflow, or for the handler that admitted it to start it.   *)

VARIABLE energy

Books == [status : [Tasks -> {"absent", "queued", "open", "complete", "failed"}],
          res : [Tasks -> Reservations],
          parent : [Tasks -> Tasks \cup {None}],   \* the task it reports to
          taskSpent : [Tasks -> Nat],              \* task_energy_spent
          spent : Nat,                             \* starting_budget - budget_remaining
          unreserved : Nat,                        \* auxiliary, see Charge
          handed : SUBSET Tasks,                   \* a SPAWN, REPORT or DIE in flight
          stale : SUBSET Tasks,                    \* and its agent retired since
          made : 0 .. MaxTasks,
          starting : [task : Tasks \cup {None}, left : Nat, draining : BOOLEAN]]

Kept(e) ==
  /\ e \in Books
  /\ \A t \in Tasks : e.status[t] = "absent" <=> t > e.made
  /\ \A t \in Tasks : e.status[t] \in {"absent", "queued"}
                        => e.taskSpent[t] = 0 /\ e.res[t].sunk = 0
  /\ \A t \in Tasks : e.res[t].convSunk <= e.taskSpent[t]

Idle == [task |-> None, left |-> 0, draining |-> FALSE]

(* What each task holds of the budget, queued ones at the price they were  *)
(* admitted at.                                                            *)
Held(e) == [t \in Tasks |-> IF e.status[t] \in {"queued", "open"}
                              THEN Remaining(e.res[t], e.taskSpent[t]) ELSE 0]

(* A sum without recursion: the units of energy a function hands out.      *)
Units(f) == UNION {{t} \X (1 .. f[t]) : t \in DOMAIN f}
Total(f) == Cardinality(Units(f))

(* Mutant of Limit: the floor is left out. *)
LimitWithoutFloor == Budget

Limit == Budget - AdmissionFloor

(* Mutant of Committed: what is queued is not counted. *)
CommittedWithoutQueue(e) ==
  e.spent + Total([t \in Tasks |-> IF e.status[t] = "queued" THEN 0 ELSE Held(e)[t]])

(* committed_energy and _admits *)
Committed(e) == e.spent + Total(Held(e))
Admits(e) == Committed(e) <= Limit

(* debit_energy.  "unreserved" adds up what the budget has had to bear     *)
(* that admission never saw; here, what an attempt costs beyond what its   *)
(* task still holds.                                                       *)
Charge(e, t, n) ==
  LET billed == [e EXCEPT !.taskSpent[t] = @ + n, !.spent = @ + n]
  IN [billed EXCEPT !.unreserved = @ + n - (Held(e)[t] - Held(billed)[t])]

CanSpawn(e, cost) == Budget - e.spent >= cost

Queue(e, p) == {t \in Tasks : e.status[t] = "queued" /\ e.parent[t] = p}

(* Mutant of Retire: queued children are forgotten altogether. *)
RetireForgetting(e, t) ==
  [e EXCEPT
     !.status = [u \in Tasks |-> IF u \in Queue(e, t) THEN "absent" ELSE @[u]],
     !.parent = [u \in Tasks |-> IF @[u] = t THEN @[t] ELSE @[u]],
     !.stale = IF t \in e.handed /\ e.res[t].kind # "executor" THEN @ \cup {t} ELSE @,
     !.handed = @ \ {t}]

(* _retire_agent: the queued children are dropped, the others report to    *)
(* the retired agent's parent from now on.                                 *)
Retire(e, t) ==
  [e EXCEPT
     !.status = [u \in Tasks |-> IF u \in Queue(e, t) THEN "failed" ELSE @[u]],
     !.parent = [u \in Tasks |-> IF @[u] = t THEN @[t] ELSE @[u]],
     !.stale = IF t \in e.handed /\ e.res[t].kind # "executor" THEN @ \cup {t} ELSE @,
     !.handed = @ \ {t}]

(* Closing a task frees a slot: its parent's next queued child starts.     *)
Close(e, t, status) ==
  [e EXCEPT !.status[t] = status,
            !.handed = @ \ {t},
            !.starting = IF Queue(e, e.parent[t]) = {} THEN Idle
                         ELSE [task |-> e.parent[t], left |-> 1, draining |-> TRUE]]

Stopped(e, t) == Close(Retire(e, t), t, "failed")

OverCeiling(e, t) == e.taskSpent[t] >= Ceiling(e.res[t])

(* _enforce_task_energy_ceiling *)
Enforced(e, t) == IF OverCeiling(e, t) THEN Stopped(e, t) ELSE e

----------------------------------------------------------------------------
(* The steps *)

Working == \/ energy.starting.left = 0
           \/ Queue(energy, energy.starting.task) = {}
Running(t) == Working /\ energy.status[t] = "open"

(* What a handler may bill before it decides: a critique, a note.          *)
Fees == Costs \cup {0}

(* Bound: what a tick may still spend once the budget is gone.             *)
Affords(n) == energy.spent + n <= Budget

(* initialize_colony: the root is admitted and given its first agent, or   *)
(* closed at once.                                                         *)
Init ==
  LET empty == [status |-> [t \in Tasks |-> "absent"],
                res |-> [t \in Tasks |-> FirstReservation("executor")],
                parent |-> [t \in Tasks |-> None],
                taskSpent |-> [t \in Tasks |-> 0],
                spent |-> 0, unreserved |-> 0, handed |-> {}, stale |-> {},
                made |-> 1, starting |-> Idle]
      rooted == [empty EXCEPT !.status[Root] = "open",
                              !.res[Root] = FirstReservation("root")]
  IN energy = IF CanSpawn(rooted, SpawnDecomposer) /\ Admits(rooted)
                THEN Charge(rooted, Root, SpawnDecomposer)
                ELSE [empty EXCEPT !.status[Root] = "failed"]

(* A debit that the ceiling check follows: a THINK cycle, a crash, a       *)
(* child's result injected into its waiting parent.                        *)
Bill(t, n) ==
  /\ Running(t) /\ Affords(n)
  /\ energy' = Enforced(Charge(energy, t, n), t)

(* A cycle that ends in SPAWN, REPORT or DIE is billed and not checked:    *)
(* what it asked for is adjudicated first.                                 *)
HandOff(t, n) ==
  /\ Running(t) /\ Affords(n)
  /\ t \notin energy.handed
  /\ energy' = [Charge(energy, t, n) EXCEPT !.handed = @ \cup {t}]

(* The warn branch bills the critique, and checks before it sends the      *)
(* report back.                                                            *)
SendBack(t, n) ==
  /\ Running(t) /\ Affords(n)
  /\ t \in energy.handed
  /\ energy' = Enforced([Charge(energy, t, n) EXCEPT !.handed = @ \ {t}], t)

ChildrenClosed(p) ==
  \A t \in Tasks : energy.parent[t] = p => energy.status[t] \notin {"queued", "open"}

(* A report promoted, its critique billed first.                           *)
Complete(t, fee) ==
  /\ Running(t) /\ Affords(fee)
  /\ t \in energy.handed
  /\ ChildrenClosed(t)
  /\ energy' = Close(Charge(energy, t, fee), t, "complete")

(* _abandon_task, for whatever reason, and completion from the success     *)
(* cache, which is no different to the books.                              *)
Abandon(t) ==
  /\ Running(t)
  /\ energy' = Stopped(energy, t)

(* The batch a SPAWN of p asks for, had only its first k been admitted.    *)
Offered(e, p, kinds, k) ==
  LET new == e.made + 1 .. e.made + k
  IN [e EXCEPT
        !.status = [t \in Tasks |-> IF t \in new THEN "queued" ELSE @[t]],
        !.res = [t \in Tasks |->
                   IF t \in new THEN FirstReservation(kinds[t - e.made])
                   ELSE IF t = p THEN [@[t] EXCEPT !.k = k, !.spawned = TRUE]
                   ELSE @[t]],
        !.parent = [t \in Tasks |-> IF t \in new THEN p ELSE @[t]],
        !.made = @ + k]

SubtaskCap(r) == IF r.kind = "root" THEN MaxSubtasksRoot ELSE MaxSubtasksNonRoot

(* _enforce_child_role, in kinds: a verifier is priced as an executor.     *)
ChildKinds(r) == IF r.kind = "root" THEN {"decomposer", "executor"} ELSE {"executor"}

(* _admit_spawn_batch: the largest prefix that fits is admitted, the rest  *)
(* dropped.  The decomposer is told what was dropped, before by screening  *)
(* ("fee") and then by admission ("note"), at its own expense.             *)
Spawn(p, kinds, note, fee) ==
  LET screened == Charge(energy, p, fee)
      Fits(k) == Admits(Offered(screened, p, kinds, k))
  IN /\ Running(p) /\ Affords(fee)
     /\ p \in energy.handed
     /\ energy.res[p].kind # "executor"
     /\ ChildrenClosed(p)
     /\ energy.made + Len(kinds) <= MaxTasks
     /\ \E k \in 1 .. Len(kinds) :
          /\ Fits(k)
          /\ \A j \in k + 1 .. Len(kinds) : ~Fits(j)
          /\ LET admitted == Offered(screened, p, kinds, k)
                 told == IF k < Len(kinds) THEN Charge(admitted, p, note)
                                           ELSE admitted
                 cap == SubtaskCap(energy.res[p])
             IN energy' = [told EXCEPT
                  !.handed = @ \ {p},
                  !.starting = [task |-> p, draining |-> FALSE,
                                left |-> IF k <= cap THEN k ELSE cap]]

(* A SPAWN that starts nothing (screened, dropped, refused, malformed) and *)
(* leaves its decomposer running: _release_spawner_if_nothing_started.     *)
Release(p, fee) ==
  /\ Running(p) /\ Affords(fee)
  /\ p \in energy.handed
  /\ energy.res[p].kind # "executor"
  /\ energy' = [Charge(energy, p, fee) EXCEPT !.handed = @ \ {p}]

(* A SPAWN routed after its sender was retired is nobody's: what it asks   *)
(* for is started without being admitted.  Bound: one child.               *)
SpawnByRetired(p, kind) ==
  LET t == energy.made + 1
      started == [energy EXCEPT
                    !.status[t] = "open",
                    !.res[t] = FirstReservation(kind),
                    !.made = t,
                    !.stale = @ \ {p},
                    !.unreserved = @ + Remaining(FirstReservation(kind), 0)]
      cost == SpawnCost(FirstReservation(kind))
  IN /\ Working
     /\ p \in energy.stale
     /\ t \in Tasks
     /\ CanSpawn(energy, cost)
     /\ energy' = Charge(started, t, cost)

(* The next child of the handler at work: a batch up to the cap, or one    *)
(* queued child for a slot just freed.  One that cannot be paid for is     *)
(* closed, and closing it drains the next.                                 *)
StartNext ==
  LET p == energy.starting.task
      rest == IF energy.starting.left = 1 THEN Idle
              ELSE [energy.starting EXCEPT !.left = @ - 1]
  IN /\ ~Working
     /\ \E t \in Queue(energy, p) :
          /\ \A u \in Queue(energy, p) : t <= u
          /\ LET cost == SpawnCost(energy.res[t])
             IN energy' =
                  IF CanSpawn(energy, cost)
                    THEN Charge([energy EXCEPT !.status[t] = "open",
                                               !.starting = rest], t, cost)
                    ELSE [energy EXCEPT
                            !.status[t] = "failed",
                            !.starting = IF energy.starting.draining THEN @ ELSE rest]

(* Mutant of Replanned: the batch it had is forgotten.                     *)
ReplannedFromNothing(r, spentOnIt) ==
  [r EXCEPT !.sunk = spentOnIt,
            !.k = IF r.kind = "executor" THEN @ ELSE 0,
            !.spawned = IF r.kind = "executor" THEN @ ELSE FALSE]

(* What spawn_agent makes of a reservation when the task is tried again.   *)
Replanned(r, spentOnIt) ==
  IF r.kind = "executor" THEN [r EXCEPT !.sunk = spentOnIt]
  ELSE [r EXCEPT !.sunk = spentOnIt, !.k = 0, !.spawned = FALSE,
                 !.kPeak = IF r.spawned THEN Larger(@, r.k) ELSE @]

(* _kill_and_respawn and the admission of a respawn.  A stale failure may  *)
(* have a completed task tried again; its own reservation is then not in   *)
(* the sum it is admitted against.  A report rejected has cost a critique. *)
Respawn(t, fee) ==
  LET judged == Charge(energy, t, fee)
      retired == Retire(judged, t)
      r == Replanned(judged.res[t], judged.taskSpent[t])
      planned == [retired EXCEPT !.res[t] = r]
      reopened == [planned EXCEPT
                     !.status[t] = "open",
                     !.unreserved = @ + (Held([planned EXCEPT !.status[t] = "open"])[t]
                                           - Held(planned)[t])]
      cost == SpawnCost(r)
  IN /\ Working
     /\ energy.status[t] \in {"open", "complete"}
     /\ fee > 0 => Affords(fee) /\ energy.status[t] = "open" /\ t \in energy.handed
     /\ energy' = IF OverCeiling(judged, t) \/ ~CanSpawn(judged, cost)
                        \/ ~Admits(planned)
                     THEN Stopped(judged, t)
                     ELSE Charge(reopened, t, cost)

(* handle_failure on TASK TOO LARGE, and _admit_conversion: what the       *)
(* executor spent is carried, not held against the decomposer.  Respawned  *)
(* at once, without a second admission.                                    *)
Convert(t) ==
  LET spentOnIt == energy.taskSpent[t]
      r == [energy.res[t] EXCEPT !.kind = "decomposer", !.k = 0, !.spawned = FALSE,
                                 !.sunk = spentOnIt, !.convSunk = spentOnIt]
      planned == [energy EXCEPT !.res[t] = r]
      retired == Retire(planned, t)
  IN /\ Running(t)
     /\ energy.res[t].kind = "executor"
     /\ energy' = IF ~Admits(planned) \/ OverCeiling(planned, t)
                        \/ ~CanSpawn(energy, SpawnDecomposer)
                     THEN Stopped(energy, t)
                     ELSE Charge(retired, t, SpawnDecomposer)

Batches(r) == UNION {[1 .. n -> ChildKinds(r)] : n \in 1 .. MaxBatch}

Next ==
  \/ StartNext
  \/ \E t \in Tasks :
       \/ Abandon(t)
       \/ Convert(t)
       \/ \E fee \in Fees : Complete(t, fee) \/ Release(t, fee) \/ Respawn(t, fee)
       \/ \E kind \in {"decomposer", "executor"} : SpawnByRetired(t, kind)
       \/ \E n \in Costs :
            \/ Bill(t, n)
            \/ HandOff(t, n)
            \/ SendBack(t, n)
            \/ \E kinds \in Batches(energy.res[t]), fee \in Fees :
                 Spawn(t, kinds, n, fee)

Spec == Init /\ [][Next]_energy

----------------------------------------------------------------------------
(* Properties *)

(* The books keep their kinds, a task that never had an agent has spent    *)
(* nothing, and what a conversion carried over is part of what was spent   *)
(* (TaskReservation, task_energy_spent).                                   *)
TypeOK == Kept(energy)

(* Every price a task still holds is covered by what is left of the budget *)
(* above the floor, but for what admission never saw (committed_energy,    *)
(* _admits): whatever is spent, started, queued, dropped, re-priced,       *)
(* converted or tried again, in whatever order.                            *)
Covered == Committed(energy) <= Limit + energy.unreserved

(* "The floor keeps the colony out of energy death": as long as attempts   *)
(* cost what they were priced at, the budget stays above the threshold.    *)
Solvent == energy.unreserved = 0 => Budget - energy.spent > DeathThreshold

(* A child admitted with its batch can be paid for when its turn comes,    *)
(* however late, as long as attempts cost what they were priced at: no     *)
(* admitted subtask ends as NOT STARTED.                                   *)
AdmittedCanStart ==
  energy.unreserved = 0 =>
    \A t \in Tasks : energy.status[t] = "queued"
                         => CanSpawn(energy, SpawnCost(energy.res[t]))

(* A task tried again or converted, which is what moves its sunk spend,    *)
(* may spend no less in all than before: _ceiling_k prices the batch it    *)
(* had, whatever admission re-plans.                                       *)
CeilingKeptByRestart ==
  [][\A t \in Tasks : energy'.res[t].sunk # energy.res[t].sunk
       => Ceiling(energy'.res[t]) >= Ceiling(energy.res[t])]_energy
=============================================================================
