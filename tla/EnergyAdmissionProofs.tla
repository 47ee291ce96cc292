----------------------- MODULE EnergyAdmissionProofs -----------------------
(***************************************************************************)
(* EnergyAdmission for every budget, every set of prices and any number of *)
(* tasks.  The argument is one of accounts: no step adds to what is        *)
(* committed without adding as much to "unreserved", except those that are *)
(* admitted, and what is admitted fits.                                    *)
(***************************************************************************)
EXTENDS EnergyAdmission, FiniteSetTheorems, TLAPS

----------------------------------------------------------------------------
(* Sums *)

(* What a function hands out is a finite set of units.                     *)
LEMMA UnitsFinite ==
  ASSUME NEW f \in [Tasks -> Nat]
  PROVE  /\ IsFiniteSet(Units(f))
         /\ Total(f) \in Nat
<1> DEFINE Share == [t \in Tasks |-> {t} \X (1 .. f[t])]
           Shares == {{t} \X (1 .. f[t]) : t \in Tasks}
<1>1. IsFiniteSet(Tasks)
  BY FS_Interval, AmountsAreNatural DEF Tasks
<1>2. Share \in Surjection(Tasks, Shares)
  BY DEF Surjection
<1>3. IsFiniteSet(Shares)
  BY <1>1, <1>2, FS_Surjection
<1>4. ASSUME NEW t \in Tasks PROVE IsFiniteSet({t} \X (1 .. f[t]))
  <2>1. IsFiniteSet({t})
    BY FS_Singleton
  <2>2. IsFiniteSet(1 .. f[t])
    BY FS_Interval, 1 \in Int, f[t] \in Int
  <2>3. QED
    BY <2>1, <2>2, FS_Product
<1>5. Units(f) = UNION Shares
  BY DEF Units
<1>6. IsFiniteSet(UNION Shares)
  BY <1>3, <1>4, FS_UNION
<1>7. QED
  BY <1>5, <1>6, FS_CardinalityType DEF Total

(* Which units a function hands out.                                       *)
LEMMA UnitsMembers ==
  ASSUME NEW f \in [Tasks -> Nat]
  PROVE  \A t, n : <<t, n>> \in Units(f) <=> t \in Tasks /\ n \in 1 .. f[t]
BY DEF Units

(* Every unit is a pair.                                                   *)
LEMMA UnitsPairs ==
  ASSUME NEW f \in [Tasks -> Nat], NEW u \in Units(f)
  PROVE  \E t \in Tasks : \E n \in 1 .. f[t] : u = <<t, n>>
BY DEF Units

(* A function that hands out no more to anyone hands out no more in all.   *)
LEMMA TotalMonotone ==
  ASSUME NEW f \in [Tasks -> Nat], NEW g \in [Tasks -> Nat],
         \A t \in Tasks : g[t] <= f[t]
  PROVE  Total(g) <= Total(f)
<1>1. Units(g) \subseteq Units(f)
  <2>1. SUFFICES ASSUME NEW u \in Units(g) PROVE u \in Units(f)
    OBVIOUS
  <2>2. PICK t \in Tasks : \E n \in 1 .. g[t] : u = <<t, n>>
    BY UnitsPairs
  <2>3. PICK n \in 1 .. g[t] : u = <<t, n>>
    BY <2>2
  <2>4. n \in 1 .. f[t]
    OBVIOUS
  <2>5. QED
    BY <2>3, <2>4, UnitsMembers
<1>2. QED
  BY <1>1, UnitsFinite, FS_Subset DEF Total

(* Raising what one task is handed raises the total by as much.            *)
LEMMA TotalRaised ==
  ASSUME NEW f \in [Tasks -> Nat], NEW g \in [Tasks -> Nat], NEW t \in Tasks,
         g[t] <= f[t], \A u \in Tasks \ {t} : f[u] = g[u]
  PROVE  Total(f) = Total(g) + (f[t] - g[t])
<1> DEFINE More == {t} \X (g[t] + 1 .. f[t])
<1>1. Units(f) = Units(g) \cup More
  <2>1. ASSUME NEW u \in Units(f) PROVE u \in Units(g) \cup More
    <3>0. PICK s \in Tasks : \E n \in 1 .. f[s] : u = <<s, n>>
      BY UnitsPairs
    <3>1. PICK n \in 1 .. f[s] : u = <<s, n>>
      BY <3>0
    <3>2. CASE n \in 1 .. g[s]
      BY <3>1, <3>2, UnitsMembers
    <3>3. CASE n \notin 1 .. g[s]
      <4>1. s = t
        BY <3>3
      <4>2. n \in g[t] + 1 .. f[t]
        BY <3>3, <4>1
      <4>3. QED
        BY <3>1, <4>1, <4>2
    <3>4. QED
      BY <3>2, <3>3
  <2>2. ASSUME NEW u \in Units(g) PROVE u \in Units(f)
    <3>0. PICK s \in Tasks : \E n \in 1 .. g[s] : u = <<s, n>>
      BY UnitsPairs
    <3>1. PICK n \in 1 .. g[s] : u = <<s, n>>
      BY <3>0
    <3>2. n \in 1 .. f[s]
      BY s = t \/ f[s] = g[s]
    <3>3. QED
      BY <3>1, <3>2, UnitsMembers
  <2>3. ASSUME NEW u \in More PROVE u \in Units(f)
    <3>1. PICK n \in g[t] + 1 .. f[t] : u = <<t, n>>
      OBVIOUS
    <3>2. n \in 1 .. f[t]
      OBVIOUS
    <3>3. QED
      BY <3>1, <3>2, UnitsMembers
  <2>4. QED
    BY <2>1, <2>2, <2>3
<1>2. Units(g) \cap More = {}
  <2>1. SUFFICES ASSUME NEW n \in g[t] + 1 .. f[t] PROVE <<t, n>> \notin Units(g)
    OBVIOUS
  <2>2. QED
    BY UnitsMembers
<1>3. IsFiniteSet(More) /\ Cardinality(More) = f[t] - g[t]
  <2>1. IsFiniteSet({t}) /\ Cardinality({t}) = 1
    BY FS_Singleton
  <2>2. /\ IsFiniteSet(g[t] + 1 .. f[t])
        /\ Cardinality(g[t] + 1 .. f[t]) = f[t] - g[t]
    <3>1. /\ IsFiniteSet(g[t] + 1 .. f[t])
          /\ Cardinality(g[t] + 1 .. f[t]) =
               IF g[t] + 1 > f[t] THEN 0 ELSE f[t] - (g[t] + 1) + 1
      BY FS_Interval, g[t] + 1 \in Int, f[t] \in Int
    <3>2. QED
      BY <3>1
  <2>3. /\ IsFiniteSet(More)
        /\ Cardinality(More) = Cardinality({t}) * Cardinality(g[t] + 1 .. f[t])
    BY <2>1, <2>2, FS_Product
  <2>4. QED
    BY <2>1, <2>2, <2>3
<1>4. Cardinality(Units(g) \cup More)
        = Cardinality(Units(g)) + Cardinality(More) - Cardinality({})
  BY <1>2, <1>3, UnitsFinite, FS_Union
<1>5. QED
  BY <1>1, <1>3, <1>4, UnitsFinite, FS_EmptySet DEF Total

(* What one task is handed is part of the total.                           *)
LEMMA TotalHolds ==
  ASSUME NEW f \in [Tasks -> Nat], NEW t \in Tasks
  PROVE  f[t] <= Total(f)
<1> DEFINE g == [u \in Tasks |-> IF u = t THEN 0 ELSE f[u]]
<1>1. Total(f) = Total(g) + (f[t] - g[t])
  <2>1. g \in [Tasks -> Nat] /\ g[t] = 0 /\ \A u \in Tasks \ {t} : f[u] = g[u]
    OBVIOUS
  <2>2. QED
    BY <2>1, TotalRaised
<1>2. Total(g) \in Nat /\ g[t] = 0
  <2>1. g \in [Tasks -> Nat]
    OBVIOUS
  <2>2. QED
    BY <2>1, UnitsFinite
<1>3. QED
  BY <1>1, <1>2, UnitsFinite

----------------------------------------------------------------------------
(* Prices *)

(* A first reservation is a reservation.                                   *)
LEMMA FirstIsReservation ==
  ASSUME NEW kind \in Kinds
  PROVE  FirstReservation(kind) \in Reservations
BY DEF FirstReservation, Reservations

(* The price of an attempt is an amount, and covers the spawn it starts    *)
(* with (_own_cost).                                                       *)
LEMMA OwnCostIsPrice ==
  ASSUME NEW r \in Reservations
  PROVE  /\ OwnCost(r) \in Nat
         /\ SpawnCost(r) \in Nat
         /\ SpawnCost(r) <= OwnCost(r)
<1> DEFINE n == IF r.spawned THEN r.k ELSE 1
<1>1. n \in Nat
  BY DEF Reservations
<1>2. ReservePerChild * n \in Nat
  BY <1>1, AmountsAreNatural
<1>3. QED
  BY <1>2, AmountsAreNatural, ReservesCoverSpawning
     DEF OwnCost, SpawnCost, Reservations, Kinds

(* So is what a decomposer that has not spawned holds for its children.    *)
LEMMA ChildrenArePriced ==
  ASSUME NEW r \in Reservations
  PROVE  UnspawnedChildren(r) \in Nat
<1>1. \A kind \in Kinds : OwnCost(FirstReservation(kind)) \in Nat
  BY FirstIsReservation, OwnCostIsPrice
<1>2. r.kind \in Kinds /\ r.spawned \in BOOLEAN
  BY DEF Reservations
<1>3. QED
  BY <1>1, <1>2 DEF UnspawnedChildren, Kinds

(* A task spent on holds less by no more than was spent on it.             *)
LEMMA RemainingShrinks ==
  ASSUME NEW r \in Reservations, NEW m \in Nat, NEW n \in Nat
  PROVE  /\ Remaining(r, m) \in Nat
         /\ Remaining(r, m + n) \in Nat
         /\ Remaining(r, m + n) <= Remaining(r, m)
         /\ Remaining(r, m) - Remaining(r, m + n) <= n
BY OwnCostIsPrice, ChildrenArePriced DEF Remaining, Larger, Reservations

(* The ceiling is an amount.                                               *)
LEMMA CeilingIsPrice ==
  ASSUME NEW r \in Reservations
  PROVE  CeilingK(r) \in Nat /\ Ceiling(r) \in Nat
<1> DEFINE priced == [r EXCEPT !.k = CeilingK(r), !.spawned = TRUE]
<1>1. CeilingK(r) \in Nat
  BY AmountsAreNatural DEF CeilingK, Larger, Reservations
<1>2. priced \in Reservations
  BY <1>1 DEF Reservations
<1>3. OwnCost(priced) \in Nat /\ OwnCost(r) \in Nat
  BY <1>2, OwnCostIsPrice
<1>4. \A n \in Nat : TaskCeilingAttempts * n \in Nat
  BY AmountsAreNatural
<1>5. /\ TaskCeilingAttempts * OwnCost(priced) \in Nat
      /\ TaskCeilingAttempts * OwnCost(r) \in Nat
      /\ r.convSunk \in Nat
  BY <1>3, <1>4 DEF Reservations
<1>6. Ceiling(r) = r.convSunk + (IF r.kind = "executor"
                                   THEN TaskCeilingAttempts * OwnCost(r)
                                   ELSE TaskCeilingAttempts * OwnCost(priced))
  BY DEF Ceiling
<1>7. QED
  BY <1>1, <1>5, <1>6

----------------------------------------------------------------------------
(* The books *)

(* What every task holds is an amount, and so is their sum.                *)
LEMMA HeldIsPrice ==
  ASSUME NEW e \in Books
  PROVE  /\ Held(e) \in [Tasks -> Nat]
         /\ Total(Held(e)) \in Nat
<1>1. ASSUME NEW t \in Tasks
      PROVE  Remaining(e.res[t], e.taskSpent[t]) \in Nat
  <2>1. e.res[t] \in Reservations /\ e.taskSpent[t] \in Nat
    BY DEF Books
  <2>2. QED
    BY <2>1, RemainingShrinks
<1>2. Held(e) \in [Tasks -> Nat]
  BY <1>1 DEF Held
<1>3. QED
  BY <1>2, UnitsFinite

(* Books that hold no more for anyone are committed to no more.            *)
LEMMA HoldingLess ==
  ASSUME NEW e \in Books, NEW f \in Books,
         f.spent = e.spent,
         \A t \in Tasks : Held(f)[t] <= Held(e)[t]
  PROVE  Committed(f) <= Committed(e)
<1>1. /\ Held(e) \in [Tasks -> Nat] /\ Held(f) \in [Tasks -> Nat]
      /\ Total(Held(e)) \in Nat /\ Total(Held(f)) \in Nat
  BY HeldIsPrice
<1>2. Total(Held(f)) <= Total(Held(e))
  BY <1>1, TotalMonotone
<1>3. e.spent \in Nat
  BY DEF Books
<1>4. QED
  BY <1>1, <1>2, <1>3 DEF Committed

(* Books that differ in no task and no bill hold the same.                 *)
LEMMA HoldingTheSame ==
  ASSUME NEW e \in Books, NEW f \in Books,
         f.spent = e.spent, f.status = e.status, f.res = e.res,
         f.taskSpent = e.taskSpent
  PROVE  Committed(f) = Committed(e)
BY DEF Committed, Held

(* What Charge writes.                                                     *)
Charged(e, t, n, f) ==
  /\ f \in Books
  /\ f.status = e.status
  /\ f.res = e.res
  /\ f.parent = e.parent
  /\ f.handed = e.handed
  /\ f.stale = e.stale
  /\ f.made = e.made
  /\ f.starting = e.starting
  /\ f.spent = e.spent + n
  /\ f.taskSpent = [e.taskSpent EXCEPT ![t] = @ + n]
  /\ f.unreserved >= e.unreserved
  /\ Committed(f) - f.unreserved = Committed(e) - e.unreserved

(* A debit adds to what is committed exactly what it adds to "unreserved": *)
(* what its task still holds pays for the rest (debit_energy).             *)
LEMMA ChargeIsCovered ==
  ASSUME NEW e \in Books, NEW t \in Tasks, NEW n \in Nat
  PROVE  Charged(e, t, n, Charge(e, t, n))
<1>0. SUFFICES ASSUME NEW billed,
                      billed = [e EXCEPT !.taskSpent[t] = @ + n, !.spent = @ + n],
                      NEW f,
                      f = [billed EXCEPT !.unreserved =
                             @ + n - (Held(e)[t] - Held(billed)[t])]
               PROVE  Charged(e, t, n, f)
  BY DEF Charge
<1>1. /\ billed.taskSpent = [e.taskSpent EXCEPT ![t] = @ + n]
      /\ billed.spent = e.spent + n
      /\ billed.status = e.status /\ billed.res = e.res
      /\ billed.parent = e.parent /\ billed.unreserved = e.unreserved
      /\ billed.handed = e.handed /\ billed.stale = e.stale
      /\ billed.made = e.made /\ billed.starting = e.starting
  BY <1>0 DEF Books
<1>2. billed \in Books
  <2>1. e.taskSpent \in [Tasks -> Nat] /\ e.spent \in Nat
    BY DEF Books
  <2>2. [e.taskSpent EXCEPT ![t] = @ + n] \in [Tasks -> Nat] /\ e.spent + n \in Nat
    BY <2>1
  <2>3. QED
    BY <1>0, <1>1, <2>2 DEF Books
<1>3. /\ Held(e) \in [Tasks -> Nat]
      /\ Held(billed) \in [Tasks -> Nat]
      /\ Total(Held(e)) \in Nat /\ Total(Held(billed)) \in Nat
  BY <1>2, HeldIsPrice
<1>4. e.taskSpent \in [Tasks -> Nat] /\ e.unreserved \in Nat /\ e.spent \in Nat
  BY DEF Books
<1>5. \A u \in Tasks \ {t} : Held(e)[u] = Held(billed)[u]
  BY <1>1, <1>4 DEF Held
<1>6. Held(billed)[t] <= Held(e)[t] /\ Held(e)[t] - Held(billed)[t] <= n
  <2>1. e.res[t] \in Reservations /\ e.taskSpent[t] \in Nat
    BY DEF Books
  <2>2. billed.taskSpent[t] = e.taskSpent[t] + n
    BY <1>1, <1>4
  <2>3. \/ /\ Held(e)[t] = Remaining(e.res[t], e.taskSpent[t])
           /\ Held(billed)[t] = Remaining(e.res[t], e.taskSpent[t] + n)
        \/ Held(e)[t] = 0 /\ Held(billed)[t] = 0
    BY <1>1, <2>2 DEF Held
  <2>4. /\ Remaining(e.res[t], e.taskSpent[t] + n) <= Remaining(e.res[t], e.taskSpent[t])
        /\ Remaining(e.res[t], e.taskSpent[t])
             - Remaining(e.res[t], e.taskSpent[t] + n) <= n
    BY <2>1, RemainingShrinks
  <2>5. QED
    BY <2>3, <2>4
<1>7. Total(Held(e)) = Total(Held(billed)) + (Held(e)[t] - Held(billed)[t])
  BY <1>3, <1>5, <1>6, TotalRaised
<1>8. /\ f.unreserved = e.unreserved + n - (Held(e)[t] - Held(billed)[t])
      /\ f.taskSpent = billed.taskSpent /\ f.spent = billed.spent
      /\ f.status = billed.status /\ f.res = billed.res
      /\ f.parent = billed.parent /\ f.handed = billed.handed
      /\ f.stale = billed.stale /\ f.made = billed.made
      /\ f.starting = billed.starting
  BY <1>0, <1>1, <1>2 DEF Books
<1>9. f.unreserved \in Nat /\ f.unreserved >= e.unreserved
  <2>1. Held(e)[t] \in Nat /\ Held(billed)[t] \in Nat
    BY <1>3
  <2>2. QED
    BY <1>4, <1>6, <1>8, <2>1
<1>10. f \in Books
  BY <1>0, <1>2, <1>8, <1>9 DEF Books
<1>11. Committed(f) = Committed(billed)
  BY <1>2, <1>8, <1>10, HoldingTheSame
<1>12. /\ Committed(billed) = e.spent + n + Total(Held(billed))
       /\ Committed(e) = e.spent + Total(Held(e))
  BY <1>1 DEF Committed
<1>13. Committed(f) - f.unreserved = Committed(e) - e.unreserved
  <2>1. Held(e)[t] \in Nat /\ Held(billed)[t] \in Nat
    BY <1>3
  <2>2. QED
    BY <1>3, <1>4, <1>7, <1>8, <1>11, <1>12, <2>1
<1>14. QED
  BY <1>1, <1>8, <1>9, <1>10, <1>13 DEF Charged

----------------------------------------------------------------------------
(* The pieces the steps are made of keep the books sound *)

Sound(e) == Kept(e) /\ Committed(e) <= Limit + e.unreserved

(* A task may be billed once it has had an agent.                          *)
LEMMA ChargeIsSound ==
  ASSUME NEW e, Sound(e), NEW t \in Tasks, NEW n \in Nat,
         e.status[t] \notin {"absent", "queued"}
  PROVE  Sound(Charge(e, t, n))
<1>0. e \in Books
  BY DEF Sound, Kept
<1>1. SUFFICES ASSUME NEW f, Charged(e, t, n, f) PROVE Sound(f)
  BY <1>0, ChargeIsCovered
<1>2. /\ e.taskSpent \in [Tasks -> Nat] /\ e.res \in [Tasks -> Reservations]
      /\ e.unreserved \in Nat
      /\ f.unreserved \in Nat
  BY <1>0, <1>1 DEF Books, Charged
<1>3. \A u \in Tasks : f.taskSpent[u] = IF u = t THEN e.taskSpent[u] + n
                                                  ELSE e.taskSpent[u]
  BY <1>1, <1>2 DEF Charged
<1>4. Kept(f)
  <2>1. f \in Books /\ f.status = e.status /\ f.res = e.res /\ f.made = e.made
    BY <1>1 DEF Charged
  <2>2. ASSUME NEW u \in Tasks PROVE f.res[u].convSunk <= f.taskSpent[u]
    <3>1. e.res[u].convSunk <= e.taskSpent[u] /\ e.res[u].convSunk \in Nat
      BY <1>2 DEF Sound, Kept, Reservations
    <3>2. QED
      BY <1>2, <1>3, <2>1, <3>1
  <2>3. ASSUME NEW u \in Tasks, f.status[u] \in {"absent", "queued"}
        PROVE  f.taskSpent[u] = 0 /\ f.res[u].sunk = 0
    BY <1>3, <2>1, <2>3 DEF Sound, Kept
  <2>4. \A u \in Tasks : f.status[u] = "absent" <=> u > f.made
    BY <2>1 DEF Sound, Kept
  <2>5. QED
    BY <2>1, <2>2, <2>3, <2>4 DEF Kept
<1>5. Committed(f) <= Limit + f.unreserved
  <2>1. Committed(e) \in Int /\ Committed(f) \in Int
    <3>1. \A g \in Books : Committed(g) \in Int
      BY HeldIsPrice DEF Committed, Books
    <3>2. QED
      BY <1>0, <1>1, <3>1 DEF Charged
  <2>2. Limit \in Int
    BY AmountsAreNatural DEF Limit
  <2>3. QED
    BY <1>1, <1>2, <2>1, <2>2 DEF Charged, Sound
<1>6. QED
  BY <1>4, <1>5 DEF Sound

(* What is no one's business but the handlers' does not move the books.    *)
LEMMA SoundOtherwise ==
  ASSUME NEW e, Sound(e), NEW f,
         f \in Books,
         f.status = e.status, f.res = e.res, f.taskSpent = e.taskSpent,
         f.spent = e.spent, f.unreserved = e.unreserved, f.made = e.made
  PROVE  Sound(f)
<1>1. e \in Books
  BY DEF Sound, Kept
<1>2. Committed(f) = Committed(e)
  BY <1>1, HoldingTheSame
<1>3. QED
  BY <1>2 DEF Sound, Kept

(* Closing what was open or queued takes it out of the sum.                *)
LEMMA SoundWhenClosed ==
  ASSUME NEW e, Sound(e), NEW f, f \in Books,
         f.res = e.res, f.taskSpent = e.taskSpent,
         f.spent = e.spent, f.unreserved = e.unreserved, f.made = e.made,
         \A u \in Tasks : \/ f.status[u] = e.status[u]
                          \/ /\ e.status[u] # "absent"
                             /\ f.status[u] \in {"complete", "failed"}
  PROVE  Sound(f)
<1>1. e \in Books /\ e.unreserved \in Nat /\ Limit \in Int
  BY AmountsAreNatural DEF Sound, Kept, Books, Limit
<1>2. Held(e) \in [Tasks -> Nat] /\ Held(f) \in [Tasks -> Nat]
  BY <1>1, HeldIsPrice
<1>3. \A u \in Tasks : Held(f)[u] <= Held(e)[u]
  <2>1. SUFFICES ASSUME NEW u \in Tasks PROVE Held(f)[u] = Held(e)[u] \/ Held(f)[u] = 0
    BY <1>2
  <2>2. QED
    BY DEF Held
<1>4. Committed(f) <= Committed(e)
  BY <1>1, <1>3, HoldingLess
<1>5. Committed(e) \in Int /\ Committed(f) \in Int
  <2>1. \A g \in Books : Committed(g) \in Int
    BY HeldIsPrice DEF Committed, Books
  <2>2. QED
    BY <1>1, <2>1
<1>6. Committed(f) <= Limit + f.unreserved
  BY <1>1, <1>4, <1>5 DEF Sound
<1>7. Kept(f)
  BY DEF Sound, Kept
<1>8. QED
  BY <1>6, <1>7 DEF Sound

(* What Retire writes.                                                     *)
Retired(e, t, f) ==
  /\ f \in Books
  /\ f.res = e.res /\ f.taskSpent = e.taskSpent
  /\ f.spent = e.spent /\ f.unreserved = e.unreserved
  /\ f.made = e.made
  /\ \A u \in Tasks : \/ f.status[u] = e.status[u]
                      \/ e.status[u] = "queued" /\ f.status[u] = "failed"

(* Retiring an agent drops what is queued behind it (_retire_agent).       *)
LEMMA RetireDropsQueue ==
  ASSUME NEW e \in Books, NEW t \in Tasks
  PROVE  Retired(e, t, Retire(e, t))
<1>1. SUFFICES ASSUME NEW f, f = Retire(e, t) PROVE Retired(e, t, f)
  OBVIOUS
<1>2. /\ f.status = [u \in Tasks |-> IF u \in Queue(e, t) THEN "failed"
                                                          ELSE e.status[u]]
      /\ f.parent = [u \in Tasks |-> IF e.parent[u] = t THEN e.parent[t]
                                                        ELSE e.parent[u]]
      /\ f.stale = IF t \in e.handed /\ e.res[t].kind # "executor"
                     THEN e.stale \cup {t} ELSE e.stale
      /\ f.handed = e.handed \ {t}
      /\ f.res = e.res /\ f.taskSpent = e.taskSpent
      /\ f.spent = e.spent /\ f.unreserved = e.unreserved
      /\ f.made = e.made /\ f.starting = e.starting
  BY <1>1 DEF Retire, Books
<1>3. \A u \in Tasks : u \in Queue(e, t) => e.status[u] = "queued"
  BY DEF Queue
<1>4. f \in Books
  <2>1. f.status \in [Tasks -> {"absent", "queued", "open", "complete", "failed"}]
    BY <1>2 DEF Books
  <2>2. f.parent \in [Tasks -> Tasks \cup {None}]
    BY <1>2 DEF Books
  <2>3. f.stale \in SUBSET Tasks /\ f.handed \in SUBSET Tasks
    BY <1>2 DEF Books
  <2>4. QED
    BY <1>1, <1>2, <2>1, <2>2, <2>3 DEF Retire, Books
<1>5. \A u \in Tasks : \/ f.status[u] = e.status[u]
                       \/ e.status[u] = "queued" /\ f.status[u] = "failed"
  BY <1>2, <1>3
<1>6. QED
  BY <1>2, <1>4, <1>5 DEF Retired

(* And keeps the books sound.                                              *)
LEMMA RetireIsSound ==
  ASSUME NEW e, Sound(e), NEW t \in Tasks
  PROVE  Sound(Retire(e, t))
<1>1. e \in Books
  BY DEF Sound, Kept
<1>2. SUFFICES ASSUME NEW f, Retired(e, t, f) PROVE Sound(f)
  BY <1>1, RetireDropsQueue
<1>3. QED
  BY <1>2, SoundWhenClosed DEF Retired

(* A task that is closed, and its parent's queue with it, is sound.        *)
LEMMA CloseIsSound ==
  ASSUME NEW e, Sound(e), NEW t \in Tasks, NEW status \in {"complete", "failed"},
         e.status[t] # "absent"
  PROVE  Sound(Close(e, t, status))
<1>1. e \in Books
  BY DEF Sound, Kept
<1>2. SUFFICES ASSUME NEW f, f = Close(e, t, status) PROVE Sound(f)
  OBVIOUS
<1>3. /\ f.status = [e.status EXCEPT ![t] = status]
      /\ f.handed = e.handed \ {t}
      /\ f.starting = IF Queue(e, e.parent[t]) = {} THEN Idle
                      ELSE [task |-> e.parent[t], left |-> 1, draining |-> TRUE]
      /\ f.parent = e.parent /\ f.stale = e.stale
      /\ f.res = e.res /\ f.taskSpent = e.taskSpent
      /\ f.spent = e.spent /\ f.unreserved = e.unreserved
      /\ f.made = e.made
  BY <1>1, <1>2 DEF Close, Books
<1>4. f \in Books
  <2>1. f.status \in [Tasks -> {"absent", "queued", "open", "complete", "failed"}]
    BY <1>1, <1>3 DEF Books
  <2>2. f.handed \in SUBSET Tasks
    BY <1>1, <1>3 DEF Books
  <2>3. f.starting \in [task : Tasks \cup {None}, left : Nat, draining : BOOLEAN]
    BY <1>1, <1>3 DEF Books, Idle
  <2>4. QED
    BY <1>1, <1>2, <1>3, <2>1, <2>2, <2>3 DEF Close, Books
<1>5. \A u \in Tasks : \/ f.status[u] = e.status[u]
                       \/ /\ e.status[u] # "absent"
                          /\ f.status[u] \in {"complete", "failed"}
  BY <1>1, <1>3 DEF Books
<1>6. QED
  BY <1>3, <1>4, <1>5, SoundWhenClosed

(* So is one that is stopped (_abandon_task).                              *)
LEMMA StoppedIsSound ==
  ASSUME NEW e, Sound(e), NEW t \in Tasks, e.status[t] # "absent"
  PROVE  Sound(Stopped(e, t))
<1>1. e \in Books
  BY DEF Sound, Kept
<1>2. SUFFICES ASSUME NEW f, Retired(e, t, f), Sound(f)
               PROVE  Sound(Close(f, t, "failed"))
  BY <1>1, RetireDropsQueue, RetireIsSound DEF Stopped
<1>3. f.status[t] # "absent"
  BY <1>2 DEF Retired
<1>4. QED
  BY <1>2, <1>3, CloseIsSound

(* So is one stopped only if it is over its ceiling                        *)
(* (_enforce_task_energy_ceiling).                                         *)
LEMMA EnforcedIsSound ==
  ASSUME NEW e, Sound(e), NEW t \in Tasks, e.status[t] # "absent"
  PROVE  Sound(Enforced(e, t))
BY StoppedIsSound DEF Enforced

(* Who has handed something in is no matter of money.                      *)
LEMMA HandedIsSound ==
  ASSUME NEW e, Sound(e), NEW S \in SUBSET Tasks
  PROVE  Sound([e EXCEPT !.handed = S])
<1>1. e \in Books
  BY DEF Sound, Kept
<1>2. SUFFICES ASSUME NEW f, f = [e EXCEPT !.handed = S] PROVE Sound(f)
  OBVIOUS
<1>3. /\ f \in Books
      /\ f.status = e.status /\ f.res = e.res /\ f.taskSpent = e.taskSpent
      /\ f.spent = e.spent /\ f.unreserved = e.unreserved /\ f.made = e.made
  BY <1>1, <1>2 DEF Books
<1>4. QED
  BY <1>3, SoundOtherwise

(* Books that fit are sound whatever was re-priced to get there (_admits). *)
LEMMA AdmittedIsSound ==
  ASSUME NEW e, Kept(e), Admits(e)
  PROVE  Sound(e)
<1>1. e \in Books
  BY DEF Kept
<1>2. Committed(e) \in Int /\ Limit \in Int /\ e.unreserved \in Nat
  BY <1>1, HeldIsPrice, AmountsAreNatural DEF Committed, Limit, Books
<1>3. QED
  BY <1>2 DEF Admits, Sound

(* Giving one task a reservation that leaves what was carried within what  *)
(* was spent keeps the books' kinds.                                       *)
LEMMA RepricedIsKept ==
  ASSUME NEW e, Kept(e), NEW t \in Tasks, NEW r \in Reservations,
         e.status[t] \notin {"absent", "queued"},
         r.convSunk <= e.taskSpent[t]
  PROVE  Kept([e EXCEPT !.res[t] = r])
<1>1. e \in Books
  BY DEF Kept
<1>2. SUFFICES ASSUME NEW f, f = [e EXCEPT !.res[t] = r] PROVE Kept(f)
  OBVIOUS
<1>3. /\ f.res = [e.res EXCEPT ![t] = r]
      /\ f.status = e.status /\ f.taskSpent = e.taskSpent /\ f.made = e.made
  BY <1>1, <1>2 DEF Books
<1>4. f \in Books
  <2>1. [e.res EXCEPT ![t] = r] \in [Tasks -> Reservations]
    BY <1>1 DEF Books
  <2>2. QED
    BY <1>1, <1>2, <2>1 DEF Books
<1>5. \A u \in Tasks : f.res[u] = IF u = t THEN r ELSE e.res[u]
  BY <1>1, <1>3 DEF Books
<1>6. QED
  BY <1>3, <1>4, <1>5 DEF Kept

(* A task that comes to hold something admission never saw adds as much to *)
(* "unreserved".                                                           *)
LEMMA RaisedIsSound ==
  ASSUME NEW e, Sound(e), NEW f, Kept(f), NEW t \in Tasks,
         f.spent = e.spent,
         Held(f)[t] >= Held(e)[t],
         \A u \in Tasks \ {t} : Held(f)[u] = Held(e)[u],
         f.unreserved = e.unreserved + (Held(f)[t] - Held(e)[t])
  PROVE  Sound(f)
<1>1. e \in Books /\ f \in Books
  BY DEF Sound, Kept
<1>2. /\ Held(e) \in [Tasks -> Nat] /\ Held(f) \in [Tasks -> Nat]
      /\ Total(Held(e)) \in Nat /\ Total(Held(f)) \in Nat
  BY <1>1, HeldIsPrice
<1>3. Total(Held(f)) = Total(Held(e)) + (Held(f)[t] - Held(e)[t])
  BY <1>2, TotalRaised
<1>4. /\ Held(e)[t] \in Nat /\ Held(f)[t] \in Nat
      /\ e.unreserved \in Nat /\ e.spent \in Nat /\ Limit \in Int
  BY <1>1, <1>2, AmountsAreNatural DEF Books, Limit
<1>5. Committed(f) <= Limit + f.unreserved
  BY <1>2, <1>3, <1>4 DEF Committed, Sound
<1>6. QED
  BY <1>5 DEF Sound

(* Debits, retirements and closures leave every reservation alone.         *)
LEMMA ReservationsStay ==
  ASSUME NEW e \in Books, NEW t \in Tasks
  PROVE  /\ \A n \in Nat : Charge(e, t, n) \in Books /\ Charge(e, t, n).res = e.res
         /\ Retire(e, t) \in Books /\ Retire(e, t).res = e.res
         /\ \A s : Close(e, t, s).res = e.res
         /\ Stopped(e, t).res = e.res
         /\ Enforced(e, t).res = e.res
<1>1. \A n \in Nat : Charge(e, t, n) \in Books /\ Charge(e, t, n).res = e.res
  BY ChargeIsCovered DEF Charged
<1>2. Retire(e, t) \in Books /\ Retire(e, t).res = e.res
  BY RetireDropsQueue DEF Retired
<1>3. ASSUME NEW b \in Books, NEW s PROVE Close(b, t, s).res = b.res
  BY DEF Close, Books
<1>4. Stopped(e, t).res = e.res
  BY <1>2, <1>3 DEF Stopped
<1>5. QED
  BY <1>1, <1>2, <1>3, <1>4 DEF Enforced
(* Which reservations a step may give another sunk spend: a task tried     *)
(* again, or converted.                                                    *)
Restarts(e, f) ==
  \A t \in Tasks :
    \/ f.res[t].sunk = e.res[t].sunk
    \/ \E n \in Nat : f.res[t] = Replanned(e.res[t], n)
    \/ /\ f.res[t] \in Reservations
       /\ e.res[t].kind = "executor" /\ f.res[t].kind = "decomposer"
       /\ f.res[t].convSunk = e.taskSpent[t]

----------------------------------------------------------------------------
(* The steps *)

(* THINK cycles, crashes and injected results (debit_energy, _enforce).    *)
LEMMA BillStep ==
  ASSUME Sound(energy), NEW t \in Tasks, NEW n \in Costs, Bill(t, n)
  PROVE  Sound(energy') /\ Restarts(energy, energy')
<1>1. n \in Nat /\ energy.status[t] = "open" /\ energy \in Books
  BY AmountsAreNatural DEF Bill, Running, Sound, Kept
<1>2. PICK f : f = Charge(energy, t, n)
  OBVIOUS
<1>3. Sound(f) /\ f.status = energy.status /\ f.res = energy.res /\ f \in Books
  BY <1>1, <1>2, ChargeIsSound, ChargeIsCovered DEF Charged
<1>4. energy' = Enforced(f, t)
  BY <1>2 DEF Bill
<1>5. energy'.res = energy.res
  BY <1>3, <1>4, ReservationsStay
<1>6. QED
  BY <1>1, <1>3, <1>4, <1>5, EnforcedIsSound DEF Restarts

(* A cycle that ends in SPAWN, REPORT or DIE.                              *)
LEMMA HandOffStep ==
  ASSUME Sound(energy), NEW t \in Tasks, NEW n \in Costs, HandOff(t, n)
  PROVE  Sound(energy') /\ Restarts(energy, energy')
<1>1. n \in Nat /\ energy.status[t] = "open" /\ energy \in Books
  BY AmountsAreNatural DEF HandOff, Running, Sound, Kept
<1>2. PICK f : f = Charge(energy, t, n)
  OBVIOUS
<1>3. Sound(f) /\ f.handed = energy.handed /\ f.res = energy.res /\ f \in Books
  BY <1>1, <1>2, ChargeIsSound, ChargeIsCovered DEF Charged
<1>4. energy' = [f EXCEPT !.handed = f.handed \cup {t}]
  BY <1>2 DEF HandOff
<1>5. f.handed \cup {t} \in SUBSET Tasks
  BY <1>1, <1>3 DEF Books
<1>6. energy'.res = energy.res
  BY <1>3, <1>4 DEF Books
<1>7. QED
  BY <1>3, <1>4, <1>5, <1>6, HandedIsSound DEF Restarts

(* A report sent back for revision.                                        *)
LEMMA SendBackStep ==
  ASSUME Sound(energy), NEW t \in Tasks, NEW n \in Costs, SendBack(t, n)
  PROVE  Sound(energy') /\ Restarts(energy, energy')
<1>1. n \in Nat /\ energy.status[t] = "open" /\ energy \in Books
  BY AmountsAreNatural DEF SendBack, Running, Sound, Kept
<1>2. PICK f : f = Charge(energy, t, n)
  OBVIOUS
<1>3. /\ Sound(f) /\ f.handed = energy.handed /\ f.status = energy.status
      /\ f.res = energy.res /\ f \in Books
  BY <1>1, <1>2, ChargeIsSound, ChargeIsCovered DEF Charged
<1>4. PICK g : g = [f EXCEPT !.handed = f.handed \ {t}]
  OBVIOUS
<1>5. Sound(g)
  <2>1. f.handed \ {t} \in SUBSET Tasks
    BY <1>3 DEF Books
  <2>2. QED
    BY <1>3, <1>4, <2>1, HandedIsSound
<1>6. g.status = energy.status /\ g.res = energy.res
  BY <1>3, <1>4 DEF Books
<1>7. energy' = Enforced(g, t)
  BY <1>2, <1>4 DEF SendBack
<1>8. energy'.res = energy.res
  BY <1>5, <1>6, <1>7, ReservationsStay DEF Sound, Kept
<1>9. QED
  BY <1>1, <1>5, <1>6, <1>7, <1>8, EnforcedIsSound DEF Restarts

(* An abandonment.                                                         *)
LEMMA AbandonStep ==
  ASSUME Sound(energy), NEW t \in Tasks, Abandon(t)
  PROVE  Sound(energy') /\ Restarts(energy, energy')
<1>1. energy \in Books
  BY DEF Sound, Kept
<1>2. QED
  BY <1>1, StoppedIsSound, ReservationsStay DEF Abandon, Running, Restarts

(* A completion, and a SPAWN that starts nothing.                          *)
LEMMA ClosingSteps ==
  ASSUME Sound(energy), NEW t \in Tasks, NEW fee \in Fees,
         Complete(t, fee) \/ Release(t, fee)
  PROVE  Sound(energy') /\ Restarts(energy, energy')
<1>1. energy \in Books /\ fee \in Nat /\ energy.status[t] = "open"
  BY AmountsAreNatural DEF Sound, Kept, Fees, Complete, Release, Running
<1>2. PICK f : f = Charge(energy, t, fee)
  OBVIOUS
<1>3. Sound(f) /\ f \in Books /\ f.res = energy.res /\ f.status = energy.status
  BY <1>1, <1>2, ChargeIsSound, ChargeIsCovered DEF Charged
<1>4. CASE Complete(t, fee)
  <2>1. energy' = Close(f, t, "complete")
    BY <1>2, <1>4 DEF Complete
  <2>2. QED
    BY <1>1, <1>3, <2>1, CloseIsSound, ReservationsStay DEF Restarts
<1>5. CASE Release(t, fee)
  <2>1. energy' = [f EXCEPT !.handed = f.handed \ {t}]
    BY <1>2, <1>5 DEF Release
  <2>2. f.handed \ {t} \in SUBSET Tasks
    BY <1>3 DEF Books
  <2>3. energy'.res = energy.res
    BY <1>3, <2>1 DEF Books
  <2>4. QED
    BY <1>3, <2>1, <2>2, <2>3, HandedIsSound DEF Restarts
<1>6. QED
  BY <1>4, <1>5

(* A batch offered is kept in the books, whether or not it fits.           *)
LEMMA OfferIsKept ==
  ASSUME NEW e, Kept(e), NEW p \in Tasks, e.status[p] = "open",
         NEW n \in Nat, NEW kinds \in [1 .. n -> Kinds], NEW k \in 1 .. n,
         e.made + n <= MaxTasks
  PROVE  /\ Kept(Offered(e, p, kinds, k))
         /\ Offered(e, p, kinds, k).status[p] = "open"
         /\ Offered(e, p, kinds, k).handed = e.handed
         /\ \A t \in Tasks : Offered(e, p, kinds, k).res[t].sunk = e.res[t].sunk
<1> DEFINE new == e.made + 1 .. e.made + k
<1>1. e \in Books /\ e.made \in Nat /\ MaxTasks \in Nat /\ e.made + k <= MaxTasks
  <2>1. e \in Books /\ MaxTasks \in Nat
    BY AmountsAreNatural DEF Kept
  <2>2. e.made \in 0 .. MaxTasks
    BY <2>1 DEF Books
  <2>3. QED
    BY <2>1, <2>2
<1>2. /\ p \notin new
      /\ \A t \in Tasks : t \in new <=> e.made < t /\ t <= e.made + k
      /\ \A t \in new : t - e.made \in 1 .. n
  BY <1>1 DEF Kept, Tasks
<1>3. SUFFICES ASSUME NEW f, f = Offered(e, p, kinds, k)
               PROVE  /\ Kept(f) /\ f.status[p] = "open" /\ f.handed = e.handed
                      /\ \A t \in Tasks : f.res[t].sunk = e.res[t].sunk
  OBVIOUS
<1>4. /\ f.status = [t \in Tasks |-> IF t \in new THEN "queued" ELSE e.status[t]]
      /\ f.res = [t \in Tasks |->
                   IF t \in new THEN FirstReservation(kinds[t - e.made])
                   ELSE IF t = p THEN [e.res[t] EXCEPT !.k = k, !.spawned = TRUE]
                   ELSE e.res[t]]
      /\ f.parent = [t \in Tasks |-> IF t \in new THEN p ELSE e.parent[t]]
      /\ f.made = e.made + k
      /\ f.taskSpent = e.taskSpent /\ f.spent = e.spent
      /\ f.unreserved = e.unreserved /\ f.handed = e.handed
      /\ f.stale = e.stale /\ f.starting = e.starting
  BY <1>1, <1>3 DEF Offered, Books
<1> HIDE DEF new
<1>5. \A t \in Tasks : f.status[t] = IF t \in new THEN "queued" ELSE e.status[t]
  BY <1>4
<1>6. \A t \in Tasks \ {p} :
        f.res[t] = IF t \in new THEN FirstReservation(kinds[t - e.made]) ELSE e.res[t]
  BY <1>4
<1>7. f.res[p] = [e.res[p] EXCEPT !.k = k, !.spawned = TRUE]
  BY <1>2, <1>4
<1>8. f.made = e.made + k /\ f.taskSpent = e.taskSpent /\ f.handed = e.handed
  BY <1>4
<1>9. e.res[p] \in Reservations /\ e.taskSpent \in [Tasks -> Nat] /\ k \in Nat
  BY <1>1 DEF Books
<1>10. f.res[p] \in Reservations /\ f.res[p].convSunk = e.res[p].convSunk
  BY <1>7, <1>9 DEF Reservations
<1>11. ASSUME NEW t \in new
       PROVE  /\ FirstReservation(kinds[t - e.made]) \in Reservations
              /\ FirstReservation(kinds[t - e.made]).sunk = 0
              /\ FirstReservation(kinds[t - e.made]).convSunk = 0
  <2>1. kinds[t - e.made] \in Kinds
    BY <1>2
  <2>2. QED
    BY <2>1, FirstIsReservation DEF FirstReservation
<1>12. f \in Books
  <2>1. f.status \in [Tasks -> {"absent", "queued", "open", "complete", "failed"}]
    <3>1. \A t \in Tasks : e.status[t] \in {"absent", "queued", "open", "complete", "failed"}
      BY <1>1 DEF Books
    <3>2. QED
      BY <1>4, <3>1
  <2>2. f.res \in [Tasks -> Reservations]
    <3>1. \A t \in Tasks : e.res[t] \in Reservations
      BY <1>1 DEF Books
    <3>2. \A t \in Tasks : f.res[t] \in Reservations
      BY <1>6, <1>10, <1>11, <3>1
    <3>3. f.res = [t \in Tasks |-> f.res[t]]
      BY <1>4
    <3>4. QED
      BY <3>2, <3>3
  <2>3. f.parent \in [Tasks -> Tasks \cup {None}]
    <3>1. \A t \in Tasks : e.parent[t] \in Tasks \cup {None}
      BY <1>1 DEF Books
    <3>2. QED
      BY <1>4, <3>1
  <2>4. f.made \in 0 .. MaxTasks
    BY <1>1, <1>8, <1>9
  <2>5. QED
    BY <1>1, <1>3, <1>4, <2>1, <2>2, <2>3, <2>4 DEF Offered, Books
<1>13. ASSUME NEW t \in Tasks PROVE f.status[t] = "absent" <=> t > f.made
  <2>1. e.status[t] = "absent" <=> t > e.made
    BY DEF Kept
  <2>2. t \in Nat
    BY DEF Tasks
  <2>3. QED
    BY <1>1, <1>2, <1>5, <1>8, <1>9, <2>1, <2>2, SMTT(30)
<1>14. ASSUME NEW t \in Tasks, f.status[t] \in {"absent", "queued"}
       PROVE  f.taskSpent[t] = 0 /\ f.res[t].sunk = 0
  <2>1. t # p
    BY <1>2, <1>5, <1>14
  <2>2. CASE t \in new
    <3>1. t > e.made
      BY <1>2, <2>2
    <3>2. e.taskSpent[t] = 0
      BY <3>1 DEF Kept
    <3>3. QED
      BY <1>6, <1>8, <1>11, <2>1, <2>2, <3>2
  <2>3. CASE t \notin new
    BY <1>5, <1>6, <1>8, <1>14, <2>1, <2>3 DEF Kept
  <2>4. QED
    BY <2>2, <2>3
<1>15. ASSUME NEW t \in Tasks PROVE f.res[t].convSunk <= f.taskSpent[t]
  <2>1. e.res[t].convSunk <= e.taskSpent[t] /\ 0 <= e.taskSpent[t]
    BY <1>9 DEF Kept
  <2>2. f.res[t].convSunk \in {e.res[t].convSunk, 0}
    BY <1>6, <1>10, <1>11
  <2>3. QED
    BY <1>8, <2>1, <2>2
<1>16. f.status[p] = "open"
  BY <1>2, <1>5
<1>17. Kept(f)
  BY <1>12, <1>13, <1>14, <1>15 DEF Kept
<1>18. ASSUME NEW t \in Tasks PROVE f.res[t].sunk = e.res[t].sunk
  <2>1. CASE t \in new
    <3>1. t > e.made
      BY <1>2, <2>1
    <3>2. e.res[t].sunk = 0
      BY <3>1 DEF Kept
    <3>3. QED
      BY <1>2, <1>6, <1>11, <2>1, <3>2
  <2>2. CASE t = p
    BY <1>7, <1>9, <2>2 DEF Reservations
  <2>3. CASE t \notin new /\ t # p
    BY <1>6, <2>3
  <2>4. QED
    BY <2>1, <2>2, <2>3
<1>19. QED
  BY <1>8, <1>16, <1>17, <1>18

(* A SPAWN admits what fits, and no more (_admit_spawn_batch).             *)
LEMMA SpawnStep ==
  ASSUME Sound(energy), NEW p \in Tasks, NEW note \in Costs, NEW fee \in Fees,
         NEW kinds \in Batches(energy.res[p]), Spawn(p, kinds, note, fee)
  PROVE  Sound(energy') /\ Restarts(energy, energy')
<1>0. PICK screened : screened = Charge(energy, p, fee)
  OBVIOUS
<1>1. /\ Sound(screened) /\ screened.status[p] = "open"
      /\ screened.res = energy.res
      /\ screened.made + Len(kinds) <= MaxTasks
  <2>1. /\ energy \in Books /\ fee \in Nat /\ energy.status[p] = "open"
        /\ energy.made + Len(kinds) <= MaxTasks
    BY AmountsAreNatural, SMTT(30) DEF Sound, Kept, Fees, Spawn, Running
  <2>2. QED
    BY <1>0, <2>1, ChargeIsSound, ChargeIsCovered, ZenonT(40) DEF Charged
<1>2. PICK m \in 1 .. MaxBatch : kinds \in [1 .. m -> ChildKinds(energy.res[p])]
  BY DEF Batches
<1>3. m \in Nat /\ kinds \in [1 .. m -> Kinds] /\ Len(kinds) = m
  <2>1. m \in Nat
    BY AmountsAreNatural
  <2>2. kinds \in [1 .. m -> Kinds]
    BY <1>2 DEF ChildKinds, Kinds
  <2>3. kinds \in Seq(Kinds) /\ DOMAIN kinds = 1 .. m
    BY <2>1, <2>2 DEF Seq
  <2>4. Len(kinds) = m
    BY <2>1, <2>3
  <2>5. QED
    BY <2>1, <2>2, <2>4
<1> DEFINE cap == SubtaskCap(energy.res[p])
           left(k) == IF k <= cap THEN k ELSE cap
           told(k) == IF k < Len(kinds) THEN Charge(Offered(screened, p, kinds, k), p, note)
                                        ELSE Offered(screened, p, kinds, k)
<1>4. PICK k \in 1 .. m :
        /\ Admits(Offered(screened, p, kinds, k))
        /\ energy' = [told(k) EXCEPT
                        !.handed = @ \ {p},
                        !.starting = [task |-> p, draining |-> FALSE, left |-> left(k)]]
  BY <1>0, <1>3 DEF Spawn
<1>5. PICK offered : offered = Offered(screened, p, kinds, k)
  OBVIOUS
<1>6. /\ Sound(offered) /\ offered.status[p] = "open"
      /\ \A t \in Tasks : offered.res[t].sunk = energy.res[t].sunk
  BY <1>1, <1>3, <1>4, <1>5, OfferIsKept, AdmittedIsSound DEF Sound
<1>7. PICK e : e = told(k)
  OBVIOUS
<1>8. Sound(e) /\ e.res = offered.res
  <2>1. e = offered \/ e = Charge(offered, p, note)
    BY <1>5, <1>7
  <2>2. note \in Nat /\ offered \in Books
    BY <1>6, AmountsAreNatural DEF Sound, Kept
  <2>3. QED
    BY <1>6, <2>1, <2>2, ChargeIsSound, ReservationsStay
<1>9. left(k) \in Nat
  BY <1>3, AmountsAreNatural DEF SubtaskCap
<1>10. PICK f : f = [e EXCEPT !.handed = e.handed \ {p},
                              !.starting = [task |-> p, draining |-> FALSE,
                                            left |-> left(k)]]
  OBVIOUS
<1>11. e \in Books
  BY <1>8 DEF Sound, Kept
<1>12. /\ f.handed = e.handed \ {p}
       /\ f.starting = [task |-> p, draining |-> FALSE, left |-> left(k)]
       /\ f.status = e.status /\ f.res = e.res /\ f.taskSpent = e.taskSpent
       /\ f.parent = e.parent /\ f.stale = e.stale
       /\ f.spent = e.spent /\ f.unreserved = e.unreserved /\ f.made = e.made
  BY <1>10, <1>11 DEF Books
<1> HIDE DEF told, left, cap
<1>13. f \in Books
  <2>1. f.handed \in SUBSET Tasks
    BY <1>11, <1>12 DEF Books
  <2>2. f.starting \in [task : Tasks \cup {None}, left : Nat, draining : BOOLEAN]
    BY <1>9, <1>12
  <2>3. QED
    BY <1>10, <1>11, <1>12, <2>1, <2>2 DEF Books
<1>14. Sound(f)
  BY <1>8, <1>12, <1>13, SoundOtherwise
<1>15. energy' = f
  BY <1>4, <1>7, <1>10
<1>16. QED
  BY <1>6, <1>8, <1>12, <1>14, <1>15 DEF Restarts

(* The next admitted child starts, or cannot be paid for and is closed     *)
(* (_spawn_child_task, _drain_pending_overflow).                           *)
LEMMA StartNextStep ==
  ASSUME Sound(energy), StartNext
  PROVE  Sound(energy') /\ Restarts(energy, energy')
<1> DEFINE left == energy.starting.left
           rest == IF left = 1 THEN Idle ELSE [energy.starting EXCEPT !.left = @ - 1]
           Starts == [task : Tasks \cup {None}, left : Nat, draining : BOOLEAN]
<1>1. PICK t \in Queue(energy, energy.starting.task) :
        energy' = IF CanSpawn(energy, SpawnCost(energy.res[t]))
                    THEN Charge([energy EXCEPT !.status[t] = "open", !.starting = rest],
                                t, SpawnCost(energy.res[t]))
                    ELSE [energy EXCEPT !.status[t] = "failed",
                                        !.starting = IF energy.starting.draining
                                                       THEN @ ELSE rest]
  BY DEF StartNext
<1>2. t \in Tasks /\ energy.status[t] = "queued" /\ energy \in Books
  BY DEF Queue, Sound, Kept
<1>3. rest \in Starts /\ energy.starting \in Starts
  <2>1. energy.starting \in Starts
    BY <1>2 DEF Books
  <2>2. left \in Nat /\ left # 0
    BY <2>1 DEF StartNext, Working
  <2>3. QED
    BY <2>1, <2>2 DEF Idle
<1>4. SpawnCost(energy.res[t]) \in Nat
  BY <1>2, OwnCostIsPrice DEF Books
<1> DEFINE Moved(s, start) == [energy EXCEPT !.status[t] = s, !.starting = start]
<1> HIDE DEF rest
<1>5. ASSUME NEW s \in {"open", "failed"}, NEW start \in Starts
      PROVE  /\ Moved(s, start) \in Books
             /\ Moved(s, start).status = [energy.status EXCEPT ![t] = s]
             /\ Moved(s, start).res = energy.res
             /\ Moved(s, start).taskSpent = energy.taskSpent
             /\ Moved(s, start).spent = energy.spent
             /\ Moved(s, start).unreserved = energy.unreserved
             /\ Moved(s, start).made = energy.made
  <2>0. SUFFICES ASSUME NEW f, f = Moved(s, start)
                 PROVE  /\ f \in Books
                        /\ f.status = [energy.status EXCEPT ![t] = s]
                        /\ f.res = energy.res /\ f.taskSpent = energy.taskSpent
                        /\ f.spent = energy.spent /\ f.unreserved = energy.unreserved
                        /\ f.made = energy.made
    OBVIOUS
  <2>1. /\ f.status = [energy.status EXCEPT ![t] = s] /\ f.starting = start
        /\ f.res = energy.res /\ f.taskSpent = energy.taskSpent
        /\ f.spent = energy.spent /\ f.unreserved = energy.unreserved
        /\ f.made = energy.made /\ f.parent = energy.parent
        /\ f.handed = energy.handed /\ f.stale = energy.stale
    BY <1>2, <2>0 DEF Books
  <2>2. f.status \in [Tasks -> {"absent", "queued", "open", "complete", "failed"}]
    BY <1>2, <1>5, <2>1 DEF Books
  <2>3. f \in Books
    BY <1>2, <1>5, <2>0, <2>1, <2>2 DEF Books
  <2>4. QED
    BY <2>1, <2>3
<1>6. CASE CanSpawn(energy, SpawnCost(energy.res[t]))
  <2>1. energy' = Charge(Moved("open", rest), t, SpawnCost(energy.res[t]))
    BY <1>1, <1>6
  <2> HIDE DEF Moved
  <2>2. PICK f : f = Moved("open", rest)
    OBVIOUS
  <2>3. /\ f \in Books
        /\ f.status = [energy.status EXCEPT ![t] = "open"]
        /\ f.res = energy.res /\ f.taskSpent = energy.taskSpent
        /\ f.spent = energy.spent /\ f.unreserved = energy.unreserved
        /\ f.made = energy.made
    BY <1>3, <1>5, <2>2
  <2>4. \A u \in Tasks : f.status[u] = IF u = t THEN "open" ELSE energy.status[u]
    BY <1>2, <2>3 DEF Books
  <2>5. Kept(f)
    BY <1>2, <2>3, <2>4 DEF Sound, Kept
  <2>6. Held(f) = Held(energy)
    BY <1>2, <2>3, <2>4 DEF Held
  <2>7. Sound(f) /\ f.status[t] = "open"
    BY <1>2, <2>3, <2>4, <2>5, <2>6 DEF Sound, Committed
  <2>8. energy'.res = energy.res
    BY <1>2, <1>4, <2>1, <2>2, <2>3, ReservationsStay
  <2>9. QED
    BY <1>2, <1>4, <2>1, <2>2, <2>7, <2>8, ChargeIsSound DEF Restarts
<1>7. CASE ~CanSpawn(energy, SpawnCost(energy.res[t]))
  <2>1. PICK start \in Starts : energy' = Moved("failed", start)
    BY <1>1, <1>3, <1>7
  <2> HIDE DEF Moved
  <2>2. PICK f : f = Moved("failed", start)
    OBVIOUS
  <2>3. /\ f \in Books
        /\ f.status = [energy.status EXCEPT ![t] = "failed"]
        /\ f.res = energy.res /\ f.taskSpent = energy.taskSpent
        /\ f.spent = energy.spent /\ f.unreserved = energy.unreserved
        /\ f.made = energy.made
    BY <1>5, <2>2
  <2>4. \A u \in Tasks : \/ f.status[u] = energy.status[u]
                         \/ /\ energy.status[u] # "absent"
                            /\ f.status[u] \in {"complete", "failed"}
    BY <1>2, <2>3 DEF Books
  <2>5. QED
    BY <2>1, <2>2, <2>3, <2>4, SoundWhenClosed DEF Restarts
<1>8. QED
  BY <1>6, <1>7

(* A task tried again is open again; if it had completed, what it holds    *)
(* was not in the sum it was admitted against.                             *)
LEMMA ReopenIsSound ==
  ASSUME NEW e, Sound(e), NEW t \in Tasks, e.status[t] \in {"open", "complete"},
         NEW f,
         f = [e EXCEPT !.status[t] = "open",
                       !.unreserved = @ + (Held([e EXCEPT !.status[t] = "open"])[t]
                                             - Held(e)[t])]
  PROVE  Sound(f) /\ f.status[t] = "open" /\ f.res = e.res
<1>0. PICK opened : opened = [e EXCEPT !.status[t] = "open"]
  OBVIOUS
<1>1. e \in Books
  BY DEF Sound, Kept
<1>2. f = [e EXCEPT !.status[t] = "open",
                    !.unreserved = @ + (Held(opened)[t] - Held(e)[t])]
  BY <1>0
<1>3. /\ f.status = [e.status EXCEPT ![t] = "open"]
      /\ f.unreserved = e.unreserved + (Held(opened)[t] - Held(e)[t])
      /\ f.res = e.res /\ f.taskSpent = e.taskSpent /\ f.spent = e.spent
      /\ f.made = e.made /\ f.parent = e.parent /\ f.handed = e.handed
      /\ f.stale = e.stale /\ f.starting = e.starting
  BY <1>1, <1>2 DEF Books
<1>4. /\ opened.status = [e.status EXCEPT ![t] = "open"]
      /\ opened.res = e.res /\ opened.taskSpent = e.taskSpent
      /\ opened \in Books
  BY <1>0, <1>1 DEF Books
<1>5. \A u \in Tasks : f.status[u] = IF u = t THEN "open" ELSE e.status[u]
  BY <1>1, <1>3 DEF Books
<1>6. Held(e) \in [Tasks -> Nat] /\ Held(opened) \in [Tasks -> Nat]
  BY <1>1, <1>4, HeldIsPrice
<1>7. Held(opened)[t] >= Held(e)[t]
  <2>1. \/ Held(e)[t] = 0
        \/ Held(e)[t] = Remaining(e.res[t], e.taskSpent[t])
    BY DEF Held
  <2>2. Held(opened)[t] = Remaining(e.res[t], e.taskSpent[t])
    BY <1>1, <1>4 DEF Held, Books
  <2>3. Held(opened)[t] \in Nat
    BY <1>6
  <2>4. QED
    BY <2>1, <2>2, <2>3
<1>8. f \in Books
  <2>1. f.status \in [Tasks -> {"absent", "queued", "open", "complete", "failed"}]
    BY <1>1, <1>3 DEF Books
  <2>2. f.unreserved \in Nat
    <3>1. e.unreserved \in Nat
      BY <1>1 DEF Books
    <3>2. Held(opened)[t] \in Nat /\ Held(e)[t] \in Nat
      BY <1>6
    <3>3. QED
      BY <1>3, <1>7, <3>1, <3>2
  <2>3. QED
    BY <1>1, <1>2, <1>3, <2>1, <2>2 DEF Books
<1>9. Held(f) = Held(opened)
  BY <1>3, <1>4 DEF Held
<1>10. \A u \in Tasks \ {t} : Held(f)[u] = Held(e)[u]
  BY <1>3, <1>5 DEF Held
<1>11. Kept(f)
  BY <1>3, <1>5, <1>8 DEF Sound, Kept
<1>12. Sound(f)
  <2>1. /\ Held(f)[t] >= Held(e)[t]
        /\ f.unreserved = e.unreserved + (Held(f)[t] - Held(e)[t])
        /\ f.spent = e.spent
    BY <1>3, <1>7, <1>9
  <2>2. QED
    BY <1>10, <1>11, <2>1, RaisedIsSound
<1>13. QED
  BY <1>3, <1>5, <1>12

(* What an attempt is re-planned at is a reservation that carries the same *)
(* spend.                                                                  *)
LEMMA ReplannedIsReservation ==
  ASSUME NEW r \in Reservations, NEW n \in Nat
  PROVE  /\ Replanned(r, n) \in Reservations
         /\ Replanned(r, n).convSunk = r.convSunk
         /\ Replanned(r, n).kind = r.kind
<1>1. CASE r.kind = "executor"
  BY <1>1 DEF Replanned, Reservations
<1>2. CASE r.kind # "executor"
  <2>1. PICK peak \in Nat : peak = IF r.spawned THEN Larger(r.kPeak, r.k) ELSE r.kPeak
    BY DEF Larger, Reservations
  <2>2. Replanned(r, n) = [r EXCEPT !.sunk = n, !.k = 0, !.spawned = FALSE,
                                    !.kPeak = peak]
    BY <1>2, <2>1 DEF Replanned
  <2>3. SUFFICES ASSUME NEW q, q = [r EXCEPT !.sunk = n, !.k = 0, !.spawned = FALSE,
                                             !.kPeak = peak]
                 PROVE  q \in Reservations /\ q.convSunk = r.convSunk /\ q.kind = r.kind
    BY <2>2
  <2>4. QED
    BY <2>3 DEF Reservations
<1>3. QED
  BY <1>1, <1>2

(* A task tried again (_kill_and_respawn, spawn_agent).                    *)
LEMMA RespawnStep ==
  ASSUME Sound(energy), NEW t \in Tasks, NEW fee \in Fees, Respawn(t, fee)
  PROVE  Sound(energy') /\ Restarts(energy, energy')
<1>0. PICK judged : judged = Charge(energy, t, fee)
  OBVIOUS
<1>1. /\ Sound(judged) /\ judged \in Books /\ judged.status[t] \in {"open", "complete"}
      /\ judged.res = energy.res
      /\ judged.res[t] \in Reservations /\ judged.taskSpent[t] \in Nat
  <2>1. /\ energy \in Books /\ fee \in Nat
        /\ energy.status[t] \in {"open", "complete"}
    BY AmountsAreNatural DEF Sound, Kept, Fees, Respawn
  <2>2. /\ Sound(judged) /\ judged \in Books
        /\ judged.res = energy.res /\ judged.status = energy.status
    BY <1>0, <2>1, ChargeIsSound, ChargeIsCovered DEF Charged
  <2>3. QED
    BY <2>1, <2>2 DEF Books
<1>2. PICK r \in Reservations : /\ r = Replanned(judged.res[t], judged.taskSpent[t])
                                /\ r.convSunk = judged.res[t].convSunk
  BY <1>1, ReplannedIsReservation
<1>3. PICK retired : retired = Retire(judged, t)
  OBVIOUS
<1>4. PICK planned : planned = [retired EXCEPT !.res[t] = r]
  OBVIOUS
<1>5. PICK reopened :
        reopened = [planned EXCEPT
                     !.status[t] = "open",
                     !.unreserved = @ + (Held([planned EXCEPT !.status[t] = "open"])[t]
                                           - Held(planned)[t])]
  OBVIOUS
<1>6. \/ energy' = Stopped(judged, t)
      \/ Admits(planned) /\ energy' = Charge(reopened, t, SpawnCost(r))
  BY <1>0, <1>2, <1>3, <1>4, <1>5 DEF Respawn
<1>7. CASE energy' = Stopped(judged, t)
  BY <1>1, <1>7, StoppedIsSound, ReservationsStay DEF Restarts
<1>8. CASE Admits(planned) /\ energy' = Charge(reopened, t, SpawnCost(r))
  <2>1. Sound(retired) /\ Retired(judged, t, retired)
    BY <1>1, <1>3, RetireIsSound, RetireDropsQueue
  <2>2. /\ retired.status[t] \in {"open", "complete"}
        /\ retired.taskSpent = judged.taskSpent
    BY <1>1, <2>1 DEF Retired
  <2>3. r.convSunk <= retired.taskSpent[t]
    BY <1>1, <1>2, <2>2 DEF Sound, Kept
  <2>4. Kept(planned)
    BY <1>4, <2>1, <2>2, <2>3, RepricedIsKept DEF Sound
  <2>5. planned.status = retired.status
    BY <1>4, <2>1 DEF Retired, Books
  <2>6. Sound(planned) /\ planned.status[t] \in {"open", "complete"}
    BY <1>8, <2>2, <2>4, <2>5, AdmittedIsSound
  <2>7. Sound(reopened) /\ reopened.status[t] = "open" /\ reopened.res = planned.res
    BY <1>5, <2>6, ReopenIsSound
  <2>8. SpawnCost(r) \in Nat
    BY OwnCostIsPrice
  <2>9. planned.res = [judged.res EXCEPT ![t] = r]
    BY <1>4, <2>1 DEF Retired, Books
  <2>10. energy'.res = planned.res
    BY <1>8, <2>7, <2>8, ReservationsStay DEF Sound, Kept
  <2>11. \A u \in Tasks : energy'.res[u] = IF u = t THEN r ELSE energy.res[u]
    BY <1>1, <2>9, <2>10 DEF Books
  <2>12. Restarts(energy, energy')
    BY <1>1, <1>2, <2>11 DEF Restarts
  <2>13. QED
    BY <1>8, <2>7, <2>8, <2>12, ChargeIsSound
<1>9. QED
  BY <1>6, <1>7, <1>8

(* An executor becomes a decomposer at a price that is admitted anew       *)
(* (_admit_conversion).                                                    *)
LEMMA ConvertStep ==
  ASSUME Sound(energy), NEW t \in Tasks, Convert(t)
  PROVE  Sound(energy') /\ Restarts(energy, energy')
<1> DEFINE s == energy.taskSpent[t]
<1>1. /\ energy \in Books /\ energy.status[t] = "open"
      /\ energy.res[t] \in Reservations /\ s \in Nat
  BY DEF Sound, Kept, Books, Convert, Running
<1>2. PICK r : r = [energy.res[t] EXCEPT !.kind = "decomposer", !.k = 0,
                              !.spawned = FALSE, !.sunk = s, !.convSunk = s]
  OBVIOUS
<1>3. r \in Reservations /\ r.convSunk = s /\ r.kind = "decomposer"
  BY <1>1, <1>2 DEF Reservations, Kinds
<1>4. PICK planned : planned = [energy EXCEPT !.res[t] = r]
  OBVIOUS
<1>5. \/ energy' = Stopped(energy, t)
      \/ Admits(planned) /\ energy' = Charge(Retire(planned, t), t, SpawnDecomposer)
  BY <1>2, <1>4 DEF Convert
<1>6. CASE energy' = Stopped(energy, t)
  BY <1>1, <1>6, StoppedIsSound, ReservationsStay DEF Restarts
<1>7. CASE Admits(planned) /\ energy' = Charge(Retire(planned, t), t, SpawnDecomposer)
  <2>1. Kept(planned)
    <3>1. r.convSunk <= energy.taskSpent[t]
      BY <1>1, <1>3
    <3>2. QED
      BY <1>1, <1>3, <1>4, <3>1, RepricedIsKept DEF Sound
  <2>2. Sound(planned) /\ planned \in Books /\ planned.status[t] = "open"
    BY <1>1, <1>4, <1>7, <2>1, AdmittedIsSound DEF Kept, Books
  <2>3. PICK retired : retired = Retire(planned, t)
    OBVIOUS
  <2>4. Sound(retired) /\ retired.status[t] = "open"
    BY <2>2, <2>3, RetireIsSound, RetireDropsQueue DEF Retired
  <2>5. SpawnDecomposer \in Nat
    BY AmountsAreNatural
  <2>6. planned.res = [energy.res EXCEPT ![t] = r]
    BY <1>1, <1>4 DEF Books
  <2>7. energy'.res = planned.res
    BY <1>7, <2>2, <2>5, ReservationsStay
  <2>8. \A u \in Tasks : energy'.res[u] = IF u = t THEN r ELSE energy.res[u]
    BY <1>1, <2>6, <2>7 DEF Books
  <2>9. energy.res[t].kind = "executor"
    BY DEF Convert
  <2>10. Restarts(energy, energy')
    BY <1>3, <2>8, <2>9 DEF Restarts
  <2>11. QED
    BY <1>7, <2>3, <2>4, <2>5, <2>10, ChargeIsSound
<1>8. QED
  BY <1>5, <1>6, <1>7

(* A child started for a retired agent is not admitted, and adds its whole *)
(* price to "unreserved".                                                  *)
LEMMA SpawnByRetiredStep ==
  ASSUME Sound(energy), NEW p \in Tasks, NEW kind \in Kinds, SpawnByRetired(p, kind)
  PROVE  Sound(energy') /\ Restarts(energy, energy')
<1> DEFINE t == energy.made + 1
           r == FirstReservation(kind)
<1>1. energy \in Books /\ t \in Tasks /\ r \in Reservations
  BY FirstIsReservation DEF Sound, Kept, SpawnByRetired
<1>2. PICK f : f = [energy EXCEPT !.status[t] = "open", !.res[t] = r, !.made = t,
                                  !.stale = @ \ {p},
                                  !.unreserved = @ + Remaining(r, 0)]
  OBVIOUS
<1>3. energy' = Charge(f, t, SpawnCost(r))
  BY <1>2 DEF SpawnByRetired
<1>4. Remaining(r, 0) \in Nat /\ SpawnCost(r) \in Nat
  BY <1>1, RemainingShrinks, OwnCostIsPrice
<1>5. energy.status[t] = "absent" /\ energy.taskSpent[t] = 0
  <2>1. energy.made \in Nat
    BY <1>1, AmountsAreNatural DEF Books
  <2>2. QED
    BY <1>1, <2>1 DEF Sound, Kept
<1> HIDE DEF r
<1>6. /\ f.status = [energy.status EXCEPT ![t] = "open"]
      /\ f.res = [energy.res EXCEPT ![t] = r]
      /\ f.made = t
      /\ f.stale = energy.stale \ {p}
      /\ f.unreserved = energy.unreserved + Remaining(r, 0)
      /\ f.taskSpent = energy.taskSpent /\ f.spent = energy.spent
      /\ f.parent = energy.parent /\ f.handed = energy.handed
      /\ f.starting = energy.starting
  BY <1>1, <1>2 DEF Books
<1>7. f \in Books
  <2>1. /\ f.status \in [Tasks -> {"absent", "queued", "open", "complete", "failed"}]
        /\ f.res \in [Tasks -> Reservations]
    BY <1>1, <1>6 DEF Books
  <2>2. f.made \in 0 .. MaxTasks
    BY <1>1, <1>6 DEF Tasks
  <2>3. f.stale \in SUBSET Tasks /\ f.unreserved \in Nat
    BY <1>1, <1>4, <1>6 DEF Books
  <2>4. QED
    BY <1>1, <1>2, <1>6, <2>1, <2>2, <2>3 DEF Books
<1>8. \A u \in Tasks : /\ f.status[u] = IF u = t THEN "open" ELSE energy.status[u]
                       /\ f.res[u] = IF u = t THEN r ELSE energy.res[u]
  BY <1>1, <1>6 DEF Books
<1>9. Kept(f)
  <2>1. \A u \in Tasks : f.status[u] = "absent" <=> u > f.made
    <3>1. Tasks \subseteq Nat
      BY DEF Tasks
    <3>2. energy.made \in Nat
      BY <1>1, AmountsAreNatural DEF Books
    <3>3. QED
      BY <1>6, <1>8, <3>1, <3>2 DEF Sound, Kept
  <2>2. r.convSunk = 0
    BY DEF r, FirstReservation
  <2>3. \A u \in Tasks : f.res[u].convSunk <= f.taskSpent[u]
    BY <1>5, <1>6, <1>8, <2>2 DEF Sound, Kept
  <2>4. \A u \in Tasks : f.status[u] \in {"absent", "queued"}
                           => f.taskSpent[u] = 0 /\ f.res[u].sunk = 0
    BY <1>6, <1>8 DEF Sound, Kept
  <2>5. QED
    BY <1>7, <2>1, <2>3, <2>4 DEF Kept
<1>10. Held(energy)[t] = 0 /\ Held(f)[t] = Remaining(r, 0)
  BY <1>1, <1>5, <1>6, <1>8 DEF Held
<1>11. \A u \in Tasks \ {t} : Held(f)[u] = Held(energy)[u]
  BY <1>6, <1>8 DEF Held
<1>12. Sound(f)
  <2>1. /\ Held(f)[t] >= Held(energy)[t]
        /\ f.unreserved = energy.unreserved + (Held(f)[t] - Held(energy)[t])
        /\ f.spent = energy.spent
    BY <1>4, <1>6, <1>10
  <2>2. QED
    BY <1>1, <1>9, <1>11, <2>1, RaisedIsSound
<1>13. f.status[t] = "open"
  BY <1>1, <1>8
<1>14. energy'.res = f.res
  BY <1>1, <1>3, <1>4, <1>7, ReservationsStay
<1>15. r.sunk = 0 /\ energy.res[t].sunk = 0
  BY <1>1, <1>5 DEF r, FirstReservation, Sound, Kept
<1>16. Restarts(energy, energy')
  BY <1>8, <1>14, <1>15 DEF Restarts
<1>17. QED
  BY <1>1, <1>3, <1>4, <1>12, <1>13, <1>16, ChargeIsSound

(* The root is admitted, or nothing is (initialize_colony).                *)
LEMMA InitIsSound ==
  ASSUME Init
  PROVE  Sound(energy)
<1>1. PICK empty :
        empty = [status |-> [t \in Tasks |-> "absent"],
                 res |-> [t \in Tasks |-> FirstReservation("executor")],
                 parent |-> [t \in Tasks |-> None],
                 taskSpent |-> [t \in Tasks |-> 0],
                 spent |-> 0, unreserved |-> 0, handed |-> {}, stale |-> {},
                 made |-> 1, starting |-> Idle]
  OBVIOUS
<1>2. PICK rooted : rooted = [empty EXCEPT !.status[Root] = "open",
                                           !.res[Root] = FirstReservation("root")]
  OBVIOUS
<1>3. PICK stillborn : stillborn = [empty EXCEPT !.status[Root] = "failed"]
  OBVIOUS
<1>4. \/ Admits(rooted) /\ energy = Charge(rooted, Root, SpawnDecomposer)
      \/ energy = stillborn
  BY <1>1, <1>2, <1>3 DEF Init
<1>5. /\ Root \in Tasks /\ SpawnDecomposer \in Nat /\ MaxTasks \in Nat /\ 1 \in 0 .. MaxTasks
      /\ \A t \in Tasks : t \in Nat /\ (t > 1 <=> t # Root)
      /\ \A kind \in Kinds : FirstReservation(kind) \in Reservations
  BY AmountsAreNatural, FirstIsReservation DEF Root, Tasks
<1>6. Idle \in [task : Tasks \cup {None}, left : Nat, draining : BOOLEAN]
  BY DEF Idle
<1>7. empty \in Books
  BY <1>1, <1>5, <1>6 DEF Books, Kinds
<1>8. Kept(rooted)
  <2>1. /\ rooted.status = [t \in Tasks |-> IF t = Root THEN "open" ELSE "absent"]
        /\ rooted.res = [t \in Tasks |-> IF t = Root THEN FirstReservation("root")
                                         ELSE FirstReservation("executor")]
        /\ rooted.made = 1 /\ rooted.taskSpent = [t \in Tasks |-> 0]
    BY <1>1, <1>2, <1>5
  <2>2. rooted \in Books
    <3>1. /\ rooted.status \in [Tasks -> {"absent", "queued", "open", "complete", "failed"}]
          /\ rooted.res \in [Tasks -> Reservations]
      BY <1>5, <2>1 DEF Kinds
    <3>2. /\ rooted.parent = empty.parent /\ rooted.taskSpent = empty.taskSpent
          /\ rooted.spent = empty.spent /\ rooted.unreserved = empty.unreserved
          /\ rooted.handed = empty.handed /\ rooted.stale = empty.stale
          /\ rooted.made = empty.made /\ rooted.starting = empty.starting
      BY <1>2, <1>7 DEF Books
    <3>3. QED
      BY <1>2, <1>7, <3>1, <3>2 DEF Books
  <2>3. \A t \in Tasks : rooted.res[t].sunk = 0 /\ rooted.res[t].convSunk = 0
    BY <2>1 DEF FirstReservation
  <2>4. QED
    BY <1>5, <2>1, <2>2, <2>3 DEF Kept
<1>9. CASE Admits(rooted) /\ energy = Charge(rooted, Root, SpawnDecomposer)
  <2>1. Sound(rooted)
    BY <1>8, <1>9, AdmittedIsSound
  <2>2. rooted.status[Root] = "open"
    BY <1>1, <1>2, <1>5
  <2>3. QED
    BY <1>5, <1>9, <2>1, <2>2, ChargeIsSound
<1>10. CASE energy = stillborn
  <2>1. /\ stillborn.status = [t \in Tasks |-> IF t = Root THEN "failed" ELSE "absent"]
        /\ stillborn.res = empty.res /\ stillborn.parent = empty.parent
        /\ stillborn.taskSpent = empty.taskSpent
        /\ stillborn.spent = empty.spent /\ stillborn.unreserved = empty.unreserved
        /\ stillborn.handed = empty.handed /\ stillborn.stale = empty.stale
        /\ stillborn.made = empty.made /\ stillborn.starting = empty.starting
    BY <1>1, <1>3, <1>5
  <2>2. stillborn \in Books
    BY <1>3, <1>7, <2>1 DEF Books
  <2>3. Kept(stillborn)
    <3>1. \A t \in Tasks : empty.res[t].sunk = 0 /\ empty.res[t].convSunk = 0
      BY <1>1 DEF FirstReservation
    <3>2. empty.made = 1 /\ \A t \in Tasks : empty.taskSpent[t] = 0
      BY <1>1
    <3>3. QED
      BY <1>5, <2>1, <2>2, <3>1, <3>2 DEF Kept
  <2>4. Committed(stillborn) = 0
    <3>1. Held(stillborn) = [t \in Tasks |-> 0]
      BY <2>1 DEF Held
    <3>2. Units([t \in Tasks |-> 0]) = {}
      BY DEF Units
    <3>3. Total(Held(stillborn)) = 0
      BY <3>1, <3>2, FS_EmptySet DEF Total
    <3>4. QED
      BY <1>1, <2>1, <3>3 DEF Committed
  <2>5. Admits(stillborn)
    BY <2>4, BudgetAboveFloor, AmountsAreNatural DEF Admits, Limit
  <2>6. QED
    BY <1>10, <2>3, <2>5, AdmittedIsSound
<1>11. QED
  BY <1>4, <1>9, <1>10

(* Every step keeps the books sound.                                       *)
LEMMA StepIsSound ==
  ASSUME Sound(energy), [Next]_energy
  PROVE  Sound(energy') /\ Restarts(energy, energy')
<1>1. CASE StartNext
  BY <1>1, StartNextStep
<1>0. ASSUME NEW t \in Tasks, Abandon(t)
      PROVE  Sound(energy') /\ Restarts(energy, energy')
  BY <1>0, AbandonStep
<1>2. ASSUME NEW t \in Tasks, NEW fee \in Fees, Complete(t, fee) \/ Release(t, fee)
      PROVE  Sound(energy') /\ Restarts(energy, energy')
  BY <1>2, ClosingSteps
<1>3. ASSUME NEW t \in Tasks, NEW fee \in Fees, Respawn(t, fee)
      PROVE  Sound(energy') /\ Restarts(energy, energy')
  BY <1>3, RespawnStep
<1>4. ASSUME NEW t \in Tasks, Convert(t)
      PROVE  Sound(energy') /\ Restarts(energy, energy')
  BY <1>4, ConvertStep
<1>5. ASSUME NEW t \in Tasks, NEW kind \in {"decomposer", "executor"},
             SpawnByRetired(t, kind)
      PROVE  Sound(energy') /\ Restarts(energy, energy')
  <2>1. kind \in Kinds
    BY DEF Kinds
  <2>2. QED
    BY <1>5, <2>1, SpawnByRetiredStep
<1>6. ASSUME NEW t \in Tasks, NEW n \in Costs, Bill(t, n)
      PROVE  Sound(energy') /\ Restarts(energy, energy')
  BY <1>6, BillStep
<1>7. ASSUME NEW t \in Tasks, NEW n \in Costs, HandOff(t, n)
      PROVE  Sound(energy') /\ Restarts(energy, energy')
  BY <1>7, HandOffStep
<1>8. ASSUME NEW t \in Tasks, NEW n \in Costs, SendBack(t, n)
      PROVE  Sound(energy') /\ Restarts(energy, energy')
  BY <1>8, SendBackStep
<1>9. ASSUME NEW t \in Tasks, NEW n \in Costs,
             NEW kinds \in Batches(energy.res[t]), NEW fee \in Fees,
             Spawn(t, kinds, n, fee)
      PROVE  Sound(energy') /\ Restarts(energy, energy')
  BY <1>9, SpawnStep
<1>10. CASE UNCHANGED energy
  BY <1>10 DEF Restarts
<1>11. QED
  BY <1>0, <1>1, <1>2, <1>3, <1>4, <1>5, <1>6, <1>7, <1>8, <1>9, <1>10 DEF Next

----------------------------------------------------------------------------
(* Ceilings *)

(* What a task may spend, in prices.                                       *)
LEMMA CeilingInPrices ==
  ASSUME NEW r \in Reservations
  PROVE  /\ r.kind = "executor" =>
              Ceiling(r) = r.convSunk + TaskCeilingAttempts * ReserveExecutor
         /\ r.kind # "executor" =>
              Ceiling(r) = r.convSunk + TaskCeilingAttempts *
                             (ReserveDecomposerBase + ReservePerChild * CeilingK(r)
                               + (IF r.kind = "root" THEN ReserveRootExtra ELSE 0))
<1>1. CASE r.kind = "executor"
  BY <1>1 DEF Ceiling, OwnCost
<1>2. CASE r.kind # "executor"
  <2>1. PICK q : q = [r EXCEPT !.k = CeilingK(r), !.spawned = TRUE]
    OBVIOUS
  <2>2. q.kind = r.kind /\ q.k = CeilingK(r) /\ q.spawned = TRUE
    BY <2>1 DEF Reservations
  <2>3. OwnCost(q) = ReserveDecomposerBase + ReservePerChild * CeilingK(r)
                       + (IF r.kind = "root" THEN ReserveRootExtra ELSE 0)
    BY <1>2, <2>2 DEF OwnCost
  <2>4. Ceiling(r) = r.convSunk + TaskCeilingAttempts * OwnCost(q)
    BY <1>2, <2>1 DEF Ceiling
  <2>5. QED
    BY <1>2, <2>3, <2>4
<1>3. QED
  BY <1>1, <1>2

(* Trying a task again moves its ceiling not at all (_ceiling_k).          *)
LEMMA ReplannedKeepsCeiling ==
  ASSUME NEW r \in Reservations, NEW n \in Nat
  PROVE  Ceiling(Replanned(r, n)) = Ceiling(r)
<1>1. PICK q \in Reservations : /\ q = Replanned(r, n)
                                /\ q.convSunk = r.convSunk /\ q.kind = r.kind
  BY ReplannedIsReservation
<1>2. r.kind # "executor" => CeilingK(q) = CeilingK(r)
  <2>1. SUFFICES ASSUME r.kind # "executor" PROVE CeilingK(q) = CeilingK(r)
    OBVIOUS
  <2>2. PICK peak \in Nat : peak = IF r.spawned THEN Larger(r.kPeak, r.k) ELSE r.kPeak
    BY DEF Larger, Reservations
  <2>3. q = [r EXCEPT !.sunk = n, !.k = 0, !.spawned = FALSE, !.kPeak = peak]
    BY <1>1, <2>1, <2>2 DEF Replanned
  <2>4. q.kPeak = peak /\ q.spawned = FALSE
    BY <2>3 DEF Reservations
  <2>5. /\ r.k \in Nat /\ r.kPeak \in Nat /\ r.spawned \in BOOLEAN
        /\ MaxSubtasksRoot \in Nat /\ MaxSubtasksNonRoot \in Nat
    BY AmountsAreNatural DEF Reservations
  <2>6. Larger(q.kPeak, IF q.spawned THEN q.k ELSE 0)
          = Larger(r.kPeak, IF r.spawned THEN r.k ELSE 0)
    BY <2>2, <2>4, <2>5 DEF Larger
  <2>7. QED
    BY <1>1, <2>6 DEF CeilingK
<1>3. QED
  BY <1>1, <1>2, CeilingInPrices

(* Multiplication keeps the order.                                         *)
LEMMA TimesKeepsOrder ==
  ASSUME NEW c \in Nat, NEW m \in Nat, NEW n \in Nat, m <= n
  PROVE  c * m <= c * n /\ c * m \in Nat /\ c * n \in Nat
<1>1. PICK d \in Nat : n = m + d
  <2>1. n - m \in Nat /\ n = m + (n - m)
    OBVIOUS
  <2>2. QED
    BY <2>1
<1>2. c * n = c * m + c * d /\ c * d \in Nat /\ c * m \in Nat
  BY <1>1
<1>3. QED
  BY <1>2

(* Nor does a conversion lower it (_admit_conversion): what the executor   *)
(* may have spent is carried, and a decomposer may spend more.             *)
LEMMA ConversionKeepsCeiling ==
  ASSUME NEW r \in Reservations, NEW q \in Reservations, NEW n \in Nat,
         r.kind = "executor", q.kind = "decomposer",
         r.convSunk <= n, q.convSunk = n
  PROVE  Ceiling(r) <= Ceiling(q)
<1>1. CeilingK(q) \in Nat /\ MaxSubtasksNonRoot <= CeilingK(q)
  BY AmountsAreNatural DEF CeilingK, Larger, Reservations
<1>2. /\ MaxSubtasksNonRoot \in Nat /\ ReservePerChild \in Nat /\ ReserveExecutor \in Nat
      /\ ReserveDecomposerBase \in Nat /\ TaskCeilingAttempts \in Nat
      /\ r.convSunk \in Nat
  BY AmountsAreNatural DEF Reservations
<1> DEFINE dear == ReserveDecomposerBase + ReservePerChild * CeilingK(q)
<1>3. dear \in Nat /\ ReserveExecutor <= dear
  <2>1. /\ ReservePerChild * MaxSubtasksNonRoot <= ReservePerChild * CeilingK(q)
        /\ ReservePerChild * MaxSubtasksNonRoot \in Nat
        /\ ReservePerChild * CeilingK(q) \in Nat
    BY <1>1, <1>2, TimesKeepsOrder
  <2>2. QED
    BY <1>2, <2>1, DecomposersAreDearer
<1>4. Ceiling(r) = r.convSunk + TaskCeilingAttempts * ReserveExecutor
  BY CeilingInPrices
<1>5. Ceiling(q) = n + TaskCeilingAttempts * dear
  <2>1. Ceiling(q) = n + TaskCeilingAttempts * (dear + 0)
    BY CeilingInPrices
  <2>2. dear + 0 = dear
    BY <1>3
  <2>3. QED
    BY <2>1, <2>2
<1> HIDE DEF dear
<1>6. /\ TaskCeilingAttempts * ReserveExecutor <= TaskCeilingAttempts * dear
      /\ TaskCeilingAttempts * ReserveExecutor \in Nat
      /\ TaskCeilingAttempts * dear \in Nat
  BY <1>2, <1>3, TimesKeepsOrder
<1>7. QED
  BY <1>2, <1>4, <1>5, <1>6

----------------------------------------------------------------------------
(* The theorems *)

(* The books keep their kinds.                                             *)
THEOREM TypeCorrect == Spec => []TypeOK
<1>1. Init => Sound(energy)
  BY InitIsSound
<1>2. Sound(energy) /\ [Next]_energy => Sound(energy)'
  BY StepIsSound
<1>3. Sound(energy) => TypeOK
  BY DEF Sound, TypeOK
<1>4. QED
  BY <1>1, <1>2, <1>3, PTL DEF Spec

(* What tasks still hold is covered, but for what admission never saw.     *)
THEOREM AlwaysCovered == Spec => []Covered
<1>1. Init => Sound(energy)
  BY InitIsSound
<1>2. Sound(energy) /\ [Next]_energy => Sound(energy)'
  BY StepIsSound
<1>3. Sound(energy) => Covered
  BY DEF Sound, Covered
<1>4. QED
  BY <1>1, <1>2, <1>3, PTL DEF Spec

(* While attempts cost what they are priced at, the floor holds.           *)
THEOREM AlwaysSolvent == Spec => []Solvent
<1>1. Init => Sound(energy)
  BY InitIsSound
<1>2. Sound(energy) /\ [Next]_energy => Sound(energy)'
  BY StepIsSound
<1>3. Sound(energy) => Solvent
  <2>1. SUFFICES ASSUME Sound(energy), energy.unreserved = 0
                 PROVE  Budget - energy.spent > DeathThreshold
    BY DEF Solvent
  <2>2. energy \in Books
    BY <2>1 DEF Sound, Kept
  <2>3. /\ Total(Held(energy)) \in Nat /\ energy.spent \in Nat
        /\ {Budget, DeathThreshold, AdmissionFloor} \subseteq Nat
    BY <2>2, HeldIsPrice, AmountsAreNatural DEF Books
  <2>4. QED
    BY <2>1, <2>3, BudgetAboveFloor DEF Sound, Committed, Limit
<1>4. QED
  BY <1>1, <1>2, <1>3, PTL DEF Spec

(* While attempts cost what they are priced at, a child admitted with its  *)
(* batch can still be paid for when its turn comes.                        *)
THEOREM AdmittedAlwaysStarts == Spec => []AdmittedCanStart
<1>1. Init => Sound(energy)
  BY InitIsSound
<1>2. Sound(energy) /\ [Next]_energy => Sound(energy)'
  BY StepIsSound
<1>3. Sound(energy) => AdmittedCanStart
  <2>1. SUFFICES ASSUME Sound(energy), energy.unreserved = 0,
                        NEW t \in Tasks, energy.status[t] = "queued"
                 PROVE  CanSpawn(energy, SpawnCost(energy.res[t]))
    BY DEF AdmittedCanStart
  <2>2. energy \in Books /\ energy.res[t] \in Reservations
    BY <2>1 DEF Sound, Kept, Books
  <2>3. /\ Held(energy) \in [Tasks -> Nat]
        /\ Total(Held(energy)) \in Nat /\ energy.spent \in Nat
        /\ Budget \in Nat /\ AdmissionFloor \in Nat
    BY <2>2, HeldIsPrice, AmountsAreNatural DEF Books
  <2>4. Held(energy)[t] >= SpawnCost(energy.res[t])
    <3>0. energy.taskSpent[t] = 0 /\ energy.res[t].sunk = 0
      BY <2>1 DEF Sound, Kept
    <3>1. Held(energy)[t] = Remaining(energy.res[t], 0) /\ energy.res[t].sunk = 0
      BY <2>1, <3>0 DEF Held
    <3>2. /\ OwnCost(energy.res[t]) \in Nat /\ SpawnCost(energy.res[t]) \in Nat
          /\ SpawnCost(energy.res[t]) <= OwnCost(energy.res[t])
          /\ UnspawnedChildren(energy.res[t]) \in Nat
      BY <2>2, OwnCostIsPrice, ChildrenArePriced
    <3>3. QED
      BY <3>1, <3>2 DEF Remaining, Larger
  <2>5. Held(energy)[t] <= Total(Held(energy))
    BY <2>3, TotalHolds
  <2>6. SpawnCost(energy.res[t]) \in Nat /\ Held(energy)[t] \in Nat
    BY <2>2, <2>3, OwnCostIsPrice
  <2>7. QED
    BY <2>1, <2>3, <2>4, <2>5, <2>6 DEF Sound, Committed, Limit, CanSpawn
<1>4. QED
  BY <1>1, <1>2, <1>3, PTL DEF Spec

(* Trying a task again, or converting it, never lowers what it may spend.  *)
THEOREM RestartKeepsCeiling == Spec => CeilingKeptByRestart
<1>1. Init => Sound(energy)
  BY InitIsSound
<1>2. Sound(energy) /\ [Next]_energy => Sound(energy)'
  BY StepIsSound
<1>3. Sound(energy) /\ [Next]_energy =>
        [\A t \in Tasks : energy'.res[t].sunk # energy.res[t].sunk
           => Ceiling(energy'.res[t]) >= Ceiling(energy.res[t])]_energy
  <2>1. SUFFICES ASSUME Sound(energy), [Next]_energy, NEW t \in Tasks,
                        energy'.res[t].sunk # energy.res[t].sunk
                 PROVE  Ceiling(energy'.res[t]) >= Ceiling(energy.res[t])
    OBVIOUS
  <2>2. /\ energy.res[t] \in Reservations /\ energy.taskSpent[t] \in Nat
        /\ energy.res[t].convSunk <= energy.taskSpent[t]
    BY <2>1 DEF Sound, Kept, Books
  <2>3. Restarts(energy, energy')
    BY <2>1, StepIsSound
  <2>4. CASE \E n \in Nat : energy'.res[t] = Replanned(energy.res[t], n)
    <3>1. Ceiling(energy'.res[t]) = Ceiling(energy.res[t])
      BY <2>2, <2>4, ReplannedKeepsCeiling
    <3>2. Ceiling(energy.res[t]) \in Nat
      BY <2>2, CeilingIsPrice
    <3>3. QED
      BY <3>1, <3>2
  <2>5. CASE /\ energy'.res[t] \in Reservations
             /\ energy.res[t].kind = "executor" /\ energy'.res[t].kind = "decomposer"
             /\ energy'.res[t].convSunk = energy.taskSpent[t]
    <3>1. Ceiling(energy.res[t]) <= Ceiling(energy'.res[t])
      BY <2>2, <2>5, ConversionKeepsCeiling
    <3>2. Ceiling(energy.res[t]) \in Nat /\ Ceiling(energy'.res[t]) \in Nat
      BY <2>2, <2>5, CeilingIsPrice
    <3>3. QED
      BY <3>1, <3>2
  <2>6. QED
    BY <2>1, <2>3, <2>4, <2>5 DEF Restarts
<1>4. QED
  BY <1>1, <1>2, <1>3, PTL DEF Spec, CeilingKeptByRestart
=============================================================================
