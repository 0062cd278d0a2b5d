---------------------------- MODULE StorageProofs ----------------------------
(***************************************************************************)
(* Proofs about what is kept on disk: the objects of the world and the     *)
(* files of the teacher's console.                                         *)
(*                                                                         *)
(* ActiveObjects: the active objects, the copies of them in the blocks and *)
(* the objects at rest agree, for any number of objects, ids and blocks.   *)
(* A step walks along all objects, so each rests on what one object's turn *)
(* does to the others (Touches) and on the states between the turns, which *)
(* are named by the theorems on folds below.                               *)
(*                                                                         *)
(* ConsoleStore, for calls of writeState that do not overlap: what was     *)
(* answered with success stays in the file, and the backup is good for one *)
(* damaged file, however many writes fail and however often the program is *)
(* killed.  With Overlap the first of the two is false, as TLC shows.      *)
(*                                                                         *)
(* ManagedWorld: whatever the number of plays, of failed operations and of *)
(* crashes, no operation of the console loses what was built in a world.   *)
(***************************************************************************)
EXTENDS MCStorage, FiniteSetTheorems, WellFoundedInduction, TLAPS

-----------------------------------------------------------------------------
(* Natural numbers.                                                        *)

\* A set of natural numbers has a least one.
LEMMA LeastOne ==
    ASSUME NEW N \in SUBSET Nat, N # {}
    PROVE  \E m \in N : \A k \in N : m <= k
<1> DEFINE UpTo == {1 .. n : n \in N}
           Less == StrictSubsetOrdering(Nat)
<1>1. UpTo \subseteq FiniteSubsetsOf(Nat) /\ UpTo # {}
  <2>1. ASSUME NEW n \in N PROVE 1 .. n \in SUBSET Nat /\ IsFiniteSet(1 .. n)
    BY FS_Interval
  <2>2. QED
    BY <2>1 DEF FiniteSubsetsOf
<1>2. PICK up \in UpTo : \A T \in UpTo : <<T, up>> \notin Less
  <2>1. IsWellFoundedOn(Less, FiniteSubsetsOf(Nat))
    BY FS_StrictSubsetOrderingWellFounded
  <2>2. QED
    BY <1>1, <2>1, WFMin
<1>3. PICK m \in N : up = 1 .. m
  BY <1>2
<1>4. ASSUME NEW k \in N, k < m PROVE FALSE
  <2>1. 1 .. k \subseteq 1 .. m /\ 1 .. k # 1 .. m
    BY <1>4
  <2>2. <<1 .. k, 1 .. m>> \in Less
    BY <2>1 DEF StrictSubsetOrdering
  <2>3. QED
    BY <1>2, <1>3, <2>2
<1>5. QED
  BY <1>4

\* What holds at first and after every step holds at last.
LEMMA StepByStep ==
    ASSUME NEW n \in Nat, NEW good, 0 \in good, \A k \in 1 .. n : k - 1 \in good => k \in good
    PROVE  \A k \in 0 .. n : k \in good
<1> DEFINE bad == {k \in 0 .. n : k \notin good}
<1>1. SUFFICES ASSUME bad # {} PROVE FALSE
  OBVIOUS
<1>2. PICK k \in bad : \A j \in bad : k <= j
  <2>1. bad \in SUBSET Nat
    OBVIOUS
  <2>2. QED
    BY <1>1, <2>1, LeastOne
<1>3. k \in 1 .. n /\ k - 1 \in 0 .. n /\ ~ (k <= k - 1)
  BY <1>2
<1>4. k - 1 \in good
  BY <1>2, <1>3
<1>5. QED
  BY <1>2, <1>3, <1>4

-----------------------------------------------------------------------------
(* Folds along a sequence.                                                 *)

Greatest(s) == CHOOSE x \in s : \A y \in s : x >= y

LEMMA GreatestLast ==
    ASSUME NEW m \in Nat, NEW s \in SUBSET (1 .. m + 1), m + 1 \in s
    PROVE  Greatest(s) = m + 1
<1>1. \A y \in s : m + 1 >= y
  OBVIOUS
<1>2. \A x \in s : (\A y \in s : x >= y) => x = m + 1
  OBVIOUS
<1>3. QED
  BY <1>1, <1>2 DEF Greatest

LEMMA GreatestIn ==
    ASSUME NEW m \in Nat, NEW s \in SUBSET (1 .. m), s # {}
    PROVE  Greatest(s) \in s
<1> DEFINE N == {k \in Nat : \A y \in s : k >= y}
<1>1. m \in N
  OBVIOUS
<1>2. PICK k \in N : \A j \in N : k <= j
  BY <1>1, LeastOne
<1>3. k \in s
  <2>1. SUFFICES ASSUME k \notin s PROVE FALSE
    OBVIOUS
  <2>2. k > 0 /\ k - 1 \in Nat
    <3>1. PICK y \in s : k >= y
      BY <1>2
    <3>2. QED
      BY <3>1
  <2>3. \A y \in s : k - 1 >= y
    <3>1. \A y \in s : y \in Int /\ k >= y /\ y # k
      BY <1>2, <2>1
    <3>2. QED
      BY <1>2, <3>1
  <2>4. QED
    BY <2>2, <2>3, <1>2
<1>4. QED
  BY <1>2, <1>3 DEF Greatest

LEMMA FirstOnes ==
    ASSUME NEW n \in Nat, NEW k \in 1 .. n
    PROVE  /\ 1 .. k \in SUBSET (1 .. n) /\ 1 .. k # {} /\ k - 1 \in 0 .. n
           /\ k \in 0 .. n /\ Greatest(1 .. k) = k /\ (1 .. k) \ {k} = 1 .. k - 1
<1> DEFINE m == k - 1
<1>1. m \in Nat /\ k = m + 1 /\ 1 .. k \in SUBSET (1 .. m + 1) /\ m + 1 \in 1 .. k
  OBVIOUS
<1>2. 1 .. k \in SUBSET (1 .. n) /\ 1 .. k # {} /\ k - 1 \in 0 .. n /\ k \in 0 .. n
  OBVIOUS
<1>3. (1 .. k) \ {k} = 1 .. k - 1
  OBVIOUS
<1> HIDE DEF m
<1>4. Greatest(1 .. k) = m + 1
  BY <1>1, GreatestLast
<1>5. Greatest(1 .. k) = k
  BY <1>1, <1>4
<1>6. QED
  BY <1>2, <1>3, <1>5

\* The recursion by which a fold of the first n elements of q is defined.
Solution(iter, T, f, base, n, q) ==
    /\ iter \in [SUBSET (1 .. n) -> T]
    /\ \A s \in SUBSET (1 .. n) :
          iter[s] = IF s = {} THEN base ELSE f[iter[s \ {Greatest(s)}]][q[Greatest(s)]]

\* A step f from states in T to states in T can be taken for the elements of a sequence,
\* one after the other: the recursion by which a fold is defined has a solution.
LEMMA FoldExists ==
    ASSUME NEW T, NEW E, NEW f \in [T -> [E -> T]], NEW base \in T,
           NEW n \in Nat, NEW q \in [1 .. n -> E]
    PROVE  \E iter : Solution(iter, T, f, base, n, q)
<1> DEFINE Solves(iter, m) ==
               \A s \in SUBSET (1 .. m) :
                  iter[s] = IF s = {} THEN base
                            ELSE f[iter[s \ {Greatest(s)}]][q[Greatest(s)]]
           good == {m \in 0 .. n : \E iter \in [SUBSET (1 .. m) -> T] : Solves(iter, m)}
<1>1. 0 \in good
  <2> DEFINE first == [s \in SUBSET (1 .. 0) |-> base]
  <2>1. SUBSET (1 .. 0) = {{}}
    OBVIOUS
  <2>2. first \in [SUBSET (1 .. 0) -> T] /\ Solves(first, 0)
    BY <2>1
  <2>3. 0 \in 0 .. n
    OBVIOUS
  <2> HIDE DEF first, Solves
  <2>4. QED
    BY <2>2, <2>3
<1>2. ASSUME NEW k \in 1 .. n, k - 1 \in good PROVE k \in good
  <2> DEFINE j == k - 1
  <2>1. j \in Nat /\ k = j + 1 /\ k \in Nat
    OBVIOUS
  <2>2. PICK iter \in [SUBSET (1 .. j) -> T] : Solves(iter, j)
    BY <1>2
  <2> HIDE DEF j, Solves
  <2> DEFINE next == [s \in SUBSET (1 .. k) |->
                         IF k \in s THEN f[iter[s \ {k}]][q[k]] ELSE iter[s]]
  <2>3. ASSUME NEW s \in SUBSET (1 .. k)
        PROVE  next[s] \in T
    <3>1. s \ {k} \in SUBSET (1 .. j) /\ (k \notin s => s \in SUBSET (1 .. j))
      <4>1. \A x \in 1 .. k : x # k => x \in 1 .. j
        BY <2>1
      <4>2. QED
        BY <4>1
    <3>2. iter[s \ {k}] \in T /\ (k \notin s => iter[s] \in T)
      BY <3>1
    <3>3. f[iter[s \ {k}]] \in [E -> T] /\ q[k] \in E
      BY <3>2
    <3>4. f[iter[s \ {k}]][q[k]] \in T
      BY <3>3
    <3>5. QED
      BY <3>2, <3>4
  <2>4. ASSUME NEW s \in SUBSET (1 .. k)
        PROVE  next[s] = IF s = {} THEN base
                         ELSE f[next[s \ {Greatest(s)}]][q[Greatest(s)]]
    <3>1. CASE k \in s
      <4>1. Greatest(s) = k
        BY <2>1, <3>1, GreatestLast
      <4>2. s \ {k} \in SUBSET (1 .. k) /\ k \notin s \ {k}
        OBVIOUS
      <4>3. next[s \ {k}] = iter[s \ {k}]
        BY <4>2
      <4>4. QED
        BY <3>1, <4>1, <4>3
    <3>2. CASE k \notin s
      <4>1. s \in SUBSET (1 .. j)
        BY <2>1, <3>2
      <4>2. iter[s] = IF s = {} THEN base
                      ELSE f[iter[s \ {Greatest(s)}]][q[Greatest(s)]]
        BY <4>1, <2>2 DEF Solves
      <4>3. s # {} => Greatest(s) \in s
        BY <4>1, <2>1, GreatestIn
      <4>4. s \ {Greatest(s)} \in SUBSET (1 .. k) /\ k \notin s \ {Greatest(s)}
        BY <3>2
      <4>5. next[s] = iter[s] /\ next[s \ {Greatest(s)}] = iter[s \ {Greatest(s)}]
        BY <3>2, <4>4
      <4>6. QED
        BY <4>2, <4>5
    <3>3. QED
      BY <3>1, <3>2
  <2>5. next \in [SUBSET (1 .. k) -> T] /\ Solves(next, k)
    <3>1. next \in [SUBSET (1 .. k) -> T]
      BY <2>3
    <3> HIDE DEF next
    <3>2. QED
      BY <2>4, <3>1 DEF Solves
  <2>6. k \in 0 .. n
    OBVIOUS
  <2> HIDE DEF next
  <2>7. QED
    BY <2>5, <2>6
<1>3. n \in good
  <2> HIDE DEF good
  <2>1. \A k \in 0 .. n : k \in good
    BY <1>1, <1>2, StepByStep
  <2>2. QED
    BY <2>1
<1>4. QED
  BY <1>3 DEF Solution

\* The objects of deactivateFarObjects, one after the other.
Deactivated(base, q, list, force, changed) ==
    FoldLeft(LAMBDA x, id : deactivate(x, id, list, force, changed), base, q)

DeactivateClosed(T, E, list, force, changed) ==
    \A x \in T, e \in E : deactivate(x, e, list, force, changed) \in T

DeactivateChain(told, T, base, q, list, force, changed) ==
    /\ told \in [0 .. Len(q) -> T] /\ told[0] = base
    /\ \A k \in 1 .. Len(q) : told[k] = deactivate(told[k - 1], q[k], list, force, changed)
    /\ told[Len(q)] = Deactivated(base, q, list, force, changed)

LEMMA DeactivateFold ==
    ASSUME NEW T, NEW E, NEW base \in T, NEW q \in Seq(E), NEW list, NEW force, NEW changed,
           DeactivateClosed(T, E, list, force, changed)
    PROVE  \E told : DeactivateChain(told, T, base, q, list, force, changed)
<1> USE DEF DeactivateClosed
<1> DEFINE n == Len(q)
           f == [x \in T |-> [e \in E |-> deactivate(x, e, list, force, changed)]]
           Told(iter) == iter = [s \in SUBSET (1 .. n) |->
               IF s = {} THEN base
               ELSE deactivate(iter[s \ {Greatest(s)}], q[Greatest(s)], list, force, changed)]
           it == CHOOSE iter : Told(iter)
<1>1. n \in Nat /\ q \in [1 .. n -> E] /\ DOMAIN q = 1 .. n
  OBVIOUS
<1>2. f \in [T -> [E -> T]]
  OBVIOUS
<1>3. PICK iter \in [SUBSET (1 .. n) -> T] : \A s \in SUBSET (1 .. n) :
                  iter[s] = IF s = {} THEN base
                            ELSE f[iter[s \ {Greatest(s)}]][q[Greatest(s)]]
  <2> HIDE DEF f, n
  <2>1. \E iter : Solution(iter, T, f, base, n, q)
    BY <1>1, <1>2, FoldExists
  <2>2. QED
    BY <2>1 DEF Solution
<1>4. Told(iter)
  <2>1. ASSUME NEW s \in SUBSET (1 .. n), s # {}
        PROVE  iter[s] = deactivate(iter[s \ {Greatest(s)}], q[Greatest(s)], list, force, changed)
    <3>1. Greatest(s) \in s
      <4> HIDE DEF n
      <4>1. QED
        BY <1>1, <2>1, GreatestIn
    <3>2. iter[s \ {Greatest(s)}] \in T /\ q[Greatest(s)] \in E
      BY <1>1, <3>1
    <3>3. iter[s] = f[iter[s \ {Greatest(s)}]][q[Greatest(s)]]
      BY <1>3, <2>1
    <3>4. QED
      BY <3>2, <3>3
  <2>2. \A s \in SUBSET (1 .. n) :
           iter[s] = IF s = {} THEN base
                     ELSE deactivate(iter[s \ {Greatest(s)}], q[Greatest(s)], list, force, changed)
    BY <1>3, <2>1, Zenon
  <2> HIDE DEF n
  <2>3. QED
    BY <2>2
<1>5. Told(it)
  <2> HIDE DEF Told
  <2>1. QED
    BY <1>4
<1>6. it[1 .. n] =
          Deactivated(base, q, list, force, changed)
  BY <1>1 DEF Deactivated, FoldLeft, MapThenFoldSet, Max, Greatest
<1> HIDE DEF it
<1> DEFINE told == [k \in 0 .. n |-> it[1 .. k]]
<1>7. told[0] = base /\ told[n] = it[1 .. n]
  <2>1. 1 .. 0 = {} /\ {} \in SUBSET (1 .. n) /\ 0 \in 0 .. n /\ n \in 0 .. n
    BY <1>1
  <2> HIDE DEF n
  <2>2. QED
    BY <1>5, <2>1
<1>8. ASSUME NEW k \in 1 .. n
      PROVE  told[k] = deactivate(told[k - 1], q[k], list, force, changed)
  <2>1. /\ 1 .. k \in SUBSET (1 .. n) /\ 1 .. k # {} /\ k - 1 \in 0 .. n
        /\ Greatest(1 .. k) = k /\ (1 .. k) \ {k} = 1 .. k - 1 /\ k \in 0 .. n
    <3> HIDE DEF n
    <3>1. QED
      BY <1>1, FirstOnes, Zenon
  <2> HIDE DEF n
  <2>2. it[1 .. k] = deactivate(it[1 .. k - 1], q[k], list, force, changed)
    BY <1>5, <2>1
  <2>3. told[k] = it[1 .. k] /\ told[k - 1] = it[1 .. k - 1]
    BY <2>1
  <2> HIDE DEF told
  <2>4. QED
    BY <2>2, <2>3, Zenon
<1> HIDE DEF told
<1>9. \A k \in 0 .. n : told[k] \in T
  <2> DEFINE good == {k \in 0 .. n : told[k] \in T}
  <2>1. 0 \in good
    BY <1>1, <1>7
  <2>2. ASSUME NEW k \in 1 .. n, k - 1 \in good PROVE k \in good
    <3>1. told[k - 1] \in T /\ q[k] \in E /\ k \in 0 .. n
      BY <1>1, <2>2
    <3>2. QED
      BY <1>8, <3>1
  <2> HIDE DEF n, good
  <2>3. \A k \in 0 .. n : k \in good
    BY <1>1, <2>1, <2>2, StepByStep
  <2>4. QED
    BY <2>3 DEF good
<1>10. told \in [0 .. n -> T]
  <2> HIDE DEF n
  <2>1. QED
    BY <1>9 DEF told
<1> HIDE DEF n
<1>11. DeactivateChain(told, T, base, q, list, force, changed)
  BY <1>6, <1>7, <1>8, <1>10 DEF DeactivateChain, n
<1>12. QED
  BY <1>11

\* The stored objects of a block.
Added(base, q, b) ==
    FoldLeft(LAMBDA x, copy : addActiveObjectRaw(x, copy[1], b, FALSE), base, q)

AddClosed(T, E, b) == \A x \in T, e \in E : addActiveObjectRaw(x, e[1], b, FALSE) \in T

AddChain(told, T, base, q, b) ==
    /\ told \in [0 .. Len(q) -> T] /\ told[0] = base
    /\ \A k \in 1 .. Len(q) : told[k] = addActiveObjectRaw(told[k - 1], q[k][1], b, FALSE)
    /\ told[Len(q)] = Added(base, q, b)

LEMMA AddFold ==
    ASSUME NEW T, NEW E, NEW base \in T, NEW q \in Seq(E), NEW b, AddClosed(T, E, b)
    PROVE  \E told : AddChain(told, T, base, q, b)
<1> USE DEF AddClosed
<1> DEFINE n == Len(q)
           f == [x \in T |-> [e \in E |-> addActiveObjectRaw(x, e[1], b, FALSE)]]
           Told(iter) == iter = [s \in SUBSET (1 .. n) |->
               IF s = {} THEN base
               ELSE addActiveObjectRaw(iter[s \ {Greatest(s)}], q[Greatest(s)][1], b, FALSE)]
           it == CHOOSE iter : Told(iter)
<1>1. n \in Nat /\ q \in [1 .. n -> E] /\ DOMAIN q = 1 .. n
  OBVIOUS
<1>2. f \in [T -> [E -> T]]
  OBVIOUS
<1>3. PICK iter \in [SUBSET (1 .. n) -> T] : \A s \in SUBSET (1 .. n) :
                  iter[s] = IF s = {} THEN base
                            ELSE f[iter[s \ {Greatest(s)}]][q[Greatest(s)]]
  <2> HIDE DEF f, n
  <2>1. \E iter : Solution(iter, T, f, base, n, q)
    BY <1>1, <1>2, FoldExists
  <2>2. QED
    BY <2>1 DEF Solution
<1>4. Told(iter)
  <2>1. ASSUME NEW s \in SUBSET (1 .. n), s # {}
        PROVE  iter[s] = addActiveObjectRaw(iter[s \ {Greatest(s)}], q[Greatest(s)][1], b, FALSE)
    <3>1. Greatest(s) \in s
      <4> HIDE DEF n
      <4>1. QED
        BY <1>1, <2>1, GreatestIn
    <3>2. iter[s \ {Greatest(s)}] \in T /\ q[Greatest(s)] \in E
      BY <1>1, <3>1
    <3>3. iter[s] = f[iter[s \ {Greatest(s)}]][q[Greatest(s)]]
      BY <1>3, <2>1
    <3>4. QED
      BY <3>2, <3>3
  <2>2. \A s \in SUBSET (1 .. n) :
           iter[s] = IF s = {} THEN base
                     ELSE addActiveObjectRaw(iter[s \ {Greatest(s)}], q[Greatest(s)][1], b, FALSE)
    BY <1>3, <2>1, Zenon
  <2> HIDE DEF n
  <2>3. QED
    BY <2>2
<1>5. Told(it)
  <2> HIDE DEF Told
  <2>1. QED
    BY <1>4
<1>6. it[1 .. n] =
          Added(base, q, b)
  BY <1>1 DEF Added, FoldLeft, MapThenFoldSet, Max, Greatest
<1> HIDE DEF it
<1> DEFINE told == [k \in 0 .. n |-> it[1 .. k]]
<1>7. told[0] = base /\ told[n] = it[1 .. n]
  <2>1. 1 .. 0 = {} /\ {} \in SUBSET (1 .. n) /\ 0 \in 0 .. n /\ n \in 0 .. n
    BY <1>1
  <2> HIDE DEF n
  <2>2. QED
    BY <1>5, <2>1
<1>8. ASSUME NEW k \in 1 .. n
      PROVE  told[k] = addActiveObjectRaw(told[k - 1], q[k][1], b, FALSE)
  <2>1. /\ 1 .. k \in SUBSET (1 .. n) /\ 1 .. k # {} /\ k - 1 \in 0 .. n
        /\ Greatest(1 .. k) = k /\ (1 .. k) \ {k} = 1 .. k - 1 /\ k \in 0 .. n
    <3> HIDE DEF n
    <3>1. QED
      BY <1>1, FirstOnes, Zenon
  <2> HIDE DEF n
  <2>2. it[1 .. k] = addActiveObjectRaw(it[1 .. k - 1], q[k][1], b, FALSE)
    BY <1>5, <2>1
  <2>3. told[k] = it[1 .. k] /\ told[k - 1] = it[1 .. k - 1]
    BY <2>1
  <2> HIDE DEF told
  <2>4. QED
    BY <2>2, <2>3, Zenon
<1> HIDE DEF told
<1>9. \A k \in 0 .. n : told[k] \in T
  <2> DEFINE good == {k \in 0 .. n : told[k] \in T}
  <2>1. 0 \in good
    BY <1>1, <1>7
  <2>2. ASSUME NEW k \in 1 .. n, k - 1 \in good PROVE k \in good
    <3>1. told[k - 1] \in T /\ q[k] \in E /\ k \in 0 .. n
      BY <1>1, <2>2
    <3>2. QED
      BY <1>8, <3>1
  <2> HIDE DEF n, good
  <2>3. \A k \in 0 .. n : k \in good
    BY <1>1, <2>1, <2>2, StepByStep
  <2>4. QED
    BY <2>3 DEF good
<1>10. told \in [0 .. n -> T]
  <2> HIDE DEF n
  <2>1. QED
    BY <1>9 DEF told
<1> HIDE DEF n
<1>11. AddChain(told, T, base, q, b)
  BY <1>6, <1>7, <1>8, <1>10 DEF AddChain, n
<1>12. QED
  BY <1>11

\* The blocks that Manage activates.
ActivateClosed(T, E) == \A x \in T, e \in E : activateBlock(x, e) \in T

ActivateChain(told, T, base, q) ==
    /\ told \in [0 .. Len(q) -> T] /\ told[0] = base
    /\ \A k \in 1 .. Len(q) : told[k] = activateBlock(told[k - 1], q[k])
    /\ told[Len(q)] = FoldLeft(activateBlock, base, q)

LEMMA ActivateFold ==
    ASSUME NEW T, NEW E, NEW base \in T, NEW q \in Seq(E), ActivateClosed(T, E)
    PROVE  \E told : ActivateChain(told, T, base, q)
<1> USE DEF ActivateClosed
<1> DEFINE n == Len(q)
           f == [x \in T |-> [e \in E |-> activateBlock(x, e)]]
           Told(iter) == iter = [s \in SUBSET (1 .. n) |->
               IF s = {} THEN base
               ELSE activateBlock(iter[s \ {Greatest(s)}], q[Greatest(s)])]
           it == CHOOSE iter : Told(iter)
<1>1. n \in Nat /\ q \in [1 .. n -> E] /\ DOMAIN q = 1 .. n
  OBVIOUS
<1>2. f \in [T -> [E -> T]]
  OBVIOUS
<1>3. PICK iter \in [SUBSET (1 .. n) -> T] : \A s \in SUBSET (1 .. n) :
                  iter[s] = IF s = {} THEN base
                            ELSE f[iter[s \ {Greatest(s)}]][q[Greatest(s)]]
  <2> HIDE DEF f, n
  <2>1. \E iter : Solution(iter, T, f, base, n, q)
    BY <1>1, <1>2, FoldExists
  <2>2. QED
    BY <2>1 DEF Solution
<1>4. Told(iter)
  <2>1. ASSUME NEW s \in SUBSET (1 .. n), s # {}
        PROVE  iter[s] = activateBlock(iter[s \ {Greatest(s)}], q[Greatest(s)])
    <3>1. Greatest(s) \in s
      <4> HIDE DEF n
      <4>1. QED
        BY <1>1, <2>1, GreatestIn
    <3>2. iter[s \ {Greatest(s)}] \in T /\ q[Greatest(s)] \in E
      BY <1>1, <3>1
    <3>3. iter[s] = f[iter[s \ {Greatest(s)}]][q[Greatest(s)]]
      BY <1>3, <2>1
    <3>4. QED
      BY <3>2, <3>3
  <2>2. \A s \in SUBSET (1 .. n) :
           iter[s] = IF s = {} THEN base
                     ELSE activateBlock(iter[s \ {Greatest(s)}], q[Greatest(s)])
    BY <1>3, <2>1, Zenon
  <2> HIDE DEF n
  <2>3. QED
    BY <2>2
<1>5. Told(it)
  <2> HIDE DEF Told
  <2>1. QED
    BY <1>4
<1>6. it[1 .. n] =
          FoldLeft(activateBlock, base, q)
  BY <1>1 DEF FoldLeft, MapThenFoldSet, Max, Greatest
<1> HIDE DEF it
<1> DEFINE told == [k \in 0 .. n |-> it[1 .. k]]
<1>7. told[0] = base /\ told[n] = it[1 .. n]
  <2>1. 1 .. 0 = {} /\ {} \in SUBSET (1 .. n) /\ 0 \in 0 .. n /\ n \in 0 .. n
    BY <1>1
  <2> HIDE DEF n
  <2>2. QED
    BY <1>5, <2>1
<1>8. ASSUME NEW k \in 1 .. n
      PROVE  told[k] = activateBlock(told[k - 1], q[k])
  <2>1. /\ 1 .. k \in SUBSET (1 .. n) /\ 1 .. k # {} /\ k - 1 \in 0 .. n
        /\ Greatest(1 .. k) = k /\ (1 .. k) \ {k} = 1 .. k - 1 /\ k \in 0 .. n
    <3> HIDE DEF n
    <3>1. QED
      BY <1>1, FirstOnes, Zenon
  <2> HIDE DEF n
  <2>2. it[1 .. k] = activateBlock(it[1 .. k - 1], q[k])
    BY <1>5, <2>1
  <2>3. told[k] = it[1 .. k] /\ told[k - 1] = it[1 .. k - 1]
    BY <2>1
  <2> HIDE DEF told
  <2>4. QED
    BY <2>2, <2>3, Zenon
<1> HIDE DEF told
<1>9. \A k \in 0 .. n : told[k] \in T
  <2> DEFINE good == {k \in 0 .. n : told[k] \in T}
  <2>1. 0 \in good
    BY <1>1, <1>7
  <2>2. ASSUME NEW k \in 1 .. n, k - 1 \in good PROVE k \in good
    <3>1. told[k - 1] \in T /\ q[k] \in E /\ k \in 0 .. n
      BY <1>1, <2>2
    <3>2. QED
      BY <1>8, <3>1
  <2> HIDE DEF n, good
  <2>3. \A k \in 0 .. n : k \in good
    BY <1>1, <2>1, <2>2, StepByStep
  <2>4. QED
    BY <2>3 DEF good
<1>10. told \in [0 .. n -> T]
  <2> HIDE DEF n
  <2>1. QED
    BY <1>9 DEF told
<1> HIDE DEF n
<1>11. ActivateChain(told, T, base, q)
  BY <1>6, <1>7, <1>8, <1>10 DEF ActivateChain, n
<1>12. QED
  BY <1>11

\* The objects of removeRemovedObjects.
RemoveClosed(T, E) == \A x \in T, e \in E : removeRemoved(x, e) \in T

RemoveChain(told, T, base, q) ==
    /\ told \in [0 .. Len(q) -> T] /\ told[0] = base
    /\ \A k \in 1 .. Len(q) : told[k] = removeRemoved(told[k - 1], q[k])
    /\ told[Len(q)] = FoldLeft(removeRemoved, base, q)

LEMMA RemoveFold ==
    ASSUME NEW T, NEW E, NEW base \in T, NEW q \in Seq(E), RemoveClosed(T, E)
    PROVE  \E told : RemoveChain(told, T, base, q)
<1> USE DEF RemoveClosed
<1> DEFINE n == Len(q)
           f == [x \in T |-> [e \in E |-> removeRemoved(x, e)]]
           Told(iter) == iter = [s \in SUBSET (1 .. n) |->
               IF s = {} THEN base
               ELSE removeRemoved(iter[s \ {Greatest(s)}], q[Greatest(s)])]
           it == CHOOSE iter : Told(iter)
<1>1. n \in Nat /\ q \in [1 .. n -> E] /\ DOMAIN q = 1 .. n
  OBVIOUS
<1>2. f \in [T -> [E -> T]]
  OBVIOUS
<1>3. PICK iter \in [SUBSET (1 .. n) -> T] : \A s \in SUBSET (1 .. n) :
                  iter[s] = IF s = {} THEN base
                            ELSE f[iter[s \ {Greatest(s)}]][q[Greatest(s)]]
  <2> HIDE DEF f, n
  <2>1. \E iter : Solution(iter, T, f, base, n, q)
    BY <1>1, <1>2, FoldExists
  <2>2. QED
    BY <2>1 DEF Solution
<1>4. Told(iter)
  <2>1. ASSUME NEW s \in SUBSET (1 .. n), s # {}
        PROVE  iter[s] = removeRemoved(iter[s \ {Greatest(s)}], q[Greatest(s)])
    <3>1. Greatest(s) \in s
      <4> HIDE DEF n
      <4>1. QED
        BY <1>1, <2>1, GreatestIn
    <3>2. iter[s \ {Greatest(s)}] \in T /\ q[Greatest(s)] \in E
      BY <1>1, <3>1
    <3>3. iter[s] = f[iter[s \ {Greatest(s)}]][q[Greatest(s)]]
      BY <1>3, <2>1
    <3>4. QED
      BY <3>2, <3>3
  <2>2. \A s \in SUBSET (1 .. n) :
           iter[s] = IF s = {} THEN base
                     ELSE removeRemoved(iter[s \ {Greatest(s)}], q[Greatest(s)])
    BY <1>3, <2>1, Zenon
  <2> HIDE DEF n
  <2>3. QED
    BY <2>2
<1>5. Told(it)
  <2> HIDE DEF Told
  <2>1. QED
    BY <1>4
<1>6. it[1 .. n] =
          FoldLeft(removeRemoved, base, q)
  BY <1>1 DEF FoldLeft, MapThenFoldSet, Max, Greatest
<1> HIDE DEF it
<1> DEFINE told == [k \in 0 .. n |-> it[1 .. k]]
<1>7. told[0] = base /\ told[n] = it[1 .. n]
  <2>1. 1 .. 0 = {} /\ {} \in SUBSET (1 .. n) /\ 0 \in 0 .. n /\ n \in 0 .. n
    BY <1>1
  <2> HIDE DEF n
  <2>2. QED
    BY <1>5, <2>1
<1>8. ASSUME NEW k \in 1 .. n
      PROVE  told[k] = removeRemoved(told[k - 1], q[k])
  <2>1. /\ 1 .. k \in SUBSET (1 .. n) /\ 1 .. k # {} /\ k - 1 \in 0 .. n
        /\ Greatest(1 .. k) = k /\ (1 .. k) \ {k} = 1 .. k - 1 /\ k \in 0 .. n
    <3> HIDE DEF n
    <3>1. QED
      BY <1>1, FirstOnes, Zenon
  <2> HIDE DEF n
  <2>2. it[1 .. k] = removeRemoved(it[1 .. k - 1], q[k])
    BY <1>5, <2>1
  <2>3. told[k] = it[1 .. k] /\ told[k - 1] = it[1 .. k - 1]
    BY <2>1
  <2> HIDE DEF told
  <2>4. QED
    BY <2>2, <2>3, Zenon
<1> HIDE DEF told
<1>9. \A k \in 0 .. n : told[k] \in T
  <2> DEFINE good == {k \in 0 .. n : told[k] \in T}
  <2>1. 0 \in good
    BY <1>1, <1>7
  <2>2. ASSUME NEW k \in 1 .. n, k - 1 \in good PROVE k \in good
    <3>1. told[k - 1] \in T /\ q[k] \in E /\ k \in 0 .. n
      BY <1>1, <2>2
    <3>2. QED
      BY <1>8, <3>1
  <2> HIDE DEF n, good
  <2>3. \A k \in 0 .. n : k \in good
    BY <1>1, <2>1, <2>2, StepByStep
  <2>4. QED
    BY <2>3 DEF good
<1>10. told \in [0 .. n -> T]
  <2> HIDE DEF n
  <2>1. QED
    BY <1>9 DEF told
<1> HIDE DEF n
<1>11. RemoveChain(told, T, base, q)
  BY <1>6, <1>7, <1>8, <1>10 DEF RemoveChain, n
<1>12. QED
  BY <1>11

\* The objects of clearObjects.
ClearClosed(T, E) == \A x \in T, e \in E : ClearOne(x, e) \in T

ClearChain(told, T, base, q) ==
    /\ told \in [0 .. Len(q) -> T] /\ told[0] = base
    /\ \A k \in 1 .. Len(q) : told[k] = ClearOne(told[k - 1], q[k])
    /\ told[Len(q)] = FoldLeft(ClearOne, base, q)

LEMMA ClearFold ==
    ASSUME NEW T, NEW E, NEW base \in T, NEW q \in Seq(E), ClearClosed(T, E)
    PROVE  \E told : ClearChain(told, T, base, q)
<1> USE DEF ClearClosed
<1> DEFINE n == Len(q)
           f == [x \in T |-> [e \in E |-> ClearOne(x, e)]]
           Told(iter) == iter = [s \in SUBSET (1 .. n) |->
               IF s = {} THEN base
               ELSE ClearOne(iter[s \ {Greatest(s)}], q[Greatest(s)])]
           it == CHOOSE iter : Told(iter)
<1>1. n \in Nat /\ q \in [1 .. n -> E] /\ DOMAIN q = 1 .. n
  OBVIOUS
<1>2. f \in [T -> [E -> T]]
  OBVIOUS
<1>3. PICK iter \in [SUBSET (1 .. n) -> T] : \A s \in SUBSET (1 .. n) :
                  iter[s] = IF s = {} THEN base
                            ELSE f[iter[s \ {Greatest(s)}]][q[Greatest(s)]]
  <2> HIDE DEF f, n
  <2>1. \E iter : Solution(iter, T, f, base, n, q)
    BY <1>1, <1>2, FoldExists
  <2>2. QED
    BY <2>1 DEF Solution
<1>4. Told(iter)
  <2>1. ASSUME NEW s \in SUBSET (1 .. n), s # {}
        PROVE  iter[s] = ClearOne(iter[s \ {Greatest(s)}], q[Greatest(s)])
    <3>1. Greatest(s) \in s
      <4> HIDE DEF n
      <4>1. QED
        BY <1>1, <2>1, GreatestIn
    <3>2. iter[s \ {Greatest(s)}] \in T /\ q[Greatest(s)] \in E
      BY <1>1, <3>1
    <3>3. iter[s] = f[iter[s \ {Greatest(s)}]][q[Greatest(s)]]
      BY <1>3, <2>1
    <3>4. QED
      BY <3>2, <3>3
  <2>2. \A s \in SUBSET (1 .. n) :
           iter[s] = IF s = {} THEN base
                     ELSE ClearOne(iter[s \ {Greatest(s)}], q[Greatest(s)])
    BY <1>3, <2>1, Zenon
  <2> HIDE DEF n
  <2>3. QED
    BY <2>2
<1>5. Told(it)
  <2> HIDE DEF Told
  <2>1. QED
    BY <1>4
<1>6. it[1 .. n] =
          FoldLeft(ClearOne, base, q)
  BY <1>1 DEF FoldLeft, MapThenFoldSet, Max, Greatest
<1> HIDE DEF it
<1> DEFINE told == [k \in 0 .. n |-> it[1 .. k]]
<1>7. told[0] = base /\ told[n] = it[1 .. n]
  <2>1. 1 .. 0 = {} /\ {} \in SUBSET (1 .. n) /\ 0 \in 0 .. n /\ n \in 0 .. n
    BY <1>1
  <2> HIDE DEF n
  <2>2. QED
    BY <1>5, <2>1
<1>8. ASSUME NEW k \in 1 .. n
      PROVE  told[k] = ClearOne(told[k - 1], q[k])
  <2>1. /\ 1 .. k \in SUBSET (1 .. n) /\ 1 .. k # {} /\ k - 1 \in 0 .. n
        /\ Greatest(1 .. k) = k /\ (1 .. k) \ {k} = 1 .. k - 1 /\ k \in 0 .. n
    <3> HIDE DEF n
    <3>1. QED
      BY <1>1, FirstOnes, Zenon
  <2> HIDE DEF n
  <2>2. it[1 .. k] = ClearOne(it[1 .. k - 1], q[k])
    BY <1>5, <2>1
  <2>3. told[k] = it[1 .. k] /\ told[k - 1] = it[1 .. k - 1]
    BY <2>1
  <2> HIDE DEF told
  <2>4. QED
    BY <2>2, <2>3, Zenon
<1> HIDE DEF told
<1>9. \A k \in 0 .. n : told[k] \in T
  <2> DEFINE good == {k \in 0 .. n : told[k] \in T}
  <2>1. 0 \in good
    BY <1>1, <1>7
  <2>2. ASSUME NEW k \in 1 .. n, k - 1 \in good PROVE k \in good
    <3>1. told[k - 1] \in T /\ q[k] \in E /\ k \in 0 .. n
      BY <1>1, <2>2
    <3>2. QED
      BY <1>8, <3>1
  <2> HIDE DEF n, good
  <2>3. \A k \in 0 .. n : k \in good
    BY <1>1, <2>1, <2>2, StepByStep
  <2>4. QED
    BY <2>3 DEF good
<1>10. told \in [0 .. n -> T]
  <2> HIDE DEF n
  <2>1. QED
    BY <1>9 DEF told
<1> HIDE DEF n
<1>11. ClearChain(told, T, base, q)
  BY <1>6, <1>7, <1>8, <1>10 DEF ClearChain, n
<1>12. QED
  BY <1>11

-----------------------------------------------------------------------------
(* The inductive invariant.                                                *)

States == [mem : [Blocks -> MapBlock \union {None}],
           objects : [Ids -> ServerActiveObject \union {None}]]

\* A copy under an id is that of the object with this id, which knows its block.
CopiesHaveOwners(s) ==
    \A b \in Blocks, i \in Ids : s.mem[b] # None /\ s.mem[b].act[i] # None =>
        /\ s.objects[i] # None /\ s.objects[i].thing = s.mem[b].act[i]
        /\ s.objects[i].static_exists /\ s.objects[i].static_block = b

\* Who is not gone and thinks to have a copy has one, unless its block was taken away.
HasCopy(s, i) ==
    LET o == s.objects[i]
    IN  /\ o # None /\ o.gone = "no" /\ o.static_exists
        /\ o.static_block \notin deleted /\ o.thing \notin adrift
        => s.mem[o.static_block] # None /\ s.mem[o.static_block].act[i] = o.thing

NobodyRests(s, list) == \A b \in list : s.mem[b] # None => s.mem[b].stored = NoOne

\* A block in use is in memory as long as it exists.
NothingToLoad(s, list) == \A b \in list : s.mem[b] = None => disk[b] = None

\* An object that is stored until its client knows is stored where nothing is in use.
RestsOutside(s, i, list) ==
    s.objects[i] # None /\ s.objects[i].gone = "deactivated" =>
        s.objects[i].static_block \notin list

Right(s, list, away) ==
    /\ s \in States
    /\ CopiesHaveOwners(s) /\ NobodyRests(s, list) /\ NothingToLoad(s, list)
    /\ \A i \in Ids : HasCopy(s, i) /\ RestsOutside(s, i, away)

\* When the list of active blocks is renewed nobody is being stored, and when objects are
\* swept after that every client knows of those that are.
RoundIsRight ==
    \A i \in Ids : objects[i] # None /\ objects[i].gone = "deactivated" =>
        round \in {"managed", "told"} /\ (round = "told" => ~ objects[i].known)

ObjectsInv == TypeOK /\ Right(S, active, active) /\ RoundIsRight

-----------------------------------------------------------------------------
(* Steps that concern one object.                                          *)

\* A block is touched for object i: it stays in memory, with the copies of all others.
BlockTouched(old, new, i) ==
    /\ old # None => new # None
    /\ new # None => \A j \in Ids \ {i} : new.act[j] = IF old = None THEN None ELSE old.act[j]

StoredKept(old, new) == new # None => new.stored = IF old = None THEN NoOne ELSE old.stored

Touches(s, r, i, list) ==
    /\ r \in States
    /\ \A j \in Ids \ {i} : r.objects[j] = s.objects[j]
    /\ \A b \in Blocks : BlockTouched(s.mem[b], r.mem[b], i)
    /\ \A b \in list : StoredKept(s.mem[b], r.mem[b])

CopyFree(s, i) == \A b \in Blocks : s.mem[b] # None => s.mem[b].act[i] = None

\* All but the copy of an object.
SameObject(o, p) ==
    /\ p \in ServerActiveObject
    /\ p.thing = o.thing /\ p.pos = o.pos /\ p.known = o.known /\ p.gone = o.gone

LEMMA StateParts ==
    ASSUME NEW s \in States
    PROVE  /\ s.mem \in [Blocks -> MapBlock \union {None}]
           /\ s.objects \in [Ids -> ServerActiveObject \union {None}]
           /\ \A b \in Blocks : /\ s.mem[b] \in MapBlock \union {None}
                                /\ s.mem[b] # None <=> s.mem[b] \in MapBlock
           /\ \A i \in Ids : /\ s.objects[i] \in ServerActiveObject \union {None}
                             /\ s.objects[i] # None <=> s.objects[i] \in ServerActiveObject
BY ObjectsAssumption DEF States

LEMMA BlockParts ==
    ASSUME NEW m \in MapBlock
    PROVE  /\ m.stored \in [Things -> Nat] /\ m.act \in [Ids -> Things \union {None}]
           /\ \A t \in Things : m.stored[t] \in Nat
           /\ \A i \in Ids : m.act[i] \in Things \union {None}
BY DEF MapBlock

\* A block with another copy under i, and with one more thing at rest.
LEMMA CopyPut ==
    ASSUME NEW m \in MapBlock, NEW i \in Ids, NEW t \in Things \union {None}
    PROVE  LET n == [m EXCEPT !.act[i] = t]
           IN  /\ n \in MapBlock /\ n.stored = m.stored
               /\ n.act[i] = t /\ \A j \in Ids \ {i} : n.act[j] = m.act[j]
BY DEF MapBlock

LEMMA ThingPut ==
    ASSUME NEW m \in MapBlock, NEW t \in Things
    PROVE  LET n == [m EXCEPT !.stored[t] = @ + 1]
           IN  n \in MapBlock /\ n.act = m.act
<1> DEFINE n == [m EXCEPT !.stored[t] = @ + 1]
<1>1. m.stored \in [Things -> Nat] /\ m.stored[t] + 1 \in Nat
  BY DEF MapBlock
<1>2. [m.stored EXCEPT ![t] = m.stored[t] + 1] \in [Things -> Nat]
  BY <1>1
<1>3. n \in MapBlock /\ n.act = m.act
  BY <1>2 DEF MapBlock
<1>4. QED
  BY <1>3

LEMMA RaisePut ==
    ASSUME NEW m \in MapBlock, NEW level \in {"unload", "needed"}
    PROVE  /\ raiseModified(m, level) \in MapBlock /\ raiseModified(m, level).stored = m.stored
           /\ raiseModified(m, level).act = m.act
BY DEF MapBlock, raiseModified

LEMMA MarkPut ==
    ASSUME NEW m \in MapBlock, NEW mark
    PROVE  Marked(m, mark) \in MapBlock /\ Marked(m, mark).stored = m.stored
           /\ Marked(m, mark).act = m.act
BY RaisePut DEF Marked

LEMMA Emerged ==
    ASSUME TypeOK, NEW s \in States, NEW b \in Blocks, NEW create \in BOOLEAN
    PROVE  LET e == emergeBlock(s.mem, b, create)
           IN  /\ e \in MapBlock \union {None} /\ (e # None <=> e \in MapBlock)
               /\ create => e \in MapBlock
               /\ s.mem[b] # None => e = s.mem[b]
               /\ s.mem[b] = None /\ e # None =>
                      e.act = Nobody /\ (disk[b] = None => e.stored = NoOne)
<1> DEFINE e == emergeBlock(s.mem, b, create)
<1>1. BlankBlock \in MapBlock /\ BlankBlock.act = Nobody /\ BlankBlock.stored = NoOne
  BY DEF BlankBlock, MapBlock, NoOne, Nobody
<1>2. disk[b] # None => loadBlock(disk[b]) \in MapBlock /\ loadBlock(disk[b]).act = Nobody
  BY DEF TypeOK, loadBlock, StoredBlock, MapBlock, Nobody
<1>3. s.mem[b] # None <=> s.mem[b] \in MapBlock
  BY StateParts
<1>4. CASE s.mem[b] # None
  BY <1>3, <1>4 DEF emergeBlock
<1>5. CASE s.mem[b] = None /\ disk[b] # None
  <2>1. e = loadBlock(disk[b])
    BY <1>5 DEF emergeBlock
  <2>2. QED
    BY <1>2, <1>5, <2>1, ObjectsAssumption
<1>6. CASE s.mem[b] = None /\ disk[b] = None
  <2>1. e = IF create THEN BlankBlock ELSE None
    BY <1>6 DEF emergeBlock
  <2>2. QED
    BY <1>1, <1>6, <2>1, ObjectsAssumption
<1>7. QED
  BY <1>4, <1>5, <1>6

LEMMA TouchOne ==
    ASSUME NEW s \in States, NEW i \in Ids, NEW list \in SUBSET Blocks,
           NEW b \in Blocks, NEW m \in MapBlock,
           BlockTouched(s.mem[b], m, i), b \in list => StoredKept(s.mem[b], m),
           NEW os \in [Ids -> ServerActiveObject \union {None}],
           \A j \in Ids \ {i} : os[j] = s.objects[j]
    PROVE  LET r == [mem |-> [s.mem EXCEPT ![b] = m], objects |-> os]
           IN  /\ Touches(s, r, i, list) /\ r.objects = os
               /\ r.mem[b] = m /\ \A c \in Blocks \ {b} : r.mem[c] = s.mem[c]
<1> DEFINE r == [mem |-> [s.mem EXCEPT ![b] = m], objects |-> os]
<1>1. s.mem \in [Blocks -> MapBlock \union {None}]
  BY StateParts
<1>2. /\ r \in States /\ r.objects = os /\ r.mem[b] = m
      /\ \A c \in Blocks \ {b} : r.mem[c] = s.mem[c]
  BY <1>1 DEF States
<1> HIDE DEF r
<1>3. \A c \in Blocks : BlockTouched(s.mem[c], r.mem[c], i)
  <2>1. \A c \in Blocks \ {b} : BlockTouched(s.mem[c], r.mem[c], i)
    BY <1>2 DEF BlockTouched
  <2>2. QED
    BY <1>2, <2>1
<1>4. \A c \in list : StoredKept(s.mem[c], r.mem[c])
  <2>1. \A c \in list \ {b} : StoredKept(s.mem[c], r.mem[c])
    BY <1>2 DEF StoredKept
  <2>2. QED
    BY <1>2, <2>1
<1>5. QED
  BY <1>2, <1>3, <1>4 DEF Touches, r

LEMMA TouchObject ==
    ASSUME NEW s \in States, NEW i \in Ids, NEW list \in SUBSET Blocks,
           NEW r \in States, r.mem = s.mem, \A j \in Ids \ {i} : r.objects[j] = s.objects[j]
    PROVE  Touches(s, r, i, list)
<1>1. \A b \in Blocks : BlockTouched(s.mem[b], r.mem[b], i)
  BY DEF BlockTouched
<1>2. \A b \in list : StoredKept(s.mem[b], r.mem[b])
  BY DEF StoredKept
<1>3. QED
  BY <1>1, <1>2 DEF Touches

LEMMA TouchTwice ==
    ASSUME NEW s \in States, NEW q, NEW r, NEW i \in Ids, NEW list \in SUBSET Blocks,
           Touches(s, q, i, list), Touches(q, r, i, list)
    PROVE  Touches(s, r, i, list)
<1>1. ASSUME NEW b \in Blocks PROVE BlockTouched(s.mem[b], r.mem[b], i)
  BY DEF Touches, BlockTouched
<1>2. ASSUME NEW b \in list PROVE StoredKept(s.mem[b], r.mem[b])
  <2>1. StoredKept(s.mem[b], q.mem[b]) /\ StoredKept(q.mem[b], r.mem[b])
    BY DEF Touches
  <2>2. BlockTouched(s.mem[b], q.mem[b], i)
    BY DEF Touches
  <2>3. QED
    BY <2>1, <2>2 DEF StoredKept, BlockTouched
<1>3. r \in States /\ \A j \in Ids \ {i} : r.objects[j] = s.objects[j]
  BY DEF Touches
<1>4. QED
  BY <1>1, <1>2, <1>3 DEF Touches

LEMMA TouchedLoads ==
    ASSUME NEW s \in States, NEW r, NEW i \in Ids, NEW list \in SUBSET Blocks,
           Touches(s, r, i, list), NothingToLoad(s, list)
    PROVE  NothingToLoad(r, list)
BY DEF Touches, BlockTouched, NothingToLoad

\* Who checks the object that was touched checks all.
CopiesOfAre(s, i) ==
    \A b \in Blocks : s.mem[b] # None /\ s.mem[b].act[i] # None =>
        /\ s.objects[i] # None /\ s.objects[i].thing = s.mem[b].act[i]
        /\ s.objects[i].static_exists /\ s.objects[i].static_block = b

LEMMA OneTouched ==
    ASSUME NEW s, NEW r, NEW i \in Ids, NEW list \in SUBSET Blocks, NEW away,
           Right(s, list, away), Touches(s, r, i, list),
           CopiesOfAre(r, i), HasCopy(r, i), RestsOutside(r, i, away)
    PROVE  Right(r, list, away)
<1>1. s \in States /\ r \in States
  BY DEF Right, Touches
<1>2. CopiesHaveOwners(r)
  <2>1. ASSUME NEW b \in Blocks, NEW j \in Ids \ {i}, r.mem[b] # None, r.mem[b].act[j] # None
        PROVE  /\ r.objects[j] # None /\ r.objects[j].thing = r.mem[b].act[j]
               /\ r.objects[j].static_exists /\ r.objects[j].static_block = b
    <3>1. s.mem[b] # None /\ s.mem[b].act[j] = r.mem[b].act[j] /\ r.objects[j] = s.objects[j]
      BY <2>1 DEF Touches, BlockTouched
    <3>2. QED
      BY <2>1, <3>1 DEF Right, CopiesHaveOwners
  <2>2. QED
    BY <2>1 DEF CopiesHaveOwners, CopiesOfAre
<1>3. NobodyRests(r, list)
  BY DEF Right, Touches, NobodyRests, StoredKept
<1>4. NothingToLoad(r, list)
  BY <1>1, TouchedLoads DEF Right
<1>5. ASSUME NEW j \in Ids \ {i} PROVE HasCopy(r, j) /\ RestsOutside(r, j, away)
  <2>1. r.objects[j] = s.objects[j] /\ HasCopy(s, j) /\ RestsOutside(s, j, away)
    BY DEF Touches, Right
  <2>2. s.objects[j] # None => s.objects[j].static_block \in Blocks
    BY <1>1, StateParts DEF ServerActiveObject
  <2>3. \A b \in Blocks : s.mem[b] # None => r.mem[b] # None /\ r.mem[b].act[j] = s.mem[b].act[j]
    BY DEF Touches, BlockTouched
  <2>4. QED
    BY <2>1, <2>2, <2>3 DEF HasCopy, RestsOutside
<1>6. QED
  BY <1>1, <1>2, <1>3, <1>4, <1>5 DEF Right

-----------------------------------------------------------------------------
(* What the operators do to one object.                                    *)

LEMMA ObjectFreed ==
    ASSUME NEW s \in States, NEW i \in Ids, s.objects[i] # None
    PROVE  LET o == s.objects[i]
               p == [s.objects EXCEPT ![i].static_exists = FALSE]
           IN  /\ p \in [Ids -> ServerActiveObject \union {None}]
               /\ \A j \in Ids \ {i} : p[j] = s.objects[j]
               /\ SameObject(o, p[i]) /\ p[i].static_block = o.static_block
<1>1. /\ s.objects \in [Ids -> ServerActiveObject \union {None}]
      /\ s.objects[i] \in ServerActiveObject
  BY StateParts
<1>2. PICK o \in ServerActiveObject : o = s.objects[i]
  BY <1>1
<1>3. [o EXCEPT !.static_exists = FALSE] \in ServerActiveObject
  BY DEF ServerActiveObject
<1>4. QED
  BY <1>1, <1>2, <1>3 DEF SameObject, ServerActiveObject

LEMMA ObjectPlaced ==
    ASSUME NEW s \in States, NEW i \in Ids, s.objects[i] # None, NEW b \in Blocks
    PROVE  LET o == s.objects[i]
               p == [s.objects EXCEPT ![i].static_exists = TRUE, ![i].static_block = b]
           IN  /\ p \in [Ids -> ServerActiveObject \union {None}]
               /\ \A j \in Ids \ {i} : p[j] = s.objects[j]
               /\ SameObject(o, p[i]) /\ p[i].static_exists /\ p[i].static_block = b
<1>1. /\ s.objects \in [Ids -> ServerActiveObject \union {None}]
      /\ s.objects[i] \in ServerActiveObject
  BY StateParts
<1>2. PICK o \in ServerActiveObject : o = s.objects[i]
  BY <1>1
<1>3. [[o EXCEPT !.static_exists = TRUE] EXCEPT !.static_block = b] \in ServerActiveObject
  BY DEF ServerActiveObject
<1>4. QED
  BY <1>1, <1>2, <1>3 DEF SameObject, ServerActiveObject

\* The copy of an object is taken away, wherever it is.
LEMMA DeleteTouches ==
    ASSUME TypeOK, NEW s \in States, NEW i \in Ids, s.objects[i] # None,
           NEW mark, NEW no_emerge \in BOOLEAN, NEW list \in SUBSET Blocks,
           CopiesHaveOwners(s), NothingToLoad(s, list)
    PROVE  LET r == deleteStaticFromBlock(s, i, mark, no_emerge)
           IN  /\ Touches(s, r, i, list) /\ CopyFree(r, i)
               /\ SameObject(s.objects[i], r.objects[i])
               /\ r.objects[i].static_block = s.objects[i].static_block
<1> DEFINE r == deleteStaticFromBlock(s, i, mark, no_emerge)
           o == s.objects[i]
<1>0. o \in ServerActiveObject /\ o.static_block \in Blocks /\ SameObject(o, o)
  BY StateParts DEF ServerActiveObject, SameObject
<1>1. PICK b \in Blocks : b = o.static_block
  BY <1>0
<1> DEFINE block == IF no_emerge THEN s.mem[b] ELSE emergeBlock(s.mem, b, FALSE)
<1>2. /\ block \in MapBlock \union {None} /\ (block # None <=> block \in MapBlock)
      /\ s.mem[b] # None => block = s.mem[b]
      /\ s.mem[b] = None /\ block # None =>
             block.act = Nobody /\ (disk[b] = None => block.stored = NoOne)
  <2>1. CASE no_emerge
    <3>1. block = s.mem[b]
      BY <2>1
    <3>2. s.mem[b] \in MapBlock \union {None} /\ (s.mem[b] # None <=> s.mem[b] \in MapBlock)
      BY StateParts
    <3> HIDE DEF block
    <3>3. QED
      BY <3>1, <3>2
  <2>2. CASE ~ no_emerge
    <3>1. block = emergeBlock(s.mem, b, FALSE) /\ FALSE \in BOOLEAN
      BY <2>2
    <3> HIDE DEF block
    <3>2. QED
      BY <3>1, Emerged
  <2>3. QED
    BY <2>1, <2>2
<1> HIDE DEF block
<1>3. CASE ~ o.static_exists \/ block = None
  <2>1. r = s
    BY <1>1, <1>3 DEF deleteStaticFromBlock, block
  <2>2. CopyFree(s, i)
    BY <1>1, <1>2, <1>3 DEF CopyFree, CopiesHaveOwners
  <2>3. Touches(s, s, i, list)
    BY TouchObject
  <2>4. QED
    BY <1>0, <2>1, <2>2, <2>3
<1>4. CASE o.static_exists /\ block # None
  <2> DEFINE n == [block EXCEPT !.act[i] = None]
             m == Marked(n, mark)
             os == [s.objects EXCEPT ![i].static_exists = FALSE]
  <2>1. r = [mem |-> [s.mem EXCEPT ![b] = m], objects |-> os]
    BY <1>1, <1>4 DEF deleteStaticFromBlock, block
  <2>2. /\ n \in MapBlock /\ n.stored = block.stored
        /\ n.act[i] = None /\ \A j \in Ids \ {i} : n.act[j] = block.act[j]
    BY <1>2, <1>4, CopyPut
  <2>3. m \in MapBlock /\ m.stored = n.stored /\ m.act = n.act
    BY <2>2, MarkPut
  <2>4. /\ os \in [Ids -> ServerActiveObject \union {None}]
        /\ \A j \in Ids \ {i} : os[j] = s.objects[j]
        /\ SameObject(o, os[i]) /\ os[i].static_block = b
    BY <1>1, ObjectFreed
  <2> HIDE DEF n, m, os
  <2>5. BlockTouched(s.mem[b], m, i)
    BY <1>2, <1>4, <2>2, <2>3, ObjectsAssumption DEF BlockTouched, Nobody
  <2>6. b \in list => StoredKept(s.mem[b], m)
    <3>1. m.stored = block.stored
      BY <2>2, <2>3
    <3>2. b \in list /\ s.mem[b] = None => block.stored = NoOne
      BY <1>2, <1>4 DEF NothingToLoad
    <3>3. s.mem[b] # None => block.stored = s.mem[b].stored
      BY <1>2
    <3>4. QED
      BY <3>1, <3>2, <3>3 DEF StoredKept
  <2>7. /\ Touches(s, r, i, list) /\ r.objects = os
        /\ r.mem[b] = m /\ \A c \in Blocks \ {b} : r.mem[c] = s.mem[c]
    BY <2>1, <2>3, <2>4, <2>5, <2>6, TouchOne
  <2>8. CopyFree(r, i)
    BY <1>1, <2>2, <2>3, <2>7 DEF CopyFree, CopiesHaveOwners
  <2>9. QED
    BY <1>1, <2>4, <2>7, <2>8
<1>5. QED
  BY <1>3, <1>4

\* The object gets a copy, in the list of active ones under its id or at rest under none.
SavedIn(s, r, i, b, store_id, list) ==
    /\ Touches(s, r, i, list)
    /\ SameObject(s.objects[i], r.objects[i])
    /\ r.objects[i].static_exists /\ r.objects[i].static_block = b
    /\ store_id = 0 => CopyFree(r, i)
    /\ store_id # 0 => /\ r.mem[b] # None /\ r.mem[b].act[i] = s.objects[i].thing
                       /\ \A c \in Blocks \ {b} : r.mem[c] # None => r.mem[c].act[i] = None

LEMMA SaveTouches ==
    ASSUME TypeOK, NEW s \in States, NEW i \in Ids, s.objects[i] # None,
           NEW store_id, store_id = 0 \/ store_id = i, NEW mark,
           NEW list \in SUBSET Blocks, NEW b \in Blocks, store_id = 0 => b \notin list,
           CopyFree(s, i), NothingToLoad(s, list)
    PROVE  SavedIn(s, saveStaticToBlock(s, b, store_id, i, mark), i, b, store_id, list)
<1> DEFINE r == saveStaticToBlock(s, b, store_id, i, mark)
<1> DEFINE o == s.objects[i]
           t == o.thing
           block == emergeBlock(s.mem, b, TRUE)
           with == IF store_id = 0 THEN [block EXCEPT !.stored[t] = @ + 1]
                   ELSE [block EXCEPT !.act[store_id] = t]
           m == Marked(with, mark)
           os == [s.objects EXCEPT ![i].static_exists = TRUE, ![i].static_block = b]
<1>1. r = [mem |-> [s.mem EXCEPT ![b] = m], objects |-> os]
  BY DEF saveStaticToBlock
<1>2. o \in ServerActiveObject /\ t \in Things
  BY StateParts DEF ServerActiveObject
<1>3. /\ block \in MapBlock
      /\ s.mem[b] # None => block = s.mem[b]
      /\ s.mem[b] = None => block.act = Nobody /\ (disk[b] = None => block.stored = NoOne)
  BY Emerged, ObjectsAssumption
<1>4. block.act[i] = None
  BY <1>3 DEF CopyFree, Nobody
<1> HIDE DEF block
<1>5. /\ with \in MapBlock /\ \A j \in Ids \ {i} : with.act[j] = block.act[j]
      /\ store_id = 0 => with.act[i] = None
      /\ store_id # 0 => with.act[i] = t /\ with.stored = block.stored
  <2>1. CASE store_id = 0
    <3>1. with = [block EXCEPT !.stored[t] = @ + 1]
      BY <2>1
    <3>2. with \in MapBlock /\ with.act = block.act
      BY <1>2, <1>3, <3>1, ThingPut
    <3>3. QED
      BY <1>4, <2>1, <3>2
  <2>2. CASE store_id # 0
    <3>1. with = [block EXCEPT !.act[i] = t]
      BY <2>2
    <3>2. QED
      BY <1>2, <1>3, <2>2, <3>1, CopyPut
  <2>3. QED
    BY <2>1, <2>2
<1>6. m \in MapBlock /\ m.stored = with.stored /\ m.act = with.act
  BY <1>5, MarkPut
<1>7. /\ os \in [Ids -> ServerActiveObject \union {None}]
      /\ \A j \in Ids \ {i} : os[j] = s.objects[j]
      /\ SameObject(o, os[i]) /\ os[i].static_exists /\ os[i].static_block = b
  BY ObjectPlaced
<1> HIDE DEF with, m, os
<1>8. BlockTouched(s.mem[b], m, i)
  BY <1>3, <1>5, <1>6, ObjectsAssumption DEF BlockTouched, Nobody
<1>9. b \in list => StoredKept(s.mem[b], m)
  BY <1>3, <1>5, <1>6 DEF StoredKept, NothingToLoad
<1>10. /\ Touches(s, r, i, list) /\ r.objects = os
       /\ r.mem[b] = m /\ \A c \in Blocks \ {b} : r.mem[c] = s.mem[c]
  BY <1>1, <1>6, <1>7, <1>8, <1>9, TouchOne
<1>11. store_id = 0 => CopyFree(r, i)
  BY <1>5, <1>6, <1>10 DEF CopyFree
<1>12. store_id # 0 => /\ r.mem[b] # None /\ r.mem[b].act[i] = t
                       /\ \A c \in Blocks \ {b} : r.mem[c] # None => r.mem[c].act[i] = None
  BY <1>5, <1>6, <1>10, ObjectsAssumption DEF CopyFree
<1>13. QED
  BY <1>7, <1>10, <1>11, <1>12 DEF SavedIn

\* A mark, and the object goes.
LEMMA MarkTouches ==
    ASSUME NEW s \in States, NEW i \in Ids, s.objects[i] # None,
           NEW what \in {"deactivated", "removed"}, NEW list \in SUBSET Blocks
    PROVE  LET r == MarkFor(s, i, what)
           IN  /\ Touches(s, r, i, list) /\ r.mem = s.mem /\ r.objects[i] \in ServerActiveObject
               /\ r.objects[i].gone = IF s.objects[i].gone = "removed" THEN "removed" ELSE what
               /\ r.objects[i].thing = s.objects[i].thing
               /\ r.objects[i].known = s.objects[i].known
               /\ r.objects[i].static_exists = s.objects[i].static_exists
               /\ r.objects[i].static_block = s.objects[i].static_block
<1> DEFINE r == MarkFor(s, i, what)
<1>1. /\ s.objects \in [Ids -> ServerActiveObject \union {None}]
      /\ s.objects[i] \in ServerActiveObject /\ s.mem \in [Blocks -> MapBlock \union {None}]
      /\ s = [mem |-> s.mem, objects |-> s.objects]
  BY StateParts DEF States
<1> DEFINE p == [s.objects[i] EXCEPT !.gone = IF @ = "removed" THEN @ ELSE what]
<1>2. /\ p \in ServerActiveObject
      /\ p.gone = IF s.objects[i].gone = "removed" THEN "removed" ELSE what
      /\ p.thing = s.objects[i].thing /\ p.known = s.objects[i].known
      /\ p.static_exists = s.objects[i].static_exists
      /\ p.static_block = s.objects[i].static_block
  BY <1>1 DEF ServerActiveObject
<1> HIDE DEF p
<1>3. r.mem = s.mem /\ r = [mem |-> s.mem, objects |-> [s.objects EXCEPT ![i] = p]]
  BY <1>1 DEF MarkFor, p
<1>4. r \in States /\ r.objects[i] = p /\ \A j \in Ids \ {i} : r.objects[j] = s.objects[j]
  BY <1>1, <1>2, <1>3 DEF States
<1>5. QED
  BY <1>2, <1>3, <1>4, TouchObject

LEMMA ForgetTouches ==
    ASSUME NEW s \in States, NEW i \in Ids, NEW list \in SUBSET Blocks
    PROVE  LET r == Forgotten(s, i)
           IN  Touches(s, r, i, list) /\ r.mem = s.mem /\ r.objects[i] = None
<1> DEFINE r == Forgotten(s, i)
<1>1. /\ s.objects \in [Ids -> ServerActiveObject \union {None}]
      /\ s.mem \in [Blocks -> MapBlock \union {None}]
      /\ s = [mem |-> s.mem, objects |-> s.objects]
  BY StateParts DEF States
<1>2. r = [mem |-> s.mem, objects |-> [s.objects EXCEPT ![i] = None]]
  BY <1>1 DEF Forgotten
<1>3. r \in States /\ r.mem = s.mem /\ r.objects[i] = None
      /\ \A j \in Ids \ {i} : r.objects[j] = s.objects[j]
  BY <1>1, <1>2 DEF States
<1>4. QED
  BY <1>3, TouchObject

-----------------------------------------------------------------------------
(* deactivateFarObjects.                                                   *)

\* Objects outside `near' are stored or, if a client knows them, marked; forced ones go.
LEMMA DeactivateOne ==
    ASSUME TypeOK, NEW s, NEW i \in Ids, NEW near \in SUBSET Blocks, NEW list \in SUBSET near,
           NEW force \in BOOLEAN, NEW changed, force => near = {},
           Right(s, list, near)
    PROVE  LET r == deactivate(s, i, near, force, changed)
           IN  /\ Right(r, list, near) /\ Touches(s, r, i, list)
               /\ force => r.objects[i] = None
<1> DEFINE r == deactivate(s, i, near, force, changed)
           o == s.objects[i]
           pending_delete == o.known /\ ~force
           stays == o.static_exists /\ o.static_block = o.pos
           old == emergeBlock(s.mem, o.static_block, FALSE)
           has_copy == o.static_exists /\ (IF old = None THEN FALSE ELSE old.act[i] # None)
           write == ShallBeWritten(stays, changed \/ ~has_copy)
           store_id == IF pending_delete THEN i ELSE 0
           freed(mark) == deleteStaticFromBlock(s, i, mark, FALSE)
           stored == saveStaticToBlock(freed(write), o.pos, store_id, i, write)
           marked == MarkFor(stored, i, "deactivated")
           moved == saveStaticToBlock(freed(TRUE), o.pos, i, i, TRUE)
<1>1. /\ s \in States /\ CopiesHaveOwners(s) /\ NothingToLoad(s, list)
      /\ list \in SUBSET Blocks /\ FALSE \in BOOLEAN
  BY DEF Right
<1>2. Touches(s, s, i, list)
  BY <1>1, TouchObject
<1>3. CASE o = None
  BY <1>2, <1>3 DEF deactivate
<1>4. ASSUME o # None
      PROVE  /\ o \in ServerActiveObject /\ o.pos \in Blocks
             /\ \A mark : /\ Touches(s, freed(mark), i, list) /\ CopyFree(freed(mark), i)
                          /\ SameObject(o, freed(mark).objects[i])
                          /\ freed(mark) \in States /\ freed(mark).objects[i] # None
                          /\ NothingToLoad(freed(mark), list)
  <2>1. o \in ServerActiveObject /\ o.pos \in Blocks
    BY <1>1, <1>4, StateParts DEF ServerActiveObject
  <2>2. ASSUME NEW mark
        PROVE  /\ Touches(s, freed(mark), i, list) /\ CopyFree(freed(mark), i)
               /\ SameObject(o, freed(mark).objects[i])
    BY <1>1, <1>4, DeleteTouches
  <2> HIDE DEF freed
  <2>3. ASSUME NEW mark
        PROVE  /\ freed(mark) \in States /\ freed(mark).objects[i] # None
               /\ NothingToLoad(freed(mark), list)
    BY <1>1, <2>2, TouchedLoads, ObjectsAssumption DEF Touches, SameObject
  <2>4. QED
    BY <2>1, <2>2, <2>3
<1>5. CASE o # None /\ ~force /\ o.gone = "no" /\ ShallMoveCopy(o, near)
  <2>1. r = moved
    BY <1>5 DEF deactivate
  <2>2. i # 0
    BY ObjectsAssumption
  <2>3. PICK q \in States : q = freed(TRUE)
    BY <1>4, <1>5
  <2>4. /\ Touches(s, q, i, list) /\ CopyFree(q, i) /\ SameObject(o, q.objects[i])
        /\ q.objects[i] # None /\ NothingToLoad(q, list)
    BY <1>4, <1>5, <2>3
  <2>5. PICK b \in Blocks : b = o.pos
    BY <1>4, <1>5
  <2>6. r = saveStaticToBlock(q, b, i, i, TRUE)
    BY <2>1, <2>3, <2>5
  <2> HIDE DEF moved, freed, r
  <2>7. SavedIn(q, r, i, b, i, list)
    BY <1>1, <2>2, <2>4, <2>6, SaveTouches
  <2>8. /\ Touches(q, r, i, list) /\ SameObject(q.objects[i], r.objects[i])
        /\ r.objects[i].static_exists /\ r.objects[i].static_block = b
        /\ r.mem[b] # None /\ r.mem[b].act[i] = q.objects[i].thing
        /\ \A c \in Blocks \ {b} : r.mem[c] # None => r.mem[c].act[i] = None
    BY <2>2, <2>7 DEF SavedIn
  <2>9. Touches(s, r, i, list)
    BY <1>1, <2>4, <2>8, TouchTwice
  <2>10. /\ r.objects[i] # None /\ r.objects[i].gone = "no"
         /\ r.objects[i].thing = r.mem[b].act[i]
    BY <1>5, <2>4, <2>8, ObjectsAssumption DEF SameObject
  <2>11. CopiesOfAre(r, i) /\ HasCopy(r, i) /\ RestsOutside(r, i, near)
    BY <2>8, <2>10 DEF CopiesOfAre, HasCopy, RestsOutside
  <2>12. Right(r, list, near)
    BY <1>1, <2>9, <2>11, OneTouched
  <2>13. QED
    BY <1>5, <2>9, <2>12 DEF r
<1>6. CASE o # None /\ (force \/ (o.gone = "no" /\ ~ShallMoveCopy(o, near) /\ o.pos \notin near))
  <2>1. r = IF pending_delete THEN marked ELSE Forgotten(marked, i)
    BY <1>6 DEF deactivate
  <2>2. i # 0
    BY ObjectsAssumption
  <2>3. PICK q \in States : q = freed(write)
    BY <1>4, <1>6
  <2>4. /\ Touches(s, q, i, list) /\ CopyFree(q, i) /\ SameObject(o, q.objects[i])
        /\ q.objects[i] # None /\ NothingToLoad(q, list)
    BY <1>4, <1>6, <2>3
  <2>5. PICK b \in Blocks : b = o.pos /\ b \notin near /\ b \notin list
    BY <1>4, <1>6
  <2>6. /\ stored = saveStaticToBlock(q, b, store_id, i, write)
        /\ (store_id = 0 \/ store_id = i) /\ (store_id = 0 <=> ~pending_delete)
    BY <2>2, <2>3, <2>5
  <2> HIDE DEF write, freed, r, store_id, stored
  <2>7. SavedIn(q, stored, i, b, store_id, list)
    BY <1>1, <2>4, <2>5, <2>6, SaveTouches
  <2>8. /\ Touches(q, stored, i, list) /\ SameObject(q.objects[i], stored.objects[i])
        /\ stored.objects[i].static_exists /\ stored.objects[i].static_block = b
        /\ store_id = 0 => CopyFree(stored, i)
        /\ store_id # 0 => /\ stored.mem[b] # None
                           /\ stored.mem[b].act[i] = q.objects[i].thing
                           /\ \A c \in Blocks \ {b} :
                                 stored.mem[c] # None => stored.mem[c].act[i] = None
    BY <2>7 DEF SavedIn
  <2>9. /\ stored \in States /\ stored.objects[i] \in ServerActiveObject
        /\ stored.objects[i] # None
    BY <2>8, ObjectsAssumption DEF Touches, SameObject
  <2>10. /\ Touches(stored, marked, i, list) /\ marked.mem = stored.mem
         /\ marked.objects[i] \in ServerActiveObject
         /\ marked.objects[i].gone \in {"removed", "deactivated"}
         /\ marked.objects[i].thing = stored.objects[i].thing
         /\ marked.objects[i].static_exists /\ marked.objects[i].static_block = b
    BY <1>1, <2>8, <2>9, MarkTouches
  <2> HIDE DEF marked
  <2>11. Touches(s, marked, i, list) /\ marked \in States
    <3>1. Touches(s, stored, i, list)
      BY <1>1, <2>4, <2>8, TouchTwice
    <3>2. Touches(s, marked, i, list)
      BY <1>1, <2>10, <3>1, TouchTwice
    <3>3. QED
      BY <3>2 DEF Touches
  <2>12. CASE pending_delete
    <3>1. r = marked /\ store_id # 0 /\ ~force
      BY <2>1, <2>6, <2>12
    <3>2. stored.objects[i].thing = q.objects[i].thing
      BY <2>8 DEF SameObject
    <3>3. CopiesOfAre(r, i)
      BY <2>8, <2>10, <3>1, <3>2, ObjectsAssumption DEF CopiesOfAre
    <3>4. HasCopy(r, i) /\ RestsOutside(r, i, near)
      BY <2>5, <2>10, <3>1 DEF HasCopy, RestsOutside
    <3>5. Right(r, list, near)
      BY <1>1, <2>11, <3>1, <3>3, <3>4, OneTouched
    <3>6. QED
      BY <2>11, <3>1, <3>5 DEF r
  <2>13. CASE ~pending_delete
    <3>1. r = Forgotten(marked, i) /\ store_id = 0
      BY <2>1, <2>6, <2>13
    <3>2. Touches(marked, r, i, list) /\ r.mem = marked.mem /\ r.objects[i] = None
      BY <1>1, <2>11, <3>1, ForgetTouches
    <3>3. Touches(s, r, i, list)
      BY <1>1, <2>11, <3>2, TouchTwice
    <3>4. CopiesOfAre(r, i) /\ HasCopy(r, i) /\ RestsOutside(r, i, near)
      BY <2>8, <2>10, <3>1, <3>2 DEF CopiesOfAre, HasCopy, RestsOutside, CopyFree
    <3>5. Right(r, list, near)
      BY <1>1, <3>3, <3>4, OneTouched
    <3>6. QED
      BY <3>2, <3>3, <3>5 DEF r
  <2>14. QED
    BY <2>12, <2>13
<1>7. CASE /\ o # None /\ ~force /\ ~ (o.gone = "no" /\ ShallMoveCopy(o, near))
           /\ ~ (o.gone = "no" /\ ~ShallMoveCopy(o, near) /\ o.pos \notin near)
  <2>1. r = s
    BY <1>7 DEF deactivate
  <2>2. QED
    BY <1>2, <1>7, <2>1
<1>8. QED
  BY <1>3, <1>5, <1>6, <1>7

-----------------------------------------------------------------------------
(* removeRemovedObjects.                                                   *)

\* Who was stored and is not known any more rests in its block now.
LaidDown(m, i, t) == [raiseModified(m, "needed") EXCEPT !.act[i] = None, !.stored[t] = @ + 1]

LEMMA BlockSettled ==
    ASSUME NEW m \in MapBlock, NEW i \in Ids, NEW t \in Things
    PROVE  LET n == LaidDown(m, i, t)
           IN  n \in MapBlock /\ n.act[i] = None /\ \A j \in Ids \ {i} : n.act[j] = m.act[j]
<1> DEFINE p == raiseModified(m, "needed")
           q == [p EXCEPT !.act[i] = None]
<1>1. p \in MapBlock /\ p.act = m.act
  BY RaisePut
<1> HIDE DEF p
<1>2. q \in MapBlock /\ q.act[i] = None /\ \A j \in Ids \ {i} : q.act[j] = p.act[j]
  BY <1>1, CopyPut
<1>3. [q EXCEPT !.stored[t] = @ + 1] = [p EXCEPT !.act[i] = None, !.stored[t] = @ + 1]
  BY <1>1 DEF MapBlock
<1> HIDE DEF q
<1>4. /\ [q EXCEPT !.stored[t] = @ + 1] \in MapBlock
      /\ [q EXCEPT !.stored[t] = @ + 1].act = q.act
  BY <1>2, ThingPut
<1>5. QED
  BY <1>1, <1>2, <1>3, <1>4 DEF p, LaidDown

LEMMA RemoveOne ==
    ASSUME TypeOK, NEW s, NEW i \in Ids, NEW list \in SUBSET Blocks, Right(s, list, list)
    PROVE  LET r == removeRemoved(s, i)
           IN  /\ Right(r, list, list) /\ Touches(s, r, i, list)
               /\ r.objects[i] # None =>
                     /\ s.objects[i] # None /\ r.objects[i].gone = s.objects[i].gone
                     /\ r.objects[i].known = s.objects[i].known
                     /\ r.objects[i].gone = "deactivated" => r.objects[i].known
<1> DEFINE r == removeRemoved(s, i)
           o == s.objects[i]
           freed == deleteStaticFromBlock(s, i, TRUE, FALSE)
           s1 == IF o.gone = "removed" THEN freed ELSE s
           block == emergeBlock(s1.mem, o.static_block, FALSE)
           stored == [raiseModified(block, "needed") EXCEPT !.act[i] = None,
                                                            !.stored[o.thing] = @ + 1]
           s2 == IF o.gone = "removed" \/ ~o.static_exists \/ block = None THEN s1
                 ELSE [s1 EXCEPT !.mem[o.static_block] =
                          IF block.act[i] = None THEN block ELSE stored]
<1>1. /\ s \in States /\ CopiesHaveOwners(s) /\ NothingToLoad(s, list)
      /\ HasCopy(s, i) /\ RestsOutside(s, i, list) /\ FALSE \in BOOLEAN
  BY DEF Right
<1>2. Touches(s, s, i, list)
  BY <1>1, TouchObject
<1>3. o # None => o \in ServerActiveObject
  BY <1>1, StateParts
<1>4. CASE \/ o = None \/ o.gone = "no"
           \/ o.gone = "deactivated" /\ o.known
  <2>1. r = s
    BY <1>4 DEF removeRemoved
  <2>2. QED
    BY <1>2, <1>4, <2>1
<1>5. CASE o # None /\ o.gone = "removed"
  <2>1. r = IF o.known THEN freed ELSE Forgotten(freed, i)
    BY <1>5 DEF removeRemoved
  <2>2. PICK q : q = freed
    OBVIOUS
  <2>3. Touches(s, q, i, list) /\ CopyFree(q, i) /\ SameObject(o, q.objects[i])
    BY <1>1, <1>5, <2>2, DeleteTouches
  <2>4. q \in States /\ CopiesOfAre(q, i)
    BY <2>3 DEF Touches, CopiesOfAre, CopyFree
  <2> HIDE DEF freed, r
  <2>5. CASE o.known
    <3>1. r = q
      BY <2>1, <2>2, <2>5
    <3>2. HasCopy(r, i) /\ RestsOutside(r, i, list)
      BY <1>5, <2>3, <3>1 DEF HasCopy, RestsOutside, SameObject
    <3>3. Right(r, list, list)
      BY <1>1, <2>3, <2>4, <3>1, <3>2, OneTouched
    <3>4. QED
      BY <1>5, <2>3, <2>5, <3>1, <3>3 DEF SameObject, r
  <2>6. CASE ~ o.known
    <3>1. r = Forgotten(q, i)
      BY <2>1, <2>2, <2>6
    <3>2. Touches(q, r, i, list) /\ r.mem = q.mem /\ r.objects[i] = None
      BY <2>4, <3>1, ForgetTouches
    <3>3. Touches(s, r, i, list)
      BY <1>1, <2>3, <3>2, TouchTwice
    <3>4. CopiesOfAre(r, i) /\ HasCopy(r, i) /\ RestsOutside(r, i, list)
      BY <2>3, <3>2 DEF HasCopy, RestsOutside, CopiesOfAre, CopyFree
    <3>5. Right(r, list, list)
      BY <1>1, <3>3, <3>4, OneTouched
    <3>6. QED
      BY <3>2, <3>3, <3>5 DEF r
  <2>7. QED
    BY <2>5, <2>6
<1>6. CASE o # None /\ o.gone = "deactivated" /\ ~ o.known
  <2>1. o \in ServerActiveObject
    BY <1>3, <1>6
  <2>2. PICK b \in Blocks, t \in Things : b = o.static_block /\ t = o.thing /\ b \notin list
    BY <1>1, <1>6, <2>1 DEF RestsOutside, ServerActiveObject
  <2>3. PICK e : e = emergeBlock(s.mem, b, FALSE)
    OBVIOUS
  <2>4. /\ e # None <=> e \in MapBlock
        /\ s.mem[b] # None => e = s.mem[b]
        /\ s.mem[b] = None /\ e # None => e.act = Nobody
    BY <1>1, <2>3, Emerged
  <2>5. r = Forgotten(s2, i)
    BY <1>6 DEF removeRemoved
  <2>6. s2 = IF ~o.static_exists \/ e = None THEN s
            ELSE [s EXCEPT !.mem[b] = IF e.act[i] = None THEN e ELSE LaidDown(e, i, t)]
    <3>1. s1 = s /\ block = e
      BY <1>6, <2>2, <2>3
    <3>2. stored = LaidDown(block, i, o.thing)
      BY DEF LaidDown
    <3> HIDE DEF s1, block, stored
    <3>3. stored = LaidDown(e, i, t)
      BY <2>2, <3>1, <3>2
    <3>4. QED
      BY <1>6, <2>2, <3>1, <3>3
  <2> HIDE DEF r, s2
  <2>7. PICK q : q = s2
    OBVIOUS
  <2>8. Touches(s, q, i, list) /\ CopyFree(q, i)
    <3>1. CASE ~o.static_exists \/ e = None
      <4>1. q = s
        BY <2>6, <2>7, <3>1
      <4>2. CopyFree(s, i)
        BY <1>1, <2>2, <2>4, <3>1 DEF CopiesHaveOwners, CopyFree
      <4>3. QED
        BY <1>2, <4>1, <4>2
    <3>2. CASE o.static_exists /\ e # None
      <4>1. PICK m : m = IF e.act[i] = None THEN e ELSE LaidDown(e, i, t)
        OBVIOUS
      <4>2. m \in MapBlock /\ m.act[i] = None /\ \A j \in Ids \ {i} : m.act[j] = e.act[j]
        <5>1. CASE e.act[i] = None
          BY <2>4, <3>2, <4>1, <5>1
        <5>2. CASE e.act[i] # None
          <6>1. m = LaidDown(e, i, t)
            BY <4>1, <5>2
          <6>2. QED
            BY <2>4, <3>2, <6>1, BlockSettled
        <5>3. QED
          BY <5>1, <5>2
      <4>3. BlockTouched(s.mem[b], m, i)
        BY <2>4, <3>2, <4>2, ObjectsAssumption DEF BlockTouched, Nobody
      <4>4. /\ s.objects \in [Ids -> ServerActiveObject \union {None}]
            /\ s = [mem |-> s.mem, objects |-> s.objects]
        BY <1>1 DEF States
      <4>5. q = [mem |-> [s.mem EXCEPT ![b] = m], objects |-> s.objects]
        <5>1. q = [s EXCEPT !.mem[b] = m]
          BY <2>6, <2>7, <3>2, <4>1
        <5>2. QED
          BY <4>4, <5>1
      <4>6. /\ Touches(s, q, i, list) /\ q.mem[b] = m
            /\ \A c \in Blocks \ {b} : q.mem[c] = s.mem[c]
        BY <1>1, <2>2, <4>2, <4>3, <4>4, <4>5, TouchOne
      <4>7. CopyFree(q, i)
        BY <1>1, <2>2, <4>2, <4>6 DEF CopyFree, CopiesHaveOwners
      <4>8. QED
        BY <4>6, <4>7
    <3>3. QED
      BY <3>1, <3>2
  <2>9. Touches(q, r, i, list) /\ r.mem = q.mem /\ r.objects[i] = None
    <3>1. q \in States
      BY <2>8 DEF Touches
    <3>2. QED
      BY <2>5, <2>7, <3>1, ForgetTouches
  <2>10. Touches(s, r, i, list)
    BY <1>1, <2>8, <2>9, TouchTwice
  <2>11. CopiesOfAre(r, i) /\ HasCopy(r, i) /\ RestsOutside(r, i, list)
    BY <2>8, <2>9 DEF HasCopy, RestsOutside, CopiesOfAre, CopyFree
  <2>12. Right(r, list, list)
    BY <1>1, <2>10, <2>11, OneTouched
  <2>13. QED
    BY <2>9, <2>10, <2>12 DEF r
<1>7. QED
  BY <1>3, <1>4, <1>5, <1>6 DEF ServerActiveObject

-----------------------------------------------------------------------------
(* Keys in order.                                                          *)

\* A finite set of integers that is not empty has a greatest member.
LEMMA GreatestOne ==
    ASSUME NEW K \in SUBSET Int, IsFiniteSet(K), K # {}
    PROVE  \E x \in K : \A y \in K : y <= x
<1> DEFINE n == Cardinality(K)
           good == {k \in 0 .. n : \A L \in SUBSET K : Cardinality(L) = k /\ L # {} =>
                                       \E x \in L : \A y \in L : y <= x}
<1>1. n \in Nat /\ K \in SUBSET K
  BY FS_CardinalityType
<1>2. ASSUME NEW L \in SUBSET K PROVE IsFiniteSet(L) /\ (Cardinality(L) = 0 => L = {})
  BY FS_Subset, FS_EmptySet
<1>3. 0 \in good
  <2>1. 0 \in 0 .. n
    BY <1>1
  <2> HIDE DEF n
  <2>2. QED
    BY <1>2, <2>1
<1>4. ASSUME NEW k \in 1 .. n, k - 1 \in good PROVE k \in good
  <2>1. ASSUME NEW L \in SUBSET K, Cardinality(L) = k, NEW z \in L
        PROVE  \E x \in L : \A y \in L : y <= x
    <3>1. PICK M \in SUBSET K : M = L \ {z}
      OBVIOUS
    <3>2. IsFiniteSet(L)
      BY <1>2
    <3>3. Cardinality(M) = k - 1
      BY <2>1, <3>1, <3>2, FS_RemoveElement
    <3>4. CASE M = {}
      <4>1. \A y \in L : y <= z
        BY <3>1, <3>4
      <4>2. QED
        BY <4>1
    <3>5. CASE M # {}
      <4>1. PICK x \in M : \A y \in M : y <= x
        BY <1>4, <3>3, <3>5
      <4>2. x \in Int /\ z \in Int /\ \A y \in L : y \in M \/ y = z
        BY <3>1
      <4>3. CASE z <= x
        BY <3>1, <4>1, <4>2, <4>3
      <4>4. CASE ~ (z <= x)
        <5>1. \A y \in L : y <= z
          BY <3>1, <4>1, <4>2, <4>4
        <5>2. QED
          BY <5>1
      <4>5. QED
        BY <4>3, <4>4
    <3>6. QED
      BY <3>4, <3>5
  <2>2. k \in 0 .. n
    BY <1>1
  <2> HIDE DEF n
  <2>3. QED
    BY <2>1, <2>2
<1>5. n \in good
  <2> HIDE DEF good, n
  <2>1. \A k \in 0 .. n : k \in good
    BY <1>1, <1>3, <1>4, StepByStep
  <2>2. QED
    BY <1>1, <2>1
<1>6. QED
  BY <1>1, <1>5

Ascending(q, n) == \A k, l \in 1 .. n : k < l => q[k] < q[l]

LEMMA OrderExists ==
    ASSUME NEW K \in SUBSET Int, IsFiniteSet(K)
    PROVE  \E q \in [1 .. Cardinality(K) -> K] : Ascending(q, Cardinality(K))
<1> DEFINE n == Cardinality(K)
           good == {m \in 0 .. n : \A L \in SUBSET K : Cardinality(L) = m =>
                                       \E q \in [1 .. m -> L] : Ascending(q, m)}
<1>1. n \in Nat /\ K \in SUBSET K
  BY FS_CardinalityType
<1>2. ASSUME NEW L \in SUBSET K PROVE IsFiniteSet(L)
  BY FS_Subset
<1>3. 0 \in good
  <2>1. ASSUME NEW L \in SUBSET K, Cardinality(L) = 0
        PROVE  \E q \in [1 .. 0 -> L] : Ascending(q, 0)
    <3>1. [k \in 1 .. 0 |-> 0] \in [1 .. 0 -> L] /\ Ascending([k \in 1 .. 0 |-> 0], 0)
      BY DEF Ascending
    <3>2. QED
      BY <3>1
  <2>2. 0 \in 0 .. n
    BY <1>1
  <2> HIDE DEF n
  <2>3. QED
    BY <2>1, <2>2
<1>4. ASSUME NEW m \in 1 .. n, m - 1 \in good PROVE m \in good
  <2>1. ASSUME NEW L \in SUBSET K, Cardinality(L) = m
        PROVE  \E q \in [1 .. m -> L] : Ascending(q, m)
    <3>1. IsFiniteSet(L) /\ L # {} /\ L \in SUBSET Int
      BY <1>1, <1>2, <2>1, FS_EmptySet
    <3>2. PICK x \in L : \A y \in L : y <= x
      BY <3>1, GreatestOne
    <3>3. PICK M \in SUBSET K : M = L \ {x}
      OBVIOUS
    <3>4. Cardinality(M) = m - 1
      BY <2>1, <3>1, <3>3, FS_RemoveElement
    <3>5. PICK p \in [1 .. m - 1 -> M] : Ascending(p, m - 1)
      BY <1>4, <3>4
    <3> DEFINE q == [k \in 1 .. m |-> IF k = m THEN x ELSE p[k]]
    <3>6. m \in Nat /\ \A k \in 1 .. m : k # m => k \in 1 .. m - 1
      BY <1>1
    <3>7. \A k \in 1 .. m - 1 : p[k] \in L /\ p[k] \in Int /\ x \in Int /\ p[k] < x
      <4>1. \A y \in M : y \in L /\ y \in Int /\ x \in Int /\ y # x /\ y <= x
        BY <3>1, <3>2, <3>3
      <4>2. \A y \in M : y \in L /\ y \in Int /\ x \in Int /\ y < x
        BY <4>1
      <4>3. QED
        BY <4>2
    <3>8. q \in [1 .. m -> L]
      BY <3>6, <3>7
    <3>9. Ascending(q, m)
      <4>1. ASSUME NEW k \in 1 .. m, NEW l \in 1 .. m, k < l PROVE q[k] < q[l]
        <5>1. k \in 1 .. m - 1 /\ q[k] = p[k]
          BY <3>6, <4>1
        <5>2. CASE l = m
          BY <3>7, <5>1, <5>2
        <5>3. CASE l # m
          BY <3>5, <3>6, <4>1, <5>1, <5>3 DEF Ascending
        <5>4. QED
          BY <5>2, <5>3
      <4>2. QED
        BY <4>1 DEF Ascending
    <3> HIDE DEF q
    <3>10. QED
      BY <3>8, <3>9
  <2>2. m \in 0 .. n
    BY <1>1
  <2> HIDE DEF n
  <2>3. QED
    BY <2>1, <2>2
<1>5. n \in good
  <2> HIDE DEF good, n
  <2>1. \A k \in 0 .. n : k \in good
    BY <1>1, <1>3, <1>4, StepByStep
  <2>2. QED
    BY <1>1, <2>1
<1>6. QED
  BY <1>1, <1>5

\* What is walked along in order is all there is.
LEMMA InOrderIs ==
    ASSUME NEW K \in SUBSET Int, IsFiniteSet(K)
    PROVE  InOrder(K) \in Seq(K) /\ \A x \in K : \E k \in 1 .. Len(InOrder(K)) : InOrder(K)[k] = x
<1> DEFINE n == Cardinality(K)
           q == InOrder(K)
<1>1. n \in Nat
  BY FS_CardinalityType
<1>2. q \in [1 .. n -> K] /\ Ascending(q, n)
  <2>1. \E p : p \in [1 .. n -> K] /\ \A k, l \in 1 .. n : k < l => p[k] < p[l]
    BY OrderExists DEF Ascending
  <2>2. q = CHOOSE p : p \in [1 .. n -> K] /\ \A k, l \in 1 .. n : k < l => p[k] < p[l]
    BY DEF InOrder
  <2> HIDE DEF q, n
  <2>3. QED
    BY <2>1, <2>2 DEF Ascending
<1> HIDE DEF q
<1>3. q \in Injection(1 .. n, K)
  <2>1. ASSUME NEW k \in 1 .. n, NEW l \in 1 .. n, q[k] = q[l] PROVE k = l
    <3>1. q[k] \in Int /\ q[l] \in Int
      BY <1>2
    <3>2. ~ (k < l) /\ ~ (l < k)
      BY <1>2, <2>1, <3>1 DEF Ascending
    <3>3. QED
      BY <1>1, <3>2
  <2>2. IsInjective(q)
    BY <1>2, <2>1 DEF IsInjective
  <2>3. QED
    BY <1>2, <2>2 DEF Injection
<1>4. Cardinality(1 .. n) = Cardinality(K)
  <2>1. Cardinality(1 .. n) = IF 1 > n THEN 0 ELSE n - 1 + 1
    BY <1>1, FS_Interval
  <2>2. Cardinality(1 .. n) = n
    BY <1>1, <2>1
  <2>3. QED
    BY <2>2
<1>5. q \in Surjection(1 .. n, K)
  BY <1>3, <1>4, FS_Injection
<1>6. q \in Seq(K) /\ Len(q) = n
  BY <1>1, <1>2
<1>7. \A x \in K : \E k \in 1 .. n : q[k] = x
  BY <1>5 DEF Surjection
<1>8. QED
  BY <1>6, <1>7 DEF q

-----------------------------------------------------------------------------
(* What rests in a block, one by one.                                      *)

LEMMA CopiesAre ==
    ASSUME NEW stored \in [Things -> Nat]
    PROVE  Copies(stored) \in Seq(Things \X Nat)
<1> DEFINE pairs(t) == {<<t, k>> : k \in 1 .. stored[t]}
           all == UNION {pairs(t) : t \in Things}
           n == Cardinality(all)
<1>1. ASSUME NEW t \in Things PROVE IsFiniteSet(pairs(t))
  <2> DEFINE m == stored[t]
             f == [k \in 1 .. m |-> <<t, k>>]
  <2>1. m \in Nat /\ IsFiniteSet(1 .. m)
    BY FS_Interval
  <2>2. f \in Surjection(1 .. m, pairs(t))
    BY DEF Surjection
  <2> HIDE DEF f, m
  <2>3. QED
    BY <2>1, <2>2, FS_Surjection
<1>2. IsFiniteSet(all)
  <2> DEFINE sets == {pairs(t) : t \in Things}
             g == [t \in Things |-> pairs(t)]
  <2>1. g \in Surjection(Things, sets)
    BY DEF Surjection
  <2>2. \A T \in sets : IsFiniteSet(T)
    BY <1>1
  <2> HIDE DEF g, pairs
  <2>3. IsFiniteSet(sets)
    <3> HIDE DEF sets
    <3>1. QED
      BY <2>1, ObjectsAssumption, FS_Surjection
  <2>4. all = UNION sets
    OBVIOUS
  <2> HIDE DEF sets, all
  <2>5. QED
    BY <2>2, <2>3, <2>4, FS_UNION
<1>3. n \in Nat /\ \E f \in [1 .. n -> all] : IsInjective(f)
  <2>1. n \in Nat /\ Bijection(1 .. n, all) # {}
    BY <1>2, FS_CardinalityType DEF ExistsBijection
  <2> HIDE DEF all, n
  <2>2. QED
    BY <2>1 DEF Bijection, Injection
<1>4. Copies(stored) \in [1 .. n -> all]
  <2>1. Copies(stored) = CHOOSE f \in [1 .. n -> all] : IsInjective(f)
    BY DEF Copies, SetToSeq
  <2> HIDE DEF all, n
  <2>2. QED
    BY <1>3, <2>1
<1>5. all \subseteq Things \X Nat
  OBVIOUS
<1> HIDE DEF all, n
<1>6. QED
  BY <1>3, <1>4, <1>5

-----------------------------------------------------------------------------
(* addActiveObjectRaw and activateBlock.                                   *)

\* Blocks may be loaded and change in all that is not a list of objects.
ListsKept(s, r) ==
    /\ r.objects = s.objects
    /\ \A b \in Blocks : r.mem[b] # None =>
           r.mem[b].act = IF s.mem[b] = None THEN Nobody ELSE s.mem[b].act
    /\ \A b \in Blocks : s.mem[b] # None => r.mem[b] # None

LEMMA SameLists ==
    ASSUME NEW s, NEW r \in States, NEW list, NEW new, NEW away,
           Right(s, list, away), ListsKept(s, r),
           NobodyRests(r, new), NothingToLoad(r, new)
    PROVE  Right(r, new, away)
<1>1. s \in States
  BY DEF Right
<1>2. ASSUME NEW b \in Blocks, NEW i \in Ids, r.mem[b] # None, r.mem[b].act[i] # None
      PROVE  s.mem[b] # None /\ s.mem[b].act[i] = r.mem[b].act[i]
  BY <1>2 DEF ListsKept, Nobody
<1>3. CopiesHaveOwners(r)
  BY <1>2 DEF CopiesHaveOwners, Right, ListsKept
<1>4. ASSUME NEW i \in Ids PROVE HasCopy(r, i) /\ RestsOutside(r, i, away)
  <2>1. HasCopy(s, i) /\ RestsOutside(s, i, away) /\ r.objects[i] = s.objects[i]
    BY DEF Right, ListsKept
  <2>2. s.objects[i] # None => s.objects[i].static_block \in Blocks
    BY <1>1, StateParts DEF ServerActiveObject
  <2>3. \A b \in Blocks : s.mem[b] # None => r.mem[b] # None /\ r.mem[b].act = s.mem[b].act
    BY DEF ListsKept
  <2>4. QED
    BY <2>1, <2>2, <2>3 DEF HasCopy, RestsOutside
<1>5. QED
  BY <1>3, <1>4 DEF Right

\* Nothing is unloaded, and what is new is not gone.
Grown(s, r) ==
    /\ \A b \in Blocks : s.mem[b] # None => r.mem[b] # None
    /\ \A i \in Ids : r.objects[i] # None /\ r.objects[i].gone # "no" =>
           r.objects[i] = s.objects[i]

LEMMA AddOne ==
    ASSUME TypeOK, NEW s, NEW list \in SUBSET Blocks, NEW away, Right(s, list, away),
           NEW t \in Things, NEW b \in Blocks, NEW mark
    PROVE  LET r == addActiveObjectRaw(s, t, b, mark)
           IN  Right(r, list, away) /\ Grown(s, r)
<1> DEFINE r == addActiveObjectRaw(s, t, b, mark)
<1>1. s \in States /\ CopiesHaveOwners(s) /\ NothingToLoad(s, list)
  BY DEF Right
<1>2. CASE FreeId(s) = {}
  <2>1. r = s
    BY <1>2 DEF addActiveObjectRaw
  <2>2. QED
    BY <2>1 DEF Grown
<1>3. CASE FreeId(s) # {}
  <2>1. PICK i \in Ids : i = (CHOOSE j \in FreeId(s) : TRUE) /\ s.objects[i] = None
    BY <1>3 DEF FreeId
  <2>2. PICK e : e = emergeBlock(s.mem, b, TRUE)
    OBVIOUS
  <2>3. /\ e \in MapBlock
        /\ s.mem[b] # None => e = s.mem[b]
        /\ s.mem[b] = None => e.act = Nobody /\ (disk[b] = None => e.stored = NoOne)
    BY <1>1, <2>2, Emerged, ObjectsAssumption
  <2>4. PICK n : n = [e EXCEPT !.act[i] = t]
    OBVIOUS
  <2>5. /\ n \in MapBlock /\ n.stored = e.stored
        /\ n.act[i] = t /\ \A j \in Ids \ {i} : n.act[j] = e.act[j]
    BY <2>3, <2>4, CopyPut
  <2>6. PICK m \in MapBlock : m = Marked(n, mark)
    BY <2>5, MarkPut
  <2>7. m.stored = n.stored /\ m.act = n.act
    BY <2>5, <2>6, MarkPut
  <2>8. PICK o : o = NewObject(t, b)
    OBVIOUS
  <2>9. /\ o \in ServerActiveObject /\ o # None /\ o.gone = "no" /\ o.thing = t
        /\ o.static_exists /\ o.static_block = b
    <3>1. o \in ServerActiveObject
      BY <2>8 DEF NewObject, ServerActiveObject
    <3>2. QED
      BY <2>8, <3>1, ObjectsAssumption DEF NewObject
  <2>10. PICK os \in [Ids -> ServerActiveObject \union {None}] : os = [s.objects EXCEPT ![i] = o]
    <3>1. s.objects \in [Ids -> ServerActiveObject \union {None}]
      BY <1>1, StateParts
    <3>2. QED
      BY <2>9, <3>1
  <2>11. os[i] = o /\ \A j \in Ids \ {i} : os[j] = s.objects[j]
    <3>1. s.objects \in [Ids -> ServerActiveObject \union {None}]
      BY <1>1, StateParts
    <3>2. QED
      BY <2>10, <3>1
  <2>12. r = [mem |-> [s.mem EXCEPT ![b] = m], objects |-> os]
    BY <1>3, <2>1, <2>2, <2>4, <2>6, <2>8, <2>10 DEF addActiveObjectRaw
  <2> HIDE DEF r
  <2>13. BlockTouched(s.mem[b], m, i)
    BY <2>3, <2>5, <2>7, ObjectsAssumption DEF BlockTouched, Nobody
  <2>14. b \in list => StoredKept(s.mem[b], m)
    BY <1>1, <2>3, <2>5, <2>7 DEF StoredKept, NothingToLoad
  <2>15. /\ Touches(s, r, i, list) /\ r.objects = os
         /\ r.mem[b] = m /\ \A c \in Blocks \ {b} : r.mem[c] = s.mem[c]
    <3>1. PICK q \in States : q = s
      BY <1>1
    <3>2. /\ BlockTouched(q.mem[b], m, i) /\ (b \in list => StoredKept(q.mem[b], m))
          /\ \A j \in Ids \ {i} : os[j] = q.objects[j]
      BY <2>11, <2>13, <2>14, <3>1
    <3>3. r = [mem |-> [q.mem EXCEPT ![b] = m], objects |-> os]
      BY <2>12, <3>1
    <3>4. Touches(q, r, i, list) /\ r.objects = os
          /\ r.mem[b] = m /\ \A c \in Blocks \ {b} : r.mem[c] = q.mem[c]
      BY <3>2, <3>3, TouchOne
    <3>5. QED
      BY <3>1, <3>4
  <2>16. CopyFree(s, i)
    BY <1>1, <2>1 DEF CopiesHaveOwners, CopyFree
  <2>17. CopiesOfAre(r, i)
    BY <2>5, <2>7, <2>9, <2>11, <2>15, <2>16 DEF CopyFree, CopiesOfAre
  <2>18. HasCopy(r, i) /\ RestsOutside(r, i, away)
    BY <2>5, <2>7, <2>9, <2>11, <2>15, ObjectsAssumption DEF HasCopy, RestsOutside
  <2>19. Right(r, list, away)
    BY <2>15, <2>17, <2>18, OneTouched
  <2>20. Grown(s, r)
    BY <2>9, <2>11, <2>15 DEF Grown, Touches, BlockTouched
  <2>21. QED
    BY <2>19, <2>20 DEF r
<1>4. QED
  BY <1>2, <1>3

\* Whoever rests in a block that comes into use becomes active.
LEMMA ActivateOne ==
    ASSUME TypeOK, NEW s, NEW list \in SUBSET Blocks, NEW away, Right(s, list, away),
           NEW b \in Blocks, s.mem[b] # None
    PROVE  LET r == activateBlock(s, b)
           IN  Right(r, list \union {b}, away) /\ Grown(s, r)
<1> DEFINE r == activateBlock(s, b)
           stored == IF Stale(s.mem[b]) THEN NoOne ELSE s.mem[b].stored
           cut == [s EXCEPT !.mem[b].stamp = "fresh", !.mem[b].stored = NoOne]
<1>1. /\ s \in States /\ s.mem \in [Blocks -> MapBlock \union {None}] /\ s.mem[b] \in MapBlock
      /\ s = [mem |-> s.mem, objects |-> s.objects]
      /\ s.objects \in [Ids -> ServerActiveObject \union {None}]
  BY StateParts DEF Right, States
<1>2. PICK m : m = [s.mem[b] EXCEPT !.stamp = "fresh", !.stored = NoOne]
  OBVIOUS
<1>3. m \in MapBlock /\ m.stored = NoOne /\ m.act = s.mem[b].act /\ m # None
  <2>1. NoOne \in [Things -> Nat] /\ "fresh" \in {"none", "old", "fresh"}
    BY DEF NoOne
  <2>2. m \in MapBlock /\ m.stored = NoOne /\ m.act = s.mem[b].act
    <3> HIDE DEF NoOne
    <3>1. QED
      BY <1>1, <1>2, <2>1 DEF MapBlock
  <2>3. QED
    BY <2>2, ObjectsAssumption
<1>4. PICK q : q = [mem |-> [s.mem EXCEPT ![b] = m], objects |-> s.objects]
  OBVIOUS
<1>5. q = cut
  <2>1. cut = [[s EXCEPT !.mem[b].stamp = "fresh"] EXCEPT !.mem[b].stored = NoOne]
    OBVIOUS
  <2>2. PICK n \in MapBlock : n = [s.mem[b] EXCEPT !.stamp = "fresh"]
    BY <1>1 DEF MapBlock
  <2>3. PICK p : p = [s EXCEPT !.mem[b].stamp = "fresh"]
    OBVIOUS
  <2>4. /\ p = [mem |-> [s.mem EXCEPT ![b] = n], objects |-> s.objects]
        /\ p.mem[b] = n /\ p.objects = s.objects
    BY <1>1, <2>2, <2>3
  <2>5. cut = [p EXCEPT !.mem[b].stored = NoOne]
    <3> HIDE DEF cut
    <3>1. QED
      BY <2>1, <2>3
  <2>6. m = [n EXCEPT !.stored = NoOne]
    BY <1>2, <2>2
  <2> HIDE DEF cut
  <2>7. cut = [mem |-> [p.mem EXCEPT ![b] = m], objects |-> s.objects]
    BY <2>4, <2>5, <2>6
  <2>8. [p.mem EXCEPT ![b] = m] = [s.mem EXCEPT ![b] = m]
    BY <1>1, <2>4
  <2>9. QED
    BY <1>4, <2>7, <2>8
<1>6. /\ q \in States /\ q.objects = s.objects /\ q.mem[b] = m
      /\ \A c \in Blocks \ {b} : q.mem[c] = s.mem[c]
  BY <1>1, <1>3, <1>4 DEF States
<1>7. ListsKept(s, q)
  <2>1. \A c \in Blocks : /\ q.mem[c] # None <=> s.mem[c] # None
                          /\ s.mem[c] # None => q.mem[c].act = s.mem[c].act
    BY <1>3, <1>6
  <2>2. QED
    BY <1>6, <2>1 DEF ListsKept
<1>8. NobodyRests(q, list \union {b}) /\ NothingToLoad(q, list \union {b})
  <2>1. NobodyRests(s, list) /\ NothingToLoad(s, list)
    BY DEF Right
  <2>2. ASSUME NEW c \in list \union {b}
        PROVE  (q.mem[c] # None => q.mem[c].stored = NoOne) /\ (q.mem[c] = None => disk[c] = None)
    BY <1>3, <1>6, <2>1 DEF NobodyRests, NothingToLoad
  <2>3. QED
    BY <2>2 DEF NobodyRests, NothingToLoad
<1>9. Right(q, list \union {b}, away)
  BY <1>6, <1>7, <1>8, SameLists
<1>10. Grown(s, q)
  BY <1>6, <1>3 DEF Grown
<1>11. stored \in [Things -> Nat]
  BY <1>1 DEF MapBlock, NoOne
<1>12. PICK copies \in Seq(Things \X Nat) : copies = Copies(stored)
  <2> HIDE DEF stored
  <2>1. QED
    BY <1>11, CopiesAre
<1> DEFINE T == {x \in States : Right(x, list \union {b}, away) /\ Grown(s, x)}
<1>13. q \in T
  BY <1>6, <1>9, <1>10
<1>14. ASSUME NEW x \in T, NEW copy \in Things \X Nat
       PROVE  addActiveObjectRaw(x, copy[1], b, FALSE) \in T
  <2>1. PICK t \in Things : t = copy[1]
    OBVIOUS
  <2>2. PICK y : y = addActiveObjectRaw(x, t, b, FALSE)
    OBVIOUS
  <2>3. Right(y, list \union {b}, away) /\ Grown(x, y)
    BY <2>2, AddOne
  <2>4. Grown(s, y)
    BY <2>3 DEF Grown
  <2>5. y \in States
    BY <2>3 DEF Right
  <2>6. QED
    BY <2>1, <2>2, <2>3, <2>4, <2>5
<1> HIDE DEF T
<1>15. Added(q, copies, b) \in T
  <2>0. AddClosed(T, Things \X Nat, b)
    BY <1>14 DEF AddClosed
  <2>1. PICK told : AddChain(told, T, q, copies, b)
    BY <1>13, <2>0, AddFold
  <2>2. Len(copies) \in 0 .. Len(copies)
    OBVIOUS
  <2>3. QED
    BY <2>1, <2>2 DEF AddChain
<1>16. r \in T
  <2>1. r = Added(cut, Copies(stored), b)
    BY DEF activateBlock, Added
  <2> HIDE DEF r, cut, stored
  <2>2. QED
    BY <1>5, <1>12, <1>15, <2>1
<1>17. QED
  BY <1>16 DEF T

-----------------------------------------------------------------------------
(* clearObjects.                                                           *)

\* Every object goes, or stays until its client knows; its copy goes.
LEMMA ClearOneKept ==
    ASSUME TypeOK, NEW s, NEW i \in Ids, NEW list \in SUBSET Blocks, NEW away,
           Right(s, list, away)
    PROVE  LET r == ClearOne(s, i)
           IN  /\ Right(r, list, away) /\ Touches(s, r, i, list) /\ CopyFree(r, i)
               /\ r.objects[i] # None => r.objects[i].gone = "removed"
<1> DEFINE r == ClearOne(s, i)
           o == s.objects[i]
<1>1. s \in States /\ CopiesHaveOwners(s) /\ NothingToLoad(s, list) /\ TRUE \in BOOLEAN
  BY DEF Right
<1>2. CASE o = None
  <2>1. r = s
    BY <1>2 DEF ClearOne
  <2>2. Touches(s, s, i, list)
    BY <1>1, TouchObject
  <2>3. CopyFree(s, i)
    BY <1>1, <1>2 DEF CopiesHaveOwners, CopyFree
  <2>4. QED
    BY <1>2, <2>1, <2>2, <2>3
<1>3. CASE o # None
  <2>1. PICK q : q = deleteStaticFromBlock(s, i, TRUE, TRUE)
    OBVIOUS
  <2>2. Touches(s, q, i, list) /\ CopyFree(q, i) /\ SameObject(o, q.objects[i])
    BY <1>1, <1>3, <2>1, DeleteTouches
  <2>3. q \in States /\ q.objects[i] # None
    BY <2>2, ObjectsAssumption DEF Touches, SameObject
  <2>4. PICK p : p = MarkFor(q, i, "removed")
    OBVIOUS
  <2>5. /\ Touches(q, p, i, list) /\ p.mem = q.mem /\ p.objects[i] \in ServerActiveObject
        /\ p.objects[i].gone = "removed"
    BY <2>3, <2>4, MarkTouches
  <2>6. p \in States /\ Touches(s, p, i, list)
    BY <1>1, <2>2, <2>5, TouchTwice DEF Touches
  <2>7. PICK x : x = Forgotten(p, i)
    OBVIOUS
  <2>8. Touches(p, x, i, list) /\ x.mem = p.mem /\ x.objects[i] = None
    BY <2>6, <2>7, ForgetTouches
  <2>9. Touches(s, x, i, list)
    BY <1>1, <2>6, <2>8, TouchTwice
  <2>10. r = IF o.known THEN p ELSE x
    BY <1>3, <2>1, <2>4, <2>7 DEF ClearOne
  <2> HIDE DEF r
  <2>11. /\ Touches(s, r, i, list) /\ r.mem = q.mem
         /\ r.objects[i] # None => r.objects[i].gone = "removed"
    BY <2>5, <2>6, <2>8, <2>9, <2>10
  <2>12. CopyFree(r, i)
    BY <2>2, <2>11 DEF CopyFree
  <2>13. CopiesOfAre(r, i) /\ HasCopy(r, i) /\ RestsOutside(r, i, away)
    BY <2>11, <2>12 DEF CopiesOfAre, HasCopy, RestsOutside, CopyFree
  <2>14. Right(r, list, away)
    BY <2>11, <2>13, OneTouched
  <2>15. QED
    BY <2>11, <2>12, <2>14 DEF r
<1>4. QED
  BY <1>2, <1>3

-----------------------------------------------------------------------------
(* All objects, one after the other.                                       *)

LEMMA RightLess ==
    ASSUME NEW s, NEW list, NEW away, Right(s, list, away),
           NEW new \in SUBSET list, NEW less \in SUBSET away
    PROVE  Right(s, new, less)
BY DEF Right, NobodyRests, NothingToLoad, RestsOutside

LEMMA AllIdsAre == AllIds \in Seq(Ids) /\ \A i \in Ids : \E k \in 1 .. Len(AllIds) : AllIds[k] = i
<1>1. Ids \in SUBSET Int /\ IsFiniteSet(Ids)
  BY ObjectsAssumption
<1>2. QED
  BY <1>1, InOrderIs DEF AllIds

StillLoaded(s, r) == \A b \in Blocks : s.mem[b] # None => r.mem[b] # None

LEMMA DeactivatedAll ==
    ASSUME TypeOK, NEW s, NEW near \in SUBSET Blocks, NEW list \in SUBSET near,
           NEW force \in BOOLEAN, NEW changed, force => near = {},
           Right(s, list, near)
    PROVE  LET r == deactivateFarObjects(s, near, force, changed)
           IN  /\ Right(r, list, near) /\ StillLoaded(s, r)
               /\ force => r.objects = Nobody
<1> DEFINE T == {x \in States : Right(x, list, near) /\ StillLoaded(s, x)}
<1>1. s \in T
  BY DEF Right, StillLoaded
<1>2. ASSUME NEW x \in T, NEW i \in Ids
      PROVE  LET y == deactivate(x, i, near, force, changed)
             IN  y \in T /\ Touches(x, y, i, list) /\ (force => y.objects[i] = None)
  <2>1. PICK y : y = deactivate(x, i, near, force, changed)
    OBVIOUS
  <2>2. /\ Right(y, list, near) /\ Touches(x, y, i, list)
        /\ force => y.objects[i] = None
    BY <2>1, DeactivateOne
  <2>3. y \in States /\ StillLoaded(s, y)
    BY <2>2 DEF Touches, BlockTouched, StillLoaded
  <2>4. QED
    BY <2>1, <2>2, <2>3
<1> HIDE DEF T
<1>3. PICK q \in Seq(Ids) : q = AllIds /\ \A i \in Ids : \E k \in 1 .. Len(q) : q[k] = i
  BY AllIdsAre
<1>4. DeactivateClosed(T, Ids, near, force, changed)
  BY <1>2 DEF DeactivateClosed
<1>5. PICK told : DeactivateChain(told, T, s, q, near, force, changed)
  BY <1>1, <1>4, DeactivateFold
<1>6. PICK n \in Nat : n = Len(q)
  OBVIOUS
<1>7. /\ told \in [0 .. n -> T]
      /\ \A k \in 1 .. n : told[k] = deactivate(told[k - 1], q[k], near, force, changed)
      /\ told[n] = deactivateFarObjects(s, near, force, changed)
  BY <1>3, <1>5, <1>6 DEF DeactivateChain, deactivateFarObjects, Deactivated
<1>8. told[n] \in T
  BY <1>7
<1>9. ASSUME force PROVE \A i \in Ids : told[n].objects[i] = None
  <2> DEFINE good == {k \in 0 .. n : \A l \in 1 .. k : told[k].objects[q[l]] = None}
  <2>1. 0 \in good
    OBVIOUS
  <2>2. ASSUME NEW k \in 1 .. n, k - 1 \in good PROVE k \in good
    <3>1. k - 1 \in 0 .. n /\ k \in 0 .. n /\ q[k] \in Ids
      BY <1>6
    <3>2. PICK x \in T, y \in T : x = told[k - 1] /\ y = told[k]
      BY <1>7, <3>1
    <3>3. y = deactivate(x, q[k], near, force, changed)
      BY <1>7, <3>2
    <3>4. Touches(x, y, q[k], list) /\ y.objects[q[k]] = None
      BY <1>2, <1>9, <3>1, <3>3
    <3>5. \A l \in 1 .. k - 1 : x.objects[q[l]] = None /\ q[l] \in Ids
      BY <1>6, <2>2, <3>2
    <3>6. \A l \in 1 .. k : l = k \/ l \in 1 .. k - 1
      OBVIOUS
    <3>7. \A l \in 1 .. k : y.objects[q[l]] = None
      BY <3>4, <3>5, <3>6 DEF Touches
    <3>8. QED
      BY <3>1, <3>2, <3>7
  <2> HIDE DEF good
  <2>3. n \in good
    <3>1. \A k \in 0 .. n : k \in good
      BY <2>1, <2>2, StepByStep
    <3>2. QED
      BY <3>1
  <2>4. QED
    BY <1>3, <1>6, <2>3 DEF good
<1>10. force => told[n].objects = Nobody
  <2>1. told[n].objects \in [Ids -> ServerActiveObject \union {None}]
    BY <1>8, StateParts DEF T
  <2>2. QED
    BY <1>9, <2>1 DEF Nobody
<1>11. QED
  BY <1>7, <1>8, <1>10 DEF T

\* Whoever is stored and unknown is gone then; who stays has not changed.
LEMMA RemovedAll ==
    ASSUME TypeOK, NEW s, NEW list \in SUBSET Blocks, Right(s, list, list)
    PROVE  LET r == FoldLeft(removeRemoved, s, AllIds)
           IN  /\ Right(r, list, list) /\ StillLoaded(s, r)
               /\ \A i \in Ids : r.objects[i] # None /\ r.objects[i].gone = "deactivated" =>
                     /\ s.objects[i] # None /\ s.objects[i].gone = "deactivated"
                     /\ s.objects[i].known
<1> DEFINE Same(x, y, i) == y.objects[i] # None =>
               /\ x.objects[i] # None /\ y.objects[i].gone = x.objects[i].gone
               /\ y.objects[i].known = x.objects[i].known
           Settled(x, i) == x.objects[i] # None /\ x.objects[i].gone = "deactivated" =>
               x.objects[i].known
           T == {x \in States : /\ Right(x, list, list) /\ StillLoaded(s, x)
                             /\ \A i \in Ids : Same(s, x, i)}
<1>1. s \in T
  BY DEF Right, StillLoaded
<1>2. ASSUME NEW x \in T, NEW i \in Ids
      PROVE  LET y == removeRemoved(x, i)
             IN  y \in T /\ Touches(x, y, i, list) /\ Settled(y, i)
  <2>1. PICK y : y = removeRemoved(x, i)
    OBVIOUS
  <2>2. /\ Right(y, list, list) /\ Touches(x, y, i, list)
        /\ Same(x, y, i) /\ Settled(y, i)
    BY <2>1, RemoveOne
  <2>3. y \in States /\ \A j \in Ids : Same(s, y, j)
    <3>1. \A j \in Ids \ {i} : y.objects[j] = x.objects[j]
      BY <2>2 DEF Touches
    <3>2. QED
      BY <2>2, <3>1 DEF Touches
  <2>4. StillLoaded(s, y)
    BY <2>2 DEF Touches, BlockTouched, StillLoaded
  <2>5. QED
    BY <2>1, <2>2, <2>3, <2>4
<1> HIDE DEF T
<1>3. PICK q \in Seq(Ids) : q = AllIds /\ \A i \in Ids : \E k \in 1 .. Len(q) : q[k] = i
  BY AllIdsAre
<1>4. RemoveClosed(T, Ids)
  BY <1>2 DEF RemoveClosed
<1>5. PICK told : RemoveChain(told, T, s, q)
  BY <1>1, <1>4, RemoveFold
<1>6. PICK n \in Nat : n = Len(q)
  OBVIOUS
<1>7. /\ told \in [0 .. n -> T]
      /\ \A k \in 1 .. n : told[k] = removeRemoved(told[k - 1], q[k])
      /\ told[n] = FoldLeft(removeRemoved, s, AllIds)
  BY <1>3, <1>5, <1>6 DEF RemoveChain
<1>8. told[n] \in T
  BY <1>7
<1>9. \A i \in Ids : Settled(told[n], i)
  <2> DEFINE good == {k \in 0 .. n : \A l \in 1 .. k : Settled(told[k], q[l])}
  <2>1. 0 \in good
    OBVIOUS
  <2>2. ASSUME NEW k \in 1 .. n, k - 1 \in good PROVE k \in good
    <3>1. k - 1 \in 0 .. n /\ k \in 0 .. n /\ q[k] \in Ids
      BY <1>6
    <3>2. PICK x \in T, y \in T : x = told[k - 1] /\ y = told[k]
      BY <1>7, <3>1
    <3>3. y = removeRemoved(x, q[k])
      BY <1>7, <3>2
    <3>4. Touches(x, y, q[k], list) /\ Settled(y, q[k])
      BY <1>2, <3>1, <3>3
    <3>5. \A l \in 1 .. k - 1 : Settled(x, q[l]) /\ q[l] \in Ids
      BY <1>6, <2>2, <3>2
    <3>6. \A l \in 1 .. k : l = k \/ l \in 1 .. k - 1
      OBVIOUS
    <3>7. \A l \in 1 .. k : Settled(y, q[l])
      BY <3>4, <3>5, <3>6 DEF Touches
    <3> HIDE DEF Settled
    <3>8. QED
      BY <3>1, <3>2, <3>7
  <2> HIDE DEF good, Settled
  <2>3. n \in good
    <3>1. \A k \in 0 .. n : k \in good
      BY <2>1, <2>2, StepByStep
    <3>2. QED
      BY <3>1
  <2>4. QED
    BY <1>3, <1>6, <2>3 DEF good
<1>10. QED
  BY <1>7, <1>8, <1>9 DEF T

\* No copy is left, and who is left waits for its client.
LEMMA ClearedAll ==
    ASSUME TypeOK, NEW s, NEW list \in SUBSET Blocks, NEW away, Right(s, list, away)
    PROVE  LET r == FoldLeft(ClearOne, s, AllIds)
           IN  /\ Right(r, list, away) /\ StillLoaded(s, r)
               /\ \A i \in Ids : /\ CopyFree(r, i)
                                 /\ r.objects[i] # None => r.objects[i].gone = "removed"
<1> DEFINE T == {x \in States : Right(x, list, away) /\ StillLoaded(s, x)}
           Cleared(x, i) == /\ CopyFree(x, i)
                            /\ x.objects[i] # None => x.objects[i].gone = "removed"
<1>1. s \in T
  BY DEF Right, StillLoaded
<1>2. ASSUME NEW x \in T, NEW i \in Ids
      PROVE  LET y == ClearOne(x, i)
             IN  y \in T /\ Touches(x, y, i, list) /\ Cleared(y, i)
  <2>1. PICK y : y = ClearOne(x, i)
    OBVIOUS
  <2>2. Right(y, list, away) /\ Touches(x, y, i, list) /\ Cleared(y, i)
    BY <2>1, ClearOneKept
  <2>3. StillLoaded(s, y)
    BY <2>2 DEF Touches, BlockTouched, StillLoaded
  <2>4. QED
    BY <2>1, <2>2, <2>3 DEF Touches
<1> HIDE DEF T
<1>3. PICK q \in Seq(Ids) : q = AllIds /\ \A i \in Ids : \E k \in 1 .. Len(q) : q[k] = i
  BY AllIdsAre
<1>4. ClearClosed(T, Ids)
  BY <1>2 DEF ClearClosed
<1>5. PICK told : ClearChain(told, T, s, q)
  BY <1>1, <1>4, ClearFold
<1>6. PICK n \in Nat : n = Len(q)
  OBVIOUS
<1>7. /\ told \in [0 .. n -> T]
      /\ \A k \in 1 .. n : told[k] = ClearOne(told[k - 1], q[k])
      /\ told[n] = FoldLeft(ClearOne, s, AllIds)
  BY <1>3, <1>5, <1>6 DEF ClearChain
<1>8. told[n] \in T
  BY <1>7
<1>9. \A i \in Ids : Cleared(told[n], i)
  <2> DEFINE good == {k \in 0 .. n : \A l \in 1 .. k : Cleared(told[k], q[l])}
  <2>1. 0 \in good
    OBVIOUS
  <2>2. ASSUME NEW k \in 1 .. n, k - 1 \in good PROVE k \in good
    <3>1. k - 1 \in 0 .. n /\ k \in 0 .. n /\ q[k] \in Ids
      BY <1>6
    <3>2. PICK x \in T, y \in T : x = told[k - 1] /\ y = told[k]
      BY <1>7, <3>1
    <3>3. y = ClearOne(x, q[k])
      BY <1>7, <3>2
    <3>4. Touches(x, y, q[k], list) /\ Cleared(y, q[k])
      BY <1>2, <3>1, <3>3
    <3>5. \A l \in 1 .. k - 1 : Cleared(x, q[l]) /\ q[l] \in Ids
      BY <1>6, <2>2, <3>2
    <3>6. \A l \in 1 .. k : l = k \/ l \in 1 .. k - 1
      OBVIOUS
    <3>7. ASSUME NEW i \in Ids, i # q[k], Cleared(x, i) PROVE Cleared(y, i)
      <4>1. y.objects[i] = x.objects[i]
        BY <3>4, <3>7 DEF Touches
      <4>2. ASSUME NEW b \in Blocks, y.mem[b] # None PROVE y.mem[b].act[i] = None
        <5>1. BlockTouched(x.mem[b], y.mem[b], q[k])
          BY <3>4 DEF Touches
        <5>2. y.mem[b].act[i] = IF x.mem[b] = None THEN None ELSE x.mem[b].act[i]
          BY <3>7, <4>2, <5>1 DEF BlockTouched
        <5>3. QED
          BY <3>7, <5>2 DEF CopyFree
      <4>3. QED
        BY <3>7, <4>1, <4>2 DEF CopyFree
    <3> HIDE DEF Cleared
    <3>8. \A l \in 1 .. k : Cleared(y, q[l])
      BY <3>4, <3>5, <3>6, <3>7
    <3>9. QED
      BY <3>1, <3>2, <3>8
  <2> HIDE DEF good, Cleared
  <2>3. n \in good
    <3>1. \A k \in 0 .. n : k \in good
      BY <2>1, <2>2, StepByStep
    <3>2. QED
      BY <3>1
  <2>4. QED
    BY <1>3, <1>6, <2>3 DEF good
<1>10. QED
  BY <1>7, <1>8, <1>9 DEF T

-----------------------------------------------------------------------------
(* All blocks that come into use.                                          *)

LEMMA ActivatedAll ==
    ASSUME TypeOK, NEW s, NEW list \in SUBSET Blocks, NEW away, Right(s, list, away),
           NEW added \in SUBSET Blocks, \A b \in added : s.mem[b] # None
    PROVE  LET r == FoldLeft(activateBlock, s, InOrder(added))
           IN  Right(r, list \union added, away) /\ Grown(s, r)
<1> DEFINE T == {x \in States : Right(x, list, away) /\ Grown(s, x)}
<1>1. s \in T
  BY DEF Right, Grown
<1>2. ASSUME NEW x \in States, Grown(s, x), NEW visited \in SUBSET Blocks,
             Right(x, list \union visited, away), NEW b \in added
      PROVE  LET y == activateBlock(x, b)
             IN  y \in T /\ Right(y, list \union (visited \union {b}), away)
  <2>1. PICK y : y = activateBlock(x, b)
    OBVIOUS
  <2>2. PICK used \in SUBSET Blocks : used = list \union visited
    OBVIOUS
  <2>3. b \in Blocks /\ x.mem[b] # None
    BY <1>2 DEF Grown
  <2>4. Right(y, used \union {b}, away) /\ Grown(x, y)
    BY <1>2, <2>1, <2>2, <2>3, ActivateOne
  <2>5. Grown(s, y)
    BY <1>2, <2>4 DEF Grown
  <2>6. used \union {b} = list \union (visited \union {b})
    BY <2>2
  <2>7. list \in SUBSET (used \union {b}) /\ away \in SUBSET away
    BY <2>2
  <2>8. Right(y, list, away)
    BY <2>4, <2>7, RightLess
  <2>9. y \in States
    BY <2>4 DEF Right
  <2>10. QED
    BY <2>1, <2>4, <2>5, <2>6, <2>8, <2>9
<1>3. ASSUME NEW x \in T, NEW b \in added PROVE activateBlock(x, b) \in T
  <2>1. x \in States /\ Grown(s, x) /\ Right(x, list \union {}, away) /\ {} \in SUBSET Blocks
    OBVIOUS
  <2>2. QED
    BY <1>2, <2>1
<1>4. PICK q \in Seq(added) : q = InOrder(added) /\ \A b \in added : \E k \in 1 .. Len(q) : q[k] = b
  <2>1. added \in SUBSET Int /\ IsFiniteSet(added)
    BY ObjectsAssumption, FS_Subset
  <2>2. QED
    BY <2>1, InOrderIs
<1> HIDE DEF T
<1>5. ActivateClosed(T, added)
  BY <1>3 DEF ActivateClosed
<1>6. PICK told : ActivateChain(told, T, s, q)
  BY <1>1, <1>5, ActivateFold
<1>7. PICK n \in Nat : n = Len(q)
  OBVIOUS
<1>8. /\ told \in [0 .. n -> T] /\ told[0] = s
      /\ \A k \in 1 .. n : told[k] = activateBlock(told[k - 1], q[k])
      /\ told[n] = FoldLeft(activateBlock, s, InOrder(added))
  BY <1>4, <1>6, <1>7 DEF ActivateChain
<1>9. told[n] \in T
  BY <1>8
<1>10. Right(told[n], list \union added, away)
  <2> DEFINE visited(k) == {q[l] : l \in 1 .. k}
             good == {k \in 0 .. n : Right(told[k], list \union visited(k), away)}
  <2>1. 0 \in good
    <3>1. list \union visited(0) = list
      OBVIOUS
    <3> HIDE DEF visited
    <3>2. Right(told[0], list \union visited(0), away)
      BY <1>8, <3>1, Zenon
    <3>3. 0 \in 0 .. n
      OBVIOUS
    <3>4. QED
      BY <3>2, <3>3
  <2>2. ASSUME NEW k \in 1 .. n, k - 1 \in good PROVE k \in good
    <3>1. k - 1 \in 0 .. n /\ k \in 0 .. n /\ q[k] \in added
      BY <1>7
    <3>2. PICK x \in T, y \in T : x = told[k - 1] /\ y = told[k]
      BY <1>8, <3>1
    <3>3. y = activateBlock(x, q[k])
      BY <1>8, <3>2
    <3>4. visited(k) = visited(k - 1) \union {q[k]}
      <4>1. \A l \in 1 .. k : l = k \/ l \in 1 .. k - 1
        OBVIOUS
      <4>2. \A l \in 1 .. k - 1 : l \in 1 .. k
        OBVIOUS
      <4>3. k \in 1 .. k
        OBVIOUS
      <4>4. QED
        BY <4>1, <4>2, <4>3
    <3>5. visited(k - 1) \in SUBSET Blocks
      BY <1>7
    <3> HIDE DEF visited
    <3>6. Right(x, list \union visited(k - 1), away)
      BY <2>2, <3>2
    <3>7. Right(y, list \union (visited(k - 1) \union {q[k]}), away)
      <4>1. x \in States /\ Grown(s, x)
        BY <3>2 DEF T
      <4>2. QED
        BY <1>2, <3>1, <3>3, <3>5, <3>6, <4>1
    <3>8. QED
      BY <3>1, <3>2, <3>4, <3>7
  <2>3. n \in good
    <3> HIDE DEF good
    <3>1. \A k \in 0 .. n : k \in good
      BY <2>1, <2>2, StepByStep
    <3>2. QED
      BY <3>1
  <2>4. visited(n) = added
    BY <1>4, <1>7
  <2> HIDE DEF visited
  <2>5. QED
    BY <2>3, <2>4
<1>11. QED
  BY <1>8, <1>9, <1>10 DEF T

-----------------------------------------------------------------------------
(* The steps.                                                              *)

LEMMA SParts ==
    /\ S.mem = mem /\ S.objects = objects
    /\ TypeOK => S \in States
BY DEF S, TypeOK, States

\* The step leads to r, and what the other variables add does no harm.
LEMMA Carried ==
    ASSUME NEW r, NEW list, Right(r, list, list), Apply(r), active' = list,
           \A b \in list : r.mem[b] = None /\ disk[b] = None => disk'[b] = None,
           deleted \subseteq deleted', adrift \subseteq adrift'
    PROVE  /\ Right(S, active, active)'
           /\ mem' \in [Blocks -> MapBlock \union {None}]
           /\ objects' \in [Ids -> ServerActiveObject \union {None}]
<1>1. r \in States /\ mem' = r.mem /\ objects' = r.objects /\ S' = r
  BY DEF Right, Apply, States, S
<1>2. CopiesHaveOwners(S)' /\ NobodyRests(S, active)'
  BY <1>1 DEF Right, CopiesHaveOwners, NobodyRests, S
<1>3. NothingToLoad(S, active)'
  BY <1>1 DEF Right, NothingToLoad, S
<1>4. ASSUME NEW i \in Ids PROVE HasCopy(S, i)' /\ RestsOutside(S, i, active)'
  BY <1>1 DEF Right, HasCopy, RestsOutside, S
<1>5. S' \in States /\ r.mem \in [Blocks -> MapBlock \union {None}]
      /\ r.objects \in [Ids -> ServerActiveObject \union {None}]
  BY <1>1, StateParts
<1>6. QED
  BY <1>1, <1>2, <1>3, <1>4, <1>5 DEF Right, States

\* The database gets what is in a block.
LEMMA RowIs ==
    ASSUME NEW block \in MapBlock
    PROVE  Row(block) \in StoredBlock
<1>1. ASSUME NEW t \in Things
      PROVE  block.stored[t] + Cardinality({i \in Ids : block.act[i] = t}) \in Nat
  <2>1. {i \in Ids : block.act[i] = t} \in SUBSET Ids
    OBVIOUS
  <2>2. Cardinality({i \in Ids : block.act[i] = t}) \in Nat
    BY <2>1, ObjectsAssumption, FS_Subset, FS_CardinalityType
  <2>3. QED
    BY <2>2, BlockParts
<1>2. [t \in Things |-> block.stored[t] + Cardinality({i \in Ids : block.act[i] = t})]
          \in [Things -> Nat]
  BY <1>1
<1>3. block.stamp \in {"none", "old", "fresh"} /\ block.gen \in BOOLEAN
  BY DEF MapBlock
<1>4. QED
  BY <1>2, <1>3 DEF Row, StoredBlock

LEMMA AddKept ==
    ASSUME ObjectsInv, NEW t \in Things, NEW b \in Blocks, addActiveObject(t, b)
    PROVE  ObjectsInv'
<1>1. TypeOK /\ S \in States /\ active \in SUBSET Blocks /\ Right(S, active, active)
  BY SParts DEF ObjectsInv, TypeOK
<1>2. PICK r : r = addActiveObjectRaw(S, t, b, TRUE)
  OBVIOUS
<1>3. Right(r, active, active) /\ Grown(S, r)
  BY <1>1, <1>2, AddOne
<1>4. Apply(r) /\ UNCHANGED <<disk, idle, active, round, accidents, deleted, adrift>>
      /\ fate' = [fate EXCEPT ![t] = "kept"]
  BY <1>2 DEF addActiveObject
<1>5. PICK list : list = active
  OBVIOUS
<1>6. /\ Right(S, active, active)'
      /\ mem' \in [Blocks -> MapBlock \union {None}]
      /\ objects' \in [Ids -> ServerActiveObject \union {None}]
  BY <1>3, <1>4, <1>5, Carried
<1>7. TypeOK'
  <2>1. idle' \subseteq Loaded' \ active'
    BY <1>1, <1>3, <1>4, SParts DEF TypeOK, Loaded, Grown, Apply
  <2>2. fate' \in [Things -> {"unborn", "kept", "removed", "cleared"}]
    BY <1>1, <1>4 DEF TypeOK
  <2>3. QED
    BY <1>1, <1>4, <1>6, <2>1, <2>2 DEF TypeOK
<1>8. RoundIsRight'
  BY <1>3, <1>4, SParts DEF ObjectsInv, RoundIsRight, Grown, Apply
<1>9. QED
  BY <1>6, <1>7, <1>8 DEF ObjectsInv

LEMMA MoveKept ==
    ASSUME ObjectsInv, NEW i \in Ids, NEW b \in Blocks, setBasePosition(i, b)
    PROVE  ObjectsInv'
<1>1. TypeOK /\ S \in States /\ active \in SUBSET Blocks /\ Right(S, active, active)
  BY SParts DEF ObjectsInv, TypeOK
<1>2. /\ objects[i] # None /\ objects' = [objects EXCEPT ![i].pos = b]
      /\ UNCHANGED <<mem, disk, idle, active, round, accidents, fate, deleted, adrift>>
  BY DEF setBasePosition, Live
<1>3. PICK r : r = [mem |-> mem, objects |-> objects']
  OBVIOUS
<1>4. PICK o \in ServerActiveObject : o = objects[i]
  BY <1>1, <1>2, ObjectsAssumption DEF TypeOK
<1>5. PICK p \in ServerActiveObject : p = [o EXCEPT !.pos = b]
  BY DEF ServerActiveObject
<1>6. /\ p.thing = o.thing /\ p.static_exists = o.static_exists
      /\ p.static_block = o.static_block /\ p.gone = o.gone /\ p.known = o.known
  BY <1>5 DEF ServerActiveObject
<1>7. /\ objects' = [objects EXCEPT ![i] = p] /\ objects'[i] = p
      /\ objects' \in [Ids -> ServerActiveObject \union {None}]
      /\ \A j \in Ids \ {i} : objects'[j] = objects[j]
  BY <1>1, <1>2, <1>4, <1>5 DEF TypeOK
<1>8. r \in States /\ r.mem = S.mem /\ \A j \in Ids \ {i} : r.objects[j] = S.objects[j]
  BY <1>1, <1>3, <1>7, SParts DEF States, TypeOK
<1>9. PICK s \in States : s = S
  BY <1>1
<1>10. Touches(s, r, i, active)
  BY <1>1, <1>8, <1>9, TouchObject
<1>11. /\ r.objects[i] = p /\ s.objects[i] = o /\ r.mem = s.mem /\ p # None /\ o # None
       /\ Right(s, active, active)
  BY <1>1, <1>3, <1>4, <1>7, <1>8, <1>9, SParts, ObjectsAssumption
<1>12. CopiesOfAre(r, i)
  BY <1>6, <1>11 DEF Right, CopiesHaveOwners, CopiesOfAre
<1>13. HasCopy(r, i) /\ RestsOutside(r, i, active)
  <2>1. HasCopy(s, i) /\ RestsOutside(s, i, active)
    BY <1>11 DEF Right
  <2>2. QED
    BY <1>6, <1>11, <2>1 DEF HasCopy, RestsOutside
<1>14. PICK list \in SUBSET Blocks : list = active
  BY <1>1
<1>15. Right(r, list, list)
  BY <1>10, <1>11, <1>12, <1>13, <1>14, OneTouched
<1>16. Right(S, active, active)'
  BY <1>2, <1>3, <1>14, <1>15, Carried DEF Apply
<1>17. TypeOK'
  BY <1>1, <1>2, <1>7 DEF TypeOK, Loaded
<1>18. RoundIsRight'
  BY <1>2, <1>4, <1>6, <1>7, ObjectsAssumption DEF ObjectsInv, RoundIsRight
<1>19. QED
  BY <1>16, <1>17, <1>18 DEF ObjectsInv

LEMMA RemoveKept ==
    ASSUME ObjectsInv, NEW i \in Ids, markForRemoval(i)
    PROVE  ObjectsInv'
<1>1. TypeOK /\ S \in States /\ active \in SUBSET Blocks /\ Right(S, active, active)
  BY SParts DEF ObjectsInv, TypeOK
<1>2. PICK list \in SUBSET Blocks, s \in States : list = active /\ s = S
  BY <1>1
<1>3. /\ s.mem = mem /\ s.objects = objects /\ Right(s, list, list)
  BY <1>1, <1>2, SParts
<1>4. PICK r : r = MarkFor(s, i, "removed")
  OBVIOUS
<1>5. /\ objects[i] # None /\ Apply(r) /\ fate' = [fate EXCEPT ![objects[i].thing] = "removed"]
      /\ UNCHANGED <<disk, idle, active, round, accidents, deleted, adrift>>
  BY <1>2, <1>4 DEF markForRemoval, Live
<1>6. /\ Touches(s, r, i, list) /\ r.mem = s.mem
      /\ r.objects[i].gone = "removed" /\ r.objects[i] # None
      /\ r.objects[i].thing = s.objects[i].thing
      /\ r.objects[i].static_exists = s.objects[i].static_exists
      /\ r.objects[i].static_block = s.objects[i].static_block
  <2>1. PICK what \in {"deactivated", "removed"} : what = "removed"
    OBVIOUS
  <2>2. r = MarkFor(s, i, what) /\ s.objects[i] # None
    BY <1>3, <1>4, <1>5, <2>1
  <2>3. /\ Touches(s, r, i, list) /\ r.mem = s.mem /\ r.objects[i] \in ServerActiveObject
        /\ r.objects[i].gone = IF s.objects[i].gone = "removed" THEN "removed" ELSE what
        /\ r.objects[i].thing = s.objects[i].thing
        /\ r.objects[i].static_exists = s.objects[i].static_exists
        /\ r.objects[i].static_block = s.objects[i].static_block
    BY <2>2, MarkTouches
  <2>4. QED
    BY <2>1, <2>3, ObjectsAssumption
<1>7. CopiesOfAre(r, i) /\ HasCopy(r, i) /\ RestsOutside(r, i, list)
  BY <1>3, <1>6 DEF Right, CopiesHaveOwners, CopiesOfAre, HasCopy, RestsOutside
<1>8. Right(r, list, list)
  BY <1>3, <1>6, <1>7, OneTouched
<1>9. /\ Right(S, active, active)'
      /\ mem' \in [Blocks -> MapBlock \union {None}]
      /\ objects' \in [Ids -> ServerActiveObject \union {None}]
  BY <1>2, <1>5, <1>8, Carried
<1>10. TypeOK'
  <2>1. mem' = mem
    BY <1>3, <1>5, <1>6 DEF Apply
  <2>2. QED
    BY <1>1, <1>5, <1>9, <2>1 DEF TypeOK, Loaded
<1>11. RoundIsRight'
  <2>1. objects'[i].gone = "removed" /\ \A j \in Ids \ {i} : objects'[j] = objects[j]
    BY <1>3, <1>5, <1>6 DEF Apply, Touches
  <2>2. QED
    BY <1>5, <2>1 DEF ObjectsInv, RoundIsRight
<1>12. QED
  BY <1>9, <1>10, <1>11 DEF ObjectsInv

LEMMA ManageKept ==
    ASSUME ObjectsInv, NEW near \in SUBSET Blocks, NEW changed \in BOOLEAN, Manage(near, changed)
    PROVE  ObjectsInv'
<1>1. TypeOK /\ S \in States /\ active \in SUBSET Blocks /\ Right(S, active, active)
  BY SParts DEF ObjectsInv, TypeOK
<1>2. PICK s \in States, stay \in SUBSET Blocks : s = S /\ stay = active \intersect near
  BY <1>1
<1>3. /\ round = "swept" /\ round' = "managed" /\ s.mem = mem /\ s.objects = objects
      /\ UNCHANGED <<disk, accidents, fate, deleted, adrift>>
  BY <1>2, SParts DEF Manage
<1>4. Right(s, stay, near)
  <2>1. ASSUME NEW i \in Ids PROVE HasCopy(s, i) /\ RestsOutside(s, i, near)
    BY <1>1, <1>2, <1>3 DEF ObjectsInv, RoundIsRight, Right, RestsOutside
  <2>2. /\ s \in States /\ CopiesHaveOwners(s)
        /\ NobodyRests(s, stay) /\ NothingToLoad(s, stay)
    BY <1>1, <1>2 DEF Right, NobodyRests, NothingToLoad
  <2>3. QED
    BY <2>1, <2>2 DEF Right
<1>5. PICK r : r = deactivateFarObjects(s, near, FALSE, changed)
  OBVIOUS
<1>6. Right(r, stay, near) /\ StillLoaded(s, r)
  <2>1. stay \in SUBSET near /\ FALSE \in BOOLEAN /\ (FALSE => near = {})
    BY <1>2
  <2>2. QED
    BY <1>1, <1>4, <1>5, <2>1, DeactivatedAll
<1>7. PICK left, m2 : /\ left = {b \in active \ near : r.mem[b] # None}
                      /\ m2 = [b \in Blocks |->
                                  IF b \in left
                                  THEN raiseModified([r.mem[b] EXCEPT !.stamp = "fresh"], "unload")
                                  ELSE r.mem[b]]
  OBVIOUS
<1>8. PICK s2 : s2 = [r EXCEPT !.mem = m2]
  OBVIOUS
<1>9. PICK added \in SUBSET Blocks : added = {b \in near \ active : r.mem[b] # None}
  OBVIOUS
<1>10. PICK s3 : s3 = FoldLeft(activateBlock, s2, InOrder(added))
  OBVIOUS
<1>11. /\ Apply(s3) /\ active' = stay \union added
       /\ idle' = (idle \union Loaded) \ (active \union near)
  BY <1>2, <1>5, <1>7, <1>8, <1>9, <1>10 DEF Manage
<1>12. /\ r \in States /\ r.objects \in [Ids -> ServerActiveObject \union {None}]
       /\ r.mem \in [Blocks -> MapBlock \union {None}]
       /\ r = [mem |-> r.mem, objects |-> r.objects]
  BY <1>6, StateParts DEF Right, States
<1>13. /\ s2 = [mem |-> m2, objects |-> r.objects] /\ s2.mem = m2 /\ s2.objects = r.objects
  BY <1>8, <1>12
<1>14. ASSUME NEW b \in Blocks
       PROVE  /\ m2[b] \in MapBlock \union {None} /\ (m2[b] # None <=> r.mem[b] # None)
              /\ r.mem[b] # None => m2[b].act = r.mem[b].act /\ m2[b].stored = r.mem[b].stored
  <2>1. CASE b \in left
    <3>1. r.mem[b] \in MapBlock
      BY <1>7, <1>12, <2>1
    <3>2. PICK n \in MapBlock : /\ n = [r.mem[b] EXCEPT !.stamp = "fresh"]
                                /\ n.act = r.mem[b].act /\ n.stored = r.mem[b].stored
      <4>1. PICK m \in MapBlock : m = r.mem[b]
        BY <3>1
      <4>2. /\ [m EXCEPT !.stamp = "fresh"] \in MapBlock
            /\ [m EXCEPT !.stamp = "fresh"].act = m.act
            /\ [m EXCEPT !.stamp = "fresh"].stored = m.stored
        BY DEF MapBlock
      <4>3. QED
        BY <4>1, <4>2
    <3>3. m2[b] = raiseModified(n, "unload")
      BY <1>7, <2>1, <3>2
    <3>4. m2[b] \in MapBlock /\ m2[b].act = n.act /\ m2[b].stored = n.stored
      BY <3>3, RaisePut
    <3>5. QED
      BY <3>1, <3>2, <3>4, ObjectsAssumption
  <2>2. CASE b \notin left
    BY <1>7, <1>12, <2>2
  <2>3. QED
    BY <2>1, <2>2
<1>15. s2 \in States
  <2>1. m2 \in [Blocks -> MapBlock \union {None}]
    BY <1>7, <1>14
  <2>2. QED
    BY <1>12, <1>13, <2>1 DEF States
<1>16. ListsKept(r, s2)
  BY <1>13, <1>14 DEF ListsKept
<1>17. NobodyRests(s2, stay) /\ NothingToLoad(s2, stay)
  <2>1. NobodyRests(r, stay) /\ NothingToLoad(r, stay)
    BY <1>6 DEF Right
  <2>2. QED
    BY <1>13, <1>14, <2>1 DEF NobodyRests, NothingToLoad
<1>18. Right(s2, stay, near)
  BY <1>6, <1>15, <1>16, <1>17, SameLists
<1>19. Right(s3, stay \union added, near) /\ Grown(s2, s3)
  <2>1. \A b \in added : s2.mem[b] # None
    BY <1>9, <1>13, <1>14
  <2>2. QED
    BY <1>1, <1>10, <1>18, <2>1, ActivatedAll
<1>20. PICK list \in SUBSET Blocks : list = stay \union added /\ list \in SUBSET near
  BY <1>2, <1>9
<1>21. Right(s3, list, list)
  BY <1>19, <1>20, RightLess
<1>22. /\ Right(S, active, active)'
       /\ mem' \in [Blocks -> MapBlock \union {None}]
       /\ objects' \in [Ids -> ServerActiveObject \union {None}]
  BY <1>3, <1>11, <1>20, <1>21, Carried
<1>23. TypeOK'
  <2>1. \A b \in Blocks : mem[b] # None => mem'[b] # None
    BY <1>3, <1>6, <1>11, <1>13, <1>14, <1>19 DEF Apply, Grown, StillLoaded
  <2>2. idle' \subseteq Loaded' \ active'
    BY <1>1, <1>11, <1>20, <2>1 DEF TypeOK, Loaded
  <2>3. QED
    BY <1>1, <1>3, <1>11, <1>20, <1>22, <2>2 DEF TypeOK
<1>24. RoundIsRight'
  BY <1>3 DEF RoundIsRight
<1>25. QED
  BY <1>22, <1>23, <1>24 DEF ObjectsInv

LEMMA SendKept ==
    ASSUME ObjectsInv, NEW near \in SUBSET Ids, SendActiveObjectRemoveAdd(near)
    PROVE  ObjectsInv'
<1>1. TypeOK /\ S \in States /\ active \in SUBSET Blocks /\ Right(S, active, active)
  BY SParts DEF ObjectsInv, TypeOK
<1>2. /\ UNCHANGED <<mem, disk, idle, active, accidents, fate, deleted, adrift>>
      /\ near \subseteq Live /\ round' = IF round = "managed" THEN "told" ELSE round
  BY DEF SendActiveObjectRemoveAdd
<1>3. ASSUME NEW i \in Ids
      PROVE  /\ objects[i] = None => objects'[i] = None
             /\ objects[i] # None =>
                   /\ objects[i] \in ServerActiveObject /\ objects'[i] \in ServerActiveObject
                   /\ objects'[i].thing = objects[i].thing /\ objects'[i].gone = objects[i].gone
                   /\ objects'[i].static_exists = objects[i].static_exists
                   /\ objects'[i].static_block = objects[i].static_block
                   /\ objects'[i].known = (i \in near)
  <2>1. objects'[i] = IF objects[i] = None THEN None
                      ELSE [objects[i] EXCEPT !.known = i \in near]
    BY DEF SendActiveObjectRemoveAdd
  <2>2. CASE objects[i] # None
    <3>1. PICK o \in ServerActiveObject : o = objects[i]
      BY <1>1, <2>2 DEF TypeOK
    <3>2. PICK k : k = (i \in near)
      OBVIOUS
    <3>3. k \in BOOLEAN
      BY <3>2
    <3>4. objects'[i] = [o EXCEPT !.known = k]
      BY <2>1, <2>2, <3>1, <3>2
    <3>5. QED
      BY <2>2, <3>1, <3>2, <3>3, <3>4 DEF ServerActiveObject
  <2>3. QED
    BY <2>1, <2>2
<1>4. objects' \in [Ids -> ServerActiveObject \union {None}]
  <2>1. objects' = [i \in Ids |-> objects'[i]]
    BY DEF SendActiveObjectRemoveAdd
  <2>2. \A i \in Ids : objects'[i] \in ServerActiveObject \union {None}
    BY <1>3
  <2>3. QED
    BY <2>1, <2>2
<1>5. TypeOK'
  BY <1>1, <1>2, <1>4 DEF TypeOK, Loaded
<1>6. Right(S, active, active)'
  <2>1. S'.mem = mem /\ S'.objects = objects' /\ S' \in States /\ active' = active
    BY <1>2, <1>5, SParts DEF S, States, TypeOK
  <2>2. CopiesHaveOwners(S)'
    BY <1>1, <1>2, <1>3, SParts, ObjectsAssumption DEF Right, CopiesHaveOwners, S
  <2>3. NobodyRests(S, active)' /\ NothingToLoad(S, active)'
    BY <1>1, <1>2, SParts DEF Right, NobodyRests, NothingToLoad, S
  <2>4. ASSUME NEW i \in Ids PROVE HasCopy(S, i)' /\ RestsOutside(S, i, active)'
    <3>1. HasCopy(S, i) /\ RestsOutside(S, i, active)
      BY <1>1 DEF Right
    <3>2. QED
      BY <1>2, <1>3, <2>1, <3>1, SParts, ObjectsAssumption DEF HasCopy, RestsOutside
  <2>5. QED
    BY <2>1, <2>2, <2>3, <2>4 DEF Right
<1>7. RoundIsRight'
  <2>1. ASSUME NEW i \in Ids, objects'[i] # None, objects'[i].gone = "deactivated"
        PROVE  round \in {"managed", "told"} /\ ~ objects'[i].known
    <3>1. objects[i] # None /\ objects[i].gone = "deactivated"
      BY <1>3, <2>1
    <3>2. i \notin near
      BY <1>2, <3>1 DEF Live
    <3>3. QED
      BY <1>3, <3>1, <3>2 DEF ObjectsInv, RoundIsRight
  <2>2. QED
    BY <1>2, <2>1 DEF RoundIsRight
<1>8. QED
  BY <1>5, <1>6, <1>7 DEF ObjectsInv

LEMMA SweepKept ==
    ASSUME ObjectsInv, removeRemovedObjects
    PROVE  ObjectsInv'
<1>1. TypeOK /\ S \in States /\ active \in SUBSET Blocks /\ Right(S, active, active)
  BY SParts DEF ObjectsInv, TypeOK
<1>2. PICK s \in States, list \in SUBSET Blocks : s = S /\ list = active
  BY <1>1
<1>3. PICK r : r = FoldLeft(removeRemoved, s, AllIds)
  OBVIOUS
<1>4. /\ Apply(r) /\ round' = IF round = "told" THEN "swept" ELSE round
      /\ UNCHANGED <<disk, idle, active, accidents, fate, deleted, adrift>>
      /\ s.mem = mem /\ s.objects = objects
  BY <1>2, <1>3, SParts DEF removeRemovedObjects
<1>5. /\ Right(r, list, list) /\ StillLoaded(s, r)
      /\ \A i \in Ids : r.objects[i] # None /\ r.objects[i].gone = "deactivated" =>
            objects[i] # None /\ objects[i].gone = "deactivated" /\ objects[i].known
  <2>1. Right(s, list, list)
    BY <1>1, <1>2
  <2>2. QED
    BY <1>1, <1>3, <1>4, <2>1, RemovedAll
<1>6. /\ Right(S, active, active)'
      /\ mem' \in [Blocks -> MapBlock \union {None}]
      /\ objects' \in [Ids -> ServerActiveObject \union {None}]
  BY <1>2, <1>4, <1>5, Carried
<1>7. TypeOK'
  <2>1. \A b \in Blocks : mem[b] # None => mem'[b] # None
    BY <1>4, <1>5 DEF Apply, StillLoaded
  <2>2. idle' \subseteq Loaded' \ active'
    BY <1>1, <1>4, <2>1 DEF TypeOK, Loaded
  <2>3. QED
    BY <1>1, <1>4, <1>6, <2>2 DEF TypeOK
<1>8. RoundIsRight'
  BY <1>4, <1>5 DEF ObjectsInv, RoundIsRight, Apply
<1>9. QED
  BY <1>6, <1>7, <1>8 DEF ObjectsInv

LEMMA LoadKept ==
    ASSUME ObjectsInv, NEW b \in Blocks, LoadBlock(b)
    PROVE  ObjectsInv'
<1>1. TypeOK /\ S \in States /\ active \in SUBSET Blocks /\ Right(S, active, active)
  BY SParts DEF ObjectsInv, TypeOK
<1>2. /\ mem[b] = None /\ disk[b] # None /\ mem' = [mem EXCEPT ![b] = loadBlock(disk[b])]
      /\ UNCHANGED <<disk, idle, active, objects, round, accidents, fate, deleted, adrift>>
  BY DEF LoadBlock
<1>3. PICK m \in MapBlock : m = loadBlock(disk[b]) /\ m.act = Nobody
  BY <1>1, <1>2 DEF TypeOK, loadBlock, StoredBlock, MapBlock, Nobody
<1>4. b \notin active
  BY <1>1, <1>2, SParts DEF Right, NothingToLoad
<1>5. /\ mem' \in [Blocks -> MapBlock \union {None}] /\ mem'[b] = m /\ m # None
      /\ \A c \in Blocks \ {b} : mem'[c] = mem[c]
  BY <1>1, <1>2, <1>3, ObjectsAssumption DEF TypeOK
<1>6. PICK r : r = [mem |-> mem', objects |-> objects]
  OBVIOUS
<1>7. r \in States /\ r.mem = mem' /\ r.objects = objects
  BY <1>1, <1>5, <1>6 DEF States, TypeOK
<1>8. ListsKept(S, r)
  BY <1>2, <1>3, <1>5, <1>7, SParts DEF ListsKept
<1>9. NobodyRests(r, active) /\ NothingToLoad(r, active)
  BY <1>1, <1>4, <1>5, <1>7, SParts DEF Right, NobodyRests, NothingToLoad
<1>10. PICK s, list : s = S /\ list = active
  OBVIOUS
<1>11. Right(r, list, list)
  BY <1>1, <1>7, <1>8, <1>9, <1>10, SameLists
<1>12. Right(S, active, active)'
  BY <1>2, <1>6, <1>10, <1>11, Carried DEF Apply
<1>13. TypeOK'
  BY <1>1, <1>2, <1>5 DEF TypeOK, Loaded
<1>14. RoundIsRight'
  BY <1>2 DEF ObjectsInv, RoundIsRight
<1>15. QED
  BY <1>12, <1>13, <1>14 DEF ObjectsInv

LEMMA FinishKept ==
    ASSUME ObjectsInv, NEW b \in Blocks, finishBlockMake(b)
    PROVE  ObjectsInv'
<1>1. TypeOK /\ S \in States /\ active \in SUBSET Blocks /\ Right(S, active, active)
  BY SParts DEF ObjectsInv, TypeOK
<1>2. PICK e : e = emergeBlock(mem, b, TRUE)
  OBVIOUS
<1>3. /\ mem' = [mem EXCEPT ![b] = raiseModified([e EXCEPT !.gen = TRUE, !.stamp = "fresh"],
                                                  "needed")]
      /\ UNCHANGED <<disk, idle, active, objects, round, accidents, fate, deleted, adrift>>
  BY <1>2 DEF finishBlockMake
<1>4. /\ e \in MapBlock
      /\ mem[b] # None => e = mem[b]
      /\ mem[b] = None => e.act = Nobody /\ (disk[b] = None => e.stored = NoOne)
  <2>1. PICK s \in States : s = S
    BY <1>1
  <2>2. s.mem = mem /\ e = emergeBlock(s.mem, b, TRUE) /\ TRUE \in BOOLEAN
    BY <1>2, <2>1, SParts
  <2>3. QED
    BY <1>1, <2>2, Emerged, ObjectsAssumption
<1>5. PICK n \in MapBlock : /\ n = [e EXCEPT !.gen = TRUE, !.stamp = "fresh"]
                            /\ n.act = e.act /\ n.stored = e.stored
  <2>1. PICK x \in MapBlock : x = e
    BY <1>4
  <2>2. /\ [x EXCEPT !.gen = TRUE, !.stamp = "fresh"] \in MapBlock
        /\ [x EXCEPT !.gen = TRUE, !.stamp = "fresh"].act = x.act
        /\ [x EXCEPT !.gen = TRUE, !.stamp = "fresh"].stored = x.stored
    BY DEF MapBlock
  <2>3. QED
    BY <2>1, <2>2
<1>6. PICK m \in MapBlock : m = raiseModified(n, "needed") /\ m.act = e.act /\ m.stored = e.stored
  <2>1. /\ raiseModified(n, "needed") \in MapBlock
        /\ raiseModified(n, "needed").stored = n.stored
        /\ raiseModified(n, "needed").act = n.act
    BY RaisePut
  <2>2. QED
    BY <1>5, <2>1
<1>7. /\ mem' \in [Blocks -> MapBlock \union {None}] /\ mem'[b] = m /\ m # None
      /\ \A c \in Blocks \ {b} : mem'[c] = mem[c]
  BY <1>1, <1>3, <1>5, <1>6, ObjectsAssumption DEF TypeOK
<1>8. PICK r : r = [mem |-> mem', objects |-> objects]
  OBVIOUS
<1>9. r \in States /\ r.mem = mem' /\ r.objects = objects
  BY <1>1, <1>7, <1>8 DEF States, TypeOK
<1>10. ListsKept(S, r)
  BY <1>3, <1>4, <1>6, <1>7, <1>9, SParts DEF ListsKept
<1>11. NobodyRests(r, active) /\ NothingToLoad(r, active)
  <2>1. NobodyRests(S, active) /\ NothingToLoad(S, active)
    BY <1>1 DEF Right
  <2>2. b \in active => m.stored = NoOne
    BY <1>4, <1>6, <2>1, SParts DEF NobodyRests, NothingToLoad
  <2>3. ASSUME NEW c \in active
        PROVE  /\ r.mem[c] # None => r.mem[c].stored = NoOne
               /\ r.mem[c] = None => disk[c] = None
    <3>1. c \in Blocks /\ r.mem = mem'
      BY <1>1, <1>9, <2>3
    <3>2. CASE c = b
      BY <1>7, <2>2, <2>3, <3>1, <3>2
    <3>3. CASE c # b
      <4>1. r.mem[c] = mem[c]
        BY <1>7, <3>1, <3>3
      <4>2. QED
        BY <2>1, <2>3, <4>1, SParts DEF NobodyRests, NothingToLoad
    <3>4. QED
      BY <3>2, <3>3
  <2>4. QED
    BY <2>3 DEF NobodyRests, NothingToLoad
<1>12. PICK s, list : s = S /\ list = active
  OBVIOUS
<1>13. Right(r, list, list)
  BY <1>1, <1>9, <1>10, <1>11, <1>12, SameLists
<1>14. Right(S, active, active)'
  BY <1>3, <1>8, <1>12, <1>13, Carried DEF Apply
<1>15. TypeOK'
  BY <1>1, <1>3, <1>7 DEF TypeOK, Loaded
<1>16. RoundIsRight'
  BY <1>3 DEF ObjectsInv, RoundIsRight
<1>17. QED
  BY <1>14, <1>15, <1>16 DEF ObjectsInv

LEMMA SaveKept ==
    ASSUME ObjectsInv, SaveMap
    PROVE  ObjectsInv'
<1>1. TypeOK /\ S \in States /\ active \in SUBSET Blocks /\ Right(S, active, active)
  BY SParts DEF ObjectsInv, TypeOK
<1>2. PICK saved \in SUBSET Loaded :
          /\ disk' = [b \in Blocks |-> IF b \in saved THEN Row(mem[b]) ELSE disk[b]]
          /\ mem' = [b \in Blocks |-> IF b \in saved THEN Written(b) ELSE mem[b]]
          /\ UNCHANGED <<idle, active, objects, round, accidents, fate, deleted, adrift>>
  BY DEF SaveMap
<1>3. ASSUME NEW b \in Blocks
      PROVE  /\ mem'[b] \in MapBlock \union {None} /\ disk'[b] \in StoredBlock \union {None}
             /\ mem'[b] = None <=> mem[b] = None
             /\ mem[b] = None => disk'[b] = disk[b]
             /\ mem[b] # None => mem'[b].act = mem[b].act /\ mem'[b].stored = mem[b].stored
  <2>1. CASE b \in saved
    <3>1. PICK m \in MapBlock : m = mem[b]
      BY <1>1, <1>2, <2>1 DEF TypeOK, Loaded
    <3>2. /\ [m EXCEPT !.mod = "clean"] \in MapBlock
          /\ [m EXCEPT !.mod = "clean"].act = m.act
          /\ [m EXCEPT !.mod = "clean"].stored = m.stored
      BY DEF MapBlock
    <3>3. mem'[b] = [m EXCEPT !.mod = "clean"] /\ disk'[b] = Row(m)
      BY <1>2, <2>1, <3>1 DEF Written
    <3>4. Row(m) \in StoredBlock
      BY RowIs
    <3>5. mem[b] # None
      BY <1>2, <2>1 DEF Loaded
    <3>6. QED
      BY <3>1, <3>2, <3>3, <3>4, <3>5, ObjectsAssumption
  <2>2. CASE b \notin saved
    BY <1>1, <1>2, <2>2 DEF TypeOK
  <2>3. QED
    BY <2>1, <2>2
<1>4. mem' \in [Blocks -> MapBlock \union {None}] /\ disk' \in [Blocks -> StoredBlock \union {None}]
  BY <1>2, <1>3
<1>5. PICK r : r = [mem |-> mem', objects |-> objects]
  OBVIOUS
<1>6. r \in States /\ r.mem = mem' /\ r.objects = objects
  BY <1>1, <1>4, <1>5 DEF States, TypeOK
<1>7. ListsKept(S, r)
  BY <1>3, <1>6, SParts DEF ListsKept
<1>8. NobodyRests(r, active) /\ NothingToLoad(r, active)
  BY <1>1, <1>3, <1>6, SParts DEF Right, NobodyRests, NothingToLoad
<1>9. PICK s, list : s = S /\ list = active
  OBVIOUS
<1>10. Right(r, list, list)
  BY <1>1, <1>6, <1>7, <1>8, <1>9, SameLists
<1>11. Right(S, active, active)'
  <2>1. \A b \in list : r.mem[b] = None /\ disk[b] = None => disk'[b] = None
    BY <1>1, <1>3, <1>6, <1>9
  <2>2. QED
    BY <1>2, <1>5, <1>9, <1>10, <2>1, Carried DEF Apply
<1>12. TypeOK'
  BY <1>1, <1>2, <1>3, <1>4 DEF TypeOK, Loaded
<1>13. RoundIsRight'
  BY <1>2 DEF ObjectsInv, RoundIsRight
<1>14. QED
  BY <1>11, <1>12, <1>13 DEF ObjectsInv

LEMMA UnloadKept ==
    ASSUME ObjectsInv, NEW b \in Blocks, UnloadBlock(b)
    PROVE  ObjectsInv'
<1>1. TypeOK /\ S \in States /\ active \in SUBSET Blocks /\ Right(S, active, active)
  BY SParts DEF ObjectsInv, TypeOK
<1>2. /\ mem[b] # None /\ b \in idle /\ mem' = [mem EXCEPT ![b] = None] /\ idle' = idle \ {b}
      /\ disk' = IF mem[b].mod # "clean" THEN [disk EXCEPT ![b] = Row(mem[b])] ELSE disk
      /\ adrift' = adrift \union ({mem[b].act[i] : i \in Ids} \ {None})
      /\ UNCHANGED <<active, objects, round, accidents, fate, deleted>>
  BY DEF UnloadBlock
<1>3. /\ mem' \in [Blocks -> MapBlock \union {None}] /\ mem'[b] = None
      /\ \A c \in Blocks \ {b} : mem'[c] = mem[c]
  BY <1>1, <1>2 DEF TypeOK
<1>4. /\ disk' \in [Blocks -> StoredBlock \union {None}]
      /\ \A c \in Blocks \ {b} : disk'[c] = disk[c]
  <2>1. PICK m \in MapBlock : m = mem[b]
    BY <1>1, <1>2 DEF TypeOK
  <2>2. PICK row \in StoredBlock : row = Row(mem[b])
    BY <2>1, RowIs
  <2>3. disk \in [Blocks -> StoredBlock \union {None}]
    BY <1>1 DEF TypeOK
  <2>4. QED
    BY <1>2, <2>2, <2>3
<1>5. b \notin active
  BY <1>1, <1>2 DEF TypeOK
<1>6. TypeOK'
  BY <1>1, <1>2, <1>3, <1>4 DEF TypeOK, Loaded
<1>7. Right(S, active, active)'
  <2>1. S'.mem = mem' /\ S'.objects = objects /\ S' \in States
    BY <1>2, <1>6 DEF S, States, TypeOK
  <2>2. CopiesHaveOwners(S)'
    BY <1>1, <1>2, <1>3, SParts DEF Right, CopiesHaveOwners, S
  <2>3. NobodyRests(S, active)' /\ NothingToLoad(S, active)'
    BY <1>1, <1>2, <1>3, <1>4, <1>5, SParts DEF Right, NobodyRests, NothingToLoad, S
  <2>4. ASSUME NEW i \in Ids PROVE HasCopy(S, i)' /\ RestsOutside(S, i, active)'
    <3>1. HasCopy(S, i) /\ RestsOutside(S, i, active)
      BY <1>1 DEF Right
    <3>2. ASSUME objects[i] # None, objects[i].gone = "no", objects[i].static_exists,
                 objects[i].static_block \notin deleted, objects[i].thing \notin adrift'
          PROVE  /\ mem'[objects[i].static_block] # None
                 /\ mem'[objects[i].static_block].act[i] = objects[i].thing
      <4>1. PICK c \in Blocks, t \in Things : c = objects[i].static_block /\ t = objects[i].thing
        BY <1>1, <3>2 DEF TypeOK, ServerActiveObject
      <4>2. mem[c] # None /\ mem[c].act[i] = t
        BY <1>2, <3>1, <3>2, <4>1, SParts DEF HasCopy
      <4>3. c # b
        BY <1>2, <3>2, <4>1, <4>2, ObjectsAssumption
      <4>4. QED
        BY <1>3, <4>1, <4>2, <4>3
    <3>3. QED
      BY <1>2, <2>1, <3>1, <3>2, SParts DEF HasCopy, RestsOutside
  <2>5. QED
    BY <2>1, <2>2, <2>3, <2>4 DEF Right
<1>8. RoundIsRight'
  BY <1>2 DEF ObjectsInv, RoundIsRight
<1>9. QED
  BY <1>6, <1>7, <1>8 DEF ObjectsInv

LEMMA DeleteKept ==
    ASSUME ObjectsInv, NEW b \in Blocks, DeleteArea(b)
    PROVE  ObjectsInv'
<1>1. TypeOK /\ S \in States /\ active \in SUBSET Blocks /\ Right(S, active, active)
  BY SParts DEF ObjectsInv, TypeOK
<1>2. /\ mem' = [mem EXCEPT ![b] = None] /\ disk' = [disk EXCEPT ![b] = None]
      /\ idle' = idle \ {b} /\ deleted' = deleted \union {b}
      /\ accidents < MaxAccidents /\ accidents' = accidents + 1
      /\ UNCHANGED <<active, objects, round, adrift>>
  BY DEF DeleteArea, Accident
<1>3. /\ mem' \in [Blocks -> MapBlock \union {None}] /\ mem'[b] = None
      /\ disk' \in [Blocks -> StoredBlock \union {None}] /\ disk'[b] = None
      /\ \A c \in Blocks \ {b} : mem'[c] = mem[c] /\ disk'[c] = disk[c]
  BY <1>1, <1>2 DEF TypeOK
<1>4. fate' \in [Things -> {"unborn", "kept", "removed", "cleared"}]
  <2>1. \A t \in Things : fate'[t] \in {"removed", fate[t]}
    BY DEF DeleteArea
  <2>2. fate' = [t \in Things |-> fate'[t]]
    BY DEF DeleteArea
  <2>3. \A t \in Things : fate'[t] \in {"unborn", "kept", "removed", "cleared"}
    BY <1>1, <2>1 DEF TypeOK
  <2>4. QED
    BY <2>2, <2>3
<1>5. accidents' \in 0 .. MaxAccidents
  BY <1>1, <1>2, ObjectsAssumption DEF TypeOK
<1>6. TypeOK'
  BY <1>1, <1>2, <1>3, <1>4, <1>5 DEF TypeOK, Loaded
<1>7. Right(S, active, active)'
  <2>1. S'.mem = mem' /\ S'.objects = objects /\ S' \in States
    BY <1>2, <1>6 DEF S, States, TypeOK
  <2>2. CopiesHaveOwners(S)'
    BY <1>1, <1>2, <1>3, SParts DEF Right, CopiesHaveOwners, S
  <2>3. NobodyRests(S, active)' /\ NothingToLoad(S, active)'
    BY <1>1, <1>2, <1>3, SParts DEF Right, NobodyRests, NothingToLoad, S
  <2>4. ASSUME NEW i \in Ids PROVE HasCopy(S, i)' /\ RestsOutside(S, i, active)'
    <3>1. HasCopy(S, i) /\ RestsOutside(S, i, active)
      BY <1>1 DEF Right
    <3>2. ASSUME objects[i] # None, objects[i].gone = "no", objects[i].static_exists,
                 objects[i].static_block \notin deleted', objects[i].thing \notin adrift
          PROVE  /\ mem'[objects[i].static_block] # None
                 /\ mem'[objects[i].static_block].act[i] = objects[i].thing
      <4>1. PICK c \in Blocks \ {b} : c = objects[i].static_block
        BY <1>1, <1>2, <3>2 DEF TypeOK, ServerActiveObject
      <4>2. mem[c] # None /\ mem[c].act[i] = objects[i].thing
        BY <1>2, <3>1, <3>2, <4>1, SParts DEF HasCopy
      <4>3. QED
        BY <1>3, <4>1, <4>2
    <3>3. QED
      BY <1>2, <2>1, <3>1, <3>2, SParts DEF HasCopy, RestsOutside
  <2>5. QED
    BY <2>1, <2>2, <2>3, <2>4 DEF Right
<1>8. RoundIsRight'
  BY <1>2 DEF ObjectsInv, RoundIsRight
<1>9. QED
  BY <1>6, <1>7, <1>8 DEF ObjectsInv

\* What a clearing leaves of a block, and of a row.
LEMMA EmptiedIs ==
    ASSUME NEW m \in MapBlock, NEW kept \in BOOLEAN
    PROVE  LET n == [Emptied(m) EXCEPT !.stamp = IF kept THEN @ ELSE Aged(@)]
           IN  n \in MapBlock /\ n.stored = NoOne /\ n.act = Nobody
<1>1. PICK e \in MapBlock : e = Emptied(m) /\ e.stored = NoOne /\ e.act = Nobody
  <2>1. CASE m.stored = NoOne /\ m.act = Nobody
    BY <2>1 DEF Emptied
  <2>2. CASE ~ (m.stored = NoOne /\ m.act = Nobody)
    <3>1. PICK c \in [Things -> Nat], a \in [Ids -> Things \union {None}] :
              c = NoOne /\ a = Nobody
      BY DEF NoOne, Nobody
    <3>2. /\ [m EXCEPT !.stored = c, !.act = a] \in MapBlock
          /\ [m EXCEPT !.stored = c, !.act = a].stored = c
          /\ [m EXCEPT !.stored = c, !.act = a].act = a
      BY DEF MapBlock
    <3>3. PICK x \in MapBlock : x = [m EXCEPT !.stored = c, !.act = a] /\ x.stored = c /\ x.act = a
      BY <3>2
    <3>4. Emptied(m) = raiseModified(x, "needed")
      BY <2>2, <3>1, <3>3 DEF Emptied
    <3>5. /\ raiseModified(x, "needed") \in MapBlock
          /\ raiseModified(x, "needed").stored = c /\ raiseModified(x, "needed").act = a
      BY <3>3, RaisePut
    <3>6. QED
      BY <3>1, <3>4, <3>5
  <2>3. QED
    BY <2>1, <2>2
<1>2. PICK stamp \in {"none", "old", "fresh"} : stamp = IF kept THEN e.stamp ELSE Aged(e.stamp)
  BY DEF MapBlock, Aged
<1>3. [Emptied(m) EXCEPT !.stamp = IF kept THEN @ ELSE Aged(@)] = [e EXCEPT !.stamp = stamp]
  BY <1>1, <1>2
<1>4. /\ [e EXCEPT !.stamp = stamp] \in MapBlock
      /\ [e EXCEPT !.stamp = stamp].stored = e.stored /\ [e EXCEPT !.stamp = stamp].act = e.act
  BY DEF MapBlock
<1>5. QED
  BY <1>1, <1>3, <1>4

LEMMA RowCleared ==
    ASSUME NEW row \in StoredBlock, NEW clear \in BOOLEAN
    PROVE  [row EXCEPT !.stamp = Aged(@), !.stored = IF clear THEN NoOne ELSE @] \in StoredBlock
<1>1. PICK stamp \in {"none", "old", "fresh"} : stamp = Aged(row.stamp)
  BY DEF StoredBlock, Aged
<1>2. PICK stored \in [Things -> Nat] : stored = IF clear THEN NoOne ELSE row.stored
  BY DEF StoredBlock, NoOne
<1>3. [row EXCEPT !.stamp = Aged(@), !.stored = IF clear THEN NoOne ELSE @]
          = [row EXCEPT !.stamp = stamp, !.stored = stored]
  BY <1>1, <1>2
<1>4. [row EXCEPT !.stamp = stamp, !.stored = stored] \in StoredBlock
  BY DEF StoredBlock
<1>5. QED
  BY <1>3, <1>4

LEMMA ClearKept ==
    ASSUME ObjectsInv, NEW mode, clearObjects(mode)
    PROVE  ObjectsInv'
<1>1. TypeOK /\ S \in States /\ active \in SUBSET Blocks /\ Right(S, active, active)
  BY SParts DEF ObjectsInv, TypeOK
<1>2. PICK s \in States, list \in SUBSET Blocks : s = S /\ list = active
  BY <1>1
<1>3. PICK s1 : s1 = FoldLeft(ClearOne, s, AllIds)
  OBVIOUS
<1>4. PICK full : full = (mode = "full")
  OBVIOUS
<1>5. /\ objects' = s1.objects
      /\ mem' = [b \in Blocks |->
            IF mem[b] = None THEN None
            ELSE [Emptied(s1.mem[b]) EXCEPT !.stamp = IF b \in active THEN @ ELSE Aged(@)]]
      /\ disk' = [b \in Blocks |->
            IF disk[b] = None THEN None
            ELSE [disk[b] EXCEPT !.stamp = Aged(@),
                                 !.stored = IF full /\ mem[b] = None THEN NoOne ELSE @]]
      /\ fate' = [t \in Things |-> IF fate[t] = "kept" THEN "cleared" ELSE fate[t]]
      /\ accidents < MaxAccidents /\ accidents' = accidents + 1
      /\ UNCHANGED <<idle, active, round, deleted, adrift>>
      /\ s.mem = mem /\ s.objects = objects
  BY <1>2, <1>3, <1>4, SParts DEF clearObjects, Accident
<1>6. /\ Right(s1, list, list) /\ StillLoaded(s, s1)
      /\ \A i \in Ids : s1.objects[i] # None => s1.objects[i].gone = "removed"
  <2>1. Right(s, list, list)
    BY <1>1, <1>2
  <2>2. QED
    BY <1>1, <1>3, <2>1, ClearedAll
<1>7. s1 \in States /\ objects' \in [Ids -> ServerActiveObject \union {None}]
  BY <1>5, <1>6, StateParts DEF Right
<1>8. ASSUME NEW b \in Blocks
      PROVE  /\ mem[b] = None => mem'[b] = None
             /\ mem[b] # None => /\ mem'[b] \in MapBlock
                                 /\ mem'[b].stored = NoOne /\ mem'[b].act = Nobody
             /\ disk[b] = None => disk'[b] = None
             /\ disk'[b] \in StoredBlock \union {None}
  <2>1. ASSUME mem[b] # None
        PROVE  mem'[b] \in MapBlock /\ mem'[b].stored = NoOne /\ mem'[b].act = Nobody
    <3>1. PICK m \in MapBlock : m = s1.mem[b]
      BY <1>5, <1>6, <1>7, <2>1, StateParts DEF StillLoaded
    <3>2. PICK kept : kept = (b \in active)
      OBVIOUS
    <3>3. kept \in BOOLEAN
      BY <3>2
    <3>4. mem'[b] = [Emptied(m) EXCEPT !.stamp = IF kept THEN @ ELSE Aged(@)]
      BY <1>5, <2>1, <3>1, <3>2
    <3>5. QED
      BY <3>3, <3>4, EmptiedIs
  <2>2. mem[b] = None => mem'[b] = None
    BY <1>5
  <2>3. disk[b] # None => disk'[b] \in StoredBlock
    <3>1. SUFFICES ASSUME disk[b] # None PROVE disk'[b] \in StoredBlock
      OBVIOUS
    <3>2. PICK row \in StoredBlock : row = disk[b]
      BY <1>1, <3>1 DEF TypeOK
    <3>3. PICK clear \in BOOLEAN : clear = (full /\ mem[b] = None)
      BY <1>4
    <3>4. disk'[b] = [row EXCEPT !.stamp = Aged(@), !.stored = IF clear THEN NoOne ELSE @]
      BY <1>5, <3>1, <3>2, <3>3
    <3>5. QED
      BY <3>4, RowCleared
  <2>4. disk[b] = None => disk'[b] = None
    BY <1>5
  <2>5. QED
    BY <2>1, <2>2, <2>3, <2>4
<1>9. /\ mem' \in [Blocks -> MapBlock \union {None}]
      /\ disk' \in [Blocks -> StoredBlock \union {None}]
  BY <1>5, <1>8
<1>10. fate' \in [Things -> {"unborn", "kept", "removed", "cleared"}]
  BY <1>1, <1>5 DEF TypeOK
<1>11. TypeOK'
  <2>1. accidents' \in 0 .. MaxAccidents
    <3>1. accidents \in 0 .. MaxAccidents
      BY <1>1 DEF TypeOK
    <3>2. accidents < MaxAccidents /\ accidents' = accidents + 1
      BY <1>5
    <3>3. QED
      BY <3>1, <3>2, ObjectsAssumption
  <2>2. ASSUME NEW b \in idle PROVE b \in Loaded' \ active'
    <3>1. b \in Blocks /\ mem[b] # None /\ b \notin active
      BY <1>1 DEF TypeOK, Loaded
    <3>2. mem'[b] # None
      BY <1>8, <3>1, ObjectsAssumption
    <3>3. QED
      BY <1>5, <3>1, <3>2 DEF Loaded
  <2>3. QED
    BY <1>1, <1>5, <1>7, <1>9, <1>10, <2>1, <2>2 DEF TypeOK
<1>12. \A i \in Ids : objects'[i] # None => objects'[i].gone = "removed"
  BY <1>5, <1>6
<1>13. Right(S, active, active)'
  <2>1. S'.mem = mem' /\ S'.objects = objects' /\ S' \in States
    BY <1>11 DEF S, States, TypeOK
  <2>2. \A b \in Blocks, i \in Ids : mem'[b] # None => mem'[b].act[i] = None
    BY <1>8 DEF Nobody
  <2>3. CopiesHaveOwners(S)'
    BY <2>2 DEF CopiesHaveOwners, S
  <2>4. NobodyRests(S, active)'
    BY <1>1, <1>5, <1>8 DEF NobodyRests, S
  <2>5. NothingToLoad(S, active)'
    <3>1. ASSUME NEW b \in active, mem'[b] = None PROVE disk'[b] = None
      <4>1. b \in Blocks /\ (mem[b] = None => disk[b] = None)
        BY <1>1, SParts DEF Right, NothingToLoad
      <4>2. mem[b] = None
        BY <1>8, <3>1, <4>1, ObjectsAssumption
      <4>3. QED
        BY <1>8, <4>1, <4>2
    <3>2. QED
      BY <1>5, <2>1, <3>1 DEF NothingToLoad
  <2>6. ASSUME NEW i \in Ids PROVE HasCopy(S, i)' /\ RestsOutside(S, i, active)'
    BY <1>12, <2>1 DEF HasCopy, RestsOutside
  <2>7. QED
    BY <2>1, <2>3, <2>4, <2>5, <2>6 DEF Right
<1>14. RoundIsRight'
  BY <1>12 DEF RoundIsRight
<1>15. QED
  BY <1>11, <1>13, <1>14 DEF ObjectsInv

LEMMA ShutdownKept ==
    ASSUME ObjectsInv, NEW changed \in BOOLEAN, Shutdown(changed)
    PROVE  ObjectsInv'
<1>1. TypeOK /\ S \in States /\ active \in SUBSET Blocks /\ Right(S, active, active)
  BY SParts DEF ObjectsInv, TypeOK
<1>2. PICK s \in States, none \in SUBSET Blocks : s = S /\ none = {}
  BY <1>1
<1>3. PICK s1 : s1 = deactivateFarObjects(s, none, TRUE, changed)
  OBVIOUS
<1>4. /\ round' = "stopped" /\ objects' = s1.objects /\ active' = {} /\ idle' = {}
      /\ mem' = [b \in Blocks |-> None]
      /\ disk' = [b \in Blocks |-> IF s1.mem[b] # None /\ s1.mem[b].mod # "clean"
                                   THEN Row(s1.mem[b]) ELSE disk[b]]
      /\ UNCHANGED <<accidents, fate, deleted, adrift>>
  BY <1>2, <1>3 DEF Shutdown
<1>5. Right(s1, none, none) /\ s1.objects = Nobody
  <2>1. Right(s, none, none)
    BY <1>1, <1>2, RightLess
  <2>2. none \in SUBSET none /\ TRUE \in BOOLEAN
    OBVIOUS
  <2>3. QED
    BY <1>1, <1>2, <1>3, <2>1, <2>2, DeactivatedAll
<1>6. ASSUME NEW b \in Blocks PROVE disk'[b] \in StoredBlock \union {None}
  <2>1. CASE s1.mem[b] # None
    <3>1. PICK m \in MapBlock : m = s1.mem[b]
      BY <1>5, <2>1, StateParts DEF Right
    <3>2. Row(m) \in StoredBlock
      BY RowIs
    <3>3. QED
      BY <1>1, <1>4, <3>1, <3>2 DEF TypeOK
  <2>2. CASE s1.mem[b] = None
    BY <1>1, <1>4, <2>2 DEF TypeOK
  <2>3. QED
    BY <2>1, <2>2
<1>7. disk' \in [Blocks -> StoredBlock \union {None}]
  BY <1>4, <1>6
<1>8. /\ mem' \in [Blocks -> MapBlock \union {None}] /\ \A b \in Blocks : mem'[b] = None
      /\ objects' \in [Ids -> ServerActiveObject \union {None}]
      /\ \A i \in Ids : objects'[i] = None
  BY <1>4, <1>5 DEF Nobody
<1>9. TypeOK'
  BY <1>1, <1>4, <1>7, <1>8 DEF TypeOK
<1>10. Right(S, active, active)'
  BY <1>4, <1>8, <1>9 DEF Right, States, CopiesHaveOwners, NobodyRests, NothingToLoad, HasCopy,
                          RestsOutside, S, TypeOK
<1>11. RoundIsRight'
  BY <1>8 DEF RoundIsRight
<1>12. QED
  BY <1>9, <1>10, <1>11 DEF ObjectsInv

LEMMA ObjectsAtFirst == Init => ObjectsInv
<1> SUFFICES ASSUME Init PROVE ObjectsInv
  OBVIOUS
<1>1. /\ mem = [b \in Blocks |-> None] /\ objects = [i \in Ids |-> None]
      /\ idle = {} /\ active = {} /\ round = "swept" /\ accidents = 0
  BY DEF Init, Nobody
<1>2. \A b \in Blocks : mem[b] = None
  BY <1>1
<1>3. \A i \in Ids : objects[i] = None
  BY <1>1
<1>4. TypeOK
  <2>1. disk \in [Blocks -> StoredBlock \union {None}]
    <3>1. [stored |-> NoOne, stamp |-> "fresh", gen |-> TRUE] \in StoredBlock
      BY DEF StoredBlock, NoOne
    <3>2. QED
      BY <3>1 DEF Init
  <2>2. fate \in [Things -> {"unborn", "kept", "removed", "cleared"}]
    BY DEF Init
  <2>3. QED
    BY <1>1, <2>1, <2>2, ObjectsAssumption DEF TypeOK
<1>5. S.mem = mem /\ S.objects = objects /\ S \in States
  BY <1>4, SParts
<1>6. Right(S, active, active)
  BY <1>1, <1>2, <1>3, <1>5 DEF Right, CopiesHaveOwners, NobodyRests, NothingToLoad, HasCopy,
                                RestsOutside
<1>7. RoundIsRight
  BY <1>3 DEF RoundIsRight
<1>8. QED
  BY <1>4, <1>6, <1>7 DEF ObjectsInv

LEMMA ObjectsKept == ObjectsInv /\ [Next]_vars => ObjectsInv'
<1> SUFFICES ASSUME ObjectsInv, [Next]_vars PROVE ObjectsInv'
  OBVIOUS
<1>1. ASSUME NEW t \in Things, NEW b \in Blocks, addActiveObject(t, b) PROVE ObjectsInv'
  BY <1>1, AddKept
<1>2. ASSUME NEW i \in Ids, NEW b \in Blocks, setBasePosition(i, b) PROVE ObjectsInv'
  BY <1>2, MoveKept
<1>3. ASSUME NEW i \in Ids, markForRemoval(i) PROVE ObjectsInv'
  BY <1>3, RemoveKept
<1>4. ASSUME NEW near \in SUBSET Blocks, NEW changed \in BOOLEAN, Manage(near, changed)
      PROVE  ObjectsInv'
  BY <1>4, ManageKept
<1>5. ASSUME NEW near \in SUBSET Ids, SendActiveObjectRemoveAdd(near) PROVE ObjectsInv'
  BY <1>5, SendKept
<1>6. CASE removeRemovedObjects
  BY <1>6, SweepKept
<1>7. ASSUME NEW b \in Blocks,
             LoadBlock(b) \/ finishBlockMake(b) \/ UnloadBlock(b) \/ DeleteArea(b)
      PROVE  ObjectsInv'
  BY <1>7, LoadKept, FinishKept, UnloadKept, DeleteKept
<1>8. CASE SaveMap
  BY <1>8, SaveKept
<1>9. ASSUME NEW mode \in {"quick", "full"}, clearObjects(mode) PROVE ObjectsInv'
  BY <1>9, ClearKept
<1>10. ASSUME NEW changed \in BOOLEAN, Shutdown(changed) PROVE ObjectsInv'
  BY <1>10, ShutdownKept
<1>11. CASE UNCHANGED vars
  <2>1. UNCHANGED <<mem, disk, idle, active, objects, round, accidents, fate, deleted, adrift>>
    BY <1>11 DEF vars
  <2>2. TypeOK' /\ RoundIsRight'
    BY <2>1 DEF ObjectsInv, TypeOK, Loaded, RoundIsRight
  <2>3. Right(S, active, active)'
    BY <2>1 DEF ObjectsInv, Right, CopiesHaveOwners, NobodyRests, NothingToLoad, HasCopy,
                RestsOutside, S
  <2>4. QED
    BY <2>2, <2>3 DEF ObjectsInv
<1>12. QED
  BY <1>1, <1>2, <1>3, <1>4, <1>5, <1>6, <1>7, <1>8, <1>9, <1>10, <1>11 DEF Next

LEMMA InvariantSays == ObjectsInv => TypeOK /\ ListsAgree
<1> SUFFICES ASSUME ObjectsInv PROVE TypeOK /\ ListsAgree
  OBVIOUS
<1>1. TypeOK /\ Right(S, active, active) /\ S.mem = mem /\ S.objects = objects
  BY SParts DEF ObjectsInv
<1>2. ASSUME NEW b \in Loaded, NEW i \in Ids, mem[b].act[i] \notin {None} \union adrift
      PROVE  /\ objects[i] # None /\ objects[i].thing = mem[b].act[i]
             /\ objects[i].static_exists /\ objects[i].static_block = b
  BY <1>1, <1>2 DEF Right, CopiesHaveOwners, Loaded
<1>3. ASSUME NEW i \in Live, objects[i].static_exists, objects[i].static_block \notin deleted,
             objects[i].thing \notin adrift
      PROVE  /\ objects[i].static_block \in Loaded
             /\ mem[objects[i].static_block].act[i] = objects[i].thing
  <2>1. i \in Ids /\ objects[i] # None /\ objects[i].gone = "no"
    BY DEF Live
  <2>2. objects[i].static_block \in Blocks
    BY <1>1, <2>1 DEF TypeOK, ServerActiveObject
  <2>3. HasCopy(S, i)
    BY <1>1, <2>1 DEF Right
  <2>4. QED
    BY <1>1, <1>3, <2>1, <2>2, <2>3 DEF HasCopy, Loaded
<1>4. \A b \in active \intersect Loaded : mem[b].stored = NoOne
  BY <1>1 DEF Right, NobodyRests, Loaded
<1>5. CopiesBelong
  BY <1>2, <1>3 DEF CopiesBelong
<1>6. QED
  BY <1>1, <1>4, <1>5 DEF ListsAgree

\* The inductive invariant holds in every behaviour of the environment.
THEOREM ObjectsInvariant == Spec => []ObjectsInv
<1>1. Init => ObjectsInv
  BY ObjectsAtFirst
<1>2. ObjectsInv /\ [Next]_vars => ObjectsInv'
  BY ObjectsKept
<1>3. QED
  BY <1>1, <1>2, PTL DEF Spec

\* However often objects are stored, activated, moved, removed and cleared, and blocks are
\* loaded, saved, unloaded and deleted: a copy under an id is that of the active object
\* with this id, which knows its block, an active object has its copy, and nobody rests in
\* a block that is in use (deleteStaticFromBlock, saveStaticToBlock, activateObjects).
THEOREM ListsAreRight == Spec => []ListsAgree
<1>1. ObjectsInv => ListsAgree
  BY InvariantSays
<1>2. QED
  BY <1>1, ObjectsInvariant, PTL

\* Copies of the primary file are copies but for the damage done later.
SameFile(f, g) == f.state = g.state /\ f.key = g.key

-----------------------------------------------------------------------------
(* The workspace store: the inductive invariant.                           *)

\* One call at a time, of a program that has loaded a workspace.
OneCall ==
    /\ \A i, j \in Jobs : job[i].at # "idle" /\ job[j].at # "idle" => i = j
    /\ notice # None => \A j \in Jobs : job[j].at = "idle"
    /\ activeState = None <=> renderer = None
    /\ activeState = None => notice = None /\ \A j \in Jobs : job[j].at = "idle"

\* The main process's copy is what an undamaged file holds, but while it is replaced; the
\* renderer's has nothing less, once it has seen the last event, nor has what is written.
CopiesAgree ==
    /\ (activeState # None /\ primary # None /\ primary.damage = "none"
            /\ \A j \in Jobs : job[j].at # "commit") => activeState = primary.state
    /\ activeState # None =>
           IF notice # None THEN notice = activeState
                            ELSE activeState.items \subseteq renderer.items
    /\ \A j \in Jobs : job[j].at # "idle" => activeState.items \subseteq job[j].state.items
    /\ \A j \in Jobs : job[j].at = "commit" => primary # None /\ primary.state = job[j].state
    /\ \A j \in Jobs : job[j].event # None => job[j].event \in job[j].state.items

\* What archiveVerifiedState has read is still what it read when it writes it.
CopyInHand ==
    \A j \in Jobs : job[j].at = "copy" =>
        /\ job[j].copy # None /\ job[j].copy.damage = "none"
        /\ primary # None /\ SameFile(job[j].copy, primary)
        /\ job[j].copy.state = activeState

\* The backup has nothing that the primary file and the main process have not.
BackupBehind ==
    /\ BackupIsGood
    /\ backup # None /\ activeState # None => backup.state.items \subseteq activeState.items

\* While the disk is sound a file holds all that was acknowledged and all that the one
\* before it held.
SoundDisk ==
    /\ primary = None => acked = {} /\ previous = None
    /\ damage = 0 /\ primary # None =>
           primary.damage = "none" /\ acked \subseteq primary.state.items
    /\ damage = (IF Damaged THEN 1 ELSE 0) /\ previous # None =>
           previous.state.items \subseteq primary.state.items

\* If no write fails the backup is a copy of the file that is replaced next, or of the
\* one that was replaced last.
BackupIsFresh ==
    faults = 0 =>
        /\ damage = (IF Damaged THEN 1 ELSE 0) /\ previous # None /\ previous.key = Plain =>
               backup # None /\ (SameFile(backup, previous) \/ SameFile(backup, primary))
        /\ damage = 0 /\ primary # None /\ primary.key = Plain =>
               \A j \in Jobs : job[j].at = "write" => backup # None /\ SameFile(backup, primary)

StoreInv ==
    /\ StoreTypeOK /\ OneCall /\ CopiesAgree /\ CopyInHand
    /\ BackupBehind /\ SoundDisk /\ BackupIsFresh
-----------------------------------------------------------------------------
\* What readState returns: what is in the file, or in the backup if the file is damaged.
LEMMA WhatIsRead ==
    ASSUME StoreAssumption, StoreTypeOK, NEW k \in Passphrases \union {None}, NEW s \in ReadState(k)
    PROVE  /\ s \in Workspace
           /\ \/ primary = None /\ s = Default
              \/ primary # None /\ s = primary.state
              \/ Damaged /\ backup # None /\ s = backup.state
<1>1. Default \in Workspace
  BY DEF Default, Workspace
<1>2. primary # None => primary.state \in Workspace
  BY DEF StoreTypeOK, File
<1>3. backup # None => backup.state \in Workspace
  BY DEF StoreTypeOK, File
<1>4. QED
  BY <1>1, <1>2, <1>3 DEF ReadState, Readable, IsLocked, Damaged

\* An edited copy of the workspace is a workspace.
LEMMA EditedType ==
    ASSUME StoreAssumption, NEW w \in Workspace, NEW X \in SUBSET (Events \union Edits)
    PROVE  /\ [w EXCEPT !.items = @ \union X] \in Workspace
           /\ [w EXCEPT !.items = @ \union X] # None
           /\ [w EXCEPT !.encrypted = ~ @] \in Workspace
           /\ [w EXCEPT !.encrypted = ~ @] # None
BY DEF Workspace, StoreAssumption

\* Damage and new contents make a file of a file.
LEMMA DamagedType ==
    ASSUME StoreAssumption, StoreTypeOK, NEW how \in {"contents", "format"}, DamagePrimary(how)
    PROVE  /\ primary # None /\ primary' # None /\ primary' \in File
           /\ SameFile(primary', primary) /\ primary'.damage = how
BY DEF DamagePrimary, StoreTypeOK, File, SameFile, StoreAssumption

\* What is written in place of the primary file is undamaged.
LEMMA WrittenType ==
    ASSUME StoreAssumption, StoreTypeOK, NEW j \in Jobs, WritePrimary(j)
    PROVE  /\ primary' # None /\ primary' \in File /\ primary'.damage = "none"
           /\ primary'.state = job[j].state /\ primary'.key = job[j].key
BY DEF WritePrimary, StoreTypeOK, File, Job, StoreAssumption

\* A call that has ended leaves nothing behind.
LEMMA IdleType == Idle \in Job
BY DEF Idle, Job, Default, Workspace

\* The variables keep their types, calls may overlap or not.
LEMMA StoreTypeKept ==
    ASSUME StoreAssumption, StoreTypeOK, [StoreNext]_storeVars
    PROVE  StoreTypeOK'
<1> USE DEF StoreTypeOK, counters
<1>1. ASSUME NEW k \in Passphrases \union {None}, Load(k) PROVE StoreTypeOK'
  <2>1. activeState' \in Workspace /\ renderer' \in Workspace
    BY <1>1, WhatIsRead DEF Load
  <2>2. QED
    BY <1>1, <2>1 DEF Load
<1>2. ASSUME NEW d \in Edits, Edit(d) PROVE StoreTypeOK'
  BY <1>2 DEF Edit, Workspace, File, Job, Idle, StoreAssumption
<1>3. ASSUME NEW j \in Jobs, Save(j) PROVE StoreTypeOK'
  BY <1>3 DEF Save, StartWrite, MayStart, Workspace, File, Job, Idle, StoreAssumption
<1>4. ASSUME NEW j \in Jobs, NEW k \in Passphrases \union {None}, ToggleEncryption(j, k)
      PROVE StoreTypeOK'
  <2>1. renderer' \in Workspace
    BY <1>4, EditedType DEF ToggleEncryption
  <2>2. job' \in [Jobs -> Job] /\ key' \in Passphrases \union {None}
    <3>1. key' \in Passphrases \union {None} /\ (renderer'.encrypted => key' # None)
      BY <1>4 DEF ToggleEncryption, StartWrite
    <3>2. job'[j] \in Job
      BY <1>4, <2>1, <3>1 DEF ToggleEncryption, StartWrite, Job
    <3>3. QED
      BY <1>4, <3>1, <3>2 DEF ToggleEncryption, StartWrite
  <2>3. QED
    BY <1>4, <2>1, <2>2 DEF ToggleEncryption
<1>5. ASSUME NEW j \in Jobs, NEW e \in Events, PostEvent(j, e) PROVE StoreTypeOK'
  BY <1>5 DEF PostEvent, StartWrite, MayStart, Workspace, File, Job, Idle, StoreAssumption
<1>6. ASSUME NEW j \in Jobs, VerifyPrimary(j) PROVE StoreTypeOK'
  <2>1. Verifies(primary) => primary \in File
    BY DEF Verifies, Readable
  <2>2. job'[j] \in Job
    BY <1>6, <2>1 DEF VerifyPrimary, Job
  <2>3. job' \in [Jobs -> Job]
    BY <1>6, <2>2 DEF VerifyPrimary
  <2>4. QED
    BY <1>6, <2>3 DEF VerifyPrimary
<1>7. ASSUME NEW j \in Jobs, WriteBackup(j) PROVE StoreTypeOK'
  BY <1>7 DEF WriteBackup, Workspace, File, Job, Idle, StoreAssumption
<1>8. ASSUME NEW j \in Jobs, WritePrimary(j) PROVE StoreTypeOK'
  <2>1. primary' \in File
    BY <1>8, WrittenType
  <2>2. job' = [job EXCEPT ![j].at = "commit"] /\ job[j] \in Job
    BY <1>8 DEF WritePrimary
  <2>3. [job[j] EXCEPT !.at = "commit"] \in Job
    BY <2>2 DEF Job
  <2>4. job' \in [Jobs -> Job]
    BY <2>2, <2>3
  <2>5. QED
    BY <1>8, <2>1, <2>4 DEF WritePrimary
<1>9. ASSUME NEW j \in Jobs, FailPrimary(j) PROVE StoreTypeOK'
  BY <1>9, IdleType DEF FailPrimary, StoreAssumption
<1>10. ASSUME NEW j \in Jobs, Commit(j) PROVE StoreTypeOK'
  <2>1. /\ job[j].state \in Workspace /\ job[j].state.items \subseteq Events \union Edits
        /\ job[j].event # None => job[j].event \in Events
    BY DEF Job, Workspace
  <2>2. job' \in [Jobs -> Job] /\ activeState' \in Workspace
    BY <1>10, <2>1, IdleType DEF Commit
  <2>3. acked' \subseteq Events \union Edits
    BY <1>10, <2>1 DEF Commit
  <2>4. notice' \in Workspace \union {None} /\ renderer' \in Workspace \union {None}
    BY <1>10, <2>1 DEF Commit
  <2>5. QED
    BY <1>10, <2>2, <2>3, <2>4 DEF Commit
<1>11. CASE ReceiveNotice
  BY <1>11 DEF ReceiveNotice, Workspace, File, Job, Idle, StoreAssumption
<1>12. ASSUME NEW how \in {"contents", "format"}, DamagePrimary(how) PROVE StoreTypeOK'
  BY <1>12 DEF DamagePrimary, Workspace, File, Job, Idle, StoreAssumption
<1>13. CASE Crash
  BY <1>13, IdleType DEF Crash, StoreAssumption
<1>14. CASE UNCHANGED storeVars
  BY <1>14 DEF storeVars
<1>15. QED
  BY <1>1, <1>2, <1>3, <1>4, <1>5, <1>6, <1>7, <1>8, <1>9, <1>10, <1>11, <1>12, <1>13,
     <1>14 DEF StoreNext

\* A call starts when no other is in progress and the renderer has seen the last event.
LEMMA OneCallKept ==
    ASSUME StoreAssumption, ~ Overlap, StoreInv, [StoreNext]_storeVars
    PROVE  OneCall'
<1> USE DEF StoreInv, StoreAssumption, StoreTypeOK, OneCall, Idle, counters
<1>1. ASSUME NEW k \in Passphrases \union {None}, Load(k) PROVE OneCall'
  BY <1>1 DEF Load, ReadState
<1>2. ASSUME NEW d \in Edits, Edit(d) PROVE OneCall'
  <2>1. renderer' # None
    BY <1>2, EditedType DEF Edit, StoreTypeOK
  <2>2. QED
    BY <1>2, <2>1 DEF Edit, OneCall
<1>3. ASSUME NEW j \in Jobs, Save(j) PROVE OneCall'
  BY <1>3 DEF Save, StartWrite, MayStart
<1>4. ASSUME NEW j \in Jobs, NEW k \in Passphrases \union {None}, ToggleEncryption(j, k)
      PROVE OneCall'
  <2>1. renderer' # None
    BY <1>4, EditedType DEF ToggleEncryption, StoreTypeOK
  <2>2. QED
    BY <1>4, <2>1 DEF ToggleEncryption, StartWrite, MayStart, OneCall, StoreTypeOK
<1>5. ASSUME NEW j \in Jobs, NEW e \in Events, PostEvent(j, e) PROVE OneCall'
  BY <1>5 DEF PostEvent, StartWrite, MayStart
<1>6. ASSUME NEW j \in Jobs, VerifyPrimary(j) PROVE OneCall'
  BY <1>6 DEF VerifyPrimary, Verifies, Readable
<1>7. ASSUME NEW j \in Jobs, WriteBackup(j) PROVE OneCall'
  BY <1>7 DEF WriteBackup
<1>8. ASSUME NEW j \in Jobs, WritePrimary(j) PROVE OneCall'
  BY <1>8 DEF WritePrimary
<1>9. ASSUME NEW j \in Jobs, FailPrimary(j) PROVE OneCall'
  BY <1>9 DEF FailPrimary
<1>10. ASSUME NEW j \in Jobs, Commit(j) PROVE OneCall'
  <2>1. job[j].state # None /\ activeState # None
    BY <1>10 DEF Commit, OneCall, StoreTypeOK, Job
  <2>2. QED
    BY <1>10, <2>1 DEF Commit, OneCall, StoreTypeOK, Idle
<1>11. CASE ReceiveNotice
  BY <1>11 DEF ReceiveNotice
<1>12. ASSUME NEW how \in {"contents", "format"}, DamagePrimary(how) PROVE OneCall'
  BY <1>12 DEF DamagePrimary
<1>13. CASE Crash
  BY <1>13 DEF Crash
<1>14. CASE UNCHANGED storeVars
  BY <1>14 DEF storeVars
<1>15. QED
  BY <1>1, <1>2, <1>3, <1>4, <1>5, <1>6, <1>7, <1>8, <1>9, <1>10, <1>11, <1>12, <1>13,
     <1>14 DEF StoreNext

\* Loading, writing and committing keep the copies of the workspace together.
LEMMA CopiesAgreeKept ==
    ASSUME StoreAssumption, ~ Overlap, StoreInv, [StoreNext]_storeVars
    PROVE  CopiesAgree'
<1> USE DEF StoreInv, StoreAssumption, StoreTypeOK, OneCall, CopiesAgree, Idle, counters
<1>1. ASSUME NEW k \in Passphrases \union {None}, Load(k) PROVE CopiesAgree'
  <2>1. primary # None /\ primary.damage = "none" => activeState' = primary.state
    BY <1>1, WhatIsRead DEF Load, Damaged
  <2>2. activeState = None /\ notice = None /\ \A j \in Jobs : job[j].at = "idle"
    BY <1>1 DEF Load, OneCall
  <2>3. QED
    BY <1>1, <2>1, <2>2 DEF Load, CopiesAgree
<1>2. ASSUME NEW d \in Edits, Edit(d) PROVE CopiesAgree'
  BY <1>2 DEF Edit
<1>3. ASSUME NEW j \in Jobs, Save(j) PROVE CopiesAgree'
  BY <1>3 DEF Save, StartWrite, MayStart
<1>4. ASSUME NEW j \in Jobs, NEW k \in Passphrases \union {None}, ToggleEncryption(j, k)
      PROVE CopiesAgree'
  BY <1>4 DEF ToggleEncryption, StartWrite, MayStart
<1>5. ASSUME NEW j \in Jobs, NEW e \in Events, PostEvent(j, e) PROVE CopiesAgree'
  BY <1>5 DEF PostEvent, StartWrite, MayStart
<1>6. ASSUME NEW j \in Jobs, VerifyPrimary(j) PROVE CopiesAgree'
  BY <1>6 DEF VerifyPrimary, Verifies, Readable
<1>7. ASSUME NEW j \in Jobs, WriteBackup(j) PROVE CopiesAgree'
  BY <1>7 DEF WriteBackup
<1>8. ASSUME NEW j \in Jobs, WritePrimary(j) PROVE CopiesAgree'
  <2>1. activeState # None /\ \A i \in Jobs : i # j => job[i].at = "idle"
    BY <1>8 DEF WritePrimary, OneCall
  <2>2. /\ \A i \in Jobs : job'[i].event = job[i].event /\ job'[i].state = job[i].state
        /\ \A i \in Jobs : job'[i].at = IF i = j THEN "commit" ELSE "idle"
    BY <1>8, <2>1 DEF WritePrimary
  <2>3. UNCHANGED <<activeState, notice, renderer>>
    BY <1>8 DEF WritePrimary
  <2>4. primary' # None /\ primary'.state = job[j].state /\ job'[j].at = "commit"
    BY <1>8, <2>2, WrittenType
  <2>5. \A i \in Jobs : job[i].at # "idle" => activeState.items \subseteq job[i].state.items
    BY DEF CopiesAgree
  <2>6. \A i \in Jobs : job'[i].at # "idle" => activeState'.items \subseteq job'[i].state.items
    BY <1>8, <2>2, <2>3, <2>5 DEF WritePrimary
  <2>7. \A i \in Jobs : job'[i].at = "commit" => i = j
    BY <2>2
  <2>8. \A i \in Jobs : job'[i].event # None => job'[i].event \in job'[i].state.items
    BY <2>2 DEF CopiesAgree
  <2>9. activeState' # None => IF notice' # None THEN notice' = activeState'
                          ELSE activeState'.items \subseteq renderer'.items
    BY <2>3 DEF CopiesAgree
  <2>10. job'[j].state = job[j].state
    BY <2>2
  <2>11. QED
    BY <2>4, <2>6, <2>7, <2>8, <2>9, <2>10 DEF CopiesAgree
<1>9. ASSUME NEW j \in Jobs, FailPrimary(j) PROVE CopiesAgree'
  BY <1>9 DEF FailPrimary
<1>10. ASSUME NEW j \in Jobs, Commit(j) PROVE CopiesAgree'
  <2>1. primary # None /\ primary.state = job[j].state /\ notice = None
    BY <1>10 DEF Commit, OneCall, CopiesAgree
  <2>2. job' = [job EXCEPT ![j] = Idle] /\ \A i \in Jobs : job'[i].at = "idle"
    BY <1>10 DEF Commit, OneCall, StoreTypeOK, Idle
  <2>3. \A i \in Jobs : job'[i].event # None => job'[i].event \in job'[i].state.items
    BY <2>2 DEF CopiesAgree, StoreTypeOK, Idle
  <2>4. activeState' = job[j].state /\ primary' = primary
        /\ (notice' = activeState' \/ (notice' = notice /\ renderer' = activeState'))
    BY <1>10 DEF Commit
  <2>5. QED
    BY <2>1, <2>2, <2>3, <2>4 DEF CopiesAgree
<1>11. CASE ReceiveNotice
  BY <1>11 DEF ReceiveNotice
<1>12. ASSUME NEW how \in {"contents", "format"}, DamagePrimary(how) PROVE CopiesAgree'
  <2>1. primary' # None /\ primary'.damage # "none" /\ primary'.state = primary.state
    BY <1>12, DamagedType DEF SameFile
  <2>2. QED
    BY <1>12, <2>1 DEF DamagePrimary, CopiesAgree
<1>13. CASE Crash
  BY <1>13 DEF Crash
<1>14. CASE UNCHANGED storeVars
  BY <1>14 DEF storeVars
<1>15. QED
  BY <1>1, <1>2, <1>3, <1>4, <1>5, <1>6, <1>7, <1>8, <1>9, <1>10, <1>11, <1>12, <1>13,
     <1>14 DEF StoreNext

\* Between the reading of the old file and the writing of the backup nothing replaces it.
LEMMA CopyInHandKept ==
    ASSUME StoreAssumption, ~ Overlap, StoreInv, [StoreNext]_storeVars
    PROVE  CopyInHand'
<1> USE DEF StoreInv, StoreAssumption, StoreTypeOK, OneCall, CopiesAgree, CopyInHand, SameFile,
            Idle, counters
<1>1. ASSUME NEW k \in Passphrases \union {None}, Load(k) PROVE CopyInHand'
  BY <1>1 DEF Load, ReadState
<1>2. ASSUME NEW d \in Edits, Edit(d) PROVE CopyInHand'
  BY <1>2 DEF Edit
<1>3. ASSUME NEW j \in Jobs, Save(j) PROVE CopyInHand'
  BY <1>3 DEF Save, StartWrite, MayStart
<1>4. ASSUME NEW j \in Jobs, NEW k \in Passphrases \union {None}, ToggleEncryption(j, k)
      PROVE CopyInHand'
  BY <1>4 DEF ToggleEncryption, StartWrite, MayStart
<1>5. ASSUME NEW j \in Jobs, NEW e \in Events, PostEvent(j, e) PROVE CopyInHand'
  BY <1>5 DEF PostEvent, StartWrite, MayStart
<1>6. ASSUME NEW j \in Jobs, VerifyPrimary(j) PROVE CopyInHand'
  BY <1>6 DEF VerifyPrimary, Verifies, Readable
<1>7. ASSUME NEW j \in Jobs, WriteBackup(j) PROVE CopyInHand'
  BY <1>7 DEF WriteBackup
<1>8. ASSUME NEW j \in Jobs, WritePrimary(j) PROVE CopyInHand'
  BY <1>8 DEF WritePrimary
<1>9. ASSUME NEW j \in Jobs, FailPrimary(j) PROVE CopyInHand'
  BY <1>9 DEF FailPrimary
<1>10. ASSUME NEW j \in Jobs, Commit(j) PROVE CopyInHand'
  BY <1>10 DEF Commit
<1>11. CASE ReceiveNotice
  BY <1>11 DEF ReceiveNotice
<1>12. ASSUME NEW how \in {"contents", "format"}, DamagePrimary(how) PROVE CopyInHand'
  <2>1. primary' # None /\ SameFile(primary', primary)
    BY <1>12, DamagedType
  <2>2. QED
    BY <1>12, <2>1 DEF DamagePrimary, CopyInHand, SameFile
<1>13. CASE Crash
  BY <1>13 DEF Crash
<1>14. CASE UNCHANGED storeVars
  BY <1>14 DEF storeVars
<1>15. QED
  BY <1>1, <1>2, <1>3, <1>4, <1>5, <1>6, <1>7, <1>8, <1>9, <1>10, <1>11, <1>12, <1>13,
     <1>14 DEF StoreNext

\* What is written in place of the primary file has everything the backup has.
LEMMA BackupBehindKept ==
    ASSUME StoreAssumption, ~ Overlap, StoreInv, [StoreNext]_storeVars
    PROVE  BackupBehind'
<1> USE DEF StoreInv, StoreAssumption, StoreTypeOK, OneCall, CopiesAgree, CopyInHand, BackupBehind,
            BackupIsGood, SameFile, Idle, counters
<1>1. ASSUME NEW k \in Passphrases \union {None}, Load(k) PROVE BackupBehind'
  BY <1>1 DEF Load, ReadState
<1>2. ASSUME NEW d \in Edits, Edit(d) PROVE BackupBehind'
  BY <1>2 DEF Edit
<1>3. ASSUME NEW j \in Jobs, Save(j) PROVE BackupBehind'
  BY <1>3 DEF Save, StartWrite, MayStart
<1>4. ASSUME NEW j \in Jobs, NEW k \in Passphrases \union {None}, ToggleEncryption(j, k)
      PROVE BackupBehind'
  BY <1>4 DEF ToggleEncryption, StartWrite, MayStart
<1>5. ASSUME NEW j \in Jobs, NEW e \in Events, PostEvent(j, e) PROVE BackupBehind'
  BY <1>5 DEF PostEvent, StartWrite, MayStart
<1>6. ASSUME NEW j \in Jobs, VerifyPrimary(j) PROVE BackupBehind'
  BY <1>6 DEF VerifyPrimary, Verifies, Readable
<1>7. ASSUME NEW j \in Jobs, WriteBackup(j) PROVE BackupBehind'
  BY <1>7 DEF WriteBackup
<1>8. ASSUME NEW j \in Jobs, WritePrimary(j) PROVE BackupBehind'
  <2>1. activeState # None /\ activeState.items \subseteq job[j].state.items
    BY <1>8 DEF WritePrimary, OneCall, CopiesAgree
  <2>2. QED
    BY <1>8, <2>1, WrittenType DEF WritePrimary, BackupBehind, BackupIsGood
<1>9. ASSUME NEW j \in Jobs, FailPrimary(j) PROVE BackupBehind'
  BY <1>9 DEF FailPrimary
<1>10. ASSUME NEW j \in Jobs, Commit(j) PROVE BackupBehind'
  BY <1>10 DEF Commit
<1>11. CASE ReceiveNotice
  BY <1>11 DEF ReceiveNotice
<1>12. ASSUME NEW how \in {"contents", "format"}, DamagePrimary(how) PROVE BackupBehind'
  <2>1. primary' # None /\ primary'.state = primary.state
    BY <1>12, DamagedType DEF SameFile
  <2>2. QED
    BY <1>12, <2>1 DEF DamagePrimary, BackupBehind, BackupIsGood
<1>13. CASE Crash
  BY <1>13 DEF Crash
<1>14. CASE UNCHANGED storeVars
  BY <1>14 DEF storeVars
<1>15. QED
  BY <1>1, <1>2, <1>3, <1>4, <1>5, <1>6, <1>7, <1>8, <1>9, <1>10, <1>11, <1>12, <1>13,
     <1>14 DEF StoreNext

\* What is written in place of an undamaged file has everything that was in it.
LEMMA SoundDiskKept ==
    ASSUME StoreAssumption, ~ Overlap, StoreInv, [StoreNext]_storeVars
    PROVE  SoundDisk'
<1> USE DEF StoreInv, StoreAssumption, StoreTypeOK, OneCall, CopiesAgree, SoundDisk, Damaged,
            Idle, counters
<1>1. ASSUME NEW k \in Passphrases \union {None}, Load(k) PROVE SoundDisk'
  BY <1>1 DEF Load, ReadState
<1>2. ASSUME NEW d \in Edits, Edit(d) PROVE SoundDisk'
  BY <1>2 DEF Edit
<1>3. ASSUME NEW j \in Jobs, Save(j) PROVE SoundDisk'
  BY <1>3 DEF Save, StartWrite, MayStart
<1>4. ASSUME NEW j \in Jobs, NEW k \in Passphrases \union {None}, ToggleEncryption(j, k)
      PROVE SoundDisk'
  BY <1>4 DEF ToggleEncryption, StartWrite, MayStart
<1>5. ASSUME NEW j \in Jobs, NEW e \in Events, PostEvent(j, e) PROVE SoundDisk'
  BY <1>5 DEF PostEvent, StartWrite, MayStart
<1>6. ASSUME NEW j \in Jobs, VerifyPrimary(j) PROVE SoundDisk'
  BY <1>6 DEF VerifyPrimary, Verifies, Readable
<1>7. ASSUME NEW j \in Jobs, WriteBackup(j) PROVE SoundDisk'
  BY <1>7 DEF WriteBackup
<1>8. ASSUME NEW j \in Jobs, WritePrimary(j) PROVE SoundDisk'
  <2>1. activeState # None /\ activeState.items \subseteq job[j].state.items
    BY <1>8 DEF WritePrimary, OneCall, CopiesAgree
  <2>2. damage = 0 /\ primary # None => primary.state = activeState
    BY <1>8, <2>1 DEF WritePrimary, OneCall, CopiesAgree, SoundDisk
  <2>3. UNCHANGED <<damage, acked>> /\ previous' = primary
    BY <1>8 DEF WritePrimary, counters
  <2>4. QED
    BY <2>1, <2>2, <2>3, WrittenType, <1>8 DEF SoundDisk, Damaged
<1>9. ASSUME NEW j \in Jobs, FailPrimary(j) PROVE SoundDisk'
  BY <1>9 DEF FailPrimary
<1>10. ASSUME NEW j \in Jobs, Commit(j) PROVE SoundDisk'
  BY <1>10 DEF Commit
<1>11. CASE ReceiveNotice
  BY <1>11 DEF ReceiveNotice
<1>12. ASSUME NEW how \in {"contents", "format"}, DamagePrimary(how) PROVE SoundDisk'
  <2>1. /\ primary # None /\ primary' # None /\ primary'.damage # "none"
        /\ primary'.state = primary.state
    BY <1>12, DamagedType DEF SameFile
  <2>2. damage' = damage + 1 /\ damage \in Nat /\ UNCHANGED <<acked, previous>>
    BY <1>12 DEF DamagePrimary, StoreTypeOK
  <2>3. QED
    BY <2>1, <2>2 DEF SoundDisk, Damaged
<1>13. CASE Crash
  BY <1>13 DEF Crash
<1>14. CASE UNCHANGED storeVars
  BY <1>14 DEF storeVars
<1>15. QED
  BY <1>1, <1>2, <1>3, <1>4, <1>5, <1>6, <1>7, <1>8, <1>9, <1>10, <1>11, <1>12, <1>13,
     <1>14 DEF StoreNext

\* A sound file that is not encrypted is copied before it is replaced.
LEMMA BackupIsFreshKept ==
    ASSUME StoreAssumption, ~ Overlap, StoreInv, [StoreNext]_storeVars
    PROVE  BackupIsFresh'
<1> USE DEF StoreInv, StoreAssumption, StoreTypeOK, OneCall, CopyInHand, SoundDisk, BackupIsFresh,
            SameFile, Damaged, Idle, counters
<1>1. ASSUME NEW k \in Passphrases \union {None}, Load(k) PROVE BackupIsFresh'
  BY <1>1 DEF Load, ReadState
<1>2. ASSUME NEW d \in Edits, Edit(d) PROVE BackupIsFresh'
  BY <1>2 DEF Edit
<1>3. ASSUME NEW j \in Jobs, Save(j) PROVE BackupIsFresh'
  BY <1>3 DEF Save, StartWrite, MayStart
<1>4. ASSUME NEW j \in Jobs, NEW k \in Passphrases \union {None}, ToggleEncryption(j, k)
      PROVE BackupIsFresh'
  BY <1>4 DEF ToggleEncryption, StartWrite, MayStart
<1>5. ASSUME NEW j \in Jobs, NEW e \in Events, PostEvent(j, e) PROVE BackupIsFresh'
  BY <1>5 DEF PostEvent, StartWrite, MayStart
<1>6. ASSUME NEW j \in Jobs, VerifyPrimary(j) PROVE BackupIsFresh'
  BY <1>6 DEF VerifyPrimary, Verifies, Readable
<1>7. ASSUME NEW j \in Jobs, WriteBackup(j) PROVE BackupIsFresh'
  BY <1>7 DEF WriteBackup
<1>8. ASSUME NEW j \in Jobs, WritePrimary(j) PROVE BackupIsFresh'
  BY <1>8 DEF WritePrimary
<1>9. ASSUME NEW j \in Jobs, FailPrimary(j) PROVE BackupIsFresh'
  BY <1>9 DEF FailPrimary
<1>10. ASSUME NEW j \in Jobs, Commit(j) PROVE BackupIsFresh'
  BY <1>10 DEF Commit
<1>11. CASE ReceiveNotice
  BY <1>11 DEF ReceiveNotice
<1>12. ASSUME NEW how \in {"contents", "format"}, DamagePrimary(how) PROVE BackupIsFresh'
  BY <1>12 DEF DamagePrimary
<1>13. CASE Crash
  BY <1>13 DEF Crash
<1>14. CASE UNCHANGED storeVars
  BY <1>14 DEF storeVars
<1>15. QED
  BY <1>1, <1>2, <1>3, <1>4, <1>5, <1>6, <1>7, <1>8, <1>9, <1>10, <1>11, <1>12, <1>13,
     <1>14 DEF StoreNext

LEMMA StoreAtFirst == StoreAssumption /\ StoreInit => StoreTypeOK
BY DEF StoreInit, StoreTypeOK, Job, Idle, Workspace, Default, StoreAssumption

\* The workspace file, the copies and the calls keep their types, calls may overlap or not.
THEOREM StoreTypeCorrect == StoreAssumption => (StoreSpec => []StoreTypeOK)
<1> SUFFICES ASSUME StoreAssumption PROVE StoreSpec => []StoreTypeOK
  OBVIOUS
<1>1. StoreInit => StoreTypeOK
  BY StoreAtFirst
<1>2. StoreTypeOK /\ [StoreNext]_storeVars => StoreTypeOK'
  BY StoreTypeKept
<1>3. QED
  BY <1>1, <1>2, PTL DEF StoreSpec

\* The invariant the two theorems below rest on holds while calls do not overlap.
THEOREM StoreInvariant == StoreAssumption /\ ~ Overlap => (StoreSpec => []StoreInv)
<1> SUFFICES ASSUME StoreAssumption, ~ Overlap PROVE StoreSpec => []StoreInv
  OBVIOUS
<1>1. StoreInit => StoreInv
  BY DEF StoreInit, StoreInv, StoreTypeOK, Job, Idle, Workspace, Default, OneCall, CopiesAgree,
         CopyInHand,
         BackupBehind, BackupIsGood, SoundDisk, BackupIsFresh, StoreAssumption, Damaged
<1>2. StoreInv /\ [StoreNext]_storeVars => StoreInv'
  BY StoreTypeKept, OneCallKept, CopiesAgreeKept, CopyInHandKept, BackupBehindKept,
     SoundDiskKept, BackupIsFreshKept DEF StoreInv
<1>3. QED
  BY <1>1, <1>2, PTL DEF StoreSpec

\* An accepted event and a save that was answered stay in the workspace file, whatever
\* writes fail and whenever the program is killed, until the disk damages the file, if
\* calls of writeState do not overlap (main.js:174, 407).
THEOREM AcknowledgedIsKept == StoreAssumption /\ ~ Overlap => (StoreSpec => []AckedIsKept)
<1>1. StoreInv => AckedIsKept
  BY DEF StoreInv, SoundDisk, AckedIsKept
<1>2. QED
  BY <1>1, StoreInvariant, PTL

\* The backup is never damaged nor ahead of the primary file, and after the first damage
\* readState finds in it all that was in the file before the last one, however often the
\* program was killed in between (archiveVerifiedState and readState, main.js:56, 76).
THEOREM BackupIsWorthHaving == StoreAssumption /\ ~ Overlap => (StoreSpec => []BackupHelps)
<1> SUFFICES ASSUME StoreAssumption, ~ Overlap PROVE StoreSpec => []BackupHelps
  OBVIOUS
<1>1. StoreInv => BackupHelps
  <2> SUFFICES ASSUME StoreInv PROVE OneSaveBehind
    BY DEF BackupHelps, StoreInv, BackupBehind
  <2> SUFFICES ASSUME Damaged, damage = 1, faults = 0, primary.key = Plain,
                      previous # None, previous.key = Plain
               PROVE  \E s \in ReadState(None) : previous.state.items \subseteq s.items
    BY DEF OneSaveBehind
  <2>1. backup # None /\ (SameFile(backup, previous) \/ SameFile(backup, primary))
    BY DEF StoreInv, BackupIsFresh
  <2>2. previous.state.items \subseteq primary.state.items /\ primary # None
    BY DEF StoreInv, SoundDisk, Damaged
  <2>3. backup.damage = "none" /\ backup.key = Plain
    BY <2>1 DEF StoreInv, BackupBehind, BackupIsGood, SameFile
  <2>4. ReadState(None) = {backup.state}
    BY <2>1, <2>2, <2>3 DEF ReadState, Readable, IsLocked, Damaged
  <2>5. QED
    BY <2>1, <2>2, <2>4 DEF SameFile
<1>2. QED
  BY <1>1, StoreInvariant, PTL


-----------------------------------------------------------------------------
(* Managed worlds: the inductive invariant.                                *)

\* What an operation in progress knows of its directories: it copies to a target that
\* is not there, marks one that is, and can put back the archive it made.
OpInHand ==
    /\ op = NoOp <=> op.at = "idle"
    /\ op.at = "copy" => target = None /\ op.source \in World
    /\ op.at = "mark" => target \in World
    /\ op.kind = "replace" => op.archive \in archives

WorldInv == WorldTypeOK /\ OpInHand

-----------------------------------------------------------------------------
\* A copy leaves nothing behind, or a world.
LEMMA TornType ==
    ASSUME ManagedWorldAssumption, op.source \in World
    PROVE  Torn \subseteq World \union {None}
<1>1. \A m \in BOOLEAN : [op.source EXCEPT !.whole = FALSE, !.marked = m] \in World
  BY DEF World
<1>2. op.source.marked \in BOOLEAN
  BY DEF World
<1>3. QED
  BY <1>1, <1>2 DEF Torn

\* What a failed or interrupted operation leaves at the target: nothing or a world; in the
\* second step the world that was copied, marked or not.
LEMMA LeftoversType ==
    ASSUME ManagedWorldAssumption, WorldInv, op.at # "idle", NEW left \in Leftovers
    PROVE  /\ left \in World \union {None}
           /\ op.at = "copy" => target = None
           /\ op.at = "mark" => /\ target \in World /\ left \in World
                                /\ left.build = target.build /\ left.whole = target.whole
<1>1. CASE op.at = "copy"
  <2>1. left \in Torn
    BY <1>1 DEF Leftovers
  <2>2. QED
    BY <1>1, <2>1, TornType DEF WorldInv, OpInHand
<1>2. CASE op.at = "mark"
  <2>1. left \in {target, [target EXCEPT !.marked = FALSE]}
    BY <1>2 DEF Leftovers
  <2>2. target \in World
    BY <1>2 DEF WorldInv, OpInHand
  <2>3. QED
    BY <1>2, <2>1, <2>2 DEF World
<1>3. QED
  BY <1>1, <1>2 DEF WorldInv, WorldTypeOK

\* The world that an operation replaces is a marked one.
LEMMA ReplaceKeepsInv ==
    ASSUME ManagedWorldAssumption, WorldInv, NEW source \in World, Replace(source)
    PROVE  WorldInv'
<1>1. target \in World /\ target.marked
  BY DEF Replace, IsManaged, WorldInv, WorldTypeOK
<1>2. WorldTypeOK'
  BY <1>1 DEF Replace, WorldInv, WorldTypeOK
<1>3. OpInHand'
  BY <1>1 DEF Replace, OpInHand, NoOp
<1>4. QED
  BY <1>2, <1>3 DEF WorldInv

LEMMA WorldAtFirst == ManagedWorldAssumption /\ WorldInit => WorldInv
BY DEF WorldInit, WorldInv, WorldTypeOK, OpInHand, NoOp, World, ManagedWorldAssumption

LEMMA WorldKept ==
    ASSUME ManagedWorldAssumption, WorldInv, [WorldNext]_worldVars
    PROVE  WorldInv'
<1> USE DEF WorldInv
<1>1. CASE Play
  BY <1>1 DEF Play, AtRest, WorldTypeOK, OpInHand, NoOp, World, ManagedWorldAssumption
<1>2. CASE Install
  <2>1. Template \in World
    BY DEF Template, World, ManagedWorldAssumption
  <2>2. op' = [kind |-> "install", at |-> "copy", source |-> Template, archive |-> None]
    BY <1>2 DEF Install, NoOp
  <2>3. QED
    BY <1>2, <2>1, <2>2 DEF Install, WorldTypeOK, OpInHand, NoOp
<1>3. CASE Snapshot
  BY <1>3 DEF Snapshot, AtRest, IsManaged, WorldTypeOK, OpInHand, NoOp, ManagedWorldAssumption
<1>4. CASE Replace(Template)
  <2>1. Template \in World
    BY DEF Template, World, ManagedWorldAssumption
  <2>2. QED
    BY <1>4, <2>1, ReplaceKeepsInv
<1>5. ASSUME NEW s \in snapshots, Replace(s) PROVE WorldInv'
  BY <1>5, ReplaceKeepsInv DEF WorldTypeOK
<1>6. CASE Copy
  <2>1. op.source \in World /\ op # NoOp
    BY <1>6 DEF Copy, OpInHand
  <2>2. QED
    BY <1>6, <2>1 DEF Copy, WorldTypeOK, OpInHand, NoOp, ManagedWorldAssumption
<1>7. CASE Mark
  BY <1>7 DEF Mark, WorldTypeOK, OpInHand, NoOp, World, ManagedWorldAssumption
<1>8. CASE Fail
  <2>1. PICK left \in Leftovers : RolledBack(left)
    BY <1>8 DEF Fail
  <2>2. left \in World \union {None} /\ mishaps' \in 0 .. MaxMishaps
    BY <1>8, LeftoversType DEF Fail, WorldTypeOK, ManagedWorldAssumption
  <2>3. op.kind = "replace" => op.archive \in World
    BY DEF WorldTypeOK, OpInHand
  <2>4. target' \in World \union {None} /\ archives' \subseteq archives
    BY <2>1, <2>2, <2>3 DEF RolledBack
  <2>5. QED
    BY <1>8, <2>2, <2>4 DEF Fail, WorldTypeOK, OpInHand, NoOp
<1>9. CASE WorldCrash
  <2>1. PICK left \in Leftovers : target' = left
    BY <1>9 DEF WorldCrash
  <2>2. left \in World \union {None} /\ mishaps' \in 0 .. MaxMishaps
    BY <1>9, LeftoversType DEF WorldCrash, WorldTypeOK, ManagedWorldAssumption
  <2>3. QED
    BY <1>9, <2>1, <2>2 DEF WorldCrash, WorldTypeOK, OpInHand, NoOp
<1>10. CASE UNCHANGED worldVars
  BY <1>10 DEF worldVars, WorldTypeOK, OpInHand
<1>11. QED
  BY <1>1, <1>2, <1>3, <1>4, <1>5, <1>6, <1>7, <1>8, <1>9, <1>10 DEF WorldNext

\* Type correctness, with what an operation in progress relies on.
THEOREM WorldInvariant == ManagedWorldAssumption => (WorldSpec => []WorldInv)
<1> SUFFICES ASSUME ManagedWorldAssumption PROVE WorldSpec => []WorldInv
  OBVIOUS
<1>1. WorldInit => WorldInv
  BY WorldAtFirst
<1>2. WorldInv /\ [WorldNext]_worldVars => WorldInv'
  BY WorldKept
<1>3. QED
  BY <1>1, <1>2, PTL DEF WorldSpec

\* Every variable keeps to its set.
THEOREM WorldTypeCorrect == ManagedWorldAssumption => (WorldSpec => []WorldTypeOK)
<1>1. WorldInv => WorldTypeOK
  BY DEF WorldInv
<1>2. QED
  BY <1>1, WorldInvariant, PTL

-----------------------------------------------------------------------------
\* Reset, restore, their failures at any point and their rollback, and crashes destroy
\* nothing: a whole world that was at the target or in an archive still is, unless the
\* students have just gone on building in it (replaceManagedWorld, main.js).
THEOREM NothingIsDestroyed == ManagedWorldAssumption => (WorldSpec => NothingDestroyed)
<1> SUFFICES ASSUME ManagedWorldAssumption PROVE WorldSpec => NothingDestroyed
  OBVIOUS
<1> DEFINE A == Saved \ Saved' \subseteq (IF plays' > plays THEN {target.build} ELSE {})
<1>1. WorldInv /\ [WorldNext]_worldVars => [A]_worldVars
  <2> SUFFICES ASSUME WorldInv, WorldNext PROVE A
    OBVIOUS
  <2> USE DEF WorldInv
  <2>1. CASE Play
    <3>1. plays' > plays /\ target \in World /\ archives' = archives
      BY <2>1 DEF Play, WorldTypeOK
    <3>2. QED
      BY <3>1 DEF Saved
  <2>2. CASE Install \/ Snapshot
    BY <2>2 DEF Install, Snapshot, Saved
  <2>3. ASSUME NEW s \in World, Replace(s) PROVE A
    BY <2>3 DEF Replace, Saved
  <2>4. CASE Copy
    BY <2>4 DEF Copy, OpInHand, Saved
  <2>5. CASE Mark
    <3>1. /\ target \in World /\ target' \in World /\ archives' = archives
          /\ target'.build = target.build /\ target'.whole = target.whole
      BY <2>5 DEF Mark, OpInHand, World
    <3>2. QED
      BY <3>1 DEF Saved, ManagedWorldAssumption
  <2>6. CASE Fail \/ WorldCrash
    <3>1. PICK left \in Leftovers : RolledBack(left) \/ (target' = left /\ archives' = archives)
      BY <2>6 DEF Fail, WorldCrash
    <3>2. op.at # "idle"
      BY <2>6 DEF Fail, WorldCrash
    <3>3. CASE op.at = "mark"
      <4>1. /\ target \in World /\ left \in World /\ left # None
            /\ left.build = target.build /\ left.whole = target.whole
        BY <3>2, <3>3, LeftoversType DEF ManagedWorldAssumption
      <4>2. target' = left /\ archives' = archives
        BY <3>1, <4>1 DEF RolledBack
      <4>3. QED
        BY <4>1, <4>2 DEF Saved, ManagedWorldAssumption
    <3>4. CASE op.at = "copy"
      <4>1. target = None
        BY <3>2, <3>4, LeftoversType
      <4>2. CASE archives' = archives
        BY <4>1, <4>2 DEF Saved
      <4>3. CASE target' = op.archive /\ archives' = archives \ {op.archive} /\ op.kind = "replace"
        <5>1. op.archive \in World
          BY <4>3 DEF WorldTypeOK, OpInHand
        <5>2. QED
          BY <4>1, <4>3, <5>1 DEF Saved, ManagedWorldAssumption
      <4>4. QED
        BY <3>1, <4>2, <4>3 DEF RolledBack
    <3>5. QED
      BY <3>2, <3>3, <3>4 DEF WorldTypeOK
  <2>7. Template \in World /\ snapshots \subseteq World
    BY DEF Template, World, WorldTypeOK, ManagedWorldAssumption
  <2>8. QED
    BY <2>1, <2>2, <2>3, <2>4, <2>5, <2>6, <2>7 DEF WorldNext
<1>2. QED
  BY <1>1, WorldInvariant, PTL DEF WorldSpec, NothingDestroyed


-----------------------------------------------------------------------------
(* All three parts.                                                        *)

StorageInv == ObjectsInv /\ StoreTypeOK /\ WorldInv

\* What the three parts rely on holds in every behaviour of the run `storage'.
THEOREM StorageInvariant == StorageSpec => []StorageInv
<1>1. StorageInit => StorageInv
  BY ObjectsAtFirst, StoreAtFirst, WorldAtFirst, StorageAssumption DEF StorageInit, StorageInv
<1>2. StorageInv /\ [StorageNext]_allVars => StorageInv'
  <2> SUFFICES ASSUME StorageInv, [StorageNext]_allVars PROVE StorageInv'
    OBVIOUS
  <2>1. [Next]_vars /\ [StoreNext]_storeVars /\ [WorldNext]_worldVars
    BY DEF StorageNext, allVars
  <2>2. ObjectsInv'
    BY <2>1, ObjectsKept DEF StorageInv
  <2>3. StoreTypeOK'
    BY <2>1, StoreTypeKept, StorageAssumption DEF StorageInv
  <2>4. WorldInv'
    BY <2>1, WorldKept, StorageAssumption DEF StorageInv
  <2>5. QED
    BY <2>2, <2>3, <2>4 DEF StorageInv
<1>3. QED
  BY <1>1, <1>2, PTL DEF StorageSpec

\* Blocks, rows, objects, workspace files, calls, worlds and operations keep their types.
THEOREM StorageTypeCorrect == StorageSpec => []StorageTypeOK
<1>1. StorageInv => StorageTypeOK
  BY InvariantSays DEF StorageInv, WorldInv, StorageTypeOK
<1>2. QED
  BY <1>1, StorageInvariant, PTL
=============================================================================
