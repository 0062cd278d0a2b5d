------------------------ MODULE BlockTransferProofs ------------------------
(***************************************************************************)
(* Proofs about BlockTransfer, for any number of blocks and any limits:    *)
(* what the server notes of a client is true of it, and once nothing is on *)
(* its way the client shows a sent block as the server has it, unless news *)
(* of it has been in both channels at once.                                *)
(***************************************************************************)
EXTENDS BlockTransfer, FiniteSetTheorems, WellFoundedInduction, TLAPS

-----------------------------------------------------------------------------
(* The inductive invariant.                                                *)

RC == [sending : SUBSET Blocks, sent : SUBSET Blocks, occ : SUBSET Blocks,
       nearest : 0..(FullD + 1), paused : BOOLEAN]

BulkFor(b) == \E i \in DOMAIN bulk : bulk[i].b = b
ChangesFor(b) == \E i \in DOMAIN changes : changes[i].b = b

\* Nothing concerns a block that has not been made.
OnlyMadeBlocks ==
    /\ \A b \in queued : world[b] = None
    /\ \A b \in rc.sending \union rc.sent : world[b] # None
    /\ \A i \in DOMAIN bulk : world[bulk[i].b] # None
    /\ \A i \in DOMAIN digs : world[digs[i].b] # None
    /\ \A b \in Blocks : copy[b] # None => world[b] # None

\* An event is left for every version to come.
VersionsLeft ==
    /\ left + Len(digs) <= MaxEvents
    /\ \A b \in Blocks : \A n \in Nodes :
           world[b] # None => world[b][n] + left + Len(digs) <= MaxEvents

Ground == TypeOK /\ OnlyMadeBlocks /\ VersionsLeft

\* A block the client has to acknowledge it has, and after what it has acknowledged comes
\* the report that it has dropped it.
ReportsAreTrue ==
    /\ \A b \in Blocks : owed[b] > 0 => copy[b] # None
    /\ \A i \in DOMAIN reports :
           \/ copy[reports[i].b] # None
           \/ \E j \in DOMAIN reports : /\ j >= i
                                      /\ reports[j] = [type |-> "deleted", b |-> reports[i].b]

\* With it, BooksAreRight.
Books ==
    /\ ReportsAreTrue
    /\ \A b \in rc.sent : copy[b] # None \/ BulkFor(b) \/ Reported("deleted", b)
    /\ \A b \in rc.sending : BulkFor(b) \/ owed[b] > 0 \/ Reported("got", b)

\* Where news of a block is in both channels is noted.
CrossedIsNoted == \A b \in Blocks \ crossed : ~BulkFor(b) \/ ~ChangesFor(b)

Concerns(s, i, b, n) == i \in DOMAIN s /\ s[i].b = b /\ s[i].n = n

\* The last of the messages, or edits, in s that concern a node.
IsLast(s, i, b, n) == Concerns(s, i, b, n) /\ \A j \in DOMAIN s : Concerns(s, j, b, n) => j <= i

IsLastBulk(i, b) ==
    /\ i \in DOMAIN bulk /\ bulk[i].b = b
    /\ \A j \in DOMAIN bulk : bulk[j].b = b => j <= i

\* The last queued edit of a node is what the node has become, unless its whole block has
\* been edited.
EditsAreNews ==
    \A i \in DOMAIN edits :
        \A n \in Nodes : IsLast(edits, i, edits[i].b, n) =>
            \/ edits[i].v = world[edits[i].b][n]
            \/ \E j \in DOMAIN edits : Concerns(edits, j, edits[i].b, None)

\* Nothing is still to be told to the client of a node.
IsTold(b, n) ==
    /\ ~Reported("deleted", b)
    /\ \A i \in DOMAIN edits : ~Concerns(edits, i, b, None) /\ ~Concerns(edits, i, b, n)
    /\ \A i \in DOMAIN digs : ~Concerns(digs, i, b, n)

\* What the client has at last, when all has arrived, is the node as the server has it.
WillShow(b, n) ==
    /\ \A i \in DOMAIN bulk : IsLastBulk(i, b) => bulk[i].c[n] = world[b][n]
    /\ ~BulkFor(b) =>
           /\ \A i \in DOMAIN changes : IsLast(changes, i, b, n) => changes[i].v = world[b][n]
           /\ (\A i \in DOMAIN changes : ~Concerns(changes, i, b, n)) => copy[b][n] = world[b][n]

Noted == rc.sending \union rc.sent

ToldIsShown ==
    \A b \in Noted \ crossed : \A n \in Nodes : IsTold(b, n) => WillShow(b, n)

IInv ==
    /\ TypeOK /\ OnlyMadeBlocks /\ VersionsLeft
    /\ Books
    /\ CrossedIsNoted /\ EditsAreNews /\ ToldIsShown

-----------------------------------------------------------------------------
(* Sets of numbers.                                                        *)

\* A set of natural numbers has a least one.
LEMMA LeastOne ==
    ASSUME NEW N \in SUBSET Nat, N # {}
    PROVE  \E m \in N : \A k \in N : m <= k
<1> DEFINE UpTo == {1 .. n : n \in N}
           Less == StrictSubsetOrdering(Nat)
<1>1. UpTo \subseteq FiniteSubsetsOf(Nat) /\ UpTo # {}
  <2>1. ASSUME NEW n \in N PROVE 1 .. n \in SUBSET Nat /\ IsFiniteSet(1 .. n)
    BY FS_Interval
  <2>2. QED
    BY <2>1 DEF FiniteSubsetsOf
<1>2. PICK S \in UpTo : \A T \in UpTo : <<T, S>> \notin Less
  <2>1. IsWellFoundedOn(Less, FiniteSubsetsOf(Nat))
    BY FS_StrictSubsetOrderingWellFounded
  <2>2. QED
    BY <1>1, <2>1, WFMin
<1>3. PICK m \in N : S = 1 .. m
  BY <1>2
<1>4. ASSUME NEW k \in N, k < m PROVE FALSE
  <2>1. 1 .. k \subseteq 1 .. m /\ 1 .. k # 1 .. m
    BY <1>4
  <2>2. <<1 .. k, 1 .. m>> \in Less
    BY <2>1 DEF StrictSubsetOrdering
  <2>3. QED
    BY <1>2, <1>3, <2>2
<1>5. QED
  BY <1>4

-----------------------------------------------------------------------------
(* SendEdits tells the edits one after the other.                          *)

Untold == [rc |-> rc, changes |-> changes]

Greatest(s) == CHOOSE x \in s : \A y \in s : x >= y

\* The equation by which a fold over the indices in S is defined.
TellsAll(iter, S) ==
    iter = [s \in SUBSET S |->
               IF s = {} THEN Untold
               ELSE SendChange(iter[s \ {Greatest(s)}], edits[Greatest(s)])]

LEMMA GreatestLast ==
    ASSUME NEW m \in Nat, NEW s \in SUBSET (1 .. m + 1), m + 1 \in s
    PROVE  Greatest(s) = m + 1
<1>1. \A y \in s : m + 1 >= y
  OBVIOUS
<1>2. \A x \in s : (\A y \in s : x >= y) => x = m + 1
  OBVIOUS
<1>3. QED
  BY <1>1, <1>2 DEF Greatest

LEMMA GreatestIn ==
    ASSUME NEW m \in Nat, NEW s \in SUBSET (1 .. m), s # {}
    PROVE  Greatest(s) \in s
<1> DEFINE N == {k \in Nat : \A y \in s : k >= y}
<1>1. m \in N
  OBVIOUS
<1>2. PICK k \in N : \A j \in N : k <= j
  BY <1>1, LeastOne
<1>3. k \in s
  <2>1. SUFFICES ASSUME k \notin s PROVE FALSE
    OBVIOUS
  <2>2. k > 0 /\ k - 1 \in Nat
    <3>1. PICK y \in s : k >= y
      BY <1>2
    <3>2. QED
      BY <3>1
  <2>3. \A y \in s : k - 1 >= y
    <3>1. \A y \in s : y \in Int /\ k >= y /\ y # k
      BY <1>2, <2>1
    <3>2. QED
      BY <1>2, <3>1
  <2>4. QED
    BY <2>2, <2>3, <1>2
<1>4. QED
  BY <1>2, <1>3 DEF Greatest

LEMMA FoldExists ==
    ASSUME NEW m \in Nat
    PROVE  \E iter : TellsAll(iter, 1 .. m)
<1> DEFINE Bad == {k \in Nat : ~ \E iter : TellsAll(iter, 1 .. k)}
<1>1. SUFFICES ASSUME Bad # {} PROVE FALSE
  OBVIOUS
<1>2. PICK k \in Bad : \A j \in Bad : k <= j
  BY <1>1, LeastOne
<1>3. CASE k = 0
  <2> DEFINE first == [s \in SUBSET (1 .. 0) |-> Untold]
  <2>1. SUBSET (1 .. 0) = {{}}
    OBVIOUS
  <2>2. TellsAll(first, 1 .. 0)
    BY <2>1 DEF TellsAll
  <2>3. QED
    BY <1>2, <1>3, <2>2
<1>4. CASE k > 0
  <2> DEFINE j == k - 1
  <2>1. j \in Nat /\ k = j + 1 /\ j \notin Bad
    BY <1>2, <1>4
  <2>2. PICK iter : TellsAll(iter, 1 .. j)
    BY <2>1
  <2> DEFINE next == [s \in SUBSET (1 .. k) |->
                         IF k \in s THEN SendChange(iter[s \ {k}], edits[k]) ELSE iter[s]]
  <2>3. ASSUME NEW s \in SUBSET (1 .. k)
        PROVE  next[s] = IF s = {} THEN Untold
                         ELSE SendChange(next[s \ {Greatest(s)}], edits[Greatest(s)])
    <3>1. CASE k \in s
      <4>1. Greatest(s) = k
        BY <2>1, <3>1, GreatestLast
      <4>2. s \ {k} \in SUBSET (1 .. k) /\ k \notin s \ {k}
        OBVIOUS
      <4>3. next[s \ {k}] = iter[s \ {k}]
        BY <4>2
      <4>4. QED
        BY <3>1, <4>1, <4>3
    <3>2. CASE k \notin s
      <4>1. s \in SUBSET (1 .. j)
        BY <2>1, <3>2
      <4>2. iter[s] = IF s = {} THEN Untold
                      ELSE SendChange(iter[s \ {Greatest(s)}], edits[Greatest(s)])
        BY <4>1, <2>2 DEF TellsAll
      <4>3. s # {} => Greatest(s) \in s
        BY <4>1, <2>1, GreatestIn
      <4>4. s \ {Greatest(s)} \in SUBSET (1 .. k) /\ k \notin s \ {Greatest(s)}
        BY <3>2
      <4>5. next[s] = iter[s] /\ next[s \ {Greatest(s)}] = iter[s \ {Greatest(s)}]
        BY <3>2, <4>4
      <4>6. QED
        BY <4>2, <4>5
    <3>3. QED
      BY <3>1, <3>2
  <2>4. TellsAll(next, 1 .. k)
    <3> HIDE DEF next
    <3> DEFINE rhs == [s \in SUBSET (1 .. k) |->
                          IF s = {} THEN Untold
                          ELSE SendChange(next[s \ {Greatest(s)}], edits[Greatest(s)])]
    <3>1. \A s \in SUBSET (1 .. k) : next[s] = rhs[s]
      BY <2>3
    <3>2. DOMAIN next = SUBSET (1 .. k) /\ next = [s \in SUBSET (1 .. k) |-> next[s]]
      BY DEF next
    <3>3. next = rhs
      BY <3>1, <3>2
    <3>4. QED
      BY <3>3 DEF TellsAll
  <2>5. QED
    BY <1>2, <2>4
<1>5. QED
  BY <1>2, <1>3, <1>4

LEMMA FoldIs ==
    ASSUME DOMAIN edits = 1 .. Len(edits), Len(edits) \in Nat
    PROVE  \E iter : /\ TellsAll(iter, 1 .. Len(edits))
                     /\ FoldLeft(SendChange, Untold, edits) = iter[1 .. Len(edits)]
<1> DEFINE it == CHOOSE iter : TellsAll(iter, 1 .. Len(edits))
<1>1. TellsAll(it, 1 .. Len(edits))
  BY FoldExists
<1>2. FoldLeft(SendChange, Untold, edits) = it[1 .. Len(edits)]
  BY DEF FoldLeft, MapThenFoldSet, TellsAll, Max, Greatest
<1>3. QED
  BY <1>1, <1>2

\* The states that telling the edits one after the other goes through.
LEMMA ToldInOrder ==
    ASSUME TypeOK
    PROVE  \E told : /\ told[0] = Untold
                     /\ \A k \in 1 .. Len(edits) : told[k] = SendChange(told[k - 1], edits[k])
                     /\ FoldLeft(SendChange, Untold, edits) = told[Len(edits)]
<1>1. DOMAIN edits = 1 .. Len(edits) /\ Len(edits) \in Nat
  BY DEF TypeOK
<1>2. PICK iter : /\ TellsAll(iter, 1 .. Len(edits))
                  /\ FoldLeft(SendChange, Untold, edits) = iter[1 .. Len(edits)]
  BY <1>1, FoldIs
<1> DEFINE told == [k \in 0 .. Len(edits) |-> iter[1 .. k]]
<1>3. told[0] = Untold
  <2>1. 1 .. 0 = {} /\ {} \in SUBSET (1 .. Len(edits))
    OBVIOUS
  <2>2. iter[{}] = Untold
    BY <1>2, <2>1 DEF TellsAll
  <2>3. QED
    BY <1>1, <2>1, <2>2
<1>4. ASSUME NEW k \in 1 .. Len(edits)
      PROVE  told[k] = SendChange(told[k - 1], edits[k])
  <2>1. 1 .. k \in SUBSET (1 .. Len(edits)) /\ 1 .. k # {} /\ k - 1 \in 0 .. Len(edits)
    BY <1>1
  <2>2. Greatest(1 .. k) = k
    <3> DEFINE m == k - 1
    <3>1. m \in Nat /\ k = m + 1 /\ 1 .. k \in SUBSET (1 .. m + 1) /\ m + 1 \in 1 .. k
      BY <1>1
    <3> HIDE DEF m
    <3>2. Greatest(1 .. k) = m + 1
      BY <3>1, GreatestLast
    <3>3. QED
      BY <3>1, <3>2
  <2>3. (1 .. k) \ {k} = 1 .. k - 1
    BY <1>1
  <2>4. iter[1 .. k] = SendChange(iter[(1 .. k) \ {Greatest(1 .. k)}], edits[Greatest(1 .. k)])
    BY <1>2, <2>1 DEF TellsAll
  <2>5. iter[1 .. k] = SendChange(iter[1 .. k - 1], edits[k])
    BY <2>2, <2>3, <2>4, Zenon
  <2>6. told[k] = iter[1 .. k] /\ told[k - 1] = iter[1 .. k - 1]
    BY <1>1, <2>1
  <2>7. QED
    BY <2>5, <2>6, Zenon
<1>5. told[Len(edits)] = iter[1 .. Len(edits)]
  BY <1>1
<1>6. QED
  BY <1>2, <1>3, <1>4, <1>5

-----------------------------------------------------------------------------
(* Operators on the server's record of a client.                           *)

LEMMA DistInRange ==
    ASSUME NEW b \in Blocks
    PROVE  Dist[b] \in 0 .. FullD /\ FullD \in Nat
BY DistancesDiffer, BlocksAssumption

\* SetBlockNotSent forgets one block and nothing else.
LEMMA NotSentForgets ==
    ASSUME NEW c \in RC, NEW b \in Blocks, NEW low
    PROVE  /\ SetBlockNotSent(c, b, low) \in RC
           /\ SetBlockNotSent(c, b, low).sending = c.sending \ {b}
           /\ SetBlockNotSent(c, b, low).sent = c.sent \ {b}
<1>1. c.nearest \in 0 .. FullD + 1 /\ Dist[b] \in 0 .. FullD /\ FullD \in Nat
  BY DistInRange DEF RC
<1>2. Min({c.nearest, Dist[b]}) \in 0 .. FullD + 1
  BY <1>1 DEF Min
<1> DEFINE near == Min({c.nearest, Dist[b]})
           d == SetBlockNotSent(c, b, low)
<1> HIDE DEF near
<1>3. CASE b \in c.sending \union c.sent
  <2>1. d = [c EXCEPT !.paused = FALSE, !.sending = @ \ {b}, !.sent = @ \ {b},
                      !.nearest = IF low /\ Dist[b] >= CullDistance THEN @ ELSE near]
    BY <1>3 DEF SetBlockNotSent, near
  <2>2. QED
    BY <1>1, <1>2, <2>1 DEF RC, near
<1>4. CASE b \notin c.sending \union c.sent
  <2>1. c.sending \ {b} = c.sending /\ c.sent \ {b} = c.sent
    BY <1>4
  <2>2. d = [c EXCEPT !.paused = FALSE]
    BY <1>4 DEF SetBlockNotSent
  <2>3. QED
    BY <2>1, <2>2 DEF RC
<1>5. QED
  BY <1>3, <1>4

LEMMA ForgetNow ==
    ASSUME NEW c \in RC, NEW b \in Blocks
    PROVE  /\ SetBlockNotSent(c, b, FALSE) \in RC
           /\ SetBlockNotSent(c, b, FALSE).sending = c.sending \ {b}
           /\ SetBlockNotSent(c, b, FALSE).sent = c.sent \ {b}
BY NotSentForgets, Zenon

LEMMA ResendForgets ==
    ASSUME NEW c \in RC, NEW b \in Blocks
    PROVE  /\ ResendBlockIfOnWire(c, b) \in RC
           /\ ResendBlockIfOnWire(c, b).sending \subseteq c.sending
           /\ ResendBlockIfOnWire(c, b).sent \subseteq c.sent
<1>1. CASE b \in c.sending
  <2> DEFINE d == SetBlockNotSent(c, b, FALSE)
  <2>1. d \in RC /\ d.sending = c.sending \ {b} /\ d.sent = c.sent \ {b}
    BY ForgetNow
  <2>2. ResendBlockIfOnWire(c, b) = d
    BY <1>1 DEF ResendBlockIfOnWire
  <2>3. QED
    BY <2>1, <2>2
<1>2. CASE b \notin c.sending
  BY <1>2 DEF ResendBlockIfOnWire
<1>3. QED
  BY <1>1, <1>2

LEMMA GotKeeps ==
    ASSUME NEW c \in RC, NEW b \in Blocks
    PROVE  /\ GotBlock(c, b) \in RC
           /\ GotBlock(c, b).sending = c.sending \ {b}
           /\ GotBlock(c, b).sent \subseteq c.sent \union {b}
           /\ GotBlock(c, b).sending \union GotBlock(c, b).sent = c.sending \union c.sent
BY DEF GotBlock, RC

-----------------------------------------------------------------------------
(* What is left of the record, and what has been told, after all edits.    *)

News == [b : Blocks, n : Nodes \union {None}, v : Versions, low : BOOLEAN]
Change == [b : Blocks, n : Nodes, v : Versions]
Told == [rc : RC, changes : Seq(Change)]

ChangeOf(e) == [b |-> e.b, n |-> e.n, v |-> e.v]

\* One edit is told as a change of a node, or the block is forgotten.
LEMMA OneEditTold ==
    ASSUME NEW acc \in Told, NEW e \in News
    PROVE  /\ SendChange(acc, e) \in Told
           /\ \/ /\ e.n \in Nodes /\ SendChange(acc, e).rc = acc.rc
                 /\ SendChange(acc, e).changes = Append(acc.changes, ChangeOf(e))
              \/ /\ SendChange(acc, e).changes = acc.changes
                 /\ SendChange(acc, e).rc.sending = acc.rc.sending \ {e.b}
                 /\ SendChange(acc, e).rc.sent = acc.rc.sent \ {e.b}
<1> DEFINE forget == e.n = None \/ e.b \notin acc.rc.sent \/ OutOfRange(e.b)
<1>1. CASE forget
  <2> DEFINE d == SetBlockNotSent(acc.rc, e.b, e.low)
  <2>1. acc.rc \in RC /\ e.b \in Blocks
    BY DEF Told, News
  <2>2. d \in RC /\ d.sending = acc.rc.sending \ {e.b} /\ d.sent = acc.rc.sent \ {e.b}
    BY <2>1, NotSentForgets
  <2> HIDE DEF d
  <2>3. SendChange(acc, e) = [acc EXCEPT !.rc = d]
    BY <1>1 DEF SendChange, d
  <2>4. QED
    BY <2>2, <2>3 DEF Told
<1>2. CASE ~forget
  <2>1. SendChange(acc, e) = [acc EXCEPT !.changes = Append(@, ChangeOf(e))]
    BY <1>2 DEF SendChange, ChangeOf
  <2>2. e.n \in Nodes /\ ChangeOf(e) \in Change
    BY <1>2 DEF News, Change, ChangeOf
  <2>3. acc.changes \in Seq(Change)
    BY DEF Told
  <2>4. Append(acc.changes, ChangeOf(e)) \in Seq(Change)
    BY <2>2, <2>3
  <2>5. QED
    BY <2>1, <2>2, <2>4 DEF Told
<1>3. QED
  BY <1>1, <1>2

\* Index j is that of the last edit of a node among the first k.
LastUpTo(k, j, b, n) ==
    /\ j \in 1 .. k /\ edits[j].b = b /\ edits[j].n = n
    /\ \A i \in 1 .. k : edits[i].b = b /\ edits[i].n = n => i <= j

\* After k edits: no block is noted that was not; the changes told before are there still,
\* and after them only edits; a block that is still noted has not been edited as a whole,
\* and of each of its nodes the last edit has been told, and nothing after it.
ToldRight(acc, k) ==
    /\ acc \in Told
    /\ acc.rc.sending \subseteq rc.sending /\ acc.rc.sent \subseteq rc.sent
    /\ Len(changes) <= Len(acc.changes)
    /\ \A i \in 1 .. Len(changes) : acc.changes[i] = changes[i]
    /\ \A i \in (Len(changes) + 1) .. Len(acc.changes) :
           \E j \in 1 .. k : acc.changes[i] = ChangeOf(edits[j])
    /\ \A b \in acc.rc.sending \union acc.rc.sent :
           /\ \A j \in 1 .. k : edits[j].b = b => edits[j].n # None
           /\ \A n \in Nodes : \A j \in 1 .. k : LastUpTo(k, j, b, n) =>
                  \E i \in (Len(changes) + 1) .. Len(acc.changes) :
                      /\ acc.changes[i] = ChangeOf(edits[j])
                      /\ IsLast(acc.changes, i, b, n)

LEMMA ToldRightStep ==
    ASSUME TypeOK, NEW k \in 1 .. Len(edits), NEW acc, ToldRight(acc, k - 1)
    PROVE  ToldRight(SendChange(acc, edits[k]), k)
<1> DEFINE e == edits[k]
           next == SendChange(acc, e)
<1>1. e \in News /\ Len(edits) \in Nat /\ k \in Nat /\ k >= 1
  <2>1. edits \in Seq(News)
    BY DEF TypeOK, News
  <2>2. QED
    BY <2>1
<1>2. acc \in Told
  BY DEF ToldRight
<1>3. Len(changes) \in Nat /\ changes \in Seq(Change)
  BY DEF TypeOK, Change
<1>4. Len(acc.changes) \in Nat /\ acc.changes \in Seq(Change)
      /\ DOMAIN acc.changes = 1 .. Len(acc.changes)
  BY <1>2 DEF Told
<1>5. next \in Told
  BY <1>1, <1>2, OneEditTold
<1>6. CASE /\ e.n \in Nodes /\ next.rc = acc.rc
           /\ next.changes = Append(acc.changes, ChangeOf(e))
  <2> HIDE DEF e, next
  <2> DEFINE l == Len(acc.changes) + 1
  <2>1. /\ DOMAIN next.changes = 1 .. l /\ Len(next.changes) = l
        /\ next.changes[l] = ChangeOf(e)
        /\ \A i \in 1 .. Len(acc.changes) : next.changes[i] = acc.changes[i]
    BY <1>4, <1>6
  <2> HIDE DEF l
  <2>2. l \in Nat /\ l = Len(acc.changes) + 1 /\ l > Len(changes)
    BY <1>3, <1>4 DEF l, ToldRight
  <2>3. ASSUME NEW i \in 1 .. Len(changes)
        PROVE  next.changes[i] = changes[i]
    <3>1. i \in 1 .. Len(acc.changes)
      BY <2>2, <1>3, <1>4
    <3>2. acc.changes[i] = changes[i]
      BY DEF ToldRight
    <3>3. next.changes[i] = acc.changes[i]
      BY <2>1, <3>1, Zenon
    <3>4. QED
      BY <3>2, <3>3, Zenon
  <2>4. ASSUME NEW i \in (Len(changes) + 1) .. Len(next.changes)
        PROVE  \E j \in 1 .. k : next.changes[i] = ChangeOf(edits[j])
    <3>1. CASE i = l
      BY <3>1, <2>1, <1>1 DEF e
    <3>2. CASE i # l
      <4>1. i \in (Len(changes) + 1) .. Len(acc.changes) /\ i \in 1 .. Len(acc.changes)
        BY <3>2, <2>1, <2>2, <1>3, <1>4
      <4>2. PICK j \in 1 .. k - 1 : acc.changes[i] = ChangeOf(edits[j])
        BY <4>1 DEF ToldRight
      <4>3. j \in 1 .. k /\ next.changes[i] = acc.changes[i]
        BY <4>1, <2>1, <1>1
      <4>4. QED
        BY <4>2, <4>3
    <3>3. QED
      BY <3>1, <3>2
  <2>5. ASSUME NEW b \in next.rc.sending \union next.rc.sent, NEW j \in 1 .. k, edits[j].b = b
        PROVE  edits[j].n # None
    <3>1. CASE j = k
      BY <3>1, <1>6, BlocksAssumption DEF e
    <3>2. CASE j # k
      <4>1. j \in 1 .. k - 1
        BY <3>2, <1>1
      <4>2. QED
        BY <4>1, <2>5, <1>6 DEF ToldRight
    <3>3. QED
      BY <3>1, <3>2
  <2>6. ASSUME NEW b \in next.rc.sending \union next.rc.sent, NEW n \in Nodes,
               NEW j \in 1 .. k, LastUpTo(k, j, b, n)
        PROVE  \E i \in (Len(changes) + 1) .. Len(next.changes) :
                   /\ next.changes[i] = ChangeOf(edits[j])
                   /\ IsLast(next.changes, i, b, n)
    <3>1. CASE e.b = b /\ e.n = n
      <4>1. j = k
        BY <3>1, <2>6, <1>1 DEF LastUpTo, e
      <4>2. IsLast(next.changes, l, b, n)
        BY <3>1, <2>1, <2>2 DEF IsLast, Concerns, ChangeOf
      <4>3. l \in (Len(changes) + 1) .. Len(next.changes)
        BY <2>1, <2>2, <1>3
      <4>4. QED
        BY <4>1, <4>2, <4>3, <2>1 DEF e
    <3>2. CASE ~(e.b = b /\ e.n = n)
      <4>1. j # k /\ j \in 1 .. k - 1
        BY <3>2, <2>6, <1>1 DEF LastUpTo, e
      <4>2. LastUpTo(k - 1, j, b, n)
        BY <4>1, <2>6, <1>1 DEF LastUpTo
      <4>3. PICK i \in (Len(changes) + 1) .. Len(acc.changes) :
                /\ acc.changes[i] = ChangeOf(edits[j])
                /\ IsLast(acc.changes, i, b, n)
        BY <4>1, <4>2, <1>6 DEF ToldRight
      <4>4. i \in 1 .. Len(acc.changes) /\ i \in (Len(changes) + 1) .. Len(next.changes)
        <5>1. Len(next.changes) = Len(acc.changes) + 1
          BY <2>1, <2>2, Zenon
        <5>2. QED
          BY <4>3, <5>1, <1>3, <1>4
      <4>5. ~Concerns(next.changes, l, b, n)
        BY <3>2, <2>1 DEF Concerns, ChangeOf
      <4>6. \A m \in DOMAIN next.changes : m # l => m \in 1 .. Len(acc.changes)
        BY <2>1, <2>2, <1>4
      <4>7. Concerns(next.changes, i, b, n)
        <5>1. Concerns(acc.changes, i, b, n)
          BY <4>3 DEF IsLast
        <5>2. next.changes[i] = acc.changes[i]
          BY <4>4, <2>1, Zenon
        <5>3. i \in DOMAIN next.changes
          BY <4>4, <2>1, <2>2, <1>4
        <5>4. QED
          BY <5>1, <5>2, <5>3, Zenon DEF Concerns
      <4>8. ASSUME NEW m \in DOMAIN next.changes, Concerns(next.changes, m, b, n)
            PROVE  m <= i
        <5>1. m # l
          BY <4>5, <4>8
        <5>2. m \in DOMAIN acc.changes /\ next.changes[m] = acc.changes[m]
          BY <5>1, <4>6, <2>1, <1>4
        <5>3. Concerns(acc.changes, m, b, n)
          BY <5>2, <4>8 DEF Concerns
        <5>4. QED
          BY <5>2, <5>3, <4>3 DEF IsLast
      <4>9. QED
        BY <4>3, <4>4, <4>7, <4>8, <2>1 DEF IsLast
    <3>3. QED
      BY <3>1, <3>2
  <2>7. Len(changes) <= Len(next.changes)
    BY <2>1, <2>2, <1>3
  <2>8. next.rc.sending \subseteq rc.sending /\ next.rc.sent \subseteq rc.sent
    BY <1>6 DEF ToldRight
  <2>9. ToldRight(next, k)
    BY <1>5, <2>3, <2>4, <2>5, <2>6, <2>7, <2>8 DEF ToldRight
  <2>10. QED
    BY <2>9 DEF next, e
<1>7. CASE /\ next.changes = acc.changes
           /\ next.rc.sending = acc.rc.sending \ {e.b}
           /\ next.rc.sent = acc.rc.sent \ {e.b}
  <2> HIDE DEF e, next
  <2>1. \A i \in (Len(changes) + 1) .. Len(next.changes) :
           \E j \in 1 .. k : next.changes[i] = ChangeOf(edits[j])
    <3>1. \A i \in (Len(changes) + 1) .. Len(next.changes) :
             \E j \in 1 .. k - 1 : next.changes[i] = ChangeOf(edits[j])
      BY <1>7 DEF ToldRight
    <3>2. \A j \in 1 .. k - 1 : j \in 1 .. k
      BY <1>1
    <3>3. QED
      BY <3>1, <3>2
  <2>2. ASSUME NEW b \in next.rc.sending \union next.rc.sent, NEW j \in 1 .. k, edits[j].b = b
        PROVE  j \in 1 .. k - 1 /\ b \in acc.rc.sending \union acc.rc.sent
    BY <2>2, <1>7, <1>1 DEF e
  <2>3. ASSUME NEW b \in next.rc.sending \union next.rc.sent, NEW n \in Nodes,
               NEW j \in 1 .. k, LastUpTo(k, j, b, n)
        PROVE  \E i \in (Len(changes) + 1) .. Len(next.changes) :
                   /\ next.changes[i] = ChangeOf(edits[j])
                   /\ IsLast(next.changes, i, b, n)
    <3>1. j \in 1 .. k - 1 /\ b \in acc.rc.sending \union acc.rc.sent
      BY <2>2, <2>3 DEF LastUpTo
    <3>2. LastUpTo(k - 1, j, b, n)
      BY <3>1, <2>3, <1>1 DEF LastUpTo
    <3>3. QED
      BY <3>1, <3>2, <1>7 DEF ToldRight
  <2>4. \A b \in next.rc.sending \union next.rc.sent :
            \A j \in 1 .. k : edits[j].b = b => edits[j].n # None
    BY <2>2 DEF ToldRight
  <2>5. /\ next.rc.sending \subseteq rc.sending /\ next.rc.sent \subseteq rc.sent
        /\ Len(changes) <= Len(next.changes)
        /\ \A i \in 1 .. Len(changes) : next.changes[i] = changes[i]
    BY <1>7 DEF ToldRight
  <2>6. ToldRight(next, k)
    BY <1>5, <2>1, <2>3, <2>4, <2>5 DEF ToldRight
  <2>7. QED
    BY <2>6 DEF next, e
<1>8. QED
  BY <1>1, <1>2, <1>6, <1>7, OneEditTold

LEMMA AllEditsTold ==
    ASSUME TypeOK
    PROVE  ToldRight(FoldLeft(SendChange, [rc |-> rc, changes |-> changes], edits), Len(edits))
<1>1. PICK told : /\ told[0] = Untold
                  /\ \A k \in 1 .. Len(edits) : told[k] = SendChange(told[k - 1], edits[k])
                  /\ FoldLeft(SendChange, Untold, edits) = told[Len(edits)]
  BY ToldInOrder
<1>2. Len(edits) \in Nat
  BY DEF TypeOK
<1>3. ToldRight(told[0], 0)
  <2>1. Untold \in Told
    BY DEF TypeOK, Untold, Told, RC, Change
  <2>2. changes \in Seq(Change) /\ Len(changes) \in Nat
    BY DEF TypeOK, Change
  <2>3. QED
    BY <1>1, <2>1, <2>2 DEF ToldRight, Untold, LastUpTo
<1> DEFINE Bad == {k \in Nat : k <= Len(edits) /\ ~ToldRight(told[k], k)}
<1>4. ASSUME Bad # {} PROVE FALSE
  <2>1. PICK k \in Bad : \A j \in Bad : k <= j
    BY <1>4, LeastOne
  <2>2. k # 0
    BY <1>3, <2>1
  <2>3. k \in 1 .. Len(edits) /\ k - 1 \in Nat /\ k - 1 \notin Bad /\ k - 1 <= Len(edits)
    BY <1>2, <2>1, <2>2
  <2>4. ToldRight(told[k - 1], k - 1)
    BY <2>3
  <2>5. ToldRight(told[k], k)
    BY <1>1, <2>3, <2>4, ToldRightStep
  <2>6. QED
    BY <2>1, <2>5
<1>5. Len(edits) \notin Bad
  BY <1>4
<1>6. ToldRight(told[Len(edits)], Len(edits))
  BY <1>2, <1>5
<1>7. QED
  BY <1>1, <1>6 DEF Untold

-----------------------------------------------------------------------------
(* Distances, and the scan.                                                *)

LEMMA BlocksFinite == IsFiniteSet(Blocks)
<1> DEFINE f == [b \in Blocks |-> Dist[b]]
<1>1. f \in [Blocks -> 0 .. FullD]
  BY DistInRange
<1>2. f \in Injection(Blocks, 0 .. FullD)
  BY <1>1, DistancesDiffer DEF Injection, IsInjective
<1>3. IsFiniteSet(0 .. FullD)
  <2>1. 0 \in Int /\ FullD \in Int
    BY BlocksAssumption
  <2>2. QED
    BY <2>1, FS_Interval
<1>4. QED
  BY <1>2, <1>3, FS_Injection

\* The least distance of some blocks is one of their distances.
LEMMA LeastDist ==
    ASSUME NEW S \in SUBSET Blocks, S # {}
    PROVE  Min({Dist[b] : b \in S}) \in 0 .. FullD
<1> DEFINE N == {Dist[b] : b \in S}
<1>1. N \in SUBSET Nat /\ N # {} /\ N \subseteq 0 .. FullD
  BY DistInRange
<1>2. PICK m \in N : \A k \in N : m <= k
  BY <1>1, LeastOne
<1>3. Min(N) \in N
  BY <1>2 DEF Min
<1>4. QED
  BY <1>1, <1>3

\* Closest numbers the blocks of a set from 1 on.
LEMMA ClosestNumbers ==
    ASSUME NEW S \in SUBSET Blocks
    PROVE  /\ Cardinality(S) \in Nat
           /\ \A i \in 1 .. Cardinality(S) : Closest(S, i) \in S
           /\ \A b \in S : \E i \in 1 .. Cardinality(S) : Closest(S, i) = b
<1> DEFINE UpTo(b) == {c \in S : Dist[c] <= Dist[b]}
           f == [b \in S |-> Cardinality(UpTo(b))]
<1>1. IsFiniteSet(S) /\ Cardinality(S) \in Nat
  BY BlocksFinite, FS_Subset, FS_CardinalityType
<1>2. ASSUME NEW b \in S
      PROVE  /\ IsFiniteSet(UpTo(b)) /\ Cardinality(UpTo(b)) \in 1 .. Cardinality(S)
             /\ b \in UpTo(b)
  <2>1. b \in UpTo(b) /\ UpTo(b) \in SUBSET S
    BY DistInRange
  <2> HIDE DEF UpTo
  <2>2. IsFiniteSet(UpTo(b)) /\ Cardinality(UpTo(b)) <= Cardinality(S)
    BY <1>1, <2>1, FS_Subset
  <2>3. Cardinality(UpTo(b)) \in Nat /\ Cardinality(UpTo(b)) # 0
    BY <2>1, <2>2, FS_CardinalityType, FS_EmptySet
  <2>4. QED
    BY <1>1, <2>1, <2>2, <2>3
<1>3. ASSUME NEW b \in S, NEW c \in S, Cardinality(UpTo(b)) = Cardinality(UpTo(c)), b # c,
             Dist[b] <= Dist[c]
      PROVE  FALSE
  <2>1. UpTo(b) \in SUBSET UpTo(c)
    BY <1>3, DistInRange
  <2>2. c \notin UpTo(b)
    BY <1>3, DistInRange, DistancesDiffer
  <2>3. UpTo(b) = UpTo(c)
    <3> HIDE DEF UpTo
    <3>1. QED
      BY <1>2, <1>3, <2>1, FS_Subset
  <2>4. QED
    BY <1>2, <2>2, <2>3
<1>4. \A b, c \in S : Cardinality(UpTo(b)) = Cardinality(UpTo(c)) => b = c
  <2>1. \A b, c \in S : Dist[b] <= Dist[c] \/ Dist[c] <= Dist[b]
    BY DistInRange
  <2> HIDE DEF UpTo
  <2>2. QED
    BY <1>3, <2>1
<1>5. f \in Injection(S, 1 .. Cardinality(S))
  <2> HIDE DEF UpTo
  <2>1. f \in [S -> 1 .. Cardinality(S)]
    BY <1>2
  <2>2. QED
    BY <2>1, <1>4 DEF Injection, IsInjective
<1>6. f \in Surjection(S, 1 .. Cardinality(S))
  <2>1. /\ IsFiniteSet(1 .. Cardinality(S))
        /\ Cardinality(1 .. Cardinality(S)) = Cardinality(S)
    BY <1>1, FS_Interval
  <2> HIDE DEF f
  <2>2. QED
    BY <1>5, <2>1, FS_Injection
<1>7. \A i \in 1 .. Cardinality(S) : \E b \in S : Cardinality(UpTo(b)) = i
  BY <1>6 DEF Surjection
<1>8. \A i \in 1 .. Cardinality(S) : /\ Closest(S, i) \in S
                                   /\ Cardinality(UpTo(Closest(S, i))) = i
  BY <1>7 DEF Closest
<1>9. \A b \in S : Closest(S, Cardinality(UpTo(b))) = b
  <2> HIDE DEF UpTo
  <2>1. QED
    BY <1>2, <1>4, <1>8
<1>10. QED
  <2> HIDE DEF UpTo
  <2>1. QED
    BY <1>1, <1>2, <1>8, <1>9

\* A scan selects blocks that have been made and are not noted, and asks for others only
\* if they have not been made.
LEMMA ScanFinds ==
    ASSUME TypeOK, NEW start \in 0 .. FullD + 1
    PROVE  /\ \A b \in Scan(start).selected : /\ b \in Blocks /\ world[b] # None
                                              /\ b \notin rc.sending \union rc.sent
           /\ \A b \in Scan(start).emerging : b \in Blocks /\ world[b] = None
           /\ Scan(start).occluded \subseteq Blocks
           /\ Scan(start).d \in 0 .. FullD + 1
<1> DEFINE last == Min({FullD, start + Increment})
           visited == {b \in Blocks : Dist[b] \in start..last}
           fresh == visited \ (rc.sending \union rc.sent)
           culled == {b \in fresh \intersect (rc.occ \union hidden) :
                         world[b] # None \/ b \notin queued}
           ready == {b \in fresh \ culled : world[b] # None}
           room == MaxSimul - Cardinality(rc.sending)
           reached == {b \in visited : Cardinality({c \in ready : Dist[c] < Dist[b]}) < room}
           d == IF reached = visited THEN last + 1 ELSE Min({Dist[b] : b \in visited \ reached})
<1>1. /\ Scan(start).selected = ready \intersect reached
      /\ Scan(start).emerging = ((fresh \ culled) \ ready) \intersect reached
      /\ Scan(start).occluded = culled \intersect reached
      /\ Scan(start).d = d
  BY DEF Scan
<1>2. last \in 0 .. FullD
  BY BlocksAssumption DEF Min
<1>3. d \in 0 .. FullD + 1
  <2>1. CASE reached = visited
    <3> HIDE DEF last, reached, visited
    <3>1. QED
      BY <2>1, <1>2, BlocksAssumption
  <2>2. CASE reached # visited
    <3>1. visited \ reached \in SUBSET Blocks /\ visited \ reached # {}
      BY <2>2
    <3> HIDE DEF reached, visited
    <3>2. Min({Dist[b] : b \in visited \ reached}) \in 0 .. FullD
      BY <3>1, LeastDist
    <3>3. QED
      BY <2>2, <3>2, BlocksAssumption
  <2>3. QED
    BY <2>1, <2>2
<1>4. visited \subseteq Blocks
  OBVIOUS
<1> HIDE DEF visited, reached, d
<1>5. QED
  BY <1>1, <1>3, <1>4

LEMMA AfterScanKeeps ==
    ASSUME TypeOK, NEW start \in 0 .. FullD + 1
    PROVE  /\ AfterScan(Scan(start), start) \in RC
           /\ AfterScan(Scan(start), start).sending = rc.sending
           /\ AfterScan(Scan(start), start).sent = rc.sent
<1> DEFINE scan == Scan(start)
<1>1. /\ scan.selected \in SUBSET Blocks /\ scan.emerging \in SUBSET Blocks
      /\ scan.occluded \subseteq Blocks /\ scan.d \in 0 .. FullD + 1
  BY ScanFinds
<1> HIDE DEF scan
<1>2. NextNearest(scan) \in 0 .. FullD + 1
  <2>1. scan.emerging # {} => Min({Dist[b] : b \in scan.emerging}) \in 0 .. FullD
    BY <1>1, LeastDist
  <2>2. scan.selected # {} => Min({Dist[b] : b \in scan.selected}) \in 0 .. FullD
    BY <1>1, LeastDist
  <2>3. QED
    BY <1>1, <2>1, <2>2, BlocksAssumption DEF NextNearest
<1>3. rc \in RC
  BY DEF TypeOK, RC
<1> DEFINE occ == IF NextNearest(scan) # start THEN {} ELSE rc.occ \union scan.occluded
           pause == scan.emerging = {} /\ scan.d > FullD
<1>4. AfterScan(scan, start) \in RC /\ AfterScan(scan, start).sending = rc.sending
      /\ AfterScan(scan, start).sent = rc.sent
  <2>1. AfterScan(scan, start) = [rc EXCEPT !.nearest = NextNearest(scan),
                                            !.paused = pause, !.occ = occ]
    BY DEF AfterScan
  <2>2. occ \in SUBSET Blocks /\ pause \in BOOLEAN
    BY <1>1, <1>3 DEF RC
  <2> HIDE DEF occ, pause
  <2>3. QED
    BY <1>2, <1>3, <2>1, <2>2 DEF RC
<1>5. QED
  BY <1>4 DEF scan

-----------------------------------------------------------------------------
(* Messages.                                                               *)

LEMMA TailIs ==
    ASSUME NEW T, NEW s \in Seq(T), s # <<>>
    PROVE  /\ Tail(s) \in Seq(T) /\ Len(s) \in Nat /\ Len(s) >= 1 /\ Head(s) = s[1] /\ s[1] \in T
           /\ DOMAIN s = 1 .. Len(s)
           /\ DOMAIN Tail(s) = 1 .. Len(s) - 1 /\ Len(Tail(s)) = Len(s) - 1
           /\ \A i \in 1 .. Len(s) - 1 : Tail(s)[i] = s[i + 1]
OBVIOUS

LEMMA ElementIs ==
    ASSUME NEW T, NEW s \in Seq(T), NEW i \in DOMAIN s
    PROVE  s[i] \in T
OBVIOUS

LEMMA AppendIs ==
    ASSUME NEW T, NEW s \in Seq(T), NEW e \in T
    PROVE  /\ Append(s, e) \in Seq(T) /\ Len(s) \in Nat
           /\ DOMAIN s = 1 .. Len(s)
           /\ DOMAIN Append(s, e) = 1 .. Len(s) + 1 /\ Len(Append(s, e)) = Len(s) + 1
           /\ \A i \in 1 .. Len(s) : Append(s, e)[i] = s[i]
           /\ Append(s, e)[Len(s) + 1] = e
OBVIOUS

LEMMA ConcatIs ==
    ASSUME NEW T, NEW s \in Seq(T), NEW r \in Seq(T)
    PROVE  /\ s \o r \in Seq(T) /\ Len(s \o r) = Len(s) + Len(r)
           /\ DOMAIN (s \o r) = 1 .. Len(s) + Len(r)
           /\ \A i \in 1 .. Len(s) : (s \o r)[i] = s[i]
           /\ \A i \in Len(s) + 1 .. Len(s) + Len(r) : (s \o r)[i] = r[i - Len(s)]
OBVIOUS

\* What is last in the rest of a sequence is last in the sequence.
LEMMA LastInTail ==
    ASSUME NEW T, NEW s \in Seq(T), s # <<>>, NEW b, NEW n, NEW i, IsLast(Tail(s), i, b, n)
    PROVE  i \in Nat /\ IsLast(s, i + 1, b, n) /\ Tail(s)[i] = s[i + 1]
<1>1. i \in 1 .. Len(s) - 1 /\ Tail(s)[i] = s[i + 1] /\ Concerns(s, i + 1, b, n)
  BY TailIs DEF IsLast, Concerns
<1>2. ASSUME NEW j \in DOMAIN s, Concerns(s, j, b, n) PROVE j <= i + 1
  <2>1. CASE j = 1
    BY <1>1, <2>1
  <2>2. CASE j # 1
    <3> DEFINE k == j - 1
    <3>1. k \in 1 .. Len(s) - 1 /\ Tail(s)[k] = s[j] /\ k \in DOMAIN Tail(s)
      BY <2>2, TailIs
    <3>2. Concerns(Tail(s), k, b, n)
      BY <1>2, <3>1 DEF Concerns
    <3>3. k <= i
      BY <3>1, <3>2 DEF IsLast
    <3>4. QED
      BY <1>1, <3>1, <3>3, TailIs
  <2>3. QED
    BY <2>1, <2>2
<1>3. QED
  BY <1>1, <1>2, TailIs DEF IsLast

\* If nothing in the rest of a sequence concerns a node, only the first can.
LEMMA NoneInTail ==
    ASSUME NEW T, NEW s \in Seq(T), s # <<>>, NEW b, NEW n,
           \A i \in DOMAIN Tail(s) : ~Concerns(Tail(s), i, b, n)
    PROVE  /\ \A i \in DOMAIN s : Concerns(s, i, b, n) => i = 1
           /\ Concerns(s, 1, b, n) => IsLast(s, 1, b, n)
<1>1. ASSUME NEW i \in DOMAIN s, Concerns(s, i, b, n), i # 1 PROVE FALSE
  <2> DEFINE k == i - 1
  <2>1. k \in DOMAIN Tail(s) /\ Tail(s)[k] = s[i]
    BY <1>1, TailIs
  <2>2. Concerns(Tail(s), k, b, n)
    BY <1>1, <2>1 DEF Concerns
  <2>3. QED
    BY <2>1, <2>2
<1>2. QED
  BY <1>1 DEF IsLast

\* An appended message that does not concern a node changes nothing for it; one that does
\* is the last.
LEMMA LastInAppend ==
    ASSUME NEW T, NEW s \in Seq(T), NEW e \in T, NEW b, NEW n, NEW i,
           IsLast(Append(s, e), i, b, n)
    PROVE  /\ e.b = b /\ e.n = n => i = Len(s) + 1 /\ Append(s, e)[i] = e
           /\ ~(e.b = b /\ e.n = n) => IsLast(s, i, b, n) /\ Append(s, e)[i] = s[i]
<1>1. CASE e.b = b /\ e.n = n
  <2>1. Concerns(Append(s, e), Len(s) + 1, b, n)
    BY <1>1, AppendIs DEF Concerns
  <2>2. i \in 1 .. Len(s) + 1 /\ Len(s) + 1 <= i
    BY <2>1, AppendIs DEF IsLast, Concerns
  <2>3. QED
    BY <1>1, <2>2, AppendIs
<1>2. CASE ~(e.b = b /\ e.n = n)
  <2>1. i \in 1 .. Len(s) /\ Append(s, e)[i] = s[i]
    BY <1>2, AppendIs DEF IsLast, Concerns
  <2>2. ASSUME NEW j \in DOMAIN s, Concerns(s, j, b, n) PROVE j <= i
    <3>1. j \in DOMAIN Append(s, e) /\ Concerns(Append(s, e), j, b, n)
      BY <2>2, AppendIs DEF Concerns
    <3>2. QED
      BY <3>1 DEF IsLast
  <2>3. QED
    BY <1>2, <2>1, <2>2, AppendIs DEF IsLast, Concerns
<1>3. QED
  BY <1>1, <1>2

-----------------------------------------------------------------------------
(* Types, and what is known of the blocks that have been made.             *)

Data == [b : Blocks, c : Contents]
Report == [type : {"got", "deleted"}, b : Blocks]
Dug == [b : Blocks, n : Nodes]

LEMMA Types ==
    TypeOK <=>
        /\ world \in [Blocks -> Contents \union {None}]
        /\ edits \in Seq(News) /\ phase \in {"step", "receive"} /\ rc \in RC
        /\ queued \subseteq Blocks /\ hidden \subseteq Blocks
        /\ bulk \in Seq(Data) /\ changes \in Seq(Change) /\ reports \in Seq(Report)
        /\ digs \in Seq(Dug)
        /\ copy \in [Blocks -> [Nodes -> Versions \union {Air}] \union {None}]
        /\ owed \in [Blocks -> Nat]
        /\ crossed \subseteq Blocks /\ left \in 0..MaxEvents
BY DEF TypeOK, News, RC, Data, Change, Report, Dug

LEMMA MessageTypes ==
    ASSUME TypeOK
    PROVE  /\ \A i \in DOMAIN bulk : bulk[i].b \in Blocks /\ bulk[i].c \in Contents
           /\ \A i \in DOMAIN digs : digs[i].b \in Blocks /\ digs[i].n \in Nodes
           /\ \A i \in DOMAIN reports : reports[i].b \in Blocks /\ reports[i] \in Report
           /\ \A i \in DOMAIN changes : /\ changes[i].b \in Blocks /\ changes[i].n \in Nodes
                                        /\ changes[i].v \in Versions
           /\ \A i \in DOMAIN edits : edits[i].b \in Blocks /\ edits[i] \in News
           /\ rc.sending \subseteq Blocks /\ rc.sent \subseteq Blocks
<1>1. /\ edits \in Seq(News) /\ bulk \in Seq(Data) /\ changes \in Seq(Change)
      /\ reports \in Seq(Report) /\ digs \in Seq(Dug) /\ rc \in RC
  BY Types
<1>2. \A i \in DOMAIN bulk : bulk[i] \in Data
  BY <1>1, ElementIs
<1>3. \A i \in DOMAIN digs : digs[i] \in Dug
  BY <1>1, ElementIs
<1>4. \A i \in DOMAIN reports : reports[i] \in Report
  BY <1>1, ElementIs
<1>5. \A i \in DOMAIN changes : changes[i] \in Change
  BY <1>1, ElementIs
<1>6. \A i \in DOMAIN edits : edits[i] \in News
  BY <1>1, ElementIs
<1>7. QED
  BY <1>1, <1>2, <1>3, <1>4, <1>5, <1>6 DEF Data, Dug, Report, Change, News, RC

\* Contents are not None, and what the client has of a block can be any contents.
LEMMA ContentsAreSome ==
    /\ \A c \in Contents : c # None /\ c \in [Nodes -> Versions \union {Air}]
    /\ \A c \in [Nodes -> Versions \union {Air}] : c # None
    /\ Nothing \in Contents /\ \A n \in Nodes : Nothing[n] = 0
    /\ MaxEvents \in Nat
<1>1. Contents \subseteq [Nodes -> Versions \union {Air}]
  BY DEF Contents
<1>2. 0 \in Versions /\ MaxEvents \in Nat
  BY BlocksAssumption DEF Versions
<1>3. QED
  BY <1>1, <1>2, BlocksAssumption DEF Contents, Nothing

\* The next version of a block is one more than that of some node.
LEMMA VersionFollows ==
    ASSUME TypeOK, NEW b \in Blocks, world[b] # None
    PROVE  \E n \in Nodes : /\ NextVersion(b) = world[b][n] + 1 /\ world[b] \in Contents
                            /\ world[b][n] \in Versions
<1> DEFINE S == {world[b][n] : n \in Nodes}
           N == {k \in Nat : \A y \in S : k >= y}
<1>1. world[b] \in Contents
  BY DEF TypeOK
<1>2. S \in SUBSET Nat /\ S # {} /\ \A y \in S : MaxEvents >= y
  BY <1>1, BlocksAssumption DEF Contents, Versions
<1>3. MaxEvents \in N
  BY <1>2, BlocksAssumption
<1>4. PICK k \in N : \A j \in N : k <= j
  BY <1>3, LeastOne
<1>5. k \in S
  <2> HIDE DEF S
  <2>1. SUFFICES ASSUME k \notin S PROVE FALSE
    OBVIOUS
  <2>2. PICK z \in S : k >= z /\ z \in Nat
    BY <1>2, <1>4
  <2>3. k > 0 /\ k - 1 \in Nat
    BY <2>1, <2>2, <1>4
  <2>4. \A y \in S : y \in Nat /\ k >= y /\ y # k
    BY <1>2, <1>4, <2>1
  <2>5. \A y \in S : k - 1 >= y
    BY <2>4, <1>4
  <2>6. QED
    BY <2>3, <2>5, <1>4
<1>6. Max(S) \in S
  BY <1>4, <1>5 DEF Max
<1>7. PICK n \in Nodes : Max(S) = world[b][n]
  BY <1>6
<1>8. NextVersion(b) = 1 + Max(S)
  BY DEF NextVersion
<1>9. world[b][n] \in Versions /\ world[b][n] \in Nat
  BY <1>1 DEF Contents, Versions
<1> HIDE DEF S
<1>10. QED
  BY <1>1, <1>7, <1>8, <1>9

\* The arithmetic of events that are left.
LEMMA StillLeft ==
    ASSUME NEW v \in Nat, NEW l \in Nat, NEW d \in Nat, NEW m \in Nat,
           NEW k \in Nat, NEW e \in Nat, v + l + d <= m, k + e <= l + d
    PROVE  v + k + e <= m
OBVIOUS

LEMMA OneIsLeft ==
    ASSUME NEW v \in Nat, NEW l \in Nat, NEW d \in Nat, NEW m \in Nat,
           v + l + d <= m, l > 0 \/ d > 0
    PROVE  v + 1 \in 0 .. m /\ v + 1 + l + d <= m + 1
OBVIOUS

\* While an event is left the next version of a block is a version.
LEMMA VersionIsLeft ==
    ASSUME TypeOK, VersionsLeft, NEW b \in Blocks, world[b] # None, left > 0 \/ Len(digs) > 0
    PROVE  /\ NextVersion(b) \in Versions /\ world[b] \in Contents
           /\ NextVersion(b) + left + Len(digs) <= MaxEvents + 1
<1>1. PICK n \in Nodes : /\ NextVersion(b) = world[b][n] + 1 /\ world[b] \in Contents
                         /\ world[b][n] \in Versions
  BY VersionFollows
<1>2. left \in Nat /\ Len(digs) \in Nat /\ MaxEvents \in Nat
  BY Types, BlocksAssumption
<1>3. world[b][n] + left + Len(digs) <= MaxEvents
  BY DEF VersionsLeft
<1>4. world[b][n] \in Nat
  BY <1>1 DEF Versions
<1>5. /\ world[b][n] + 1 \in 0 .. MaxEvents
      /\ world[b][n] + 1 + left + Len(digs) <= MaxEvents + 1
  BY <1>2, <1>3, <1>4, OneIsLeft
<1>6. QED
  BY <1>1, <1>5, Zenon DEF Versions

\* What SendBlocks appends: the contents of the selected blocks, each at least once.
AppendsBlocks(S, new) ==
    /\ new \in Seq(Data) /\ Len(bulk) \in Nat /\ DOMAIN bulk = 1 .. Len(bulk)
    /\ Len(new) \in Nat /\ DOMAIN new = 1 .. Len(new) /\ Len(bulk) <= Len(new)
    /\ \A i \in 1 .. Len(bulk) : new[i] = bulk[i]
    /\ \A i \in DOMAIN new : i > Len(bulk) => new[i].b \in S /\ new[i].c = world[new[i].b]
    /\ \A b \in S : \E i \in DOMAIN new : i > Len(bulk) /\ new[i].b = b

LEMMA BulkGrows ==
    ASSUME TypeOK, NEW S \in SUBSET Blocks, \A b \in S : world[b] # None
    PROVE  AppendsBlocks(S, bulk \o [i \in 1..Cardinality(S) |->
                                        LET b == Closest(S, i) IN [b |-> b, c |-> world[b]]])
<1> DEFINE m == Cardinality(S)
           l == Len(bulk)
           more == [i \in 1 .. m |-> [b |-> Closest(S, i), c |-> world[Closest(S, i)]]]
           new == bulk \o more
<1>1. m \in Nat /\ (\A i \in 1 .. m : Closest(S, i) \in S)
      /\ \A b \in S : \E i \in 1 .. m : Closest(S, i) = b
  BY ClosestNumbers
<1> HIDE DEF m
<1>2. \A i \in 1 .. m : more[i] \in Data /\ more[i].b \in S /\ more[i].c = world[more[i].b]
                        /\ more[i].b = Closest(S, i)
  BY <1>1 DEF TypeOK, Data
<1>3. more \in Seq(Data) /\ Len(more) = m
  BY <1>1, <1>2
<1>4. bulk \in Seq(Data) /\ l \in Nat /\ DOMAIN bulk = 1 .. l
  BY Types
<1> HIDE DEF more
<1>5. /\ new \in Seq(Data) /\ Len(new) = l + m
      /\ DOMAIN new = 1 .. l + m
      /\ \A i \in 1 .. l : new[i] = bulk[i]
      /\ \A i \in l + 1 .. l + m : new[i] = more[i - l]
  <2>1. /\ new \in Seq(Data) /\ Len(new) = Len(bulk) + Len(more)
        /\ DOMAIN new = 1 .. Len(bulk) + Len(more)
        /\ \A i \in 1 .. Len(bulk) : new[i] = bulk[i]
        /\ \A i \in Len(bulk) + 1 .. Len(bulk) + Len(more) : new[i] = more[i - Len(bulk)]
    BY <1>3, <1>4, ConcatIs, Zenon
  <2>2. QED
    BY <1>3, <2>1, Zenon
<1> HIDE DEF new, l
<1>6. ASSUME NEW i \in DOMAIN new, i > l
      PROVE  new[i].b \in S /\ new[i].c = world[new[i].b]
  <2> DEFINE k == i - l
  <2>1. k \in 1 .. m /\ new[i] = more[k]
    BY <1>1, <1>4, <1>5, <1>6
  <2> HIDE DEF k
  <2>2. QED
    BY <1>2, <2>1
<1>7. ASSUME NEW b \in S PROVE \E i \in DOMAIN new : i > l /\ new[i].b = b
  <2>1. PICK j \in 1 .. m : Closest(S, j) = b
    BY <1>1
  <2>2. j + l \in DOMAIN new /\ j + l > l /\ new[j + l] = more[j]
    BY <1>1, <1>4, <1>5
  <2>3. more[j].b = b
    BY <1>2, <2>1
  <2>4. QED
    BY <2>2, <2>3
<1>8. Len(new) \in Nat /\ l <= Len(new) /\ DOMAIN new = 1 .. Len(new)
  BY <1>1, <1>4, <1>5
<1>9. AppendsBlocks(S, new)
  BY <1>4, <1>5, <1>6, <1>7, <1>8, Zenon DEF AppendsBlocks, l
<1>10. QED
  BY <1>9 DEF new, more, m

-----------------------------------------------------------------------------
(* Every action keeps the ground.                                          *)

LEMMA GroundInit == Init => Ground
<1> SUFFICES ASSUME Init PROVE Ground
  OBVIOUS
<1>1. \A b \in Blocks : world[b] # None => world[b] = Nothing
  BY DEF Init
<1>2. TypeOK
  <2>1. world \in [Blocks -> Contents \union {None}]
    BY ContentsAreSome DEF Init
  <2>2. rc \in RC
    BY BlocksAssumption DEF Init, RC
  <2>3. left \in 0 .. MaxEvents
    BY BlocksAssumption DEF Init
  <2>4. QED
    BY <2>1, <2>2, <2>3, Types DEF Init, Occludable
<1>3. OnlyMadeBlocks
  BY DEF Init, OnlyMadeBlocks
<1>4. VersionsLeft
  BY <1>1, ContentsAreSome DEF Init, VersionsLeft
<1>5. QED
  BY <1>2, <1>3, <1>4 DEF Ground

\* An action that leaves the world alone and uses up an event, or none, leaves enough.
LEMMA FewerLeft ==
    ASSUME Ground, world' = world, left' \in Nat, Len(digs') \in Nat,
           left' + Len(digs') <= left + Len(digs)
    PROVE  VersionsLeft'
<1>1. left \in Nat /\ Len(digs) \in Nat /\ MaxEvents \in Nat
  BY Types, BlocksAssumption DEF Ground
<1>2. ASSUME NEW b \in Blocks, NEW n \in Nodes, world[b] # None
      PROVE  world[b][n] + left' + Len(digs') <= MaxEvents
  <2>1. world[b][n] \in Nat
    BY <1>2 DEF Ground, TypeOK, Contents, Versions
  <2>2. world[b][n] + left + Len(digs) <= MaxEvents
    BY <1>2 DEF Ground, VersionsLeft
  <2>3. world[b][n] + left' + Len(digs') <= MaxEvents
    BY <1>1, <2>1, <2>2, StillLeft
  <2>4. QED
    BY <2>3, Zenon
<1>3. left' + Len(digs') <= MaxEvents
  BY <1>1 DEF Ground, VersionsLeft
<1>4. QED
  BY <1>2, <1>3 DEF VersionsLeft

\* What one SendBlocks does, for the blocks in S.
Transfers(S) ==
    /\ \A b \in S : world[b] # None /\ b \notin rc.sending \union rc.sent
    /\ rc' \in RC /\ rc'.sending = rc.sending \union S /\ rc'.sent = rc.sent
    /\ queued' \subseteq Blocks /\ \A b \in queued' \ queued : world[b] = None
    /\ AppendsBlocks(S, bulk')
    /\ crossed' = (crossed \union {b \in S : InFlight(b).changes})
                   \ {b \in S : ~InFlight(b).bulk /\ ~InFlight(b).changes}
    /\ left' \in 0 .. MaxEvents /\ left' <= left

LEMMA SendBlocksDoes ==
    ASSUME TypeOK, SendBlocks
    PROVE  /\ phase' = "step"
           /\ UNCHANGED <<world, edits, hidden, changes, reports, digs, copy, owed>>
           /\ \/ UNCHANGED <<rc, queued, bulk, crossed, left>>
              \/ \E S \in SUBSET Blocks : Transfers(S)
<1>1. CASE UNCHANGED <<rc, queued, bulk, crossed, left>>
  BY <1>1 DEF SendBlocks
<1>2. ASSUME NEW reset \in (IF left > 0 THEN BOOLEAN ELSE {FALSE}), NEW start, NEW scan, NEW S,
             start = IF reset THEN 0 ELSE rc.nearest, scan = Scan(start), S = scan.selected,
             rc' = [AfterScan(scan, start) EXCEPT !.sending = @ \union S],
             queued' = queued \union scan.emerging,
             bulk' = bulk \o [i \in 1..Cardinality(S) |->
                                LET b == Closest(S, i) IN [b |-> b, c |-> world[b]]],
             crossed' = (crossed \union {b \in S : InFlight(b).changes})
                         \ {b \in S : ~InFlight(b).bulk /\ ~InFlight(b).changes},
             left' = IF reset THEN left - 1 ELSE left
      PROVE  S \in SUBSET Blocks /\ Transfers(S)
  <2>1. start \in 0 .. FullD + 1
    <3>1. rc.nearest \in 0 .. FullD + 1
      BY DEF TypeOK
    <3>2. FullD \in Nat
      BY BlocksAssumption
    <3>3. start = 0 \/ start = rc.nearest
      BY <1>2
    <3>4. QED
      BY <3>1, <3>2, <3>3
  <2>2. /\ S \in SUBSET Blocks
        /\ \A b \in S : world[b] # None /\ b \notin rc.sending \union rc.sent
        /\ scan.emerging \in SUBSET Blocks /\ \A b \in scan.emerging : world[b] = None
    BY <1>2, <2>1, ScanFinds
  <2>3. /\ AfterScan(scan, start) \in RC /\ AfterScan(scan, start).sending = rc.sending
        /\ AfterScan(scan, start).sent = rc.sent
    BY <1>2, <2>1, AfterScanKeeps
  <2>4. rc' \in RC /\ rc'.sending = rc.sending \union S /\ rc'.sent = rc.sent
    BY <1>2, <2>2, <2>3 DEF RC
  <2>5. AppendsBlocks(S, bulk')
    BY <1>2, <2>2, BulkGrows
  <2>6. left' \in 0 .. MaxEvents /\ left' <= left
    <3>1. left \in 0 .. MaxEvents /\ MaxEvents \in Nat
      BY BlocksAssumption DEF TypeOK
    <3>2. left' = left \/ (left > 0 /\ left' = left - 1)
      BY <1>2
    <3>3. QED
      BY <3>1, <3>2
  <2>7. queued' \subseteq Blocks /\ \A b \in queued' \ queued : world[b] = None
    BY <1>2, <2>2 DEF TypeOK
  <2>8. crossed' = (crossed \union {b \in S : InFlight(b).changes})
                    \ {b \in S : ~InFlight(b).bulk /\ ~InFlight(b).changes}
    BY <1>2
  <2>9. QED
    BY <2>2, <2>4, <2>5, <2>6, <2>7, <2>8, Zenon DEF Transfers
<1>3. QED
  BY <1>1, <1>2, Zenon DEF SendBlocks

LEMMA GroundSendBlocks ==
    ASSUME Ground, SendBlocks
    PROVE  Ground'
<1>1. /\ UNCHANGED <<world, edits, hidden, changes, reports, digs, copy, owed>>
      /\ phase' = "step"
      /\ \/ UNCHANGED <<rc, queued, bulk, crossed, left>>
         \/ \E S \in SUBSET Blocks : Transfers(S)
  BY SendBlocksDoes DEF Ground
<1>2. CASE UNCHANGED <<rc, queued, bulk, crossed, left>>
  BY <1>1, <1>2 DEF Ground, TypeOK, OnlyMadeBlocks, VersionsLeft
<1>3. ASSUME NEW S \in SUBSET Blocks, Transfers(S) PROVE Ground'
  <2>1. TypeOK'
    <3>1. bulk' \in Seq(Data) /\ rc' \in RC /\ left' \in 0 .. MaxEvents /\ queued' \subseteq Blocks
      BY <1>3 DEF Transfers, AppendsBlocks
    <3>2. crossed' \subseteq Blocks
      BY <1>3 DEF Transfers, Ground, TypeOK
    <3>3. QED
      BY <1>1, <3>1, <3>2 DEF Ground, TypeOK, RC, Data
  <2>2. ASSUME NEW i \in DOMAIN bulk' PROVE world[bulk'[i].b] # None
    <3>1. CASE i > Len(bulk)
      BY <3>1, <1>3 DEF AppendsBlocks, Transfers
    <3>2. CASE ~(i > Len(bulk))
      <4>1. i \in 1 .. Len(bulk) /\ bulk'[i] = bulk[i] /\ DOMAIN bulk = 1 .. Len(bulk)
        BY <3>2, <1>3 DEF AppendsBlocks, Transfers
      <4>2. QED
        BY <4>1 DEF OnlyMadeBlocks, Ground
    <3>3. QED
      BY <3>1, <3>2
  <2>3. OnlyMadeBlocks'
    BY <1>1, <1>3, <2>2 DEF Transfers, Ground, OnlyMadeBlocks
  <2>4. VersionsLeft'
    <3>1. left' \in Nat /\ left \in Nat /\ left' <= left /\ digs' = digs /\ Len(digs) \in Nat
      BY <1>1, <1>3, Types, BlocksAssumption DEF Transfers, Ground
    <3>2. Len(digs') = Len(digs) /\ left' + Len(digs') <= left + Len(digs)
      BY <3>1
    <3>3. QED
      BY <1>1, <3>1, <3>2, FewerLeft
  <2>5. QED
    BY <2>1, <2>3, <2>4 DEF Ground
<1>4. QED
  BY <1>1, <1>2, <1>3

\* The nodes N of a block get its next version.
Renews(b, N) ==
    world' = [world EXCEPT ![b] = [n \in Nodes |-> IF n \in N THEN NextVersion(b)
                                                           ELSE world[b][n]]]

\* A function updated in one place.
LEMMA Updated ==
    ASSUME NEW S, NEW T, NEW f \in [S -> T], NEW x \in S, NEW y \in T,
           NEW g, g = [f EXCEPT ![x] = y]
    PROVE  g \in [S -> T] /\ g[x] = y /\ \A z \in S : z # x => g[z] = f[z]
OBVIOUS

\* A new version of some nodes of a block is the highest, and one event less is left.
LEMMA NewVersion ==
    ASSUME Ground, NEW b \in Blocks, world[b] # None, left > 0 \/ Len(digs) > 0,
           NEW N \in SUBSET Nodes, Renews(b, N), left' \in Nat, Len(digs') \in Nat,
           left' + Len(digs') = left + Len(digs) - 1
    PROVE  /\ world' \in [Blocks -> Contents \union {None}]
           /\ \A c \in Blocks : world'[c] = None <=> world[c] = None
           /\ VersionsLeft'
<1> DEFINE v == NextVersion(b)
           new == [n \in Nodes |-> IF n \in N THEN v ELSE world[b][n]]
<1>1. left \in Nat /\ Len(digs) \in Nat /\ MaxEvents \in Nat
  BY Types, BlocksAssumption DEF Ground
<1>2. v \in Versions /\ world[b] \in Contents /\ v + left + Len(digs) <= MaxEvents + 1
  BY VersionIsLeft DEF Ground
<1> HIDE DEF v
<1>3. new \in Contents
  BY <1>2 DEF Contents
<1>4. world \in [Blocks -> Contents \union {None}]
  BY DEF Ground, TypeOK
<1>5. world' \in [Blocks -> Contents \union {None}] /\ world'[b] = new
      /\ \A c \in Blocks : c # b => world'[c] = world[c]
  <2> HIDE DEF new
  <2>1. world' = [world EXCEPT ![b] = new]
    BY DEF new, v, Renews
  <2>2. new \in Contents \union {None}
    BY <1>3
  <2>3. QED
    BY <1>4, <2>1, <2>2, Updated
<1>6. \A c \in Blocks : world'[c] = None <=> world[c] = None
  BY <1>3, <1>5, ContentsAreSome
<1>7. ASSUME NEW c \in Blocks, NEW n \in Nodes, world'[c] # None
      PROVE  world'[c][n] + left' + Len(digs') <= MaxEvents
  <2>1. world[c][n] \in Nat /\ world[c][n] + left + Len(digs) <= MaxEvents
    <3>1. world[c] # None
      BY <1>6, <1>7
    <3>2. world[c] \in Contents
      BY <1>4, <3>1
    <3>3. world[c][n] \in Nat
      BY <3>2 DEF Contents, Versions
    <3>4. QED
      BY <3>1, <3>3 DEF Ground, VersionsLeft
  <2>2. world'[c][n] = world[c][n] \/ world'[c][n] = v
    BY <1>5
  <2>3. v \in Nat
    BY <1>2 DEF Versions
  <2>4. v + left' + Len(digs') <= MaxEvents
    BY <1>1, <1>2, <2>3
  <2>5. world[c][n] + left' + Len(digs') <= MaxEvents
    <3>1. left' + Len(digs') <= left + Len(digs)
      BY <1>1
    <3>2. QED
      BY <1>1, <2>1, <3>1, StillLeft
  <2>6. QED
    BY <2>2, <2>4, <2>5, Zenon
<1>8. left' + Len(digs') <= MaxEvents
  BY <1>1 DEF Ground, VersionsLeft
<1>9. QED
  BY <1>5, <1>6, <1>7, <1>8 DEF VersionsLeft

\* The types of what the other actions do.
LEMMA GroundServer ==
    ASSUME Ground,
           \/ PauseEnds \/ SendEdits \/ handleCommand_GotBlocks \/ handleCommand_DeletedBlocks
           \/ \E b \in Blocks : SendBlock(b) \/ BlockMade(b)
    PROVE  Ground'
<1>0. TypeOK /\ OnlyMadeBlocks /\ VersionsLeft
  BY DEF Ground
<1>1. /\ bulk \in Seq(Data) /\ edits \in Seq(News) /\ reports \in Seq(Report) /\ rc \in RC
      /\ left \in Nat /\ left \in 0 .. MaxEvents /\ Len(digs) \in Nat /\ MaxEvents \in Nat
  BY <1>0, Types, BlocksAssumption
<1>2. CASE PauseEnds
  <2>1. rc' \in RC /\ rc'.sending = rc.sending /\ rc'.sent = rc.sent
    BY <1>1, <1>2 DEF PauseEnds, RC
  <2>2. QED
    BY <1>0, <1>2, <2>1 DEF PauseEnds, Ground, TypeOK, RC, OnlyMadeBlocks, VersionsLeft
<1>3. CASE SendEdits
  <2> DEFINE acc == FoldLeft(SendChange, [rc |-> rc, changes |-> changes], edits)
  <2>1. ToldRight(acc, Len(edits))
    BY <1>0, AllEditsTold
  <2> HIDE DEF acc
  <2>2. /\ acc.rc \in RC /\ acc.changes \in Seq(Change)
        /\ acc.rc.sending \subseteq rc.sending /\ acc.rc.sent \subseteq rc.sent
    BY <2>1 DEF ToldRight, Told
  <2>3. /\ rc' = acc.rc /\ changes' = acc.changes /\ edits' = <<>> /\ phase' = "receive"
        /\ UNCHANGED <<queued, world, hidden, bulk, reports, digs, copy, owed, left>>
        /\ crossed' \subseteq crossed \union Blocks
    BY <1>3 DEF SendEdits, acc
  <2>4. crossed' \subseteq Blocks
    BY <1>0, <2>3 DEF TypeOK
  <2>5. TypeOK'
    BY <1>0, <2>2, <2>3, <2>4 DEF TypeOK, RC, Change
  <2>6. OnlyMadeBlocks'
    BY <1>0, <2>2, <2>3 DEF OnlyMadeBlocks
  <2>7. QED
    BY <1>0, <2>3, <2>5, <2>6 DEF Ground, VersionsLeft
<1>4. ASSUME handleCommand_GotBlocks \/ handleCommand_DeletedBlocks PROVE Ground'
  <2>1. /\ reports # <<>> /\ reports' = Tail(reports)
        /\ \/ rc' = GotBlock(rc, Head(reports).b)
           \/ rc' = SetBlockNotSent(rc, Head(reports).b, FALSE)
        /\ UNCHANGED <<queued, world, edits, phase, hidden, bulk, changes, digs, copy, owed,
                       crossed, left>>
    BY <1>4 DEF handleCommand_GotBlocks, handleCommand_DeletedBlocks
  <2>2. Tail(reports) \in Seq(Report) /\ Head(reports).b \in Blocks
    <3>1. Tail(reports) \in Seq(Report) /\ Head(reports) \in Report
      BY <1>1, <2>1, TailIs, Zenon
    <3>2. QED
      BY <3>1 DEF Report
  <2>3. rc' \in RC /\ rc'.sending \union rc'.sent \subseteq rc.sending \union rc.sent
    <3>1. CASE rc' = GotBlock(rc, Head(reports).b)
      BY <3>1, <1>1, <2>2, GotKeeps
    <3>2. CASE rc' = SetBlockNotSent(rc, Head(reports).b, FALSE)
      <4> DEFINE d == SetBlockNotSent(rc, Head(reports).b, FALSE)
      <4>1. /\ d \in RC /\ d.sending = rc.sending \ {Head(reports).b}
            /\ d.sent = rc.sent \ {Head(reports).b}
        BY <1>1, <2>2, ForgetNow
      <4> HIDE DEF d
      <4>2. rc' = d
        BY <3>2 DEF d
      <4>3. QED
        BY <4>1, <4>2
    <3>3. QED
      BY <2>1, <3>1, <3>2
  <2>4. TypeOK'
    BY <1>0, <2>1, <2>2, <2>3 DEF TypeOK, RC, Report
  <2>5. OnlyMadeBlocks'
    BY <1>0, <2>1, <2>3 DEF OnlyMadeBlocks
  <2>6. QED
    BY <1>0, <2>1, <2>4, <2>5 DEF Ground, VersionsLeft
<1>5. ASSUME NEW b \in Blocks, SendBlock(b) PROVE Ground'
  <2> DEFINE d == [b |-> b, c |-> world[b]]
  <2>1. /\ bulk' = Append(bulk, d) /\ left > 0 /\ left' = left - 1 /\ world[b] # None
        /\ crossed' \subseteq crossed \union {b}
        /\ UNCHANGED <<queued, world, edits, phase, rc, hidden, changes, reports, digs, copy, owed>>
    BY <1>5 DEF SendBlock
  <2>2. d \in Data /\ d.b = b
    BY <1>0, <2>1 DEF TypeOK, Data
  <2> HIDE DEF d
  <2>3. /\ bulk' \in Seq(Data) /\ DOMAIN bulk = 1 .. Len(bulk)
        /\ DOMAIN bulk' = 1 .. Len(bulk) + 1 /\ bulk'[Len(bulk) + 1] = d /\ Len(bulk) \in Nat
        /\ \A i \in 1 .. Len(bulk) : bulk'[i] = bulk[i]
    BY <1>1, <2>1, <2>2, AppendIs
  <2>4. left' \in 0 .. MaxEvents /\ left' \in Nat /\ left' + Len(digs') <= left + Len(digs)
        /\ Len(digs') \in Nat
    BY <1>1, <2>1
  <2>5. TypeOK'
    BY <1>0, <2>1, <2>3, <2>4 DEF TypeOK, Data
  <2>6. \A i \in DOMAIN bulk' : world[bulk'[i].b] # None
    BY <1>0, <2>1, <2>2, <2>3 DEF OnlyMadeBlocks
  <2>7. OnlyMadeBlocks'
    BY <1>0, <2>1, <2>6 DEF OnlyMadeBlocks
  <2>8. VersionsLeft'
    BY <2>1, <2>4, FewerLeft
  <2>9. QED
    BY <2>5, <2>7, <2>8 DEF Ground
<1>6. ASSUME NEW b \in Blocks, BlockMade(b) PROVE Ground'
  <2> DEFINE e == Edit(b, None, 0)
  <2>1. /\ queued' = queued \ {b} /\ world' = [world EXCEPT ![b] = Nothing]
        /\ edits' = Append(edits, e) /\ world[b] = None
        /\ UNCHANGED <<phase, rc, hidden, bulk, changes, reports, digs, copy, owed, crossed, left>>
    BY <1>0, <1>6 DEF BlockMade, OnlyMadeBlocks
  <2>2. e \in News
    BY BlocksAssumption DEF Edit, News, Versions
  <2> HIDE DEF e
  <2>3. edits' \in Seq(News)
    BY <1>1, <2>1, <2>2, AppendIs
  <2>4. /\ world' \in [Blocks -> Contents \union {None}]
        /\ \A c \in Blocks : world[c] # None => world'[c] = world[c]
        /\ \A c \in Blocks : c # b => world'[c] = world[c]
        /\ world'[b] = Nothing
    BY <1>0, <2>1, ContentsAreSome DEF TypeOK
  <2>5. TypeOK'
    BY <1>0, <2>1, <2>3, <2>4 DEF TypeOK, News
  <2>6. OnlyMadeBlocks'
    <3>1. /\ \A i \in DOMAIN bulk : bulk[i].b \in Blocks
          /\ \A i \in DOMAIN digs : digs[i].b \in Blocks
          /\ rc.sending \union rc.sent \subseteq Blocks /\ queued \subseteq Blocks
      BY <1>0, MessageTypes, Types
    <3>2. QED
      BY <1>0, <2>1, <2>4, <3>1 DEF OnlyMadeBlocks
  <2>7. VersionsLeft'
    BY <1>0, <1>1, <2>1, <2>4, ContentsAreSome DEF VersionsLeft
  <2>8. QED
    BY <2>5, <2>6, <2>7 DEF Ground
<1>7. QED
  BY <1>2, <1>3, <1>4, <1>5, <1>6

\* An edit of nodes N of a block, for which an event is used up or a dig carried out, and
\* which can take blocks from the record of the client.
EditedBy(b, N, e) ==
    /\ world[b] # None /\ (left > 0 \/ Len(digs) > 0)
    /\ Renews(b, N) /\ edits' = Append(edits, e)
    /\ left' \in Nat /\ left' <= left /\ digs' \in Seq(Dug)
    /\ \A i \in DOMAIN digs' : world[digs'[i].b] # None
    /\ left' + Len(digs') = left + Len(digs) - 1
    /\ rc' \in RC /\ rc'.sending \subseteq rc.sending /\ rc'.sent \subseteq rc.sent
    /\ UNCHANGED <<queued, phase, hidden, bulk, changes, reports, copy, owed, crossed>>

LEMMA GroundEdited ==
    ASSUME Ground, NEW b \in Blocks, NEW N \in SUBSET Nodes, NEW e \in News, EditedBy(b, N, e)
    PROVE  Ground'
<1>1. TypeOK /\ OnlyMadeBlocks /\ VersionsLeft
  BY DEF Ground
<1>2. Len(digs') \in Nat /\ edits \in Seq(News)
  BY <1>1, Types DEF EditedBy
<1>3. /\ world' \in [Blocks -> Contents \union {None}]
      /\ \A c \in Blocks : world'[c] = None <=> world[c] = None
      /\ VersionsLeft'
  BY <1>2, NewVersion DEF EditedBy
<1>4. edits' \in Seq(News)
  BY <1>2, AppendIs DEF EditedBy
<1>5. left' \in 0 .. MaxEvents
  BY <1>1, BlocksAssumption DEF TypeOK, EditedBy
<1>6. TypeOK'
  <2>1. /\ phase' \in {"step", "receive"} /\ queued' \subseteq Blocks /\ hidden' \subseteq Blocks
        /\ bulk' \in Seq(Data) /\ changes' \in Seq(Change) /\ reports' \in Seq(Report)
        /\ copy' \in [Blocks -> [Nodes -> Versions \union {Air}] \union {None}]
        /\ owed' \in [Blocks -> Nat] /\ crossed' \subseteq Blocks
    BY <1>1, Types DEF EditedBy
  <2>2. QED
    BY <1>3, <1>4, <1>5, <2>1 DEF EditedBy, TypeOK, RC, News, Data, Change, Report, Dug
<1>7. OnlyMadeBlocks'
  <2>1. /\ \A i \in DOMAIN bulk : bulk[i].b \in Blocks
        /\ rc.sending \union rc.sent \subseteq Blocks /\ queued \subseteq Blocks
    BY <1>1, MessageTypes, Types
  <2>2. \A i \in DOMAIN digs' : digs'[i].b \in Blocks
    <3>1. \A i \in DOMAIN digs' : digs'[i] \in Dug
      BY ElementIs DEF EditedBy
    <3>2. QED
      BY <3>1 DEF Dug
  <2>3. QED
    BY <1>1, <1>3, <2>1, <2>2 DEF OnlyMadeBlocks, EditedBy
<1>8. QED
  BY <1>3, <1>6, <1>7 DEF Ground

\* A changed node, and a changed block, as a changed set of nodes.
LEMMA OneNode ==
    ASSUME TypeOK, NEW b \in Blocks, world[b] # None, NEW n \in Nodes,
           world' = [world EXCEPT ![b][n] = NextVersion(b)]
    PROVE  Renews(b, {n})
<1> DEFINE v == NextVersion(b)
           new == [m \in Nodes |-> IF m \in {n} THEN v ELSE world[b][m]]
<1>1. world[b] \in [Nodes -> Versions]
  BY DEF TypeOK, Contents
<1> HIDE DEF v
<1>2. [world[b] EXCEPT ![n] = v] = new
  BY <1>1
<1>3. world' = [world EXCEPT ![b] = new]
  BY <1>2 DEF v
<1>4. QED
  BY <1>3 DEF v, Renews

LEMMA AllNodes ==
    ASSUME NEW b \in Blocks, world' = [world EXCEPT ![b] = [n \in Nodes |-> NextVersion(b)]]
    PROVE  Renews(b, Nodes)
<1> DEFINE v == NextVersion(b)
<1>1. [n \in Nodes |-> v] = [n \in Nodes |-> IF n \in Nodes THEN v ELSE world[b][n]]
  OBVIOUS
<1>2. QED
  BY <1>1, Zenon DEF Renews

LEMMA GroundEdits ==
    ASSUME TypeOK, OnlyMadeBlocks, VersionsLeft
    PROVE  /\ \A b \in Blocks : \A low \in BOOLEAN : EditBlock(b, low) =>
                  LET e == [Edit(b, None, NextVersion(b)) EXCEPT !.low = low]
                  IN  e \in News /\ EditedBy(b, Nodes, e)
           /\ \A b \in Blocks : \A n \in Nodes : EditNode(b, n) =>
                  LET e == Edit(b, n, NextVersion(b))
                  IN  e \in News /\ EditedBy(b, {n}, e)
<1>1. /\ edits \in Seq(News) /\ digs \in Seq(Dug) /\ rc \in RC
      /\ left \in Nat /\ left \in 0 .. MaxEvents /\ Len(digs) \in Nat /\ MaxEvents \in Nat
      /\ \A i \in DOMAIN digs : world[digs[i].b] # None
  BY Types, BlocksAssumption DEF OnlyMadeBlocks
<1>2. ASSUME NEW b \in Blocks, NEW low \in BOOLEAN, EditBlock(b, low)
      PROVE  LET e == [Edit(b, None, NextVersion(b)) EXCEPT !.low = low]
             IN  e \in News /\ EditedBy(b, Nodes, e)
  <2> DEFINE v == NextVersion(b)
             e == [Edit(b, None, v) EXCEPT !.low = low]
  <2>1. /\ left > 0 /\ world[b] # None /\ left' = left - 1
        /\ world' = [world EXCEPT ![b] = [n \in Nodes |-> v]] /\ edits' = Append(edits, e)
        /\ UNCHANGED <<queued, phase, rc, hidden, bulk, changes, reports, digs, copy, owed,
                       crossed>>
    BY <1>2 DEF EditBlock
  <2>2. v \in Versions
    BY <2>1, VersionIsLeft
  <2>3. e \in News
    BY <2>2 DEF Edit, News
  <2>4. Renews(b, Nodes)
    BY <2>1, AllNodes
  <2> HIDE DEF e, v
  <2>5. left' \in Nat /\ left' <= left /\ left' + Len(digs') = left + Len(digs) - 1
    BY <1>1, <2>1
  <2>6. EditedBy(b, Nodes, e)
    BY <1>1, <2>1, <2>4, <2>5 DEF EditedBy
  <2>7. QED
    BY <2>3, <2>6 DEF e, v
<1>3. ASSUME NEW b \in Blocks, NEW n \in Nodes, EditNode(b, n)
      PROVE  LET e == Edit(b, n, NextVersion(b))
             IN  e \in News /\ EditedBy(b, {n}, e)
  <2> DEFINE v == NextVersion(b)
             e == Edit(b, n, v)
  <2>1. /\ left > 0 /\ world[b] # None /\ left' = left - 1
        /\ world' = [world EXCEPT ![b][n] = v] /\ edits' = Append(edits, e)
        /\ UNCHANGED <<queued, phase, rc, hidden, bulk, changes, reports, digs, copy, owed,
                       crossed>>
    BY <1>3 DEF EditNode
  <2>2. v \in Versions
    BY <2>1, VersionIsLeft
  <2>3. e \in News
    BY <2>2 DEF Edit, News
  <2>4. Renews(b, {n})
    BY <2>1, OneNode
  <2> HIDE DEF e, v
  <2>5. left' \in Nat /\ left' <= left /\ left' + Len(digs') = left + Len(digs) - 1
    BY <1>1, <2>1
  <2>6. EditedBy(b, {n}, e)
    BY <1>1, <2>1, <2>4, <2>5 DEF EditedBy
  <2>7. QED
    BY <2>3, <2>6 DEF e, v
<1>4. QED
  BY <1>2, <1>3

\* What an answered dig does: it is carried out, or the block is forgotten.
LEMMA InteractDoes ==
    ASSUME TypeOK, OnlyMadeBlocks, VersionsLeft, handleCommand_Interact
    PROVE  LET b == digs[1].b
               n == digs[1].n
               e == Edit(b, n, NextVersion(b))
           IN  /\ digs # <<>> /\ digs' = Tail(digs) /\ b \in Blocks /\ n \in Nodes
               /\ \/ e \in News /\ EditedBy(b, {n}, e)
                  \/ /\ rc' \in RC /\ rc'.sending = rc.sending \ {b} /\ rc'.sent = rc.sent \ {b}
                     /\ UNCHANGED <<world, edits, queued, phase, hidden, bulk, changes, reports,
                                    copy, owed, crossed, left>>
<1> DEFINE b == digs[1].b
           n == digs[1].n
           v == NextVersion(b)
           e == Edit(b, n, v)
<1>1. /\ digs \in Seq(Dug) /\ rc \in RC /\ left \in Nat /\ Len(digs) \in Nat
      /\ digs # <<>> /\ digs' = Tail(digs)
  BY Types DEF handleCommand_Interact
<1>2. /\ Tail(digs) \in Seq(Dug) /\ Len(digs) >= 1 /\ Head(digs) = digs[1]
      /\ DOMAIN digs = 1 .. Len(digs)
      /\ DOMAIN Tail(digs) = 1 .. Len(digs) - 1 /\ Len(Tail(digs)) = Len(digs) - 1
      /\ \A i \in 1 .. Len(digs) - 1 : Tail(digs)[i] = digs[i + 1]
  BY <1>1, TailIs
<1>3. b \in Blocks /\ n \in Nodes /\ world[b] # None
  BY <1>1, <1>2, MessageTypes DEF OnlyMadeBlocks
<1>4. /\ \/ /\ world' = [world EXCEPT ![b][n] = v] /\ edits' = Append(edits, e)
            /\ rc' = ResendBlockIfOnWire(rc, b)
         \/ /\ rc' = SetBlockNotSent(rc, b, FALSE)
            /\ UNCHANGED <<world, edits>>
      /\ UNCHANGED <<queued, phase, hidden, bulk, changes, reports, copy, owed, crossed, left>>
  BY <1>2, Zenon DEF handleCommand_Interact
<1> HIDE DEF b, n
<1>5. CASE /\ world' = [world EXCEPT ![b][n] = v] /\ edits' = Append(edits, e)
           /\ rc' = ResendBlockIfOnWire(rc, b)
  <2>1. v \in Versions
    BY <1>1, <1>2, <1>3, VersionIsLeft
  <2>2. e \in News
    BY <1>3, <2>1 DEF Edit, News
  <2>3. Renews(b, {n})
    BY <1>3, <1>5, OneNode
  <2>4. /\ digs' \in Seq(Dug) /\ left' \in Nat /\ left' <= left
        /\ left' + Len(digs') = left + Len(digs) - 1
        /\ (left > 0 \/ Len(digs) > 0)
    BY <1>1, <1>2, <1>4
  <2>5. \A i \in DOMAIN digs' : world[digs'[i].b] # None
    BY <1>1, <1>2 DEF OnlyMadeBlocks
  <2>6. rc' \in RC /\ rc'.sending \subseteq rc.sending /\ rc'.sent \subseteq rc.sent
    BY <1>1, <1>3, <1>5, ResendForgets
  <2> HIDE DEF e, v
  <2>7. EditedBy(b, {n}, e)
    BY <1>3, <1>4, <1>5, <2>3, <2>4, <2>5, <2>6 DEF EditedBy
  <2>8. QED
    BY <1>1, <1>3, <2>2, <2>7 DEF e, v, b, n
<1>6. CASE rc' = SetBlockNotSent(rc, b, FALSE) /\ UNCHANGED <<world, edits>>
  <2> DEFINE d == SetBlockNotSent(rc, b, FALSE)
  <2>1. d \in RC /\ d.sending = rc.sending \ {b} /\ d.sent = rc.sent \ {b}
    BY <1>1, <1>3, ForgetNow
  <2> HIDE DEF d
  <2>2. rc' = d
    BY <1>6 DEF d
  <2>3. rc' \in RC /\ rc'.sending = rc.sending \ {b} /\ rc'.sent = rc.sent \ {b}
    BY <2>1, <2>2
  <2>4. QED
    BY <1>1, <1>3, <1>4, <1>6, <2>3 DEF b, n
<1>7. QED
  BY <1>4, <1>5, <1>6

LEMMA GroundInteract ==
    ASSUME Ground, handleCommand_Interact
    PROVE  Ground'
<1> DEFINE b == digs[1].b
           n == digs[1].n
           e == Edit(b, n, NextVersion(b))
<1>0. TypeOK /\ OnlyMadeBlocks /\ VersionsLeft
  BY DEF Ground
<1>1. /\ digs # <<>> /\ digs' = Tail(digs) /\ b \in Blocks /\ n \in Nodes
      /\ \/ e \in News /\ EditedBy(b, {n}, e)
         \/ /\ rc' \in RC /\ rc'.sending = rc.sending \ {b} /\ rc'.sent = rc.sent \ {b}
            /\ UNCHANGED <<world, edits, queued, phase, hidden, bulk, changes, reports,
                           copy, owed, crossed, left>>
  BY <1>0, InteractDoes
<1> HIDE DEF b, n, e
<1>2. CASE e \in News /\ EditedBy(b, {n}, e)
  <2>1. {n} \in SUBSET Nodes
    BY <1>1
  <2>2. QED
    BY <1>1, <1>2, <2>1, GroundEdited
<1>3. CASE /\ rc' \in RC /\ rc'.sending = rc.sending \ {b} /\ rc'.sent = rc.sent \ {b}
           /\ UNCHANGED <<world, edits, queued, phase, hidden, bulk, changes, reports,
                          copy, owed, crossed, left>>
  <2>1. digs \in Seq(Dug) /\ left \in Nat
    BY <1>0, Types
  <2>2. /\ Tail(digs) \in Seq(Dug) /\ Len(digs) \in Nat /\ Len(digs) >= 1
        /\ DOMAIN digs = 1 .. Len(digs)
        /\ DOMAIN Tail(digs) = 1 .. Len(digs) - 1 /\ Len(Tail(digs)) = Len(digs) - 1
        /\ \A i \in 1 .. Len(digs) - 1 : Tail(digs)[i] = digs[i + 1]
    BY <1>1, <2>1, TailIs
  <2>3. TypeOK'
    BY <1>0, <1>1, <1>3, <2>2 DEF TypeOK, RC, Dug
  <2>4. OnlyMadeBlocks'
    BY <1>0, <1>1, <1>3, <2>2 DEF OnlyMadeBlocks
  <2>5. Len(digs') \in Nat /\ left' \in Nat /\ left' + Len(digs') <= left + Len(digs)
    BY <1>1, <1>3, <2>1, <2>2
  <2>6. QED
    BY <1>3, <2>3, <2>4, <2>5, FewerLeft DEF Ground
<1>4. QED
  BY <1>1, <1>2, <1>3

LEMMA GroundClient ==
    ASSUME Ground,
           \/ ClientReceive
           \/ \E b \in Blocks : \/ sendGotBlocks(b) \/ UnloadBlock(b)
                                \/ \E n \in Nodes : Dig(b, n)
           \/ \E b \in Occludable : Occlude(b)
    PROVE  Ground'
<1>0. TypeOK /\ OnlyMadeBlocks /\ VersionsLeft
  BY DEF Ground
<1>1. /\ bulk \in Seq(Data) /\ changes \in Seq(Change) /\ digs \in Seq(Dug)
      /\ reports \in Seq(Report)
      /\ left \in Nat /\ left \in 0 .. MaxEvents /\ Len(digs) \in Nat /\ MaxEvents \in Nat
      /\ copy \in [Blocks -> [Nodes -> Versions \union {Air}] \union {None}]
  BY <1>0, Types, BlocksAssumption
<1>2. CASE handleCommand_BlockData
  <2> DEFINE b == Head(bulk).b
             c == Head(bulk).c
  <2>1. /\ bulk # <<>> /\ bulk' = Tail(bulk) /\ copy' = [copy EXCEPT ![b] = c]
        /\ owed' = [owed EXCEPT ![b] = @ + 1]
        /\ UNCHANGED <<queued, world, edits, phase, rc, hidden, changes, reports, digs, crossed,
                       left>>
    BY <1>2 DEF handleCommand_BlockData
  <2>2. /\ Tail(bulk) \in Seq(Data) /\ Head(bulk) = bulk[1] /\ 1 \in DOMAIN bulk
        /\ \A i \in DOMAIN Tail(bulk) : Tail(bulk)[i] = bulk[i + 1] /\ i + 1 \in DOMAIN bulk
    BY <1>1, <2>1, TailIs
  <2>3. b \in Blocks /\ c \in Contents /\ world[b] # None
    BY <1>0, <2>2, MessageTypes DEF OnlyMadeBlocks
  <2> HIDE DEF b, c
  <2>4. TypeOK'
    <3>1. copy' \in [Blocks -> [Nodes -> Versions \union {Air}] \union {None}]
      BY <1>1, <2>1, <2>3, ContentsAreSome
    <3>2. owed' \in [Blocks -> Nat]
      BY <1>0, <2>1, <2>3 DEF TypeOK
    <3>3. QED
      BY <1>0, <2>1, <2>2, <3>1, <3>2 DEF TypeOK, Data
  <2>5. OnlyMadeBlocks'
    BY <1>0, <1>1, <2>1, <2>2, <2>3 DEF OnlyMadeBlocks
  <2>6. QED
    BY <1>0, <2>1, <2>4, <2>5 DEF Ground, VersionsLeft
<1>3. CASE handleCommand_AddNode
  <2> DEFINE e == Head(changes)
  <2>1. /\ changes # <<>> /\ changes' = Tail(changes)
        /\ copy' = IF copy[e.b] = None THEN copy ELSE [copy EXCEPT ![e.b][e.n] = e.v]
        /\ UNCHANGED <<queued, world, edits, phase, rc, hidden, bulk, reports, digs, owed, crossed,
                       left>>
    BY <1>3 DEF handleCommand_AddNode
  <2>2. Tail(changes) \in Seq(Change) /\ Head(changes) \in Change
    BY <1>1, <2>1, TailIs
  <2>3. e.b \in Blocks /\ e.n \in Nodes /\ e.v \in Versions
    BY <2>2 DEF Change
  <2> HIDE DEF e
  <2>4. /\ copy' \in [Blocks -> [Nodes -> Versions \union {Air}] \union {None}]
        /\ \A b \in Blocks : copy'[b] # None => copy[b] # None
    BY <1>1, <2>1, <2>3
  <2>5. TypeOK'
    BY <1>0, <2>1, <2>2, <2>4 DEF TypeOK, Change
  <2>6. OnlyMadeBlocks'
    BY <1>0, <2>1, <2>4 DEF OnlyMadeBlocks
  <2>7. QED
    BY <1>0, <2>1, <2>5, <2>6 DEF Ground, VersionsLeft
<1>4. ASSUME NEW b \in Blocks, sendGotBlocks(b) PROVE Ground'
  <2> DEFINE r == [type |-> "got", b |-> b]
  <2>1. /\ owed[b] > 0 /\ owed' = [owed EXCEPT ![b] = @ - 1] /\ reports' = Append(reports, r)
        /\ UNCHANGED <<queued, world, edits, phase, rc, hidden, bulk, changes, digs, copy, crossed,
                       left>>
    BY <1>4 DEF sendGotBlocks
  <2>2. r \in Report
    BY DEF Report
  <2> HIDE DEF r
  <2>3. reports' \in Seq(Report) /\ owed' \in [Blocks -> Nat]
    BY <1>0, <1>1, <2>1, <2>2, AppendIs DEF TypeOK
  <2>4. TypeOK'
    BY <1>0, <2>1, <2>3 DEF TypeOK, Report
  <2>5. QED
    BY <1>0, <2>1, <2>4 DEF Ground, VersionsLeft, OnlyMadeBlocks
<1>5. ASSUME NEW b \in Blocks, UnloadBlock(b) PROVE Ground'
  <2> DEFINE r == [type |-> "deleted", b |-> b]
  <2>1. /\ left > 0 /\ left' = left - 1 /\ reports' = Append(reports, r)
        /\ copy' = [copy EXCEPT ![b] = None]
        /\ UNCHANGED <<queued, world, edits, phase, rc, hidden, bulk, changes, digs, owed, crossed>>
    BY <1>5 DEF UnloadBlock
  <2>2. r \in Report
    BY DEF Report
  <2> HIDE DEF r
  <2>3. reports' \in Seq(Report)
    BY <1>1, <2>1, <2>2, AppendIs
  <2>4. /\ copy' \in [Blocks -> [Nodes -> Versions \union {Air}] \union {None}]
        /\ \A c \in Blocks : copy'[c] # None => copy[c] # None
    BY <1>1, <2>1
  <2>5. left' \in 0 .. MaxEvents /\ left' \in Nat /\ Len(digs') \in Nat
        /\ left' + Len(digs') <= left + Len(digs)
    BY <1>1, <2>1
  <2>6. TypeOK'
    BY <1>0, <2>1, <2>3, <2>4, <2>5 DEF TypeOK, Report
  <2>7. OnlyMadeBlocks'
    BY <1>0, <2>1, <2>4 DEF OnlyMadeBlocks
  <2>8. VersionsLeft'
    BY <2>1, <2>5, FewerLeft
  <2>9. QED
    BY <2>6, <2>7, <2>8 DEF Ground
<1>6. ASSUME NEW b \in Blocks, NEW n \in Nodes, Dig(b, n) PROVE Ground'
  <2> DEFINE d == [b |-> b, n |-> n]
  <2>1. /\ left > 0 /\ copy[b] # None /\ left' = left - 1 /\ digs' = Append(digs, d)
        /\ copy' = [copy EXCEPT ![b][n] = Air]
        /\ UNCHANGED <<queued, world, edits, phase, rc, hidden, bulk, changes, reports, owed,
                       crossed>>
    BY <1>6 DEF Dig
  <2>2. d \in Dug /\ d.b = b
    BY DEF Dug
  <2> HIDE DEF d
  <2>3. /\ digs' \in Seq(Dug) /\ Len(digs') = Len(digs) + 1 /\ DOMAIN digs = 1 .. Len(digs)
        /\ DOMAIN digs' = 1 .. Len(digs) + 1 /\ digs'[Len(digs) + 1] = d
        /\ \A i \in 1 .. Len(digs) : digs'[i] = digs[i]
    BY <1>1, <2>1, <2>2, AppendIs
  <2>4. /\ copy' \in [Blocks -> [Nodes -> Versions \union {Air}] \union {None}]
        /\ \A c \in Blocks : copy'[c] # None => copy[c] # None
    BY <1>1, <2>1
  <2>5. left' \in 0 .. MaxEvents /\ left' \in Nat /\ Len(digs') \in Nat
        /\ left' + Len(digs') <= left + Len(digs)
    <3>1. left' = left - 1 /\ Len(digs') = Len(digs) + 1 /\ left > 0
      BY <2>1, <2>3, Zenon
    <3>2. QED
      BY <1>1, <3>1
  <2>6. TypeOK'
    BY <1>0, <2>1, <2>3, <2>4, <2>5 DEF TypeOK, Dug
  <2>7. world[b] # None
    BY <1>0, <2>1 DEF OnlyMadeBlocks
  <2>8. ASSUME NEW i \in DOMAIN digs' PROVE world[digs'[i].b] # None
    <3>1. i \in 1 .. Len(digs) \/ i = Len(digs) + 1
      BY <1>1, <2>3
    <3>2. CASE i \in 1 .. Len(digs)
      BY <1>0, <2>3, <3>2 DEF OnlyMadeBlocks
    <3>3. CASE i = Len(digs) + 1
      BY <2>2, <2>3, <2>7, <3>3, Zenon
    <3>4. QED
      BY <3>1, <3>2, <3>3
  <2>9. OnlyMadeBlocks'
    BY <1>0, <2>1, <2>4, <2>8 DEF OnlyMadeBlocks
  <2>10. VersionsLeft'
    BY <2>1, <2>5, FewerLeft
  <2>11. QED
    BY <2>6, <2>9, <2>10 DEF Ground
<1>7. ASSUME NEW b \in Occludable, Occlude(b) PROVE Ground'
  <2>1. /\ left > 0 /\ left' = left - 1 /\ hidden' \subseteq hidden \union {b}
        /\ UNCHANGED <<queued, world, edits, phase, rc, bulk, changes, reports, digs, copy, owed,
                       crossed>>
    BY <1>7 DEF Occlude
  <2>2. left' \in 0 .. MaxEvents /\ left' \in Nat /\ Len(digs') \in Nat
        /\ left' + Len(digs') <= left + Len(digs)
    BY <1>1, <2>1
  <2>3. TypeOK'
    BY <1>0, <2>1, <2>2 DEF TypeOK, Occludable
  <2>4. QED
    BY <1>0, <2>1, <2>2, <2>3, FewerLeft DEF Ground, OnlyMadeBlocks
<1>8. QED
  BY <1>2, <1>3, <1>4, <1>5, <1>6, <1>7 DEF ClientReceive

LEMMA GroundKept ==
    ASSUME Ground, [Next]_vars
    PROVE  Ground'
<1>1. CASE UNCHANGED vars
  BY <1>1 DEF vars, Ground, TypeOK, OnlyMadeBlocks, VersionsLeft
<1>2. ASSUME NEW b \in Blocks, NEW low \in BOOLEAN, EditBlock(b, low) PROVE Ground'
  <2> DEFINE e == [Edit(b, None, NextVersion(b)) EXCEPT !.low = low]
  <2>1. e \in News /\ EditedBy(b, Nodes, e)
    BY <1>2, GroundEdits DEF Ground
  <2> HIDE DEF e
  <2>2. QED
    BY <2>1, GroundEdited
<1>3. ASSUME NEW b \in Blocks, NEW n \in Nodes, EditNode(b, n) PROVE Ground'
  <2> DEFINE e == Edit(b, n, NextVersion(b))
  <2>1. e \in News /\ EditedBy(b, {n}, e)
    BY <1>3, GroundEdits DEF Ground
  <2> HIDE DEF e
  <2>2. {n} \in SUBSET Nodes
    OBVIOUS
  <2>3. QED
    BY <2>1, <2>2, GroundEdited
<1>4. CASE Next
  BY <1>2, <1>3, <1>4, GroundSendBlocks, GroundServer, GroundInteract, GroundClient
     DEF Next, ServerStep, ServerReceive
<1>5. QED
  BY <1>1, <1>4

\* BlockTransfer's TypeOK: whatever is edited, dug, unloaded and sent, every variable keeps
\* its type; the versions stay in their bound as every one of them uses up an event.
THEOREM TypeCorrect == Spec => []TypeOK
<1>1. Init => Ground
  BY GroundInit
<1>2. Ground /\ [Next]_vars => Ground'
  BY GroundKept
<1>3. Ground => TypeOK
  BY DEF Ground
<1>4. QED
  BY <1>1, <1>2, <1>3, PTL DEF Spec

-----------------------------------------------------------------------------
(* The server's books.                                                     *)

LEMMA InFlightIs ==
    ASSUME NEW b
    PROVE  /\ InFlight(b).bulk <=> BulkFor(b)
           /\ InFlight(b).changes <=> ChangesFor(b)
           /\ (InFlight(b).bulk)' <=> BulkFor(b)'
           /\ (InFlight(b).changes)' <=> ChangesFor(b)'
BY DEF InFlight, BulkFor, ChangesFor

LEMMA BooksIs == (Books <=> ReportsAreTrue /\ BooksAreRight) /\ (Books => BooksAreRight)
BY InFlightIs DEF Books, BooksAreRight

LEMMA BooksInit == Init => Books
BY DEF Init, Books, ReportsAreTrue

\* What stays in flight.
LEMMA BulkAppended ==
    ASSUME TypeOK, NEW d \in Data, bulk' = Append(bulk, d)
    PROVE  \A b : BulkFor(b)' <=> BulkFor(b) \/ b = d.b
<1>1. bulk \in Seq(Data)
  BY Types
<1>2. /\ Len(bulk) \in Nat /\ DOMAIN bulk = 1 .. Len(bulk) /\ DOMAIN bulk' = 1 .. Len(bulk) + 1
      /\ \A i \in 1 .. Len(bulk) : bulk'[i] = bulk[i]
      /\ bulk'[Len(bulk) + 1] = d
  BY <1>1, AppendIs
<1>3. QED
  BY <1>2 DEF BulkFor

LEMMA BulkSent ==
    ASSUME NEW S \in SUBSET Blocks, AppendsBlocks(S, bulk')
    PROVE  \A b : BulkFor(b)' <=> BulkFor(b) \/ b \in S
<1>1. \A i \in DOMAIN bulk : i \in DOMAIN bulk' /\ bulk'[i] = bulk[i]
  BY DEF AppendsBlocks
<1>2. \A i \in DOMAIN bulk' : i \in DOMAIN bulk \/ i > Len(bulk)
  BY DEF AppendsBlocks
<1>3. QED
  BY <1>1, <1>2 DEF BulkFor, AppendsBlocks

\* A step that only takes blocks from the record, and leaves reports, acknowledgements and
\* what the client has alone.
LEMMA BooksQuiet ==
    ASSUME TypeOK, Books, rc'.sending \subseteq rc.sending, rc'.sent \subseteq rc.sent,
           UNCHANGED <<reports, owed>>,
           \A b \in Blocks : copy'[b] = None <=> copy[b] = None,
           \A b \in Blocks : BulkFor(b) => BulkFor(b)'
    PROVE  Books'
<1>1. /\ rc.sent \subseteq Blocks /\ rc.sending \subseteq Blocks
      /\ \A i \in DOMAIN reports : reports[i].b \in Blocks
  BY MessageTypes
<1>2. \A type, b : Reported(type, b)' <=> Reported(type, b)
  BY DEF Reported
<1>3. ReportsAreTrue'
  BY <1>1 DEF Books, ReportsAreTrue
<1>4. \A b \in rc'.sent : copy'[b] # None \/ BulkFor(b)' \/ Reported("deleted", b)'
  BY <1>1, <1>2 DEF Books
<1>5. \A b \in rc'.sending : BulkFor(b)' \/ owed'[b] > 0 \/ Reported("got", b)'
  BY <1>1, <1>2 DEF Books
<1>6. QED
  BY <1>3, <1>4, <1>5 DEF Books

\* A report is taken from the head of the queue.
LEMMA ReportTaken ==
    ASSUME TypeOK, Books, reports # <<>>, reports' = Tail(reports),
           UNCHANGED <<copy, owed, bulk>>,
           NEW b, b = Head(reports).b,
           rc'.sending = rc.sending \ {b},
           \/ Head(reports).type = "got" /\ rc'.sent \subseteq rc.sent \union {b}
           \/ Head(reports).type = "deleted" /\ rc'.sent = rc.sent \ {b}
    PROVE  Books'
<1>1. reports \in Seq(Report)
  BY Types
<1>2. /\ Len(reports) \in Nat /\ Len(reports) >= 1 /\ Head(reports) = reports[1]
      /\ DOMAIN reports = 1 .. Len(reports)
      /\ DOMAIN reports' = 1 .. Len(reports) - 1
      /\ \A i \in 1 .. Len(reports) - 1 : reports'[i] = reports[i + 1]
  BY <1>1, TailIs
<1>3. ASSUME NEW j \in DOMAIN reports, j # 1
      PROVE  j - 1 \in DOMAIN reports' /\ reports'[j - 1] = reports[j]
  <2>1. j - 1 \in 1 .. Len(reports) - 1 /\ (j - 1) + 1 = j
    BY <1>2, <1>3
  <2>2. QED
    BY <1>2, <2>1
<1>4. ReportsAreTrue'
  <2>1. ASSUME NEW i \in DOMAIN reports', copy[reports'[i].b] = None
        PROVE  \E j \in DOMAIN reports' :
                   j >= i /\ reports'[j] = [type |-> "deleted", b |-> reports'[i].b]
    <3>1. i + 1 \in DOMAIN reports /\ reports'[i] = reports[i + 1] /\ i \in Nat /\ i >= 1
      BY <1>2
    <3>2. PICK j \in DOMAIN reports :
              j >= i + 1 /\ reports[j] = [type |-> "deleted", b |-> reports'[i].b]
      BY <2>1, <3>1 DEF Books, ReportsAreTrue
    <3>3. j # 1 /\ j - 1 >= i
      BY <1>2, <3>1, <3>2
    <3>4. QED
      BY <1>3, <3>2, <3>3
  <2>2. QED
    BY <2>1 DEF Books, ReportsAreTrue
<1>5. \A c, type : reports[1] # [type |-> type, b |-> c] =>
          (Reported(type, c) => Reported(type, c)')
  BY <1>3 DEF Reported
<1>6. ASSUME NEW c \in rc'.sent PROVE copy[c] # None \/ BulkFor(c) \/ Reported("deleted", c)'
  <2>1. CASE Head(reports).type = "deleted"
    <3>1. c \in rc.sent /\ c # b
      BY <1>6, <2>1
    <3>2. reports[1] # [type |-> "deleted", b |-> c]
      BY <1>2, <3>1
    <3>3. copy[c] # None \/ BulkFor(c) \/ Reported("deleted", c)
      BY <3>1 DEF Books
    <3>4. QED
      BY <1>5, <3>2, <3>3
  <2>2. CASE Head(reports).type = "got"
    <3>1. reports[1] # [type |-> "deleted", b |-> c]
      BY <1>2, <2>2
    <3>2. CASE c \in rc.sent
      BY <1>5, <3>1, <3>2 DEF Books
    <3>3. CASE c = b
      <4>1. 1 \in DOMAIN reports
        BY <1>2
      <4>2. copy[c] # None \/ Reported("deleted", c)
        BY <1>2, <3>3, <4>1 DEF Books, ReportsAreTrue, Reported
      <4>3. QED
        BY <1>5, <3>1, <4>2
    <3>4. QED
      BY <1>6, <2>2, <3>2, <3>3
  <2>3. QED
    BY <2>1, <2>2
<1>7. ASSUME NEW c \in rc'.sending PROVE BulkFor(c) \/ owed[c] > 0 \/ Reported("got", c)'
  <2>1. c \in rc.sending /\ c # b
    BY <1>7
  <2>2. reports[1] # [type |-> "got", b |-> c]
    BY <1>2, <2>1
  <2>3. BulkFor(c) \/ owed[c] > 0 \/ Reported("got", c)
    BY <2>1 DEF Books
  <2>4. QED
    BY <1>5, <2>2, <2>3
<1>8. \A c : BulkFor(c)' <=> BulkFor(c)
  BY DEF BulkFor
<1>9. QED
  BY <1>4, <1>6, <1>7, <1>8 DEF Books

\* A report is appended: of a block that the client has, or drops.
LEMMA ReportAppended ==
    ASSUME TypeOK, NEW r \in Report, reports' = Append(reports, r)
    PROVE  /\ \A i \in DOMAIN reports : i \in DOMAIN reports' /\ reports'[i] = reports[i]
           /\ \E l \in DOMAIN reports' : /\ l = Len(reports) + 1 /\ reports'[l] = r
                                         /\ \A i \in DOMAIN reports' : i <= l
                                         /\ \A i \in DOMAIN reports' : i # l => i \in DOMAIN reports
           /\ \A type, c : Reported(type, c) => Reported(type, c)'
           /\ Reported(r.type, r.b)'
<1>1. reports \in Seq(Report)
  BY Types
<1>2. /\ Len(reports) \in Nat /\ DOMAIN reports = 1 .. Len(reports)
      /\ DOMAIN reports' = 1 .. Len(reports) + 1
      /\ \A i \in 1 .. Len(reports) : reports'[i] = reports[i]
      /\ reports'[Len(reports) + 1] = r
  BY <1>1, AppendIs
<1>3. \A i \in DOMAIN reports : i \in DOMAIN reports' /\ reports'[i] = reports[i]
  BY <1>2
<1>4. /\ Len(reports) + 1 \in DOMAIN reports' /\ reports'[Len(reports) + 1] = r
      /\ \A i \in DOMAIN reports' : i <= Len(reports) + 1
      /\ \A i \in DOMAIN reports' : i # Len(reports) + 1 => i \in DOMAIN reports
  BY <1>2
<1>5. r = [type |-> r.type, b |-> r.b]
  BY DEF Report
<1>6. \A type, c : Reported(type, c) => Reported(type, c)'
  BY <1>3 DEF Reported
<1>7. Reported(r.type, r.b)'
  BY <1>4, <1>5 DEF Reported
<1>8. QED
  BY <1>3, <1>4, <1>6, <1>7

LEMMA BooksSendBlocks ==
    ASSUME TypeOK, Books, SendBlocks
    PROVE  Books'
<1>1. /\ UNCHANGED <<world, edits, hidden, changes, reports, digs, copy, owed>>
      /\ \/ UNCHANGED <<rc, queued, bulk, crossed, left>>
         \/ \E S \in SUBSET Blocks : Transfers(S)
  BY SendBlocksDoes
<1>2. CASE UNCHANGED <<rc, queued, bulk, crossed, left>>
  <2>1. \A b \in Blocks : BulkFor(b) => BulkFor(b)'
    BY <1>2 DEF BulkFor
  <2>2. QED
    BY <1>1, <1>2, <2>1, BooksQuiet
<1>3. ASSUME NEW S \in SUBSET Blocks, Transfers(S) PROVE Books'
  <2>1. rc'.sending = rc.sending \union S /\ rc'.sent = rc.sent
    BY <1>3 DEF Transfers
  <2>2. \A b : BulkFor(b)' <=> BulkFor(b) \/ b \in S
    BY <1>3, BulkSent DEF Transfers
  <2>3. \A type, b : Reported(type, b)' <=> Reported(type, b)
    BY <1>1 DEF Reported
  <2>4. ReportsAreTrue'
    BY <1>1 DEF Books, ReportsAreTrue
  <2>5. QED
    BY <1>1, <2>1, <2>2, <2>3, <2>4 DEF Books
<1>4. QED
  BY <1>1, <1>2, <1>3

LEMMA BooksEdited ==
    ASSUME TypeOK, Books, NEW b \in Blocks, NEW N \in SUBSET Nodes, NEW e \in News,
           EditedBy(b, N, e)
    PROVE  Books'
<1>1. \A c \in Blocks : BulkFor(c) => BulkFor(c)'
  BY DEF EditedBy, BulkFor
<1>2. QED
  BY <1>1, BooksQuiet DEF EditedBy

LEMMA BooksServer ==
    ASSUME Ground, Books,
           \/ PauseEnds \/ SendEdits \/ ServerReceive
           \/ \E b \in Blocks : SendBlock(b) \/ BlockMade(b)
    PROVE  Books'
<1>0. TypeOK /\ OnlyMadeBlocks /\ VersionsLeft
  BY DEF Ground
<1>1. /\ bulk \in Seq(Data) /\ edits \in Seq(News) /\ reports \in Seq(Report) /\ rc \in RC
  BY <1>0, Types, BlocksAssumption
<1>2. bulk' = bulk => \A c \in Blocks : BulkFor(c) => BulkFor(c)'
  BY DEF BulkFor
<1>3. CASE PauseEnds
  <2>1. rc'.sending = rc.sending /\ rc'.sent = rc.sent
    BY <1>1, <1>3 DEF PauseEnds, RC
  <2>2. UNCHANGED <<reports, owed, copy, bulk>>
    BY <1>3 DEF PauseEnds
  <2>3. QED
    BY <1>0, <1>2, <2>1, <2>2, BooksQuiet
<1>4. CASE SendEdits
  <2> DEFINE acc == FoldLeft(SendChange, [rc |-> rc, changes |-> changes], edits)
  <2>1. acc.rc.sending \subseteq rc.sending /\ acc.rc.sent \subseteq rc.sent
    BY <1>0, AllEditsTold DEF ToldRight
  <2>2. rc' = acc.rc /\ UNCHANGED <<reports, owed, copy, bulk>>
    BY <1>4 DEF SendEdits
  <2> HIDE DEF acc
  <2>3. QED
    BY <1>0, <1>2, <2>1, <2>2, BooksQuiet
<1>5. CASE handleCommand_GotBlocks
  <2> DEFINE b == Head(reports).b
             d == GotBlock(rc, b)
  <2>1. /\ reports # <<>> /\ Head(reports).type = "got" /\ reports' = Tail(reports) /\ rc' = d
        /\ UNCHANGED <<copy, owed, bulk>>
    BY <1>5 DEF handleCommand_GotBlocks
  <2>2. b \in Blocks
    <3>1. Head(reports) \in Report
      BY <1>1, <2>1, TailIs
    <3>2. QED
      BY <3>1 DEF Report
  <2>3. d.sending = rc.sending \ {b} /\ d.sent \subseteq rc.sent \union {b}
    BY <1>1, <2>2, GotKeeps
  <2> HIDE DEF d
  <2>4. rc'.sending = rc.sending \ {b} /\ rc'.sent \subseteq rc.sent \union {b}
    BY <2>1, <2>3
  <2>5. QED
    BY <1>0, <2>1, <2>4, ReportTaken
<1>6. CASE handleCommand_DeletedBlocks
  <2> DEFINE b == Head(reports).b
             d == SetBlockNotSent(rc, b, FALSE)
  <2>1. /\ reports # <<>> /\ Head(reports).type = "deleted" /\ reports' = Tail(reports)
        /\ rc' = d /\ UNCHANGED <<copy, owed, bulk>>
    BY <1>6 DEF handleCommand_DeletedBlocks
  <2>2. b \in Blocks
    <3>1. Head(reports) \in Report
      BY <1>1, <2>1, TailIs
    <3>2. QED
      BY <3>1 DEF Report
  <2>3. d.sending = rc.sending \ {b} /\ d.sent = rc.sent \ {b}
    BY <1>1, <2>2, ForgetNow
  <2> HIDE DEF d
  <2>4. rc'.sending = rc.sending \ {b} /\ rc'.sent = rc.sent \ {b}
    BY <2>1, <2>3
  <2>5. QED
    BY <1>0, <2>1, <2>4, ReportTaken
<1>7. CASE handleCommand_Interact
  <2> DEFINE b == digs[1].b
             n == digs[1].n
             e == Edit(b, n, NextVersion(b))
  <2>1. /\ b \in Blocks /\ n \in Nodes
        /\ \/ e \in News /\ EditedBy(b, {n}, e)
           \/ /\ rc' \in RC /\ rc'.sending = rc.sending \ {b} /\ rc'.sent = rc.sent \ {b}
              /\ UNCHANGED <<world, edits, queued, phase, hidden, bulk, changes, reports,
                             copy, owed, crossed, left>>
    BY <1>0, <1>7, InteractDoes
  <2> HIDE DEF b, n, e
  <2>2. {n} \in SUBSET Nodes
    BY <2>1
  <2>3. CASE e \in News /\ EditedBy(b, {n}, e)
    BY <1>0, <2>1, <2>2, <2>3, BooksEdited
  <2>4. CASE /\ rc' \in RC /\ rc'.sending = rc.sending \ {b} /\ rc'.sent = rc.sent \ {b}
             /\ UNCHANGED <<world, edits, queued, phase, hidden, bulk, changes, reports,
                            copy, owed, crossed, left>>
    BY <1>0, <1>2, <2>4, BooksQuiet
  <2>5. QED
    BY <2>1, <2>3, <2>4
<1>8. ASSUME NEW b \in Blocks, SendBlock(b) PROVE Books'
  <2> DEFINE d == [b |-> b, c |-> world[b]]
  <2>1. /\ world[b] # None /\ bulk' = Append(bulk, d)
        /\ UNCHANGED <<rc, reports, owed, copy>>
    BY <1>8 DEF SendBlock
  <2>2. d \in Data
    BY <1>0, <2>1 DEF TypeOK, Data
  <2> HIDE DEF d
  <2>3. \A c \in Blocks : BulkFor(c) => BulkFor(c)'
    BY <1>0, <2>1, <2>2, BulkAppended
  <2>4. QED
    BY <1>0, <2>1, <2>3, BooksQuiet
<1>9. ASSUME NEW b \in Blocks, BlockMade(b) PROVE Books'
  <2>1. UNCHANGED <<rc, reports, owed, copy, bulk>>
    BY <1>9 DEF BlockMade
  <2>2. QED
    BY <1>0, <1>2, <2>1, BooksQuiet
<1>10. QED
  BY <1>3, <1>4, <1>5, <1>6, <1>7, <1>8, <1>9 DEF ServerReceive

LEMMA BooksClient ==
    ASSUME Ground, Books,
           \/ ClientReceive
           \/ \E b \in Blocks : \/ sendGotBlocks(b) \/ UnloadBlock(b)
                                \/ \E n \in Nodes : Dig(b, n)
           \/ \E b \in Occludable : Occlude(b)
    PROVE  Books'
<1>0. TypeOK /\ OnlyMadeBlocks /\ VersionsLeft
  BY DEF Ground
<1>1. /\ bulk \in Seq(Data) /\ changes \in Seq(Change) /\ reports \in Seq(Report)
      /\ copy \in [Blocks -> [Nodes -> Versions \union {Air}] \union {None}]
      /\ owed \in [Blocks -> Nat]
      /\ rc.sent \subseteq Blocks /\ rc.sending \subseteq Blocks
      /\ \A i \in DOMAIN reports : reports[i].b \in Blocks
  BY <1>0, Types, MessageTypes
<1>2. bulk' = bulk => \A c \in Blocks : BulkFor(c) => BulkFor(c)'
  BY DEF BulkFor
<1>3. CASE handleCommand_BlockData
  <2> DEFINE b == Head(bulk).b
             c == Head(bulk).c
  <2>1. /\ bulk # <<>> /\ bulk' = Tail(bulk) /\ copy' = [copy EXCEPT ![b] = c]
        /\ owed' = [owed EXCEPT ![b] = @ + 1]
        /\ UNCHANGED <<rc, reports>>
    BY <1>3 DEF handleCommand_BlockData
  <2>2. /\ Head(bulk) = bulk[1] /\ bulk[1] \in Data /\ Len(bulk) \in Nat
        /\ DOMAIN bulk = 1 .. Len(bulk) /\ DOMAIN bulk' = 1 .. Len(bulk) - 1
        /\ \A i \in 1 .. Len(bulk) - 1 : bulk'[i] = bulk[i + 1]
    BY <1>1, <2>1, TailIs
  <2>3. b \in Blocks /\ c # None /\ b = bulk[1].b
    BY <2>2, ContentsAreSome DEF Data
  <2> HIDE DEF b, c
  <2>4. ASSUME NEW a, BulkFor(a), a # b PROVE BulkFor(a)'
    <3>1. PICK i \in DOMAIN bulk : bulk[i].b = a
      BY <2>4 DEF BulkFor
    <3>2. i # 1
      BY <2>3, <2>4, <3>1
    <3>3. i - 1 \in DOMAIN bulk' /\ bulk'[i - 1] = bulk[i]
      BY <2>2, <3>1, <3>2
    <3>4. QED
      BY <3>1, <3>3 DEF BulkFor
  <2>5. /\ \A a \in Blocks : copy'[a] = None => copy[a] = None /\ a # b
        /\ \A a \in Blocks : owed[a] > 0 => owed'[a] > 0
        /\ \A a \in Blocks : owed'[a] > 0 => owed[a] > 0 \/ a = b
        /\ owed'[b] > 0
    BY <1>1, <2>1, <2>3
  <2>6. \A type, a : Reported(type, a)' <=> Reported(type, a)
    BY <2>1 DEF Reported
  <2>7. ReportsAreTrue'
    BY <1>1, <2>1, <2>5 DEF Books, ReportsAreTrue
  <2>8. \A a \in rc'.sent : copy'[a] # None \/ BulkFor(a)' \/ Reported("deleted", a)'
    BY <1>1, <2>1, <2>4, <2>5, <2>6 DEF Books
  <2>9. \A a \in rc'.sending : BulkFor(a)' \/ owed'[a] > 0 \/ Reported("got", a)'
    BY <1>1, <2>1, <2>4, <2>5, <2>6 DEF Books
  <2>10. QED
    BY <2>7, <2>8, <2>9 DEF Books
<1>4. CASE handleCommand_AddNode
  <2> DEFINE e == Head(changes)
  <2>1. /\ changes # <<>>
        /\ copy' = IF copy[e.b] = None THEN copy ELSE [copy EXCEPT ![e.b][e.n] = e.v]
        /\ UNCHANGED <<rc, bulk, reports, owed>>
    BY <1>4 DEF handleCommand_AddNode
  <2>2. e.b \in Blocks /\ e.n \in Nodes /\ e.v \in Versions
    <3>1. Head(changes) \in Change
      BY <1>1, <2>1, TailIs
    <3>2. QED
      BY <3>1 DEF Change
  <2> HIDE DEF e
  <2>3. ASSUME NEW a \in Blocks, copy[a] # None, a = e.b
        PROVE  copy'[a] \in [Nodes -> Versions \union {Air}]
    BY <1>1, <2>1, <2>2, <2>3
  <2>4. \A a \in Blocks : copy'[a] = None <=> copy[a] = None
    BY <1>1, <2>1, <2>2, <2>3, ContentsAreSome
  <2>5. QED
    BY <1>0, <1>2, <2>1, <2>4, BooksQuiet
<1>5. ASSUME NEW b \in Blocks, sendGotBlocks(b) PROVE Books'
  <2> DEFINE r == [type |-> "got", b |-> b]
  <2>1. /\ owed[b] > 0 /\ owed' = [owed EXCEPT ![b] = @ - 1] /\ reports' = Append(reports, r)
        /\ UNCHANGED <<rc, bulk, copy>>
    BY <1>5 DEF sendGotBlocks
  <2>2. r \in Report /\ r.b = b /\ r.type = "got" /\ copy[b] # None
    BY <2>1 DEF Report, Books, ReportsAreTrue
  <2> HIDE DEF r
  <2>3. /\ \A i \in DOMAIN reports : i \in DOMAIN reports' /\ reports'[i] = reports[i]
        /\ \E l \in DOMAIN reports' : /\ l = Len(reports) + 1 /\ reports'[l] = r
                                      /\ \A i \in DOMAIN reports' : i <= l
                                      /\ \A i \in DOMAIN reports' : i # l => i \in DOMAIN reports
        /\ \A type, c : Reported(type, c) => Reported(type, c)'
        /\ Reported("got", b)'
    BY <1>0, <2>1, <2>2, ReportAppended
  <2>4. \A a \in Blocks : (owed'[a] > 0 => owed[a] > 0) /\ (owed[a] > 0 => owed'[a] > 0 \/ a = b)
    BY <1>1, <2>1
  <2>5. \A i \in DOMAIN reports' :
            \/ copy'[reports'[i].b] # None
            \/ \E j \in DOMAIN reports' :
                   j >= i /\ reports'[j] = [type |-> "deleted", b |-> reports'[i].b]
    BY <2>1, <2>2, <2>3 DEF Books, ReportsAreTrue
  <2>6. ReportsAreTrue'
    BY <1>1, <2>1, <2>4, <2>5 DEF Books, ReportsAreTrue
  <2>7. QED
    BY <1>1, <1>2, <2>1, <2>3, <2>4, <2>6 DEF Books
<1>6. ASSUME NEW b \in Blocks, UnloadBlock(b) PROVE Books'
  <2> DEFINE r == [type |-> "deleted", b |-> b]
  <2>1. /\ owed[b] = 0 /\ copy' = [copy EXCEPT ![b] = None] /\ reports' = Append(reports, r)
        /\ UNCHANGED <<rc, bulk, owed>>
    BY <1>6 DEF UnloadBlock
  <2>2. r \in Report /\ r.b = b /\ r.type = "deleted"
    BY DEF Report
  <2> HIDE DEF r
  <2>3. /\ \A i \in DOMAIN reports : i \in DOMAIN reports' /\ reports'[i] = reports[i]
        /\ \E l \in DOMAIN reports' : /\ l = Len(reports) + 1 /\ reports'[l] = r
                                      /\ \A i \in DOMAIN reports' : i <= l
                                      /\ \A i \in DOMAIN reports' : i # l => i \in DOMAIN reports
        /\ \A type, c : Reported(type, c) => Reported(type, c)'
        /\ Reported("deleted", b)'
    BY <1>0, <2>1, <2>2, ReportAppended
  <2>4. \A a \in Blocks : copy'[a] = IF a = b THEN None ELSE copy[a]
    BY <1>1, <2>1
  <2>5. r = [type |-> "deleted", b |-> b]
    BY DEF r
  <2>6. reports \in Seq(Report) /\ DOMAIN reports \subseteq Nat
    BY <1>1
  <2>7. ASSUME NEW i \in DOMAIN reports'
        PROVE  \/ copy'[reports'[i].b] # None
               \/ \E j \in DOMAIN reports' :
                      j >= i /\ reports'[j] = [type |-> "deleted", b |-> reports'[i].b]
    <3>1. PICK l \in DOMAIN reports' : /\ reports'[l] = r /\ \A k \in DOMAIN reports' : k <= l
                                       /\ \A k \in DOMAIN reports' : k # l => k \in DOMAIN reports
                                       /\ l = Len(reports) + 1
      BY <2>3
    <3>2. CASE i = l
      <4>1. reports'[i].b = b
        BY <2>2, <3>1, <3>2
      <4>2. l >= i
        BY <2>6, <3>1, <3>2
      <4>3. QED
        BY <2>5, <3>1, <3>2, <4>1, <4>2
    <3>3. CASE i # l /\ reports[i].b = b
      <4>1. i \in DOMAIN reports /\ reports'[i] = reports[i] /\ l >= i
        BY <2>3, <2>6, <3>1, <3>3
      <4>2. QED
        BY <2>5, <3>1, <3>3, <4>1
    <3>4. CASE i # l /\ reports[i].b # b
      <4>1. i \in DOMAIN reports /\ reports'[i] = reports[i] /\ reports[i].b \in Blocks
        BY <1>1, <2>3, <3>1, <3>4
      <4>2. CASE copy[reports[i].b] # None
        BY <2>4, <3>4, <4>1, <4>2
      <4>3. CASE copy[reports[i].b] = None
        BY <2>3, <4>1, <4>3 DEF Books, ReportsAreTrue
      <4>4. QED
        BY <4>2, <4>3
    <3>5. QED
      BY <3>2, <3>3, <3>4
  <2>8. ReportsAreTrue'
    <3>1. \A a \in Blocks : owed[a] > 0 => copy[a] # None
      BY DEF Books, ReportsAreTrue
    <3>2. \A a \in Blocks : owed'[a] > 0 => copy'[a] # None
      BY <2>1, <2>4, <3>1
    <3>3. QED
      BY <2>7, <3>2 DEF ReportsAreTrue
  <2>9. QED
    BY <1>1, <1>2, <2>1, <2>3, <2>4, <2>8 DEF Books
<1>7. ASSUME NEW b \in Blocks, NEW n \in Nodes, Dig(b, n) PROVE Books'
  <2>1. /\ copy[b] # None /\ copy' = [copy EXCEPT ![b][n] = Air]
        /\ UNCHANGED <<rc, bulk, reports, owed>>
    BY <1>7 DEF Dig
  <2>2. copy'[b] \in [Nodes -> Versions \union {Air}]
    BY <1>1, <2>1
  <2>3. \A a \in Blocks : copy'[a] = None <=> copy[a] = None
    BY <1>1, <2>1, <2>2, ContentsAreSome
  <2>4. QED
    BY <1>0, <1>2, <2>1, <2>3, BooksQuiet
<1>8. ASSUME NEW b \in Occludable, Occlude(b) PROVE Books'
  <2>1. UNCHANGED <<rc, bulk, reports, owed, copy>>
    BY <1>8 DEF Occlude
  <2>2. QED
    BY <1>0, <1>2, <2>1, BooksQuiet
<1>9. QED
  BY <1>3, <1>4, <1>5, <1>6, <1>7, <1>8 DEF ClientReceive

LEMMA BooksKept ==
    ASSUME Ground, Books, [Next]_vars
    PROVE  Books'
<1>1. TypeOK
  BY DEF Ground
<1>2. CASE UNCHANGED vars
  <2>1. \A b \in Blocks : BulkFor(b) => BulkFor(b)'
    BY <1>2 DEF vars, BulkFor
  <2>2. QED
    BY <1>1, <1>2, <2>1, BooksQuiet DEF vars
<1>3. ASSUME NEW b \in Blocks, NEW low \in BOOLEAN, EditBlock(b, low) PROVE Books'
  <2> DEFINE e == [Edit(b, None, NextVersion(b)) EXCEPT !.low = low]
  <2>1. e \in News /\ EditedBy(b, Nodes, e)
    BY <1>3, GroundEdits DEF Ground
  <2> HIDE DEF e
  <2>2. QED
    BY <1>1, <2>1, BooksEdited
<1>4. ASSUME NEW b \in Blocks, NEW n \in Nodes, EditNode(b, n) PROVE Books'
  <2> DEFINE e == Edit(b, n, NextVersion(b))
  <2>1. e \in News /\ EditedBy(b, {n}, e)
    BY <1>4, GroundEdits DEF Ground
  <2> HIDE DEF e
  <2>2. {n} \in SUBSET Nodes
    OBVIOUS
  <2>3. QED
    BY <1>1, <2>1, <2>2, BooksEdited
<1>5. CASE Next
  BY <1>1, <1>3, <1>4, <1>5, BooksSendBlocks, BooksServer, BooksClient DEF Next, ServerStep
<1>6. QED
  BY <1>2, <1>5

\* BlockTransfer's BooksAreRight: whatever is edited, dug, unloaded and acknowledged late, a
\* block that counts as sent is with the client, on its way, or reported as dropped; and
\* every block being sent will be acknowledged.
THEOREM BooksStayRight == Spec => []BooksAreRight
<1>1. Init => Ground /\ Books
  BY GroundInit, BooksInit
<1>2. Ground /\ Books /\ [Next]_vars => Ground' /\ Books'
  BY GroundKept, BooksKept
<1>3. Books => BooksAreRight
  BY BooksIs
<1>4. QED
  BY <1>1, <1>2, <1>3, PTL DEF Spec

-----------------------------------------------------------------------------
(* What the client is told.                                                *)

Shows == CrossedIsNoted /\ EditsAreNews /\ ToldIsShown

LEMMA SameNode ==
    ASSUME NEW b, NEW n, WillShow(b, n), UNCHANGED <<bulk, changes>>,
           world'[b][n] = world[b][n], copy'[b][n] = copy[b][n]
    PROVE  WillShow(b, n)'
BY DEF WillShow, IsLastBulk, BulkFor, IsLast, Concerns

\* Who has nothing to be told now had nothing to be told if nothing was taken away.
LEMMA ToldAlready ==
    ASSUME NEW b, NEW n, IsTold(b, n)',
           Reported("deleted", b) => Reported("deleted", b)',
           \A i \in DOMAIN edits : \E j \in DOMAIN edits' : edits'[j] = edits[i],
           \A i \in DOMAIN digs : Concerns(digs, i, b, n) =>
                                      \E j \in DOMAIN digs' : digs'[j] = digs[i]
    PROVE  IsTold(b, n)
<1>1. ~Reported("deleted", b)
  BY DEF IsTold
<1>2. ASSUME NEW i \in DOMAIN edits
      PROVE  ~Concerns(edits, i, b, None) /\ ~Concerns(edits, i, b, n)
  BY DEF IsTold, Concerns
<1>3. ASSUME NEW i \in DOMAIN digs PROVE ~Concerns(digs, i, b, n)
  BY DEF IsTold, Concerns
<1>4. QED
  BY <1>1, <1>2, <1>3 DEF IsTold

\* A step that sends and edits nothing, and takes from the record and from what is still to
\* be told only what it may.
LEMMA ShowsQuiet ==
    ASSUME Shows, Noted' \subseteq Noted, UNCHANGED <<world, edits, bulk, changes, crossed>>,
           \A b \in Noted' : \A n \in Nodes :
               IsTold(b, n)' => IsTold(b, n) /\ copy'[b][n] = copy[b][n]
    PROVE  Shows'
<1>1. CrossedIsNoted'
  BY DEF Shows, CrossedIsNoted, BulkFor, ChangesFor
<1>2. EditsAreNews'
  BY DEF Shows, EditsAreNews, IsLast, Concerns
<1>3. ASSUME NEW b \in Noted' \ crossed', NEW n \in Nodes, IsTold(b, n)'
      PROVE  WillShow(b, n)'
  <2>1. b \in Noted \ crossed /\ IsTold(b, n) /\ copy'[b][n] = copy[b][n]
    BY <1>3
  <2>2. WillShow(b, n)
    BY <2>1 DEF Shows, ToldIsShown
  <2>3. QED
    BY <2>1, <2>2, SameNode
<1>4. QED
  BY <1>1, <1>2, <1>3 DEF Shows, ToldIsShown

\* Blocks are sent: those of which changes are on their way are noted as crossed.
LEMMA ShowsBulk ==
    ASSUME TypeOK, Shows, NEW S \in SUBSET Blocks, AppendsBlocks(S, bulk'),
           Noted' \subseteq Noted \union S, crossed' \subseteq Blocks,
           UNCHANGED <<world, edits, changes, reports, digs, copy>>,
           \A b \in Blocks \ crossed' : IF b \in S THEN ~ChangesFor(b) ELSE b \notin crossed
    PROVE  Shows'
<1>1. \A b : BulkFor(b)' <=> BulkFor(b) \/ b \in S
  BY BulkSent
<1>2. \A b : ChangesFor(b)' <=> ChangesFor(b)
  BY DEF ChangesFor
<1>3. CrossedIsNoted'
  BY <1>1, <1>2 DEF Shows, CrossedIsNoted
<1>4. EditsAreNews'
  BY DEF Shows, EditsAreNews, IsLast, Concerns
<1>5. ASSUME NEW b \in Noted' \ crossed', NEW n \in Nodes, IsTold(b, n)'
      PROVE  WillShow(b, n)'
  <2>0. Noted \subseteq Blocks
    BY MessageTypes DEF Noted
  <2>1. b \in Blocks
    BY <1>5, <2>0
  <2>2. CASE b \in S
    <3>1. ASSUME NEW i \in DOMAIN bulk', IsLastBulk(i, b)' PROVE bulk'[i].c[n] = world'[b][n]
      <4>1. PICK j \in DOMAIN bulk' : j > Len(bulk) /\ bulk'[j].b = b
        BY <2>2 DEF AppendsBlocks
      <4>2. j <= i /\ bulk'[i].b = b
        BY <3>1, <4>1 DEF IsLastBulk
      <4>3. i > Len(bulk)
        BY <4>1, <4>2 DEF AppendsBlocks
      <4>4. QED
        BY <4>2, <4>3 DEF AppendsBlocks
    <3>2. BulkFor(b)'
      BY <1>1, <2>2
    <3>3. QED
      BY <3>1, <3>2 DEF WillShow
  <2>3. CASE b \notin S
    <3>1. b \in Noted \ crossed
      BY <1>5, <2>1, <2>3
    <3>2. IsTold(b, n)
      BY <1>5, ToldAlready DEF Reported
    <3>3. WillShow(b, n)
      BY <3>1, <3>2 DEF Shows, ToldIsShown
    <3>4. ASSUME NEW i \in DOMAIN bulk', IsLastBulk(i, b)'
          PROVE  IsLastBulk(i, b) /\ bulk'[i] = bulk[i]
      <4>1. bulk'[i].b = b
        BY <3>4 DEF IsLastBulk
      <4>2. i \in 1 .. Len(bulk)
        BY <2>3, <4>1 DEF AppendsBlocks
      <4>3. bulk'[i] = bulk[i] /\ i \in DOMAIN bulk
        BY <4>2 DEF AppendsBlocks
      <4>4. \A j \in DOMAIN bulk : j \in DOMAIN bulk' /\ bulk'[j] = bulk[j]
        BY DEF AppendsBlocks
      <4>5. QED
        BY <3>4, <4>1, <4>3, <4>4 DEF IsLastBulk
    <3>5. \A i \in DOMAIN bulk' : IsLastBulk(i, b)' => bulk'[i].c[n] = world'[b][n]
      BY <3>3, <3>4 DEF WillShow, IsLastBulk
    <3>6. BulkFor(b)' <=> BulkFor(b)
      BY <1>1, <2>3
    <3>7. QED
      BY <3>3, <3>5, <3>6 DEF WillShow, IsLast, Concerns
  <2>4. QED
    BY <2>2, <2>3
<1>6. QED
  BY <1>3, <1>4, <1>5 DEF Shows, ToldIsShown

LEMMA ShowsSendBlocks ==
    ASSUME TypeOK, Shows, SendBlocks
    PROVE  Shows'
<1>1. /\ UNCHANGED <<world, edits, hidden, changes, reports, digs, copy, owed>>
      /\ \/ UNCHANGED <<rc, queued, bulk, crossed, left>>
         \/ \E S \in SUBSET Blocks : Transfers(S)
  BY SendBlocksDoes
<1>2. CASE UNCHANGED <<rc, queued, bulk, crossed, left>>
  <2>1. Noted' = Noted
    BY <1>2 DEF Noted
  <2>2. \A b, n : IsTold(b, n)' => IsTold(b, n) /\ copy'[b][n] = copy[b][n]
    BY <1>1 DEF IsTold, Reported, Concerns
  <2>3. QED
    BY <1>1, <1>2, <2>1, <2>2, ShowsQuiet
<1>3. ASSUME NEW S \in SUBSET Blocks, Transfers(S) PROVE Shows'
  <2>1. /\ AppendsBlocks(S, bulk') /\ rc'.sending = rc.sending \union S /\ rc'.sent = rc.sent
        /\ crossed' = (crossed \union {b \in S : InFlight(b).changes})
                       \ {b \in S : ~InFlight(b).bulk /\ ~InFlight(b).changes}
    BY <1>3 DEF Transfers
  <2>2. Noted' \subseteq Noted \union S
    BY <2>1 DEF Noted
  <2>3. crossed' \subseteq Blocks
    BY <2>1 DEF TypeOK
  <2>4. \A b \in Blocks \ crossed' : IF b \in S THEN ~ChangesFor(b) ELSE b \notin crossed
    BY <2>1, InFlightIs
  <2>5. QED
    BY <1>1, <2>1, <2>2, <2>3, <2>4, ShowsBulk
<1>4. QED
  BY <1>1, <1>2, <1>3

\* send_mapblock appends one block.
LEMMA ShowsSendBlock ==
    ASSUME TypeOK, Shows, NEW b \in Blocks, SendBlock(b)
    PROVE  Shows'
<1> DEFINE d == [b |-> b, c |-> world[b]]
<1>1. /\ world[b] # None /\ bulk' = Append(bulk, d)
      /\ crossed' = IF InFlight(b).changes THEN crossed \union {b} ELSE crossed
      /\ UNCHANGED <<rc, world, edits, changes, reports, digs, copy>>
  BY DEF SendBlock
<1>2. d \in Data /\ d.b = b /\ d.c = world[b]
  BY <1>1 DEF TypeOK, Data
<1> HIDE DEF d
<1>3. bulk \in Seq(Data)
  BY Types
<1>4. AppendsBlocks({b}, bulk')
  <2>1. /\ bulk' \in Seq(Data) /\ Len(bulk) \in Nat
        /\ DOMAIN bulk = 1 .. Len(bulk)
        /\ DOMAIN bulk' = 1 .. Len(bulk) + 1 /\ Len(bulk') = Len(bulk) + 1
        /\ \A i \in 1 .. Len(bulk) : bulk'[i] = bulk[i]
        /\ bulk'[Len(bulk) + 1] = d
    BY <1>1, <1>2, <1>3, AppendIs
  <2>2. QED
    BY <1>2, <2>1 DEF AppendsBlocks
<1>5. Noted' \subseteq Noted \union {b} /\ crossed' \subseteq Blocks /\ {b} \in SUBSET Blocks
  BY <1>1 DEF Noted, TypeOK
<1>6. \A c \in Blocks \ crossed' : IF c \in {b} THEN ~ChangesFor(c) ELSE c \notin crossed
  BY <1>1, InFlightIs
<1>7. QED
  BY <1>1, <1>4, <1>5, <1>6, ShowsBulk

\* If something in a sequence concerns a node, something in it is the last to.
LEMMA LastExists ==
    ASSUME NEW T, NEW s \in Seq(T), NEW b, NEW n, NEW i \in DOMAIN s, Concerns(s, i, b, n)
    PROVE  \E j \in DOMAIN s : IsLast(s, j, b, n)
<1> DEFINE N == {k \in Nat : \A j \in DOMAIN s : Concerns(s, j, b, n) => j <= k}
<1>1. Len(s) \in N /\ DOMAIN s = 1 .. Len(s)
  OBVIOUS
<1>2. PICK k \in N : \A j \in N : k <= j
  BY <1>1, LeastOne
<1>3. ASSUME ~(k \in DOMAIN s /\ Concerns(s, k, b, n)) PROVE FALSE
  <2>1. \A j \in DOMAIN s : Concerns(s, j, b, n) => j \in Nat /\ j <= k /\ j # k
    BY <1>1, <1>2, <1>3
  <2>2. k - 1 \in Nat /\ \A j \in DOMAIN s : Concerns(s, j, b, n) => j <= k - 1
    BY <1>1, <1>2, <2>1
  <2>3. QED
    BY <1>2, <2>2
<1>4. QED
  BY <1>1, <1>2, <1>3 DEF IsLast

\* The edits are told: of a block that is still noted every edited node, last of all as it
\* is now; and a change of a block that is on its way is noted as crossed.
LEMMA ShowsSendEdits ==
    ASSUME TypeOK, Shows, SendEdits
    PROVE  Shows'
<1> DEFINE acc == FoldLeft(SendChange, [rc |-> rc, changes |-> changes], edits)
           told == acc.changes
           L == Len(changes)
<1>1. ToldRight(acc, Len(edits))
  BY AllEditsTold
<1>2. /\ edits' = <<>> /\ rc' = acc.rc /\ changes' = told
      /\ crossed' = crossed \union {b \in Blocks : InFlight(b).bulk /\
                                       \E i \in DOMAIN told : told[i].b = b}
      /\ UNCHANGED <<world, bulk, reports, digs, copy>>
  BY DEF SendEdits
<1> HIDE DEF acc
<1>3. /\ edits \in Seq(News) /\ changes \in Seq(Change) /\ DOMAIN edits = 1 .. Len(edits)
      /\ L \in Nat /\ Len(edits) \in Nat
      /\ DOMAIN changes = 1 .. L
  <2>1. edits \in Seq(News) /\ changes \in Seq(Change)
    BY Types
  <2>2. QED
    BY <2>1
<1>4. /\ told \in Seq(Change) /\ Len(told) \in Nat /\ DOMAIN told = 1 .. Len(told)
  <2>1. told \in Seq(Change)
    BY <1>1 DEF ToldRight, Told
  <2>2. QED
    BY <2>1
<1>5. \A b : BulkFor(b)' <=> BulkFor(b)
  BY <1>2 DEF BulkFor
<1>6. \A b \in Blocks \ crossed' : b \notin crossed /\ (BulkFor(b) => ~ChangesFor(b)')
  BY <1>2, InFlightIs DEF ChangesFor
<1>7. CrossedIsNoted'
  BY <1>5, <1>6 DEF CrossedIsNoted
<1>8. EditsAreNews'
  BY <1>2 DEF EditsAreNews
<1>9. ASSUME NEW b \in Noted' \ crossed', NEW n \in Nodes, IsTold(b, n)'
      PROVE  WillShow(b, n)'
  <2>1. b \in Noted /\ b \in acc.rc.sending \union acc.rc.sent /\ b \in Blocks
    BY <1>1, <1>2, <1>9, MessageTypes DEF ToldRight, Noted
  <2>2. ~Reported("deleted", b) /\ \A i \in DOMAIN digs : ~Concerns(digs, i, b, n)
    BY <1>2, <1>9 DEF IsTold, Reported, Concerns
  <2>3. \A j \in DOMAIN edits : ~Concerns(edits, j, b, None)
    BY <1>1, <1>3, <2>1 DEF ToldRight, Concerns
  <2>4. CASE \E j \in DOMAIN edits : Concerns(edits, j, b, n)
    <3>1. PICK j \in DOMAIN edits : IsLast(edits, j, b, n)
      BY <1>3, <2>4, LastExists
    <3>2. edits[j].b = b /\ edits[j].n = n
      BY <3>1 DEF IsLast, Concerns
    <3>3. edits[j].v = world[b][n]
      BY <2>3, <3>1, <3>2 DEF Shows, EditsAreNews
    <3>4. LastUpTo(Len(edits), j, b, n)
      BY <1>3, <3>1 DEF IsLast, Concerns, LastUpTo
    <3>5. PICK i \in (L + 1) .. Len(told) : told[i] = ChangeOf(edits[j]) /\ IsLast(told, i, b, n)
      BY <1>1, <1>3, <2>1, <3>4 DEF ToldRight
    <3>6. told[i].v = world[b][n]
      BY <3>3, <3>5 DEF ChangeOf
    <3>7. i \in DOMAIN told /\ told[i].b = b /\ Concerns(told, i, b, n)
      BY <3>5 DEF IsLast, Concerns
    <3>8. ~BulkFor(b)
      <4>1. ChangesFor(b)'
        BY <1>2, <3>7 DEF ChangesFor
      <4>2. QED
        BY <1>6, <1>9, <2>1, <4>1
    <3>9. ASSUME NEW k \in DOMAIN told, IsLast(told, k, b, n) PROVE k = i
      <4>1. k <= i /\ i <= k
        BY <3>5, <3>7, <3>9 DEF IsLast
      <4>2. QED
        BY <1>4, <3>7, <4>1
    <3>10. \A i_ \in DOMAIN bulk : ~IsLastBulk(i_, b)
      BY <3>8 DEF IsLastBulk, BulkFor
    <3>11. \A i_ \in DOMAIN bulk' : ~IsLastBulk(i_, b)'
      BY <1>2, <3>10 DEF IsLastBulk
    <3>12. \A k \in DOMAIN changes' : IsLast(changes, k, b, n)' => changes'[k].v = world'[b][n]
      BY <1>2, <3>6, <3>9 DEF IsLast, Concerns
    <3>13. ~ \A k \in DOMAIN changes' : ~Concerns(changes, k, b, n)'
      BY <1>2, <3>7 DEF Concerns
    <3>14. QED
      BY <3>11, <3>12, <3>13 DEF WillShow
  <2>5. CASE \A j \in DOMAIN edits : ~Concerns(edits, j, b, n)
    <3>1. b \in Noted \ crossed /\ IsTold(b, n)
      BY <1>6, <1>9, <2>1, <2>2, <2>3, <2>5 DEF IsTold
    <3>2. WillShow(b, n)
      BY <3>1 DEF Shows, ToldIsShown
    <3>3. L <= Len(told) /\ \A i \in 1 .. L : told[i] = changes[i]
      BY <1>1 DEF ToldRight
    <3>4. ASSUME NEW i \in DOMAIN told, Concerns(told, i, b, n)
          PROVE  i \in DOMAIN changes /\ Concerns(changes, i, b, n) /\ told[i] = changes[i]
      <4>1. CASE i \in 1 .. L
        BY <1>3, <3>3, <3>4, <4>1 DEF Concerns
      <4>2. CASE i \in (L + 1) .. Len(told)
        <5>1. PICK j \in 1 .. Len(edits) : told[i] = ChangeOf(edits[j])
          BY <1>1, <4>2 DEF ToldRight
        <5>2. j \in DOMAIN edits /\ edits[j].b = b /\ edits[j].n = n
          BY <1>3, <3>4, <5>1 DEF ChangeOf, Concerns
        <5>3. QED
          BY <2>5, <5>2 DEF Concerns
      <4>3. QED
        BY <1>3, <1>4, <4>1, <4>2
    <3>5. \A i \in DOMAIN changes : Concerns(changes, i, b, n) =>
              i \in DOMAIN told /\ Concerns(told, i, b, n)
      BY <1>3, <1>4, <3>3 DEF Concerns
    <3>6. \A i \in DOMAIN told : IsLast(told, i, b, n) => IsLast(changes, i, b, n)
      BY <3>4, <3>5 DEF IsLast, Concerns
    <3>7. \A i \in DOMAIN bulk' : IsLastBulk(i, b)' => bulk'[i].c[n] = world'[b][n]
      BY <1>2, <3>2 DEF WillShow, IsLastBulk
    <3>8. ASSUME ~BulkFor(b)
          PROVE  /\ \A i \in DOMAIN told : IsLast(told, i, b, n) => told[i].v = world[b][n]
                 /\ (\A i \in DOMAIN told : ~Concerns(told, i, b, n)) => copy[b][n] = world[b][n]
      <4>1. /\ \A i \in DOMAIN changes : IsLast(changes, i, b, n) => changes[i].v = world[b][n]
            /\ (\A i \in DOMAIN changes : ~Concerns(changes, i, b, n)) =>
                   copy[b][n] = world[b][n]
        BY <3>2, <3>8 DEF WillShow
      <4>2. \A i \in DOMAIN told : IsLast(told, i, b, n) =>
                i \in DOMAIN changes /\ told[i] = changes[i]
        BY <3>4 DEF IsLast
      <4>3. QED
        BY <3>5, <3>6, <4>1, <4>2
    <3>9. QED
      BY <1>2, <1>5, <3>7, <3>8 DEF WillShow, IsLast, Concerns
  <2>6. QED
    BY <2>4, <2>5
<1>10. QED
  BY <1>7, <1>8, <1>9 DEF Shows, ToldIsShown

\* What an edit is of: one node, or the whole block; and an answered dig was of that node.
EditFits(b, N, e) ==
    /\ e.b = b /\ e.v = NextVersion(b)
    /\ \/ e.n = None /\ N = Nodes
       \/ e.n \in Nodes /\ N = {e.n}
    /\ \A i \in DOMAIN digs : \/ \E j \in DOMAIN digs' : digs'[j] = digs[i]
                              \/ digs[i].b = b /\ digs[i].n = e.n

LEMMA ShowsEdited ==
    ASSUME TypeOK, Shows, NEW b \in Blocks, NEW N \in SUBSET Nodes, NEW e \in News,
           EditedBy(b, N, e), EditFits(b, N, e)
    PROVE  Shows'
<1>1. /\ edits \in Seq(News) /\ edits' = Append(edits, e) /\ world[b] # None
      /\ Noted' \subseteq Noted /\ Noted \subseteq Blocks
      /\ UNCHANGED <<bulk, changes, reports, copy, crossed>>
      /\ None \notin Nodes
  BY Types, MessageTypes, BlocksAssumption DEF EditedBy, Noted
<1>2. /\ Len(edits) \in Nat /\ DOMAIN edits = 1 .. Len(edits)
      /\ DOMAIN edits' = 1 .. Len(edits) + 1
      /\ \A i \in 1 .. Len(edits) : edits'[i] = edits[i]
      /\ edits'[Len(edits) + 1] = e
  BY <1>1, AppendIs
<1>3. ASSUME NEW c \in Blocks, NEW n \in Nodes
      PROVE  world'[c][n] = IF c = b /\ n \in N THEN NextVersion(b) ELSE world[c][n]
  <2>1. world' = [world EXCEPT ![b] = [m \in Nodes |-> IF m \in N THEN NextVersion(b)
                                                                 ELSE world[b][m]]]
    BY DEF EditedBy, Renews
  <2>2. world \in [Blocks -> Contents \union {None}]
    BY Types
  <2>3. QED
    BY <2>1, <2>2
<1>4. CrossedIsNoted'
  BY <1>1 DEF Shows, CrossedIsNoted, BulkFor, ChangesFor
<1>5. EditsAreNews'
  <2>1. ASSUME NEW i \in DOMAIN edits', NEW n \in Nodes, IsLast(edits', i, edits'[i].b, n)
        PROVE  \/ edits'[i].v = world'[edits'[i].b][n]
               \/ \E j \in DOMAIN edits' : Concerns(edits', j, edits'[i].b, None)
    <3> DEFINE c == edits'[i].b
    <3>1. edits'[i].n = n
      BY <2>1 DEF IsLast, Concerns
    <3>2. IsLast(Append(edits, e), i, c, n)
      BY <1>1, <2>1
    <3>3. CASE e.b = c /\ e.n = n
      <4>1. edits'[i] = e
        BY <1>1, <3>2, <3>3, LastInAppend
      <4>2. c = b /\ N = {n} /\ e.v = NextVersion(b)
        BY <1>1, <3>3 DEF EditFits
      <4>3. QED
        BY <1>3, <4>1, <4>2
    <3>4. CASE ~(e.b = c /\ e.n = n)
      <4>1. IsLast(edits, i, c, n) /\ edits'[i] = edits[i]
        <5>1. IsLast(edits, i, c, n) /\ Append(edits, e)[i] = edits[i]
          BY <1>1, <3>2, <3>4, LastInAppend
        <5>2. QED
          BY <1>1, <5>1
      <4>2. i \in DOMAIN edits /\ c \in Blocks
        <5>1. i \in DOMAIN edits
          BY <4>1 DEF IsLast, Concerns
        <5>2. QED
          BY <4>1, <5>1, MessageTypes
      <4>3. \/ edits[i].v = world[c][n]
            \/ \E j \in DOMAIN edits : Concerns(edits, j, c, None)
        BY <4>1, <4>2 DEF Shows, EditsAreNews
      <4>4. CASE \E j \in DOMAIN edits : Concerns(edits, j, c, None)
        BY <1>2, <4>4 DEF Concerns
      <4>5. CASE edits[i].v = world[c][n] /\ ~(c = b /\ n \in N)
        <5>1. world'[c][n] = world[c][n]
          BY <1>3, <4>2, <4>5
        <5>2. QED
          BY <4>1, <4>5, <5>1
      <4>6. CASE c = b /\ n \in N
        <5>1. e.b = c /\ e.n = None
          BY <3>4, <4>6 DEF EditFits
        <5>2. Len(edits) + 1 \in DOMAIN edits' /\ edits'[Len(edits) + 1] = e
          BY <1>2
        <5>3. QED
          BY <5>1, <5>2 DEF Concerns
      <4>7. QED
        BY <4>3, <4>4, <4>5, <4>6
    <3>5. QED
      BY <3>3, <3>4
  <2>2. QED
    BY <2>1 DEF EditsAreNews
<1>6. ASSUME NEW c \in Noted' \ crossed', NEW n \in Nodes, IsTold(c, n)'
      PROVE  WillShow(c, n)'
  <2>1. c \in Noted \ crossed /\ c \in Blocks
    BY <1>1, <1>6
  <2>2. ~(e.b = c /\ e.n = None) /\ ~(e.b = c /\ e.n = n)
    <3>1. Len(edits) + 1 \in DOMAIN edits' /\ edits'[Len(edits) + 1] = e
      BY <1>2
    <3>2. QED
      BY <1>6, <3>1 DEF IsTold, Concerns
  <2>3. ~(c = b /\ n \in N)
    BY <2>2 DEF EditFits
  <2>4. \A i \in DOMAIN digs : Concerns(digs, i, c, n) => \E j \in DOMAIN digs' : digs'[j] = digs[i]
    BY <2>2 DEF EditFits, Concerns
  <2>5. \A i \in DOMAIN edits : \E j \in DOMAIN edits' : edits'[j] = edits[i]
    BY <1>2
  <2>6. Reported("deleted", c) => Reported("deleted", c)'
    BY <1>1 DEF Reported
  <2>7. IsTold(c, n)
    BY <1>6, <2>4, <2>5, <2>6, ToldAlready
  <2>8. WillShow(c, n)
    BY <2>1, <2>7 DEF Shows, ToldIsShown
  <2>9. world'[c][n] = world[c][n]
    BY <1>3, <2>1, <2>3
  <2>10. QED
    BY <1>1, <2>8, <2>9, SameNode
<1>7. QED
  BY <1>4, <1>5, <1>6 DEF Shows, ToldIsShown

\* A block that is made is not noted yet, and is edited as a whole.
LEMMA ShowsBlockMade ==
    ASSUME TypeOK, OnlyMadeBlocks, Shows, NEW b \in Blocks, BlockMade(b)
    PROVE  Shows'
<1> DEFINE e == Edit(b, None, 0)
<1>1. /\ b \in queued /\ world' = [world EXCEPT ![b] = Nothing] /\ edits' = Append(edits, e)
      /\ UNCHANGED <<rc, bulk, changes, reports, digs, copy, crossed>>
  BY DEF BlockMade
<1>2. e \in News /\ e.b = b /\ e.n = None
  BY ContentsAreSome DEF News, Edit, Versions
<1> HIDE DEF e
<1>3. edits \in Seq(News) /\ Noted \subseteq Blocks
  BY Types, MessageTypes DEF Noted
<1>4. /\ Len(edits) \in Nat /\ DOMAIN edits = 1 .. Len(edits)
      /\ DOMAIN edits' = 1 .. Len(edits) + 1
      /\ \A i \in 1 .. Len(edits) : edits'[i] = edits[i]
      /\ edits'[Len(edits) + 1] = e
  BY <1>1, <1>2, <1>3, AppendIs
<1>5. \A c \in Blocks : c # b => world'[c] = world[c]
  BY <1>1 DEF TypeOK
<1>6. b \notin Noted
  BY <1>1 DEF OnlyMadeBlocks, Noted
<1>7. CrossedIsNoted'
  BY <1>1 DEF Shows, CrossedIsNoted, BulkFor, ChangesFor
<1>8. EditsAreNews'
  <2>1. ASSUME NEW i \in DOMAIN edits', NEW n \in Nodes, IsLast(edits', i, edits'[i].b, n)
        PROVE  \/ edits'[i].v = world'[edits'[i].b][n]
               \/ \E j \in DOMAIN edits' : Concerns(edits', j, edits'[i].b, None)
    <3> DEFINE c == edits'[i].b
    <3>1. CASE c = b
      <4>1. Len(edits) + 1 \in DOMAIN edits' /\ edits'[Len(edits) + 1] = e
        BY <1>4
      <4>2. QED
        BY <1>2, <3>1, <4>1 DEF Concerns
    <3>2. CASE c # b
      <4>1. i \in DOMAIN edits /\ edits'[i] = edits[i]
        <5>1. edits'[i] # e
          BY <1>2, <3>2
        <5>2. QED
          BY <1>4, <5>1
      <4>2. IsLast(edits, i, c, n) /\ edits'[i] = edits[i]
        <5>1. \A j \in DOMAIN edits : j \in DOMAIN edits' /\ edits'[j] = edits[j]
          BY <1>4
        <5>2. QED
          BY <2>1, <4>1, <5>1 DEF IsLast, Concerns
      <4>3. i \in DOMAIN edits /\ c \in Blocks
        <5>1. i \in DOMAIN edits
          BY <4>2 DEF IsLast, Concerns
        <5>2. QED
          BY <4>2, <5>1, MessageTypes
      <4>4. \/ edits[i].v = world[c][n]
            \/ \E j \in DOMAIN edits : Concerns(edits, j, c, None)
        BY <4>2, <4>3 DEF Shows, EditsAreNews
      <4>5. CASE \E j \in DOMAIN edits : Concerns(edits, j, c, None)
        BY <1>4, <4>5 DEF Concerns
      <4>6. CASE edits[i].v = world[c][n]
        BY <1>5, <3>2, <4>2, <4>3, <4>6
      <4>7. QED
        BY <4>4, <4>5, <4>6
    <3>3. QED
      BY <3>1, <3>2
  <2>2. QED
    BY <2>1 DEF EditsAreNews
<1>9. ASSUME NEW c \in Noted' \ crossed', NEW n \in Nodes, IsTold(c, n)'
      PROVE  WillShow(c, n)'
  <2>1. c \in Noted \ crossed /\ c \in Blocks /\ c # b
    BY <1>1, <1>3, <1>6, <1>9 DEF Noted
  <2>2. \A i \in DOMAIN edits : \E j \in DOMAIN edits' : edits'[j] = edits[i]
    BY <1>4
  <2>3. IsTold(c, n)
    BY <1>1, <1>9, <2>2, ToldAlready DEF Reported
  <2>4. WillShow(c, n)
    BY <2>1, <2>3 DEF Shows, ToldIsShown
  <2>5. QED
    BY <1>1, <1>5, <2>1, <2>4, SameNode
<1>10. QED
  BY <1>7, <1>8, <1>9 DEF Shows, ToldIsShown

\* The client takes a block: if no change of it is on its way it has the last of it now, or
\* the last is still to come.
LEMMA ShowsBlockData ==
    ASSUME TypeOK, Shows, handleCommand_BlockData
    PROVE  Shows'
<1> DEFINE b == Head(bulk).b
           c == Head(bulk).c
<1>1. /\ bulk # <<>> /\ bulk' = Tail(bulk) /\ copy' = [copy EXCEPT ![b] = c]
      /\ UNCHANGED <<rc, world, edits, changes, reports, digs, crossed>>
  BY DEF handleCommand_BlockData
<1>2. bulk \in Seq(Data) /\ copy \in [Blocks -> [Nodes -> Versions \union {Air}] \union {None}]
      /\ Noted \subseteq Blocks
  BY Types, MessageTypes DEF Noted
<1>3. /\ Head(bulk) = bulk[1] /\ bulk[1] \in Data /\ Len(bulk) \in Nat /\ Len(bulk) >= 1
      /\ DOMAIN bulk = 1 .. Len(bulk) /\ DOMAIN bulk' = 1 .. Len(bulk) - 1
      /\ \A i \in 1 .. Len(bulk) - 1 : bulk'[i] = bulk[i + 1]
  BY <1>1, <1>2, TailIs
<1>4. b \in Blocks /\ b = bulk[1].b /\ c = bulk[1].c
  BY <1>3 DEF Data
<1> HIDE DEF b, c
<1>5. ASSUME NEW j \in DOMAIN bulk, j # 1
      PROVE  j - 1 \in DOMAIN bulk' /\ bulk'[j - 1] = bulk[j]
  <2>1. j - 1 \in 1 .. Len(bulk) - 1 /\ (j - 1) + 1 = j
    BY <1>3, <1>5
  <2>2. QED
    BY <1>3, <2>1
<1>6. \A i \in DOMAIN bulk' : i + 1 \in DOMAIN bulk /\ bulk'[i] = bulk[i + 1]
  BY <1>3
<1>7. \A a : BulkFor(a)' => BulkFor(a)
  BY <1>6 DEF BulkFor
<1>8. \A a : BulkFor(a) => BulkFor(a)' \/ a = b
  BY <1>4, <1>5 DEF BulkFor
<1>9. CrossedIsNoted'
  BY <1>1, <1>7 DEF Shows, CrossedIsNoted, ChangesFor
<1>10. EditsAreNews'
  BY <1>1 DEF Shows, EditsAreNews, IsLast, Concerns
<1>11. ASSUME NEW a \in Noted' \ crossed', NEW n \in Nodes, IsTold(a, n)'
       PROVE  WillShow(a, n)'
  <2>1. a \in Noted \ crossed /\ a \in Blocks
    BY <1>1, <1>2, <1>11 DEF Noted
  <2>2. IsTold(a, n)
    BY <1>1, <1>11, ToldAlready DEF Reported
  <2>3. WillShow(a, n)
    BY <2>1, <2>2 DEF Shows, ToldIsShown
  <2>4. ASSUME NEW i \in DOMAIN bulk', IsLastBulk(i, a)' PROVE bulk'[i].c[n] = world[a][n]
    <3>1. i + 1 \in DOMAIN bulk /\ bulk'[i] = bulk[i + 1] /\ bulk[i + 1].b = a /\ i \in Nat
      BY <1>3, <1>6, <2>4 DEF IsLastBulk
    <3>2. ASSUME NEW j \in DOMAIN bulk, bulk[j].b = a PROVE j <= i + 1
      <4>1. CASE j = 1
        BY <3>1, <4>1
      <4>2. CASE j # 1
        <5>1. j - 1 <= i
          BY <1>5, <2>4, <3>2, <4>2 DEF IsLastBulk
        <5>2. QED
          BY <1>3, <3>1, <5>1
      <4>3. QED
        BY <4>1, <4>2
    <3>3. IsLastBulk(i + 1, a)
      BY <3>1, <3>2 DEF IsLastBulk
    <3>4. QED
      BY <2>3, <3>1, <3>3 DEF WillShow
  <2>5. CASE a # b
    <3>1. copy'[a] = copy[a] /\ (BulkFor(a)' <=> BulkFor(a))
      BY <1>1, <1>2, <1>7, <1>8, <2>1, <2>5
    <3>2. QED
      BY <1>1, <2>3, <2>4, <3>1 DEF WillShow, IsLast, Concerns
  <2>6. CASE a = b
    <3>1. BulkFor(a)
      BY <1>3, <1>4, <2>6 DEF BulkFor
    <3>2. \A i \in DOMAIN changes : changes[i].b # a
      BY <2>1, <3>1 DEF Shows, CrossedIsNoted, ChangesFor
    <3>3. \A i \in DOMAIN changes' : ~Concerns(changes, i, a, n)' /\ ~IsLast(changes, i, a, n)'
      BY <1>1, <3>2 DEF Concerns, IsLast
    <3>4. ASSUME ~BulkFor(a)' PROVE copy'[a][n] = world[a][n]
      <4>1. \A j \in DOMAIN bulk : bulk[j].b = a => j <= 1
        BY <1>5, <3>4 DEF BulkFor
      <4>2. IsLastBulk(1, a) /\ 1 \in DOMAIN bulk
        BY <1>3, <1>4, <2>6, <4>1 DEF IsLastBulk
      <4>3. bulk[1].c[n] = world[a][n]
        BY <2>3, <4>2 DEF WillShow
      <4>4. QED
        BY <1>1, <1>2, <1>4, <2>6, <4>3
    <3>5. QED
      BY <1>1, <2>4, <3>3, <3>4 DEF WillShow
  <2>7. QED
    BY <2>5, <2>6
<1>12. QED
  BY <1>9, <1>10, <1>11 DEF Shows, ToldIsShown

\* The client takes a change: of a noted block it has the contents, unless a block is on
\* its way that will bring them, or the server will hear that it has dropped it.
LEMMA ShowsAddNode ==
    ASSUME TypeOK, Books, Shows, handleCommand_AddNode
    PROVE  Shows'
<1> DEFINE e == Head(changes)
<1>1. /\ changes # <<>> /\ changes' = Tail(changes)
      /\ copy' = IF copy[e.b] = None THEN copy ELSE [copy EXCEPT ![e.b][e.n] = e.v]
      /\ UNCHANGED <<rc, world, edits, bulk, reports, digs, crossed>>
  BY DEF handleCommand_AddNode
<1>2. /\ changes \in Seq(Change) /\ Noted \subseteq Blocks
      /\ copy \in [Blocks -> [Nodes -> Versions \union {Air}] \union {None}]
  BY Types, MessageTypes DEF Noted
<1>3. /\ e = changes[1] /\ changes[1] \in Change /\ Len(changes) \in Nat /\ Len(changes) >= 1
      /\ DOMAIN changes = 1 .. Len(changes) /\ DOMAIN changes' = 1 .. Len(changes) - 1
      /\ \A i \in 1 .. Len(changes) - 1 : changes'[i] = changes[i + 1]
  BY <1>1, <1>2, TailIs
<1>4. e.b \in Blocks /\ e.n \in Nodes
  BY <1>3 DEF Change
<1> HIDE DEF e
<1>5. \A b : ChangesFor(b)' => ChangesFor(b)
  <2>1. \A i \in DOMAIN changes' : i + 1 \in DOMAIN changes /\ changes'[i] = changes[i + 1]
    BY <1>3
  <2>2. QED
    BY <2>1 DEF ChangesFor
<1>6. CrossedIsNoted'
  BY <1>1, <1>5 DEF Shows, CrossedIsNoted, BulkFor
<1>7. EditsAreNews'
  BY <1>1 DEF Shows, EditsAreNews, IsLast, Concerns
<1>8. ASSUME NEW b \in Noted' \ crossed', NEW n \in Nodes, IsTold(b, n)'
      PROVE  WillShow(b, n)'
  <2>1. b \in Noted \ crossed /\ b \in Blocks
    BY <1>1, <1>2, <1>8 DEF Noted
  <2>2. IsTold(b, n)
    BY <1>1, <1>8, ToldAlready DEF Reported
  <2>3. WillShow(b, n)
    BY <2>1, <2>2 DEF Shows, ToldIsShown
  <2>4. \A i \in DOMAIN bulk' : IsLastBulk(i, b)' => bulk'[i].c[n] = world'[b][n]
    BY <1>1, <2>3 DEF WillShow, IsLastBulk
  <2>5. ASSUME ~BulkFor(b)
        PROVE  /\ \A i \in DOMAIN Tail(changes) :
                      IsLast(Tail(changes), i, b, n) => Tail(changes)[i].v = world[b][n]
               /\ (\A i \in DOMAIN Tail(changes) : ~Concerns(Tail(changes), i, b, n)) =>
                      copy'[b][n] = world[b][n]
    <3>1. /\ \A i \in DOMAIN changes : IsLast(changes, i, b, n) => changes[i].v = world[b][n]
          /\ (\A i \in DOMAIN changes : ~Concerns(changes, i, b, n)) => copy[b][n] = world[b][n]
      BY <2>3, <2>5 DEF WillShow
    <3>2. ASSUME NEW i \in DOMAIN Tail(changes), IsLast(Tail(changes), i, b, n)
          PROVE  Tail(changes)[i].v = world[b][n]
      <4>1. IsLast(changes, i + 1, b, n) /\ Tail(changes)[i] = changes[i + 1]
        BY <1>1, <1>2, <3>2, LastInTail
      <4>2. i + 1 \in DOMAIN changes
        BY <4>1 DEF IsLast, Concerns
      <4>3. QED
        BY <3>1, <4>1, <4>2
    <3>3. ASSUME \A i \in DOMAIN Tail(changes) : ~Concerns(Tail(changes), i, b, n)
          PROVE  copy'[b][n] = world[b][n]
      <4>1. /\ \A i \in DOMAIN changes : Concerns(changes, i, b, n) => i = 1
            /\ Concerns(changes, 1, b, n) => IsLast(changes, 1, b, n)
        BY <1>1, <1>2, <3>3, NoneInTail
      <4>2. 1 \in DOMAIN changes
        BY <1>3
      <4>3. CASE Concerns(changes, 1, b, n)
        <5>1. e.v = world[b][n] /\ e.b = b /\ e.n = n
          BY <1>3, <3>1, <4>1, <4>2, <4>3 DEF Concerns
        <5>2. copy[b] # None
          <6>1. ~Reported("deleted", b)
            BY <2>2 DEF IsTold
          <6>2. CASE b \in rc.sent
            BY <2>5, <6>1, <6>2 DEF Books
          <6>3. CASE b \in rc.sending
            <7>1. owed[b] > 0 \/ Reported("got", b)
              BY <2>5, <6>3 DEF Books
            <7>2. Reported("got", b) => copy[b] # None
              BY <6>1 DEF Books, ReportsAreTrue, Reported
            <7>3. QED
              BY <2>1, <7>1, <7>2 DEF Books, ReportsAreTrue
          <6>4. QED
            BY <2>1, <6>2, <6>3 DEF Noted
        <5>3. copy[b] \in [Nodes -> Versions \union {Air}]
          BY <1>2, <2>1, <5>2
        <5>4. QED
          BY <1>1, <1>2, <2>1, <5>1, <5>2, <5>3
      <4>4. CASE ~Concerns(changes, 1, b, n)
        <5>1. copy[b][n] = world[b][n]
          BY <3>1, <4>1, <4>4
        <5>2. ~(e.b = b /\ e.n = n)
          BY <1>3, <4>2, <4>4 DEF Concerns
        <5>3. copy'[b][n] = copy[b][n]
          <6>1. CASE copy[e.b] = None
            BY <1>1, <6>1
          <6>2. CASE copy[e.b] # None
            <7>1. copy[e.b] \in [Nodes -> Versions \union {Air}]
              BY <1>2, <1>4, <6>2
            <7>2. QED
              BY <1>1, <1>2, <1>4, <2>1, <5>2, <6>2, <7>1
          <6>3. QED
            BY <6>1, <6>2
        <5>4. QED
          BY <5>1, <5>3
      <4>5. QED
        BY <4>3, <4>4
    <3>4. QED
      BY <3>2, <3>3
  <2>6. BulkFor(b)' <=> BulkFor(b)
    BY <1>1 DEF BulkFor
  <2>7. QED
    BY <1>1, <2>4, <2>5, <2>6 DEF WillShow, IsLast, Concerns
<1>9. QED
  BY <1>6, <1>7, <1>8 DEF Shows, ToldIsShown

\* The server reads a report, takes the answer to a dig, or its pause ends.
LEMMA ShowsServer ==
    ASSUME Ground, Shows, PauseEnds \/ ServerReceive
    PROVE  Shows'
<1>0. TypeOK /\ OnlyMadeBlocks /\ VersionsLeft
  BY DEF Ground
<1>1. reports \in Seq(Report) /\ rc \in RC /\ digs \in Seq(Dug)
  BY <1>0, Types
<1>2. CASE PauseEnds
  <2>1. rc'.sending = rc.sending /\ rc'.sent = rc.sent
    BY <1>1, <1>2 DEF PauseEnds, RC
  <2>2. UNCHANGED <<world, edits, bulk, changes, reports, digs, copy, crossed>>
    BY <1>2 DEF PauseEnds
  <2>3. Noted' \subseteq Noted
    BY <2>1 DEF Noted
  <2>4. \A b, n : IsTold(b, n)' => IsTold(b, n) /\ copy'[b][n] = copy[b][n]
    BY <2>2 DEF IsTold, Reported, Concerns
  <2>5. QED
    BY <2>2, <2>3, <2>4, ShowsQuiet
<1>3. CASE handleCommand_GotBlocks
  <2> DEFINE b == Head(reports).b
             d == GotBlock(rc, b)
  <2>1. /\ reports # <<>> /\ Head(reports).type = "got" /\ reports' = Tail(reports) /\ rc' = d
        /\ UNCHANGED <<world, edits, bulk, changes, digs, copy, crossed>>
    BY <1>3 DEF handleCommand_GotBlocks
  <2>2. /\ Head(reports) = reports[1] /\ Head(reports) \in Report /\ Len(reports) \in Nat
        /\ DOMAIN reports = 1 .. Len(reports) /\ DOMAIN reports' = 1 .. Len(reports) - 1
        /\ \A i \in 1 .. Len(reports) - 1 : reports'[i] = reports[i + 1]
    BY <1>1, <2>1, TailIs
  <2>3. b \in Blocks
    BY <2>2 DEF Report
  <2>4. d.sending \union d.sent = rc.sending \union rc.sent
    BY <1>1, <2>3, GotKeeps
  <2> HIDE DEF d
  <2>5. Noted' \subseteq Noted
    BY <2>1, <2>4 DEF Noted
  <2>6. ASSUME NEW c, NEW n, IsTold(c, n)' PROVE IsTold(c, n)
    <3>1. ASSUME Reported("deleted", c) PROVE Reported("deleted", c)'
      <4>1. PICK i \in DOMAIN reports : reports[i] = [type |-> "deleted", b |-> c]
        BY <3>1 DEF Reported
      <4>2. i # 1
        BY <2>1, <2>2, <4>1
      <4>3. i - 1 \in DOMAIN reports' /\ reports'[i - 1] = reports[i]
        BY <2>2, <4>2
      <4>4. QED
        BY <4>1, <4>3 DEF Reported
    <3>2. QED
      BY <2>1, <2>6, <3>1, ToldAlready
  <2>7. QED
    BY <2>1, <2>5, <2>6, ShowsQuiet
<1>4. CASE handleCommand_DeletedBlocks
  <2> DEFINE b == Head(reports).b
             d == SetBlockNotSent(rc, b, FALSE)
  <2>1. /\ reports # <<>> /\ reports' = Tail(reports) /\ rc' = d
        /\ UNCHANGED <<world, edits, bulk, changes, digs, copy, crossed>>
    BY <1>4 DEF handleCommand_DeletedBlocks
  <2>2. /\ Head(reports) = reports[1] /\ Head(reports) \in Report /\ Len(reports) \in Nat
        /\ DOMAIN reports = 1 .. Len(reports) /\ DOMAIN reports' = 1 .. Len(reports) - 1
        /\ \A i \in 1 .. Len(reports) - 1 : reports'[i] = reports[i + 1]
    BY <1>1, <2>1, TailIs
  <2>3. b \in Blocks
    BY <2>2 DEF Report
  <2>4. d.sending = rc.sending \ {b} /\ d.sent = rc.sent \ {b}
    BY <1>1, <2>3, ForgetNow
  <2> HIDE DEF d
  <2>5. Noted' \subseteq Noted \ {b}
    BY <2>1, <2>4 DEF Noted
  <2>6. ASSUME NEW c, c # b, NEW n, IsTold(c, n)' PROVE IsTold(c, n)
    <3>1. ASSUME Reported("deleted", c) PROVE Reported("deleted", c)'
      <4>1. PICK i \in DOMAIN reports : reports[i] = [type |-> "deleted", b |-> c]
        BY <3>1 DEF Reported
      <4>2. i # 1
        BY <2>2, <2>6, <4>1
      <4>3. i - 1 \in DOMAIN reports' /\ reports'[i - 1] = reports[i]
        BY <2>2, <4>2
      <4>4. QED
        BY <4>1, <4>3 DEF Reported
    <3>2. QED
      BY <2>1, <2>6, <3>1, ToldAlready
  <2>7. QED
    BY <2>1, <2>5, <2>6, ShowsQuiet
<1>5. CASE handleCommand_Interact
  <2> DEFINE b == digs[1].b
             n == digs[1].n
             e == Edit(b, n, NextVersion(b))
  <2>1. /\ digs # <<>> /\ digs' = Tail(digs) /\ b \in Blocks /\ n \in Nodes
        /\ \/ e \in News /\ EditedBy(b, {n}, e)
           \/ /\ rc' \in RC /\ rc'.sending = rc.sending \ {b} /\ rc'.sent = rc.sent \ {b}
              /\ UNCHANGED <<world, edits, queued, phase, hidden, bulk, changes, reports,
                             copy, owed, crossed, left>>
    BY <1>0, <1>5, InteractDoes
  <2>2. e.b = b /\ e.n = n /\ e.v = NextVersion(b)
    BY DEF Edit
  <2>3. digs[1].b = b /\ digs[1].n = n
    OBVIOUS
  <2> HIDE DEF b, n, e
  <2>4. /\ Len(digs) \in Nat /\ DOMAIN digs = 1 .. Len(digs)
        /\ DOMAIN digs' = 1 .. Len(digs) - 1
        /\ \A i \in 1 .. Len(digs) - 1 : digs'[i] = digs[i + 1]
    BY <1>1, <2>1, TailIs
  <2>5. ASSUME NEW i \in DOMAIN digs, i # 1 PROVE \E j \in DOMAIN digs' : digs'[j] = digs[i]
    <3>1. i - 1 \in DOMAIN digs' /\ digs'[i - 1] = digs[i]
      BY <2>4, <2>5
    <3>2. QED
      BY <3>1
  <2>6. CASE e \in News /\ EditedBy(b, {n}, e)
    <3>1. EditFits(b, {n}, e)
      BY <2>1, <2>2, <2>3, <2>5 DEF EditFits
    <3>2. {n} \in SUBSET Nodes
      BY <2>1
    <3>3. QED
      BY <1>0, <2>1, <2>6, <3>1, <3>2, ShowsEdited
  <2>7. CASE /\ rc' \in RC /\ rc'.sending = rc.sending \ {b} /\ rc'.sent = rc.sent \ {b}
             /\ UNCHANGED <<world, edits, queued, phase, hidden, bulk, changes, reports,
                            copy, owed, crossed, left>>
    <3>1. Noted' \subseteq Noted \ {b}
      BY <2>7 DEF Noted
    <3>2. ASSUME NEW c, c # b, NEW m, IsTold(c, m)' PROVE IsTold(c, m)
      <4>1. \A i \in DOMAIN digs : Concerns(digs, i, c, m) =>
                                       \E j \in DOMAIN digs' : digs'[j] = digs[i]
        BY <2>3, <2>5, <3>2 DEF Concerns
      <4>2. Reported("deleted", c)' <=> Reported("deleted", c)
        BY <2>7 DEF Reported
      <4>3. QED
        BY <2>7, <3>2, <4>1, <4>2, ToldAlready
    <3>3. QED
      BY <2>7, <3>1, <3>2, ShowsQuiet
  <2>8. QED
    BY <2>1, <2>6, <2>7
<1>6. QED
  BY <1>2, <1>3, <1>4, <1>5 DEF ServerReceive

\* The client acknowledges, drops or digs, or the view changes.
LEMMA ShowsClient ==
    ASSUME TypeOK, Shows,
           \/ \E b \in Blocks : \/ sendGotBlocks(b) \/ UnloadBlock(b)
                                \/ \E n \in Nodes : Dig(b, n)
           \/ \E b \in Occludable : Occlude(b)
    PROVE  Shows'
<1>1. /\ digs \in Seq(Dug)
      /\ copy \in [Blocks -> [Nodes -> Versions \union {Air}] \union {None}]
      /\ Noted \subseteq Blocks
  BY Types, MessageTypes DEF Noted
<1>2. ASSUME NEW b \in Blocks, sendGotBlocks(b) PROVE Shows'
  <2> DEFINE r == [type |-> "got", b |-> b]
  <2>1. /\ reports' = Append(reports, r)
        /\ UNCHANGED <<rc, world, edits, bulk, changes, digs, copy, crossed>>
    BY <1>2 DEF sendGotBlocks
  <2>2. r \in Report
    BY DEF Report
  <2> HIDE DEF r
  <2>3. \A type, c : Reported(type, c) => Reported(type, c)'
    BY <2>1, <2>2, ReportAppended
  <2>4. \A c, n : IsTold(c, n)' => IsTold(c, n)
    BY <2>1, <2>3, ToldAlready
  <2>5. Noted' \subseteq Noted
    BY <2>1 DEF Noted
  <2>6. QED
    BY <2>1, <2>4, <2>5, ShowsQuiet
<1>3. ASSUME NEW b \in Blocks, UnloadBlock(b) PROVE Shows'
  <2> DEFINE r == [type |-> "deleted", b |-> b]
  <2>1. /\ reports' = Append(reports, r) /\ copy' = [copy EXCEPT ![b] = None]
        /\ UNCHANGED <<rc, world, edits, bulk, changes, digs, crossed>>
    BY <1>3 DEF UnloadBlock
  <2>2. r \in Report /\ r.type = "deleted" /\ r.b = b
    BY DEF Report
  <2> HIDE DEF r
  <2>3. /\ \A type, c : Reported(type, c) => Reported(type, c)'
        /\ Reported("deleted", b)'
    BY <2>1, <2>2, ReportAppended
  <2>4. \A c, n : IsTold(c, n)' => IsTold(c, n)
    BY <2>1, <2>3, ToldAlready
  <2>5. \A c, n : IsTold(c, n)' => c # b
    BY <2>3 DEF IsTold
  <2>6. \A c \in Blocks : c # b => copy'[c] = copy[c]
    BY <1>1, <2>1
  <2>7. Noted' \subseteq Noted
    BY <2>1 DEF Noted
  <2>8. \A c \in Noted' : \A n \in Nodes :
            IsTold(c, n)' => IsTold(c, n) /\ copy'[c][n] = copy[c][n]
    BY <1>1, <2>4, <2>5, <2>6, <2>7
  <2>9. QED
    BY <2>1, <2>7, <2>8, ShowsQuiet
<1>4. ASSUME NEW b \in Blocks, NEW n \in Nodes, Dig(b, n) PROVE Shows'
  <2> DEFINE d == [b |-> b, n |-> n]
  <2>1. /\ copy[b] # None /\ copy' = [copy EXCEPT ![b][n] = Air] /\ digs' = Append(digs, d)
        /\ UNCHANGED <<rc, world, edits, bulk, changes, reports, crossed>>
    BY <1>4 DEF Dig
  <2>2. d \in Dug /\ d.b = b /\ d.n = n
    BY DEF Dug
  <2> HIDE DEF d
  <2>3. /\ Len(digs) \in Nat /\ DOMAIN digs = 1 .. Len(digs)
        /\ DOMAIN digs' = 1 .. Len(digs) + 1
        /\ \A i \in 1 .. Len(digs) : digs'[i] = digs[i]
        /\ digs'[Len(digs) + 1] = d
    BY <1>1, <2>1, <2>2, AppendIs
  <2>4. \A i \in DOMAIN digs : \E j \in DOMAIN digs' : digs'[j] = digs[i]
    BY <2>3
  <2>5. \A type, c : Reported(type, c)' <=> Reported(type, c)
    BY <2>1 DEF Reported
  <2>6. \A c, m : IsTold(c, m)' => IsTold(c, m)
    BY <2>1, <2>4, <2>5, ToldAlready
  <2>7. \A c, m : IsTold(c, m)' => ~(c = b /\ m = n)
    <3>1. Len(digs) + 1 \in DOMAIN digs' /\ digs'[Len(digs) + 1] = d
      BY <2>3
    <3>2. QED
      BY <2>2, <3>1 DEF IsTold, Concerns
  <2>8. copy[b] \in [Nodes -> Versions \union {Air}]
    BY <1>1, <2>1
  <2>9. \A c \in Blocks : \A m \in Nodes : ~(c = b /\ m = n) => copy'[c][m] = copy[c][m]
    BY <1>1, <2>1, <2>8
  <2>10. Noted' \subseteq Noted
    BY <2>1 DEF Noted
  <2>11. \A c \in Noted' : \A m \in Nodes :
            IsTold(c, m)' => IsTold(c, m) /\ copy'[c][m] = copy[c][m]
    BY <1>1, <2>6, <2>7, <2>9, <2>10
  <2>12. QED
    BY <2>1, <2>10, <2>11, ShowsQuiet
<1>5. ASSUME NEW b \in Occludable, Occlude(b) PROVE Shows'
  <2>1. UNCHANGED <<rc, world, edits, bulk, changes, reports, digs, copy, crossed>>
    BY <1>5 DEF Occlude
  <2>2. Noted' \subseteq Noted
    BY <2>1 DEF Noted
  <2>3. \A c, n : IsTold(c, n)' => IsTold(c, n) /\ copy'[c][n] = copy[c][n]
    BY <2>1 DEF IsTold, Reported, Concerns
  <2>4. QED
    BY <2>1, <2>2, <2>3, ShowsQuiet
<1>6. QED
  BY <1>2, <1>3, <1>4, <1>5

LEMMA ShowsKept ==
    ASSUME Ground, Books, Shows, [Next]_vars
    PROVE  Shows'
<1>0. TypeOK /\ OnlyMadeBlocks /\ VersionsLeft
  BY DEF Ground
<1>1. CASE UNCHANGED vars
  <2>1. Noted' \subseteq Noted
    BY <1>1 DEF vars, Noted
  <2>2. \A c, n : IsTold(c, n)' => IsTold(c, n) /\ copy'[c][n] = copy[c][n]
    BY <1>1 DEF vars, IsTold, Reported, Concerns
  <2>3. QED
    BY <1>1, <2>1, <2>2, ShowsQuiet DEF vars
<1>2. ASSUME NEW b \in Blocks, NEW low \in BOOLEAN, EditBlock(b, low) PROVE Shows'
  <2> DEFINE e == [Edit(b, None, NextVersion(b)) EXCEPT !.low = low]
  <2>1. e \in News /\ EditedBy(b, Nodes, e)
    BY <1>0, <1>2, GroundEdits
  <2>2. EditFits(b, Nodes, e)
    <3>1. e.b = b /\ e.v = NextVersion(b) /\ e.n = None
      BY DEF Edit
    <3> HIDE DEF e
    <3>2. digs' = digs
      BY <1>2 DEF EditBlock
    <3>3. QED
      BY <3>1, <3>2 DEF EditFits
  <2> HIDE DEF e
  <2>3. QED
    BY <1>0, <2>1, <2>2, ShowsEdited
<1>3. ASSUME NEW b \in Blocks, NEW n \in Nodes, EditNode(b, n) PROVE Shows'
  <2> DEFINE e == Edit(b, n, NextVersion(b))
  <2>1. e \in News /\ EditedBy(b, {n}, e)
    BY <1>0, <1>3, GroundEdits
  <2>2. EditFits(b, {n}, e)
    <3>1. e.b = b /\ e.v = NextVersion(b) /\ e.n = n
      BY DEF Edit
    <3> HIDE DEF e
    <3>2. digs' = digs
      BY <1>3 DEF EditNode
    <3>3. QED
      BY <3>1, <3>2 DEF EditFits
  <2> HIDE DEF e
  <2>3. {n} \in SUBSET Nodes
    OBVIOUS
  <2>4. QED
    BY <1>0, <2>1, <2>2, <2>3, ShowsEdited
<1>4. CASE Next
  BY <1>0, <1>2, <1>3, <1>4, ShowsSendBlocks, ShowsSendEdits, ShowsSendBlock, ShowsBlockMade,
     ShowsBlockData, ShowsAddNode, ShowsServer, ShowsClient DEF Next, ServerStep, ClientReceive
<1>5. QED
  BY <1>1, <1>4

LEMMA InvariantInit == Init => IInv
<1> SUFFICES ASSUME Init PROVE IInv
  OBVIOUS
<1>1. TypeOK /\ OnlyMadeBlocks /\ VersionsLeft /\ Books
  BY GroundInit, BooksInit DEF Ground
<1>2. CrossedIsNoted /\ EditsAreNews /\ ToldIsShown
  BY DEF Init, CrossedIsNoted, BulkFor, EditsAreNews, ToldIsShown, Noted
<1>3. QED
  BY <1>1, <1>2 DEF IInv

LEMMA InvariantKept ==
    ASSUME IInv, [Next]_vars
    PROVE  IInv'
<1>1. Ground /\ Books /\ Shows
  BY DEF IInv, Ground, Shows
<1>2. Ground'
  BY <1>1, GroundKept
<1>3. Books'
  BY <1>1, BooksKept
<1>4. Shows'
  BY <1>1, ShowsKept
<1>5. QED
  BY <1>2, <1>3, <1>4 DEF IInv, Ground, Shows

LEMMA InvariantShows == IInv => UpToDateUnlessCrossed
<1> SUFFICES ASSUME IInv, NEW b \in rc.sent \ crossed, Settled(b) PROVE copy[b] = world[b]
  BY DEF UpToDateUnlessCrossed
<1>1. /\ TypeOK /\ b \in Blocks /\ b \in Noted \ crossed /\ b \in rc.sending \union rc.sent
  BY MessageTypes DEF IInv, Noted
<1>2. /\ ~BulkFor(b) /\ ~ChangesFor(b) /\ ~Reported("deleted", b)
      /\ \A i \in DOMAIN edits : edits[i].b # b
      /\ \A i \in DOMAIN digs : digs[i].b # b
  BY InFlightIs DEF Settled
<1>3. ASSUME NEW n \in Nodes PROVE copy[b][n] = world[b][n]
  <2>1. IsTold(b, n)
    BY <1>2 DEF IsTold, Concerns
  <2>2. WillShow(b, n)
    BY <1>1, <2>1 DEF IInv, ToldIsShown
  <2>3. \A i \in DOMAIN changes : ~Concerns(changes, i, b, n)
    BY <1>2 DEF ChangesFor, Concerns
  <2>4. QED
    BY <1>2, <2>2, <2>3 DEF WillShow
<1>4. copy[b] # None
  BY <1>2 DEF IInv, Books
<1>5. world[b] # None
  BY <1>1 DEF IInv, OnlyMadeBlocks
<1>6. copy[b] \in [Nodes -> Versions \union {Air}] /\ world[b] \in [Nodes -> Versions]
  BY <1>1, <1>4, <1>5 DEF TypeOK, Contents
<1>7. QED
  BY <1>3, <1>6

\* BlockTransfer's UpToDateUnlessCrossed: whatever is edited, dug, unloaded and acknowledged
\* late, once nothing is on its way the client shows a block that counts as sent as the
\* server has it, unless news of the block has been in both channels at once.
THEOREM UpToDate == Spec => []UpToDateUnlessCrossed
<1>1. Init => IInv
  BY InvariantInit
<1>2. IInv /\ [Next]_vars => IInv'
  BY InvariantKept
<1>3. IInv => UpToDateUnlessCrossed
  BY InvariantShows
<1>4. QED
  BY <1>1, <1>2, <1>3, PTL DEF Spec

=============================================================================
