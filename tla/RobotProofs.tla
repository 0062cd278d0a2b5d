----------------------------- MODULE RobotProofs -----------------------------
(***************************************************************************)
(* Proofs about RobotProgram, for any lessons, loop counts and times: the  *)
(* robot gets one block on with every move that a program counts as done,  *)
(* and the jumps of a program that rewrites itself lead where they should. *)
(***************************************************************************)
EXTENDS RobotProgram, SequenceTheorems, TLAPS

-----------------------------------------------------------------------------
(* The inductive invariant.                                                *)

Instruction == [action : Actions \union {"while_jump"}, target : Int]

Statuses == {"none", "running", "finished", "stopped", "blocked", "lost"}

Run == [status : Statuses, code : Seq(Instruction), index : Nat, counts : Seq(Nat),
        delay : 0..Max({STEP_DELAY, WAIT_DELAY})]

RobotTypeOK ==
    /\ lesson \in Lessons /\ clicks \in Nat /\ dtime \in Dtimes \union {0}
    /\ run \in [Runs -> Run]
    /\ robot \in [from : Nat, to : Nat, left : 0..ACTION_ANIMATION_TIME]
    /\ alive \in BOOLEAN /\ moves \in Nat /\ shared \in BOOLEAN /\ hiccup \in BOOLEAN

Jumps(code) == {j \in DOMAIN code : code[j].action = "while_jump"}

\* A jump leads into the list, and a program is at most one instruction behind it.
StaysInCode(x) ==
    /\ \A j \in Jumps(x.code) : x.code[j].target \in 1..Len(x.code)
    /\ x.status = "running" => x.index \in 1..(Len(x.code) + 2)

Gap == STEP_DELAY - ACTION_ANIMATION_TIME

\* The animation of a move ends before the next instruction of the only program.
AnimationEnds ==
    ~shared /\ ~hiccup =>
        /\ \A r, s \in Running : r = s
        /\ dtime <= Gap
        /\ robot.left > 0 => \E r \in Running : run[r].delay + dtime >= robot.left + Gap

RobotInv ==
    /\ RobotTypeOK /\ AnimationEnds /\ MovesAddUp
    /\ \A r \in Runs : StaysInCode(run[r])

-----------------------------------------------------------------------------
(* What execute_step makes of a program.                                   *)

Executed(x, clear) ==
    LET action == x.code[x.index].action
    IN  CASE action \in {"if_clear", "sensor_clear"} -> if_clear(x, clear)
          [] action = "else_block"  -> else_block(x)
          [] action = "while_clear" -> while_clear(x, clear)
          [] action = "while_jump"  -> while_jump(x)
          [] action = "loop_start"  -> loop_start(x)
          [] action = "wait" -> [Then(x, x.index) EXCEPT !.delay = WAIT_DELAY]
          [] action = "stop" -> End(x, "stopped")
          [] action \in {"turn", "variable_inc"} -> Then(x, x.index)
          [] action \in Deeds -> IF clear THEN Then(x, x.index) ELSE End(x, "blocked")

LEMMA ExecutesOne ==
    ASSUME NEW r \in Runs, execute_step(r)
    PROVE  /\ r \in Due /\ run[r].index <= Len(run[r].code)
           /\ \E clear \in BOOLEAN :
                 /\ run' = [run EXCEPT ![r] = Executed(run[r], clear)]
                 /\ IF run[r].code[run[r].index].action = "move_forward" /\ clear
                    THEN move_forward /\ moves' = moves + 1
                    ELSE UNCHANGED <<robot, moves>>
           /\ UNCHANGED <<lesson, clicks, alive, dtime, shared, hiccup>>
BY Zenon DEF execute_step, Step, Executed

\* The maximum of a number and 0.
LEMMA MaxIs ==
    ASSUME NEW m \in Int, NEW n \in Int
    PROVE  Max({m, n}) = IF m >= n THEN m ELSE n
<1> DEFINE top == IF m >= n THEN m ELSE n
<1>1. top \in {m, n} /\ \A y \in {m, n} : top >= y
  OBVIOUS
<1>2. \A x \in {m, n} : (\A y \in {m, n} : x >= y) => x = top
  OBVIOUS
<1> HIDE DEF top
<1>3. (CHOOSE x \in {m, n} : \A y \in {m, n} : x >= y) = top
  BY <1>1, <1>2
<1>4. QED
  BY <1>3 DEF Max, top

LEMMA Delays ==
    /\ {STEP_DELAY, WAIT_DELAY, 0} \subseteq 0..Max({STEP_DELAY, WAIT_DELAY})
    /\ Max({STEP_DELAY, WAIT_DELAY}) \in Nat
BY MaxIs, RobotAssumption

\* What is inserted goes behind the first i elements, the others are moved on.
LEMMA Inserted ==
    ASSUME NEW s \in Seq(Instruction), NEW i \in 0..Len(s), NEW t \in Seq(Instruction)
    PROVE  \E q \in Seq(Instruction) :
              /\ q = InsertAfter(s, i, t) /\ Len(q) = Len(s) + Len(t)
              /\ \A k \in 1..i : q[k] = s[k]
              /\ \A k \in (i + 1)..(i + Len(t)) : q[k] = t[k - i]
              /\ \A k \in (i + Len(t) + 1)..(Len(s) + Len(t)) : q[k] = s[k - Len(t)]
<1> DEFINE S == Instruction
           q == InsertAfter(s, i, t)
<1> DEFINE a == SubSeq(s, 1, i)
           b == SubSeq(s, i + 1, Len(s))
           c == a \o t
<1>0. PICK n \in Nat, m \in Nat : n = Len(s) /\ m = Len(t)
  OBVIOUS
<1>1. a \in Seq(S) /\ Len(a) = i /\ \A k \in 1..i : a[k] = s[k]
  OBVIOUS
<1>2. b \in Seq(S) /\ Len(b) = n - i /\ \A k \in 1..(n - i) : b[k] = s[i + k]
  BY <1>0
<1>3. i \in Nat /\ i <= n /\ n - i \in Nat /\ i + m \in Nat
  BY <1>0
<1> HIDE DEF a, b
<1>4. /\ c \in Seq(S) /\ Len(c) = i + m
      /\ \A k \in 1..(i + m) : c[k] = IF k <= i THEN a[k] ELSE t[k - i]
  <2>1. /\ a \o t \in Seq(S) /\ Len(a \o t) = Len(a) + Len(t)
        /\ \A k \in 1..Len(a) + Len(t) :
              (a \o t)[k] = IF k <= Len(a) THEN a[k] ELSE t[k - Len(a)]
    BY <1>1, ConcatProperties
  <2>2. Len(a) = i /\ Len(t) = m
    BY <1>0, <1>1
  <2>3. QED
    BY <2>1, <2>2, Zenon
<1>5. q = c \o b
  BY DEF InsertAfter, a, b, c
<1> HIDE DEF c, q
<1>6. /\ q \in Seq(S) /\ Len(q) = i + m + (n - i)
      /\ \A k \in 1..(i + m + (n - i)) : q[k] = IF k <= i + m THEN c[k] ELSE b[k - (i + m)]
  <2>1. /\ c \o b \in Seq(S) /\ Len(c \o b) = Len(c) + Len(b)
        /\ \A k \in 1..Len(c) + Len(b) :
              (c \o b)[k] = IF k <= Len(c) THEN c[k] ELSE b[k - Len(c)]
    BY <1>2, <1>4, ConcatProperties
  <2>2. Len(c) = i + m /\ Len(b) = n - i
    BY <1>2, <1>4
  <2>3. QED
    BY <1>5, <2>1, <2>2, Zenon
<1>7. Len(q) = n + m /\ i + m + (n - i) = n + m
  BY <1>3, <1>6
<1>8. ASSUME NEW k \in 1..i PROVE q[k] = s[k]
  <2>1. k \in 1..(i + m + (n - i)) /\ k \in 1..(i + m) /\ k <= i + m /\ k <= i
    BY <1>3
  <2>2. QED
    BY <1>1, <1>4, <1>6, <2>1
<1>9. ASSUME NEW k \in (i + 1)..(i + m) PROVE q[k] = t[k - i]
  <2>1. k \in 1..(i + m + (n - i)) /\ k \in 1..(i + m) /\ k <= i + m /\ ~(k <= i)
    BY <1>3
  <2>2. QED
    BY <1>4, <1>6, <2>1
<1>10. ASSUME NEW k \in (i + m + 1)..(n + m) PROVE q[k] = s[k - m]
  <2>1. k \in 1..(i + m + (n - i)) /\ ~(k <= i + m) /\ k - (i + m) \in 1..(n - i)
        /\ i + (k - (i + m)) = k - m
    BY <1>3
  <2>2. q[k] = b[k - (i + m)] /\ b[k - (i + m)] = s[i + (k - (i + m))]
    BY <1>2, <1>6, <2>1
  <2>3. QED
    BY <2>1, <2>2
<1>11. /\ q \in Seq(S) /\ Len(q) = n + m
       /\ \A k \in 1..i : q[k] = s[k]
       /\ \A k \in (i + 1)..(i + m) : q[k] = t[k - i]
       /\ \A k \in (i + m + 1)..(n + m) : q[k] = s[k - m]
  BY <1>6, <1>7, <1>8, <1>9, <1>10, Zenon
<1>12. QED
  BY <1>0, <1>11, Zenon DEF q

-----------------------------------------------------------------------------
(* What becomes of a program in one step: its list and where it goes on.   *)

IsA(x, i, action) == x.code[i].action = action

\* The program goes on at the next instruction but some, or has ended.
GoesOn(x, y) ==
    /\ y.code = x.code
    /\ \/ y.status \in {"stopped", "blocked"} /\ y.index = x.index
       \/ /\ y.status = "running" /\ y.index \in {x.index + 1, x.index + 2}
          /\ ~IsA(x, x.index, "while_jump")
       \/ /\ y.status = "running" /\ y.index = x.index + 3
          /\ JumpsBack(x, x.index)

\* It goes back to the WHILE.
GoesBack(x, y) ==
    /\ y.code = x.code /\ y.status = "running" /\ IsA(x, x.index, "while_jump")
    /\ y.index = x.code[x.index].target

\* A WHILE puts its jump behind the next instruction, a LOOP puts copies of it in front.
Grows(x, y) ==
    /\ y.status = "running" /\ y.index = x.index + 1 /\ x.index < Len(x.code)
    /\ \/ /\ IsA(x, x.index, "while_clear") /\ ~JumpsBack(x, x.index)
          /\ y.code = InsertAfter(x.code, x.index + 1, <<Jump(x.index)>>)
       \/ /\ IsA(x, x.index, "loop_start")
          /\ y.code = InsertAfter(x.code, x.index, [k \in 1..Copies |-> x.code[x.index + 1]])

\* All of a record but its list and its index.
Frame(y) ==
    /\ y = [status |-> y.status, code |-> y.code, index |-> y.index, counts |-> y.counts,
            delay |-> y.delay]
    /\ y.status \in Statuses /\ y.counts \in Seq(Nat)
    /\ y.delay \in 0..Max({STEP_DELAY, WAIT_DELAY})

\* A program that can be executed.
CanStep(x) ==
    /\ x \in Run /\ StaysInCode(x) /\ x.status = "running" /\ x.index <= Len(x.code)

LEMMA CanStepIs ==
    ASSUME NEW x, CanStep(x)
    PROVE  /\ Frame(x) /\ x.code \in Seq(Instruction) /\ Len(x.code) \in Nat
           /\ x.index \in Nat /\ x.index \in 1..Len(x.code) /\ x.index \in DOMAIN x.code
           /\ x.code[x.index] \in Instruction
           /\ x.code[x.index].action \in Actions \union {"while_jump"}
           /\ DOMAIN x.code = 1..Len(x.code)
<1>1. x \in Run
  BY DEF CanStep
<1>2. Frame(x) /\ x.code \in Seq(Instruction) /\ x.index \in Nat
  BY <1>1 DEF Run, Frame
<1>3. Len(x.code) \in Nat /\ DOMAIN x.code = 1..Len(x.code)
  BY <1>2
<1>4. x.index \in 1..Len(x.code)
  BY <1>3 DEF CanStep, StaysInCode
<1>5. x.code[x.index] \in Instruction
  BY <1>2, <1>4
<1>6. QED
  BY <1>2, <1>3, <1>4, <1>5 DEF Instruction

\* Going on at instruction i + 1.
LEMMA ThenIs ==
    ASSUME NEW x, Frame(x), NEW i
    PROVE  /\ Frame(Then(x, i)) /\ Then(x, i).code = x.code /\ Then(x, i).status = x.status
           /\ Then(x, i).index = i + 1 /\ Then(x, i).delay = STEP_DELAY
           /\ Then(x, i).counts = x.counts
<1>1. Then(x, i) = [status |-> x.status, code |-> x.code, index |-> i + 1,
                    counts |-> x.counts, delay |-> STEP_DELAY]
  <2> DEFINE w == [x EXCEPT !.index = i + 1]
  <2>1. w = [status |-> x.status, code |-> x.code, index |-> i + 1, counts |-> x.counts,
             delay |-> x.delay]
    <3>1. x = [status |-> x.status, code |-> x.code, index |-> x.index, counts |-> x.counts,
               delay |-> x.delay]
      BY Zenon DEF Frame
    <3>2. QED
      BY <3>1
  <2>2. Then(x, i) = [w EXCEPT !.delay = STEP_DELAY]
    BY DEF Then
  <2> HIDE DEF w
  <2>3. QED
    BY <2>1, <2>2
<1> DEFINE y == Then(x, i)
<1> HIDE DEF y
<1>2. y = [status |-> x.status, code |-> x.code, index |-> i + 1, counts |-> x.counts,
           delay |-> STEP_DELAY]
  BY <1>1 DEF y
<1>3. /\ y.status = x.status /\ y.code = x.code /\ y.index = i + 1 /\ y.counts = x.counts
      /\ y.delay = STEP_DELAY
  BY <1>2
<1>4. STEP_DELAY \in 0..Max({STEP_DELAY, WAIT_DELAY})
  BY Delays
<1>5. Frame(y)
  BY <1>2, <1>3, <1>4 DEF Frame
<1>6. QED
  BY <1>3, <1>5 DEF y

LEMMA CountIs ==
    ASSUME NEW x, Frame(x), x.code \in Seq(Instruction), NEW i
    PROVE  /\ Count(x, i) \in Nat
           /\ \A n \in Nat : /\ Frame(SetCount(x, i, n))
                             /\ SetCount(x, i, n).code = x.code
                             /\ SetCount(x, i, n).status = x.status
<1>1. \A j : Count(x, j) \in Nat
  BY DEF Count, Frame
<1>2. ASSUME NEW n \in Nat
      PROVE  /\ Frame(SetCount(x, i, n)) /\ SetCount(x, i, n).code = x.code
             /\ SetCount(x, i, n).status = x.status
  <2> DEFINE c == [j \in 1..Len(x.code) |-> IF j = i THEN n ELSE Count(x, j)]
  <2>1. c \in Seq(Nat)
    BY <1>1
  <2> HIDE DEF c
  <2>2. SetCount(x, i, n) = [x EXCEPT !.counts = c]
    BY DEF SetCount, c
  <2>3. QED
    BY <2>1, <2>2 DEF Frame
<1>3. QED
  BY <1>1, <1>2

LEMMA WhileBecomes ==
    ASSUME NEW x, CanStep(x), NEW clear \in BOOLEAN, IsA(x, x.index, "while_clear"), NEW y,
           y = while_clear(x, clear)
    PROVE  Frame(y) /\ (GoesOn(x, y) \/ Grows(x, y))
<1> DEFINE i == x.index
           next == i < Len(x.code)
           more == SetCount(x, i, Count(x, i) + 1)
           none == SetCount(x, i, 0)
           longer == InsertAfter(x.code, i + 1, <<Jump(i)>>)
           skip == IF ~next THEN i ELSE IF JumpsBack(x, i) THEN i + 2 ELSE i + 1
<1>1. Frame(x) /\ x.code \in Seq(Instruction) /\ i \in Nat /\ x.status = "running"
  BY CanStepIs DEF CanStep
<1>2. Count(x, i) \in Nat
  BY <1>1, CountIs
<1>3. /\ Frame(more) /\ more.code = x.code /\ more.status = "running"
      /\ Frame(none) /\ none.code = x.code /\ none.status = "running"
  BY <1>1, <1>2, CountIs
<1> HIDE DEF more, none
<1>4. /\ Frame(Then(more, i)) /\ Then(more, i).code = x.code /\ Then(more, i).index = i + 1
      /\ Then(more, i).status = "running"
  BY <1>3, ThenIs
<1>5. /\ Frame(Then(none, skip)) /\ Then(none, skip).code = x.code
      /\ Then(none, skip).index = skip + 1 /\ Then(none, skip).status = "running"
  BY <1>3, ThenIs
<1>6. ~IsA(x, i, "while_jump")
  BY DEF IsA
<1>7. CASE clear /\ next /\ Count(x, i) < WHILE_MAX_REPEAT
  <2> DEFINE z == Then(more, i)
  <2>1. y = [z EXCEPT !.code = IF JumpsBack(x, i) THEN z.code
                               ELSE InsertAfter(z.code, i + 1, <<Jump(i)>>)]
    BY <1>7 DEF while_clear, more
  <2> HIDE DEF z
  <2>2. y = [z EXCEPT !.code = IF JumpsBack(x, i) THEN x.code ELSE longer]
    BY <1>4, <2>1 DEF z
  <2> HIDE DEF longer
  <2>3. /\ Frame(y) /\ y.status = "running" /\ y.index = i + 1
        /\ y.code = IF JumpsBack(x, i) THEN x.code ELSE longer
    BY <1>4, <2>2 DEF Frame, z
  <2>4. CASE JumpsBack(x, i)
    BY <1>6, <2>3, <2>4 DEF GoesOn
  <2>5. CASE ~JumpsBack(x, i)
    <3>1. y.code = longer
      BY <2>3, <2>5
    <3>2. QED
      BY <1>7, <2>3, <2>5, <3>1 DEF Grows, longer
  <2>6. QED
    BY <2>4, <2>5
<1>8. CASE ~(clear /\ next /\ Count(x, i) < WHILE_MAX_REPEAT)
  <2>1. y = Then(none, skip)
    BY <1>8 DEF while_clear, none
  <2>2. /\ Frame(y) /\ y.code = x.code /\ y.index = skip + 1 /\ y.status = "running"
    BY <1>5, <2>1
  <2>3. CASE next /\ JumpsBack(x, i)
    <3>1. y.index = i + 3
      BY <1>1, <2>2, <2>3
    <3>2. QED
      BY <2>2, <2>3, <3>1 DEF GoesOn
  <2>4. CASE ~(next /\ JumpsBack(x, i))
    <3>1. y.index \in {i + 1, i + 2}
      BY <1>1, <2>2, <2>4
    <3>2. QED
      BY <1>6, <2>2, <3>1 DEF GoesOn
  <2>5. QED
    BY <2>3, <2>4
<1>9. QED
  BY <1>7, <1>8

LEMMA LoopBecomes ==
    ASSUME NEW x, CanStep(x), IsA(x, x.index, "loop_start"), NEW y, y = loop_start(x)
    PROVE  Frame(y) /\ (GoesOn(x, y) \/ Grows(x, y))
<1> DEFINE i == x.index
           z == Then(x, i)
           longer == InsertAfter(x.code, i, [k \in 1..Copies |-> x.code[i + 1]])
<1>1. Frame(x) /\ i \in Nat /\ i \in 1..Len(x.code) /\ x.status = "running" /\ Len(x.code) \in Nat
  BY CanStepIs DEF CanStep
<1>2. Frame(z) /\ z.code = x.code /\ z.index = i + 1 /\ z.status = "running"
  BY <1>1, ThenIs
<1>3. CASE i = Len(x.code)
  <2>1. y = z
    BY <1>3 DEF loop_start
  <2>2. QED
    BY <1>2, <2>1 DEF GoesOn, IsA
<1>4. CASE i # Len(x.code)
  <2>1. y = [z EXCEPT !.code = InsertAfter(z.code, i, [k \in 1..Copies |-> x.code[i + 1]])]
    BY <1>4 DEF loop_start
  <2> HIDE DEF z
  <2>2. y = [z EXCEPT !.code = longer]
    BY <1>2, <2>1
  <2> HIDE DEF longer
  <2>3. Frame(y) /\ y.status = "running" /\ y.index = i + 1 /\ y.code = longer
    BY <1>2, <2>2 DEF Frame
  <2>4. QED
    BY <1>1, <1>4, <2>3 DEF Grows, longer
<1>5. QED
  BY <1>3, <1>4

\* A step that changes neither list nor index but the delay, or ends the program.
LEMMA WaitIs ==
    ASSUME NEW x, Frame(x), NEW y, y = [x EXCEPT !.delay = WAIT_DELAY]
    PROVE  Frame(y) /\ y.code = x.code /\ y.status = x.status /\ y.index = x.index
<1>1. y = [status |-> x.status, code |-> x.code, index |-> x.index, counts |-> x.counts,
           delay |-> WAIT_DELAY]
  BY DEF Frame
<1>2. WAIT_DELAY \in 0..Max({STEP_DELAY, WAIT_DELAY})
  BY Delays
<1>3. QED
  BY <1>1, <1>2 DEF Frame

LEMMA EndIs ==
    ASSUME NEW x, Frame(x), NEW status \in Statuses, NEW y, y = End(x, status)
    PROVE  /\ Frame(y) /\ y.code = x.code /\ y.status = status /\ y.index = x.index
           /\ y.delay = x.delay
<1>1. y = [status |-> status, code |-> x.code, index |-> x.index, counts |-> x.counts,
           delay |-> x.delay]
  BY DEF Frame, End
<1>2. QED
  BY <1>1 DEF Frame

Becomes(x, y) == Frame(y) /\ (GoesOn(x, y) \/ GoesBack(x, y) \/ Grows(x, y))

\* Each instruction, and that a move which is made is followed by the next instruction.
LEMMA ExecutedBecomes ==
    ASSUME NEW x, CanStep(x), NEW clear \in BOOLEAN, NEW y, y = Executed(x, clear)
    PROVE  /\ Becomes(x, y)
           /\ IsA(x, x.index, "move_forward") /\ clear =>
                 y.status = "running" /\ y.delay = STEP_DELAY
<1> DEFINE i == x.index
           action == x.code[i].action
<1>1. /\ Frame(x) /\ x.status = "running" /\ i \in Nat
      /\ action \in Actions \union {"while_jump"}
  BY CanStepIs DEF CanStep
<1>2. \A k : /\ Frame(Then(x, k)) /\ Then(x, k).code = x.code /\ Then(x, k).status = "running"
             /\ Then(x, k).index = k + 1 /\ Then(x, k).delay = STEP_DELAY
  BY <1>1, ThenIs
<1>3. ASSUME NEW k \in {i, i + 1}, y = Then(x, k), action # "while_jump"
      PROVE  Becomes(x, y) /\ y.status = "running" /\ y.delay = STEP_DELAY
  <2>1. y.index \in {i + 1, i + 2}
    BY <1>1, <1>2, <1>3
  <2>2. QED
    BY <1>2, <1>3, <2>1 DEF Becomes, GoesOn, IsA
<1> HIDE DEF action
<1>4. CASE action \in {"if_clear", "sensor_clear"}
  <2>1. y = if_clear(x, clear)
    BY <1>4 DEF Executed, action, Deeds
  <2>2. y = Then(x, i) \/ y = Then(x, i + 1)
    BY <2>1 DEF if_clear
  <2>3. QED
    BY <1>3, <1>4, <2>2 DEF IsA, action
<1>5. CASE action = "else_block"
  <2>1. y = Then(x, i + 1)
    BY <1>5 DEF Executed, action, Deeds, else_block
  <2>2. QED
    BY <1>3, <1>5, <2>1 DEF IsA, action
<1>6. CASE action = "while_clear"
  <2>1. y = while_clear(x, clear)
    BY <1>6 DEF Executed, action, Deeds
  <2>2. QED
    BY <1>6, <2>1, WhileBecomes DEF IsA, action, Becomes
<1>7. CASE action = "while_jump"
  <2>1. y = Then(x, x.code[i].target - 1)
    BY <1>7 DEF Executed, action, Deeds, while_jump
  <2>2. x.code[i].target \in Int
    BY CanStepIs DEF Instruction
  <2>3. y.index = x.code[i].target
    <3>1. y.index = (x.code[i].target - 1) + 1
      BY <1>2, <2>1
    <3>2. QED
      BY <2>2, <3>1
  <2>4. QED
    BY <1>2, <1>7, <2>1, <2>3 DEF IsA, action, Becomes, GoesBack
<1>8. CASE action = "loop_start"
  <2>1. y = loop_start(x)
    BY <1>8 DEF Executed, action, Deeds
  <2>2. QED
    BY <1>8, <2>1, LoopBecomes DEF IsA, action, Becomes
<1>9. CASE action = "wait"
  <2> DEFINE z == Then(x, i)
  <2>1. y = [z EXCEPT !.delay = WAIT_DELAY]
    BY <1>9 DEF Executed, action, Deeds
  <2>2. Frame(z) /\ z.code = x.code /\ z.status = "running" /\ z.index = i + 1
    BY <1>2
  <2> HIDE DEF z
  <2>3. Frame(y) /\ y.code = x.code /\ y.status = "running" /\ y.index = i + 1
    BY <2>1, <2>2, WaitIs
  <2>4. QED
    BY <1>9, <2>3 DEF IsA, action, Becomes, GoesOn
<1>10. CASE action = "stop"
  <2>1. y = End(x, "stopped")
    BY <1>10 DEF Executed, action, Deeds
  <2>2. Frame(y) /\ y.code = x.code /\ y.status = "stopped" /\ y.index = x.index
    BY <1>1, <2>1, EndIs DEF Statuses
  <2>3. QED
    BY <1>10, <2>2 DEF IsA, action, Becomes, GoesOn
<1>11. CASE action \in {"turn", "variable_inc"}
  <2>1. y = Then(x, i)
    BY <1>11 DEF Executed, action, Deeds
  <2>2. QED
    BY <1>3, <1>11, <2>1 DEF IsA, action
<1>12. CASE action \in Deeds
  <2>1. y = IF clear THEN Then(x, i) ELSE End(x, "blocked")
    BY <1>12 DEF Executed, action, Deeds
  <2>2. CASE clear
    BY <1>3, <1>12, <2>1, <2>2 DEF IsA, action, Deeds
  <2>3. CASE ~clear
    <3>1. Frame(y) /\ y.code = x.code /\ y.status = "blocked" /\ y.index = x.index
      BY <1>1, <2>1, <2>3, EndIs DEF Statuses
    <3>2. QED
      BY <2>3, <3>1 DEF Becomes, GoesOn
  <2>4. QED
    BY <2>2, <2>3
<1>13. QED
  BY <1>1, <1>4, <1>5, <1>6, <1>7, <1>8, <1>9, <1>10, <1>11, <1>12 DEF Actions

-----------------------------------------------------------------------------
(* A program stays in its list.                                            *)

\* What a WHILE puts in.
WhileGrows(x, q) ==
    /\ q \in Seq(Instruction) /\ Len(q) = Len(x.code) + 1
    /\ \A k \in 1..(x.index + 1) : q[k] = x.code[k]
    /\ q[x.index + 2] = Jump(x.index)
    /\ \A k \in (x.index + 3)..(Len(x.code) + 1) : q[k] = x.code[k - 1]

\* What a LOOP puts in.
LoopGrows(x, q) ==
    /\ q \in Seq(Instruction) /\ Len(q) = Len(x.code) + Copies
    /\ \A k \in 1..x.index : q[k] = x.code[k]
    /\ \A k \in (x.index + 1)..(x.index + Copies) : q[k] = x.code[x.index + 1]
    /\ \A k \in (x.index + Copies + 1)..(Len(x.code) + Copies) : q[k] = x.code[k - Copies]

LEMMA WhilePutsIn ==
    ASSUME NEW x, CanStep(x), x.index < Len(x.code), NEW q,
           q = InsertAfter(x.code, x.index + 1, <<Jump(x.index)>>)
    PROVE  WhileGrows(x, q)
<1> DEFINE i == x.index
           jump == <<Jump(i)>>
<1>1. PICK n \in Nat : n = Len(x.code)
  BY CanStepIs
<1>2. x.code \in Seq(Instruction) /\ i \in Nat /\ i >= 1 /\ i < n
  BY <1>1, CanStepIs
<1>3. i + 1 \in 0..Len(x.code)
  BY <1>1, <1>2
<1>4. jump \in Seq(Instruction) /\ Len(jump) = 1 /\ jump[1] = Jump(i)
  <2>1. Jump(i) \in Instruction
    BY <1>2 DEF Jump, Instruction
  <2>2. QED
    BY <2>1
<1> HIDE DEF jump
<1>5. PICK r \in Seq(Instruction) :
          /\ r = InsertAfter(x.code, i + 1, jump) /\ Len(r) = Len(x.code) + Len(jump)
          /\ \A k \in 1..(i + 1) : r[k] = x.code[k]
          /\ \A k \in (i + 1 + 1)..(i + 1 + Len(jump)) : r[k] = jump[k - (i + 1)]
          /\ \A k \in (i + 1 + Len(jump) + 1)..(Len(x.code) + Len(jump)) :
                r[k] = x.code[k - Len(jump)]
  BY <1>2, <1>3, <1>4, Inserted, Zenon
<1>6. r = q
  BY <1>5 DEF jump
<1>7. r[i + 2] = Jump(i)
  <2>1. i + 2 \in (i + 1 + 1)..(i + 1 + Len(jump)) /\ i + 2 - (i + 1) = 1
    BY <1>2, <1>4
  <2>2. PICK k \in (i + 1 + 1)..(i + 1 + Len(jump)) : k = i + 2
    BY <2>1
  <2>3. k - (i + 1) = 1
    BY <1>2, <2>2
  <2>4. r[k] = jump[k - (i + 1)]
    BY <1>5, Zenon
  <2>5. QED
    BY <1>4, <2>2, <2>3, <2>4, Zenon
<1>8. ASSUME NEW k \in (i + 3)..(n + 1) PROVE r[k] = x.code[k - 1]
  <2>1. k \in (i + 1 + Len(jump) + 1)..(Len(x.code) + Len(jump))
    BY <1>1, <1>2, <1>4
  <2>2. QED
    BY <1>4, <1>5, <2>1
<1>9. Len(r) = n + 1
  BY <1>1, <1>4, <1>5
<1>10. QED
  BY <1>1, <1>5, <1>6, <1>7, <1>8, <1>9 DEF WhileGrows

LEMMA LoopPutsIn ==
    ASSUME NEW x, CanStep(x), x.index < Len(x.code), NEW q,
           q = InsertAfter(x.code, x.index, [k \in 1..Copies |-> x.code[x.index + 1]])
    PROVE  LoopGrows(x, q) /\ Copies \in Nat
<1> DEFINE i == x.index
           copies == [k \in 1..Copies |-> x.code[i + 1]]
<1>1. PICK n \in Nat : n = Len(x.code)
  BY CanStepIs
<1>2. x.code \in Seq(Instruction) /\ i \in Nat /\ i >= 1 /\ i < n
  BY <1>1, CanStepIs
<1>3. PICK m \in Nat : m = Copies
  BY RobotAssumption DEF Copies
<1>4. i \in 0..Len(x.code)
  BY <1>1, <1>2
<1>5. copies \in Seq(Instruction) /\ Len(copies) = m /\ \A k \in 1..m : copies[k] = x.code[i + 1]
  <2>1. x.code[i + 1] \in Instruction
    BY <1>1, <1>2
  <2>2. QED
    BY <1>3, <2>1
<1> HIDE DEF copies
<1>6. PICK r \in Seq(Instruction) :
          /\ r = InsertAfter(x.code, i, copies) /\ Len(r) = Len(x.code) + Len(copies)
          /\ \A k \in 1..i : r[k] = x.code[k]
          /\ \A k \in (i + 1)..(i + Len(copies)) : r[k] = copies[k - i]
          /\ \A k \in (i + Len(copies) + 1)..(Len(x.code) + Len(copies)) :
                r[k] = x.code[k - Len(copies)]
  BY <1>2, <1>4, <1>5, Inserted, Zenon
<1>7. r = q
  BY <1>6 DEF copies
<1>8. ASSUME NEW k \in (i + 1)..(i + m) PROVE r[k] = x.code[i + 1]
  <2>1. k - i \in 1..m
    BY <1>2
  <2>2. QED
    BY <1>5, <1>6, <2>1
<1>9. ASSUME NEW k \in (i + m + 1)..(n + m) PROVE r[k] = x.code[k - m]
  BY <1>1, <1>5, <1>6
<1>10. Len(r) = n + m
  BY <1>1, <1>5, <1>6
<1>11. QED
  BY <1>1, <1>3, <1>6, <1>7, <1>8, <1>9, <1>10 DEF LoopGrows

LEMMA GrownBy ==
    ASSUME NEW x, CanStep(x), NEW y, Grows(x, y)
    PROVE  \/ /\ IsA(x, x.index, "while_clear") /\ ~JumpsBack(x, x.index)
              /\ WhileGrows(x, y.code)
           \/ IsA(x, x.index, "loop_start") /\ LoopGrows(x, y.code) /\ Copies \in Nat
BY WhilePutsIn, LoopPutsIn DEF Grows

\* A step leaves a program in its list, which never gets shorter.
LEMMA StepsStayInCode ==
    ASSUME NEW x, CanStep(x), NEW y, Becomes(x, y)
    PROVE  y \in Run /\ StaysInCode(y) /\ y.status \in {"running", "stopped", "blocked"}
<1> DEFINE i == x.index
           n == Len(x.code)
<1>1. /\ x.code \in Seq(Instruction) /\ n \in Nat /\ i \in Nat /\ i \in 1..n /\ DOMAIN x.code = 1..n
      /\ \A j \in Jumps(x.code) : x.code[j].target \in 1..n
  BY CanStepIs DEF CanStep, StaysInCode
<1>2. Frame(y)
  BY DEF Becomes
<1>3. ASSUME y.code \in Seq(Instruction), y.index \in Nat,
             y.status = "running" => y.index \in 1..(Len(y.code) + 2),
             \A j \in Jumps(y.code) : y.code[j].target \in 1..Len(y.code)
      PROVE  y \in Run /\ StaysInCode(y)
  BY <1>2, <1>3 DEF Run, Frame, StaysInCode
<1>4. CASE GoesOn(x, y)
  <2>1. y.status \in {"running", "stopped", "blocked"} /\ y.code = x.code
    BY <1>4 DEF GoesOn
  <2>2. y.index \in {i, i + 1, i + 2} \/ (y.index = i + 3 /\ i + 2 <= n)
    BY <1>4, Zenon DEF GoesOn, JumpsBack
  <2>3. y.index \in Nat /\ y.index \in 1..(n + 2)
    <3>1. i \in 1..n /\ n \in Nat
      BY <1>1
    <3>2. \A a, b \in Nat : a \in 1..b =>
             /\ a \in 1..(b + 2) /\ a + 1 \in 1..(b + 2) /\ a + 2 \in 1..(b + 2)
             /\ a + 2 <= b => a + 3 \in 1..(b + 2)
      OBVIOUS
    <3>3. y.index \in 1..(n + 2)
      BY <1>1, <2>2, <3>1, <3>2, Zenon
    <3>4. QED
      BY <3>1, <3>3
  <2>4. QED
    BY <1>1, <1>3, <2>1, <2>3
<1>5. CASE GoesBack(x, y)
  <2>1. y.status = "running" /\ y.code = x.code /\ i \in Jumps(x.code) /\ y.index = x.code[i].target
    BY <1>1, <1>5 DEF GoesBack, IsA, Jumps
  <2>2. y.index \in 1..n
    BY <1>1, <2>1
  <2>3. y.index \in Nat /\ y.index \in 1..(n + 2)
    BY <1>1, <2>2
  <2>4. QED
    BY <1>1, <1>3, <2>1, <2>3
<1>6. CASE Grows(x, y)
  <2>1. y.status = "running" /\ y.index = i + 1 /\ i < n
    BY <1>6 DEF Grows
  <2>2. CASE WhileGrows(x, y.code)
    <3> DEFINE q == y.code
    <3> HIDE DEF q
    <3>1. /\ q \in Seq(Instruction) /\ Len(q) = n + 1 /\ DOMAIN q = 1..(n + 1)
          /\ \A k \in 1..(i + 1) : q[k] = x.code[k]
          /\ q[i + 2] = Jump(i)
          /\ \A k \in (i + 3)..(n + 1) : q[k] = x.code[k - 1]
      BY <2>2 DEF WhileGrows, q
    <3>2. ASSUME NEW j \in Jumps(q) PROVE q[j].target \in 1..(n + 1)
      <4>1. j \in 1..(n + 1) /\ q[j].action = "while_jump"
        BY <3>1 DEF Jumps
      <4>2. CASE j \in 1..(i + 1)
        <5>1. j \in Jumps(x.code) /\ q[j] = x.code[j]
          BY <1>1, <2>1, <3>1, <4>1, <4>2 DEF Jumps
        <5>2. x.code[j].target \in 1..n
          BY <1>1, <5>1
        <5>3. QED
          BY <1>1, <5>1, <5>2
      <4>3. CASE j = i + 2
        BY <1>1, <3>1, <4>3 DEF Jump
      <4>4. CASE j \in (i + 3)..(n + 1)
        <5>1. q[j] = x.code[j - 1] /\ j - 1 \in 1..n
          BY <1>1, <3>1, <4>4
        <5>2. j - 1 \in Jumps(x.code)
          BY <1>1, <4>1, <5>1 DEF Jumps
        <5>3. x.code[j - 1].target \in 1..n
          BY <1>1, <5>2
        <5>4. QED
          BY <1>1, <5>1, <5>3
      <4>5. QED
        BY <1>1, <4>1, <4>2, <4>3, <4>4
    <3>3. y.index \in Nat /\ y.index \in 1..(Len(q) + 2)
      BY <1>1, <2>1, <3>1
    <3>4. QED
      BY <1>3, <2>1, <3>1, <3>2, <3>3 DEF q
  <2>3. CASE LoopGrows(x, y.code) /\ Copies \in Nat
    <3> DEFINE q == y.code
               m == Copies
    <3> HIDE DEF q, m
    <3>1. /\ q \in Seq(Instruction) /\ Len(q) = n + m /\ DOMAIN q = 1..(n + m) /\ m \in Nat
          /\ \A k \in 1..i : q[k] = x.code[k]
          /\ \A k \in (i + 1)..(i + m) : q[k] = x.code[i + 1]
          /\ \A k \in (i + m + 1)..(n + m) : q[k] = x.code[k - m]
      BY <2>3 DEF LoopGrows, q, m
    <3>2. ASSUME NEW j \in Jumps(q) PROVE q[j].target \in 1..(n + m)
      <4>1. j \in 1..(n + m) /\ q[j].action = "while_jump"
        BY <3>1 DEF Jumps
      <4>2. PICK k \in 1..n : q[j] = x.code[k]
        <5>1. CASE j \in 1..i
          BY <1>1, <3>1, <5>1
        <5>2. CASE j \in (i + 1)..(i + m)
          <6>1. i + 1 \in 1..n /\ q[j] = x.code[i + 1]
            BY <1>1, <2>1, <3>1, <5>2
          <6>2. QED
            BY <6>1
        <5>3. CASE j \in (i + m + 1)..(n + m)
          <6>1. j - m \in 1..n /\ q[j] = x.code[j - m]
            BY <1>1, <3>1, <5>3
          <6>2. QED
            BY <6>1
        <5>4. QED
          BY <1>1, <3>1, <4>1, <5>1, <5>2, <5>3
      <4>3. k \in Jumps(x.code)
        BY <1>1, <4>1, <4>2 DEF Jumps
      <4>4. x.code[k].target \in 1..n
        BY <1>1, <4>3
      <4>5. QED
        BY <1>1, <3>1, <4>2, <4>4
    <3>3. y.index \in Nat /\ y.index \in 1..(Len(q) + 2)
      BY <1>1, <2>1, <3>1
    <3>4. QED
      BY <1>3, <2>1, <3>1, <3>2, <3>3 DEF q
  <2>4. QED
    BY <1>6, <2>2, <2>3, GrownBy
<1>7. QED
  BY <1>4, <1>5, <1>6 DEF Becomes

-----------------------------------------------------------------------------
(* The invariant is inductive: one lemma per action.                       *)

LEMMA ProgramsBegin == Init => RobotInv
<1> SUFFICES ASSUME Init PROVE RobotInv
  OBVIOUS
<1>1. NotStarted \in Run /\ StaysInCode(NotStarted) /\ NotStarted.status = "none"
  <2>1. <<>> \in Seq(Instruction) /\ <<>> \in Seq(Nat) /\ DOMAIN <<>> = {}
    OBVIOUS
  <2>2. 0 \in 0..Max({STEP_DELAY, WAIT_DELAY})
    BY Delays
  <2>3. QED
    BY <2>1, <2>2 DEF NotStarted, Run, Statuses, StaysInCode, Jumps
<1>2. run \in [Runs -> Run] /\ \A r \in Runs : run[r] = NotStarted
  BY <1>1 DEF Init
<1>3. \A r \in Runs : StaysInCode(run[r])
  BY <1>1, <1>2
<1>4. Running = {}
  BY <1>1, <1>2 DEF Running
<1>5. RobotTypeOK
  <2>1. lesson.starts \in Nat /\ 0 \in 0..ACTION_ANIMATION_TIME
    BY RobotAssumption DEF Init
  <2>2. robot \in [from : Nat, to : Nat, left : 0..ACTION_ANIMATION_TIME]
    BY <2>1 DEF Init
  <2>3. QED
    BY <1>2, <2>1, <2>2 DEF Init, RobotTypeOK
<1>6. AnimationEnds
  BY <1>4, AnimationFits, RobotAssumption DEF Init, AnimationEnds, Gap
<1>7. QED
  BY <1>3, <1>5, <1>6 DEF RobotInv, Init, MovesAddUp

\* One program is replaced.
LEMMA OneRun ==
    ASSUME RobotTypeOK, NEW r \in Runs, NEW y \in Run, run' = [run EXCEPT ![r] = y]
    PROVE  /\ run' \in [Runs -> Run] /\ run'[r] = y
           /\ \A s \in Runs : s # r => run'[s] = run[s]
           /\ Running' = IF y.status = "running" THEN Running \union {r} ELSE Running \ {r}
<1>1. /\ run' \in [Runs -> Run] /\ run'[r] = y
      /\ \A s \in Runs : s # r => run'[s] = run[s]
  BY DEF RobotTypeOK
<1>2. Running' = {s \in Runs : run'[s].status = "running"}
  BY DEF Running
<1>3. QED
  BY <1>1, <1>2, Zenon DEF Running

\* While one program has the robot for itself, its animation is over when the next
\* instruction is due.
LEMMA AtRestWhenDue ==
    ASSUME RobotInv, NEW r \in Due, ~shared, ~hiccup
    PROVE  robot.left = 0
<1>1. r \in Running /\ run[r].delay = 0
  BY DEF Due
<1>2. \A s \in Running : s = r
  BY <1>1 DEF RobotInv, AnimationEnds
<1>3. robot.left \in Nat /\ dtime <= Gap /\ dtime \in Nat /\ Gap \in Int
  BY RobotAssumption DEF RobotInv, RobotTypeOK, AnimationEnds, Gap
<1>4. robot.left > 0 => 0 + dtime >= robot.left + Gap
  BY <1>1, <1>2 DEF RobotInv, AnimationEnds
<1>5. QED
  BY <1>3, <1>4

\* A move that is made.
LEMMA MoveIs ==
    ASSUME RobotTypeOK, move_forward
    PROVE  /\ robot' \in [from : Nat, to : Nat, left : 0..ACTION_ANIMATION_TIME]
           /\ robot'.left = ACTION_ANIMATION_TIME
           /\ robot.left = 0 => robot'.to = robot.to + 1
<1>1. PICK base \in {robot.from, robot.to} :
          /\ robot' = [from |-> base, to |-> base + 1, left |-> ACTION_ANIMATION_TIME]
          /\ robot.left = 0 => base = robot.to
  BY Zenon DEF move_forward
<1>2. base \in Nat /\ ACTION_ANIMATION_TIME \in Nat
  BY RobotAssumption DEF RobotTypeOK
<1>3. QED
  BY <1>1, <1>2

LEMMA ExecuteKeepsInv ==
    ASSUME RobotInv, NEW r \in Runs, execute_step(r)
    PROVE  RobotInv'
<1> DEFINE x == run[r]
<1>1. /\ r \in Due /\ x.index <= Len(x.code) /\ x.status = "running"
      /\ UNCHANGED <<lesson, clicks, alive, dtime, shared, hiccup>>
  BY ExecutesOne DEF Due, Running
<1>2. PICK clear \in BOOLEAN :
          /\ run' = [run EXCEPT ![r] = Executed(x, clear)]
          /\ IF x.code[x.index].action = "move_forward" /\ clear
             THEN move_forward /\ moves' = moves + 1
             ELSE UNCHANGED <<robot, moves>>
  BY ExecutesOne
<1>3. CanStep(x)
  BY <1>1 DEF CanStep, RobotInv, RobotTypeOK
<1> DEFINE y == Executed(x, clear)
<1>4. /\ Becomes(x, y)
      /\ IsA(x, x.index, "move_forward") /\ clear => y.status = "running" /\ y.delay = STEP_DELAY
  BY <1>3, ExecutedBecomes
<1> HIDE DEF y
<1>5. y \in Run /\ StaysInCode(y)
  BY <1>3, <1>4, StepsStayInCode
<1>6. /\ run' \in [Runs -> Run] /\ run'[r] = y
      /\ \A s \in Runs : s # r => run'[s] = run[s]
      /\ Running' = IF y.status = "running" THEN Running \union {r} ELSE Running \ {r}
  BY <1>2, <1>5, OneRun DEF RobotInv, y
<1>7. \A s \in Runs : StaysInCode(run'[s])
  BY <1>5, <1>6 DEF RobotInv
<1>8. r \in Running /\ Running' \subseteq Running
  BY <1>1, <1>6 DEF Due
<1>9. ~shared /\ ~hiccup => robot.left = 0 /\ dtime <= Gap /\ \A s, t \in Running : s = t
  BY <1>1, AtRestWhenDue DEF RobotInv, AnimationEnds
<1>10. CASE IsA(x, x.index, "move_forward") /\ clear
  <2>1. move_forward /\ moves' = moves + 1
    BY <1>2, <1>10 DEF IsA
  <2>2. /\ robot' \in [from : Nat, to : Nat, left : 0..ACTION_ANIMATION_TIME]
        /\ robot'.left = ACTION_ANIMATION_TIME
        /\ robot.left = 0 => robot'.to = robot.to + 1
    BY <2>1, MoveIs DEF RobotInv
  <2>3. RobotTypeOK'
    BY <1>1, <1>6, <2>1, <2>2 DEF RobotInv, RobotTypeOK
  <2>4. MovesAddUp'
    BY <1>1, <1>9, <2>1, <2>2 DEF RobotInv, MovesAddUp
  <2>5. r \in Running' /\ run'[r].delay = STEP_DELAY
    BY <1>4, <1>6, <1>8, <1>10
  <2>6. STEP_DELAY + dtime >= ACTION_ANIMATION_TIME + Gap
    <3>1. dtime \in Nat /\ STEP_DELAY \in Nat /\ ACTION_ANIMATION_TIME \in Nat
      BY RobotAssumption DEF RobotInv, RobotTypeOK
    <3>2. QED
      BY <3>1 DEF Gap
  <2>7. AnimationEnds'
    BY <1>1, <1>8, <1>9, <2>2, <2>5, <2>6 DEF AnimationEnds, Gap
  <2>8. QED
    BY <1>7, <2>3, <2>4, <2>7 DEF RobotInv
<1>11. CASE ~(IsA(x, x.index, "move_forward") /\ clear)
  <2>1. UNCHANGED <<robot, moves>>
    BY <1>2, <1>11 DEF IsA
  <2>2. RobotTypeOK' /\ MovesAddUp'
    BY <1>1, <1>6, <2>1 DEF RobotInv, RobotTypeOK, MovesAddUp
  <2>3. AnimationEnds'
    BY <1>1, <1>8, <1>9, <2>1 DEF AnimationEnds, Gap
  <2>4. QED
    BY <1>7, <2>2, <2>3 DEF RobotInv
<1>12. QED
  BY <1>10, <1>11

\* The end of a program, by its last instruction or for want of a robot.
LEMMA EndKeepsInv ==
    ASSUME RobotInv, NEW r \in Due, NEW status \in Statuses \ {"running"},
           run' = [run EXCEPT ![r] = End(run[r], status)],
           UNCHANGED <<lesson, clicks, robot, alive, dtime, moves, shared, hiccup>>
    PROVE  RobotInv'
<1> DEFINE x == run[r]
           y == End(x, status)
<1>1. r \in Running /\ r \in Runs
  BY DEF Due, Running
<1>2. x \in Run /\ StaysInCode(x)
  BY <1>1 DEF RobotInv, RobotTypeOK
<1>3. y \in Run /\ StaysInCode(y) /\ y.status = status
  BY <1>2 DEF Run, End, StaysInCode
<1> HIDE DEF y
<1>4. /\ run' \in [Runs -> Run] /\ run'[r] = y
      /\ \A s \in Runs : s # r => run'[s] = run[s]
      /\ Running' = Running \ {r}
  BY <1>1, <1>3, OneRun DEF RobotInv, y
<1>5. \A s \in Runs : StaysInCode(run'[s])
  BY <1>3, <1>4 DEF RobotInv
<1>6. ~shared /\ ~hiccup => robot.left = 0 /\ dtime <= Gap /\ \A s, t \in Running : s = t
  BY AtRestWhenDue DEF RobotInv, AnimationEnds
<1>7. RobotTypeOK' /\ MovesAddUp'
  BY <1>4 DEF RobotInv, RobotTypeOK, MovesAddUp
<1>8. AnimationEnds'
  BY <1>4, <1>6 DEF AnimationEnds, Gap
<1>9. QED
  BY <1>5, <1>7, <1>8 DEF RobotInv

\* A row is parsed into instructions, none of which is a jump.
LEMMA ParsedIs ==
    ASSUME NEW l \in Lessons
    PROVE  LET p == parse_program(l.row)
           IN  p \in Seq(Instruction) /\ Len(p) \in Nat /\ Jumps(p) = {}
<1> DEFINE p == parse_program(l.row)
           S == [action : Actions, target : {0}]
<1>1. p \in Seq(S)
  BY RowsAreParsed
<1> HIDE DEF p
<1>2. ASSUME NEW i \in DOMAIN p
      PROVE  p[i] \in Instruction /\ p[i].action # "while_jump"
  <2> HIDE DEF S
  <2>1. p[i] \in S
    BY <1>1
  <2>2. "while_jump" \notin Actions
    BY DEF Actions, Deeds
  <2>3. QED
    BY <2>1, <2>2 DEF Instruction, S
<1> HIDE DEF S
<1>3. p \in Seq(Instruction)
  BY <1>1, <1>2
<1>4. QED
  BY <1>2, <1>3 DEF Jumps, p

LEMMA StartKeepsInv ==
    ASSUME RobotInv, NEW r \in Runs, run_program(r)
    PROVE  RobotInv'
<1> DEFINE p == parse_program(lesson.row)
           y == [status |-> "running", code |-> p, index |-> 1, counts |-> <<>>, delay |-> 0]
<1>1. /\ clicks > 0 /\ clicks' = clicks - 1 /\ dtime = 0 /\ shared' = (shared \/ Running # {})
      /\ run' = [run EXCEPT ![r] = [NotStarted EXCEPT !.status = "running", !.index = 1,
                                                      !.code = p]]
      /\ UNCHANGED <<lesson, robot, alive, dtime, moves, hiccup>>
  BY Zenon DEF run_program, Step
<1>3. p \in Seq(Instruction) /\ Len(p) \in Nat /\ Jumps(p) = {}
  BY ParsedIs DEF RobotInv, RobotTypeOK, p
<1> HIDE DEF p
<1>4. run' = [run EXCEPT ![r] = y]
  <2> DEFINE a == [NotStarted EXCEPT !.status = "running"]
             b == [a EXCEPT !.index = 1]
  <2>1. a = [status |-> "running", code |-> <<>>, index |-> 0, counts |-> <<>>, delay |-> 0]
    BY DEF NotStarted
  <2>2. run' = [run EXCEPT ![r] = [b EXCEPT !.code = p]]
    BY <1>1
  <2> HIDE DEF a
  <2>3. b = [status |-> "running", code |-> <<>>, index |-> 1, counts |-> <<>>, delay |-> 0]
    BY <2>1
  <2> HIDE DEF b
  <2>4. [b EXCEPT !.code = p] = y
    BY <2>3
  <2>5. QED
    BY <2>2, <2>4, Zenon
<1>5. y \in Run /\ StaysInCode(y) /\ y.status = "running"
  <2>1. <<>> \in Seq(Nat) /\ 0 \in 0..Max({STEP_DELAY, WAIT_DELAY})
    BY Delays
  <2>2. QED
    BY <1>3, <2>1 DEF Run, Statuses, StaysInCode
<1> HIDE DEF y
<1>6. /\ run' \in [Runs -> Run] /\ run'[r] = y
      /\ \A s \in Runs : s # r => run'[s] = run[s]
      /\ Running' = Running \union {r}
  BY <1>4, <1>5, OneRun DEF RobotInv
<1>7. \A s \in Runs : StaysInCode(run'[s])
  BY <1>5, <1>6 DEF RobotInv
<1>8. RobotTypeOK' /\ MovesAddUp'
  BY <1>1, <1>6 DEF RobotInv, RobotTypeOK, MovesAddUp
<1>9. AnimationEnds'
  <2>1. ~shared' /\ ~hiccup' => ~shared /\ ~hiccup /\ Running = {} /\ ~(robot.left > 0)
    BY <1>1 DEF RobotInv, AnimationEnds
  <2>2. QED
    BY <1>1, <1>6, <2>1 DEF RobotInv, AnimationEnds, Gap
<1>10. QED
  BY <1>7, <1>8, <1>9 DEF RobotInv

LEMMA GlobalStepKeepsInv ==
    ASSUME RobotInv, NEW d \in Dtimes, GlobalStep(d)
    PROVE  RobotInv'
<1> DEFINE left(r) == Max({run[r].delay - d, 0})
           top == Max({STEP_DELAY, WAIT_DELAY})
<1>1. /\ dtime = 0 /\ dtime' = d /\ Running # {}
      /\ run' = [r \in Runs |->
                    IF r \in Running THEN [run[r] EXCEPT !.delay = left(r)] ELSE run[r]]
      /\ hiccup' = (hiccup \/ d > Gap)
      /\ UNCHANGED <<lesson, clicks, robot, alive, moves, shared>>
  BY Zenon DEF GlobalStep, Gap
<1>2. d \in Nat /\ top \in Nat
  BY RobotAssumption, Delays
<1> HIDE DEF top
<1>3. ASSUME NEW r \in Runs
      PROVE  run[r] \in Run /\ StaysInCode(run[r]) /\ run[r].delay \in 0..top
  <2>1. run[r] \in Run
    BY DEF RobotInv, RobotTypeOK
  <2>2. QED
    BY <2>1 DEF RobotInv, Run, top
<1>4. ASSUME NEW r \in Runs PROVE left(r) \in 0..top /\ left(r) + d >= run[r].delay
  <2>1. run[r].delay - d \in Int
    BY <1>2, <1>3
  <2>2. left(r) = IF run[r].delay - d >= 0 THEN run[r].delay - d ELSE 0
    BY <2>1, MaxIs
  <2>3. QED
    BY <1>2, <1>3, <2>2
<1> HIDE DEF left
<1>5. ASSUME NEW r \in Runs
      PROVE  /\ run'[r] \in Run /\ StaysInCode(run'[r]) /\ run'[r].status = run[r].status
             /\ r \in Running => run'[r].delay + d >= run[r].delay
  <2>1. CASE r \in Running
    <3>1. run'[r] = [run[r] EXCEPT !.delay = left(r)]
      BY <1>1, <2>1
    <3>2. /\ run'[r] \in Run /\ run'[r].code = run[r].code /\ run'[r].index = run[r].index
          /\ run'[r].status = run[r].status /\ run'[r].delay = left(r)
      BY <1>3, <1>4, <3>1 DEF Run, top
    <3>3. QED
      BY <1>3, <1>4, <3>2 DEF StaysInCode
  <2>2. CASE r \notin Running
    BY <1>1, <1>3, <2>2
  <2>3. QED
    BY <2>1, <2>2
<1>6. run' \in [Runs -> Run]
  BY <1>1, <1>5
<1>7. Running' = Running
  <2>1. Running' = {r \in Runs : run'[r].status = "running"}
    BY DEF Running
  <2>2. QED
    BY <1>5, <2>1 DEF Running
<1>8. RobotTypeOK'
  <2>1. hiccup' \in BOOLEAN /\ dtime' \in Dtimes \union {0}
    BY <1>1
  <2>2. QED
    BY <1>1, <1>6, <2>1 DEF RobotInv, RobotTypeOK
<1>9. AnimationEnds'
  <2> SUFFICES ASSUME ~shared', ~hiccup'
               PROVE  /\ \A r, s \in Running' : r = s
                      /\ dtime' <= Gap
                      /\ robot'.left > 0 =>
                            \E r \in Running' : run'[r].delay + dtime' >= robot'.left + Gap
    BY DEF AnimationEnds, Gap
  <2>1. ~shared /\ ~hiccup /\ ~(d > Gap)
    BY <1>1
  <2>2. d <= Gap /\ Gap \in Int
    BY <1>2, <2>1, RobotAssumption DEF Gap
  <2>3. ASSUME robot.left > 0
        PROVE  \E r \in Running' : run'[r].delay + dtime' >= robot'.left + Gap
    <3>1. PICK r \in Running : run[r].delay + dtime >= robot.left + Gap
      BY <2>1, <2>3 DEF RobotInv, AnimationEnds
    <3>2. r \in Runs /\ robot.left \in Nat /\ run[r].delay \in Nat
      BY <1>3 DEF Running, RobotInv, RobotTypeOK
    <3>3. run'[r].delay + d >= run[r].delay /\ run'[r].delay \in Nat
      <4>1. run'[r] \in Run
        BY <1>5, <3>2
      <4>2. run'[r].delay \in 0..top
        BY <4>1 DEF Run, top
      <4>3. QED
        BY <1>5, <3>2, <4>2
    <3>4. run'[r].delay + d >= robot.left + Gap
      BY <1>1, <1>2, <2>2, <3>1, <3>2, <3>3
    <3>5. QED
      BY <1>1, <1>7, <3>4
  <2>4. QED
    BY <1>1, <1>7, <2>1, <2>2, <2>3 DEF RobotInv, AnimationEnds
<1>10. MovesAddUp'
  BY <1>1 DEF RobotInv, MovesAddUp
<1>11. QED
  BY <1>5, <1>8, <1>9, <1>10 DEF RobotInv

LEMMA OnStepKeepsInv ==
    ASSUME RobotInv, on_step
    PROVE  RobotInv'
<1> DEFINE left == Max({robot.left - dtime, 0})
<1>1. /\ dtime' = 0 /\ robot' = [robot EXCEPT !.left = left]
      /\ UNCHANGED <<lesson, clicks, run, alive, moves, shared, hiccup>>
  BY DEF on_step
<1>2. dtime \in Nat /\ robot.left \in 0..ACTION_ANIMATION_TIME /\ ACTION_ANIMATION_TIME \in Nat
  BY RobotAssumption DEF RobotInv, RobotTypeOK
<1>3. left = IF robot.left - dtime >= 0 THEN robot.left - dtime ELSE 0
  <2>1. robot.left - dtime \in Int
    BY <1>2
  <2>2. QED
    BY <2>1, MaxIs
<1> HIDE DEF left
<1>4. left \in 0..ACTION_ANIMATION_TIME
  BY <1>2, <1>3
<1>5. /\ robot' \in [from : Nat, to : Nat, left : 0..ACTION_ANIMATION_TIME]
      /\ robot'.to = robot.to /\ robot'.left = left
  BY <1>1, <1>4 DEF RobotInv, RobotTypeOK
<1>6. RobotTypeOK' /\ MovesAddUp'
  BY <1>1, <1>5 DEF RobotInv, RobotTypeOK, MovesAddUp
<1>7. Running' = Running
  BY <1>1 DEF Running
<1>8. AnimationEnds'
  <2> SUFFICES ASSUME ~shared, ~hiccup
               PROVE  /\ \A r, s \in Running : r = s
                      /\ 0 <= Gap
                      /\ left > 0 => \E r \in Running : run[r].delay + 0 >= left + Gap
    BY <1>1, <1>5, <1>7 DEF AnimationEnds, Gap
  <2>1. Gap \in Nat
    BY AnimationFits, RobotAssumption DEF Gap
  <2>2. ASSUME left > 0 PROVE \E r \in Running : run[r].delay + 0 >= left + Gap
    <3>1. left = robot.left - dtime /\ robot.left > 0
      BY <1>2, <1>3, <2>2
    <3>2. PICK r \in Running : run[r].delay + dtime >= robot.left + Gap
      BY <3>1 DEF RobotInv, AnimationEnds
    <3>3. run[r].delay \in Nat
      <4>1. run[r] \in Run
        BY DEF Running, RobotInv, RobotTypeOK
      <4>2. QED
        BY <4>1, Delays DEF Run
    <3>4. QED
      BY <1>2, <2>1, <3>1, <3>2, <3>3
  <2>3. QED
    BY <2>1, <2>2 DEF RobotInv, AnimationEnds
<1>9. QED
  BY <1>1, <1>6, <1>8 DEF RobotInv, StaysInCode, Jumps

THEOREM RobotInvariant == Spec => []RobotInv
<1>1. ASSUME RobotInv, [Next]_vars PROVE RobotInv'
  <2>1. ASSUME NEW r \in Runs, execute_step(r) PROVE RobotInv'
    BY <1>1, <2>1, ExecuteKeepsInv
  <2>2. ASSUME NEW r \in Runs, Finish(r) PROVE RobotInv'
    BY <1>1, <2>2, EndKeepsInv DEF Finish, Step, Statuses
  <2>3. ASSUME NEW r \in Runs, StepWithoutRobot(r) PROVE RobotInv'
    BY <1>1, <2>3, EndKeepsInv DEF StepWithoutRobot, Step, Statuses
  <2>4. ASSUME NEW r \in Runs, run_program(r) PROVE RobotInv'
    BY <1>1, <2>4, StartKeepsInv
  <2>5. ASSUME NEW d \in Dtimes, GlobalStep(d) PROVE RobotInv'
    BY <1>1, <2>5, GlobalStepKeepsInv
  <2>6. CASE on_step
    BY <1>1, <2>6, OnStepKeepsInv
  <2>7. CASE RobotGone
    BY <1>1, <2>7 DEF RobotGone, RobotInv, RobotTypeOK, AnimationEnds, MovesAddUp, StaysInCode,
       Jumps, Running, Gap
  <2>8. CASE UNCHANGED vars
    BY <1>1, <2>8 DEF vars, RobotInv, RobotTypeOK, AnimationEnds, MovesAddUp, StaysInCode,
       Jumps, Running, Gap
  <2>9. QED
    BY <1>1, <2>1, <2>2, <2>3, <2>4, <2>5, <2>6, <2>7, <2>8 DEF Next, ServerStep
<1>2. QED
  BY <1>1, ProgramsBegin, PTL DEF Spec

\* RobotProgram: whatever a program does to itself, it stays within its list of
\* instructions, and no delay and no animation is ever out of its range (execute_step of
\* executor.lua, on_step of luanti_robot).
THEOREM RobotTypeCorrect == Spec => []TypeOK
<1>1. ASSUME RobotInv PROVE TypeOK
  <2>1. ASSUME NEW r \in Runs
        PROVE  /\ run[r].status \in {"none", "running", "finished", "stopped", "blocked", "lost"}
               /\ run[r].delay \in 0..Max({STEP_DELAY, WAIT_DELAY})
               /\ run[r].status = "running" => run[r].index \in 1..(Len(run[r].code) + 2)
    <3>1. run[r] \in Run /\ StaysInCode(run[r])
      BY <1>1 DEF RobotInv, RobotTypeOK
    <3>2. QED
      BY <3>1 DEF Run, Statuses, StaysInCode
  <2>2. robot.to \in Nat /\ robot.left \in 0..ACTION_ANIMATION_TIME
    BY <1>1 DEF RobotInv, RobotTypeOK
  <2>3. QED
    BY <1>1, <2>1, <2>2 DEF RobotInv, RobotTypeOK, TypeOK
<1>2. QED
  BY <1>1, RobotInvariant, PTL

\* RobotProgram: every move that a program counts as done takes the robot one block on,
\* as long as one program at a time drives it and no server step outlasts the gap between
\* the animation and the next instruction (move_forward and on_step of luanti_robot, the
\* delays of execute_step).
THEOREM MovesAreMade == Spec => []MovesAddUp
<1>1. RobotInv => MovesAddUp
  BY DEF RobotInv
<1>2. QED
  BY <1>1, RobotInvariant, PTL

-----------------------------------------------------------------------------
(* The jumps that WHILE puts in.  A WHILE or LOOP in front of a LOOP is left out: its      *)
(* copies push a jump away from its WHILE.                                                 *)

Flat(code) ==
    \A j \in 1..(Len(code) - 1) :
        code[j + 1].action = "loop_start" => code[j].action \notin {"while_clear", "loop_start"}

LessonsAreFlat == \A l \in Lessons : Flat(parse_program(l.row))

HitsWhile(code) ==
    \A j \in Jumps(code) :
        j >= 3 /\ code[j].target = j - 2 /\ code[j - 2].action = "while_clear"

\* The jumps to come are those of the WHILE the program is in, or of two WHILEs in a row.
JumpsAreNear(x) ==
    x.status = "running" =>
        \A j \in Jumps(x.code) :
            j >= x.index =>
                j <= x.index + 2 \/ (j = x.index + 3 /\ x.index + 2 \in Jumps(x.code))

WellBuilt(x) == Flat(x.code) /\ HitsWhile(x.code) /\ JumpsAreNear(x)

\* No jump stands in the way of one that a WHILE puts in, ...
LEMMA NoJumpBehindWhile ==
    ASSUME NEW x, CanStep(x), WellBuilt(x), IsA(x, x.index, "while_clear"),
           ~JumpsBack(x, x.index), NEW j \in Jumps(x.code)
    PROVE  j < x.index \/ j = x.index + 1
<1> DEFINE i == x.index
           c == x.code
<1>1. /\ c \in Seq(Instruction) /\ i \in Nat /\ DOMAIN c = 1..Len(c) /\ Len(c) \in Nat
      /\ c[i].action = "while_clear" /\ x.status = "running"
  BY CanStepIs DEF IsA, CanStep
<1>2. j \in 1..Len(c) /\ c[j].action = "while_jump" /\ c[j] \in Instruction
  BY <1>1 DEF Jumps
<1>3. j # i
  BY <1>1, <1>2
<1>4. ~(i + 2 \in Jumps(c))
  <2> SUFFICES ASSUME i + 2 \in Jumps(c) PROVE FALSE
    OBVIOUS
  <2> DEFINE k == i + 2
  <2>1. k \in 1..Len(c) /\ c[k].action = "while_jump" /\ c[k] \in Instruction
    BY <1>1 DEF Jumps
  <2>2. c[k].target = k - 2
    BY DEF WellBuilt, HitsWhile
  <2>3. c[k].target = i
    BY <1>1, <2>2
  <2>4. c[k] = Jump(i)
    BY <2>1, <2>3 DEF Jump, Instruction
  <2>5. QED
    BY <1>1, <2>1, <2>4 DEF JumpsBack
<1>5. j >= i => j <= i + 2 \/ (j = i + 3 /\ i + 2 \in Jumps(c))
  BY <1>1 DEF WellBuilt, JumpsAreNear
<1>6. QED
  BY <1>1, <1>2, <1>3, <1>4, <1>5

\* ... none lies ahead of a LOOP, and what a LOOP repeats is no LOOP.
LEMMA NoJumpBehindLoop ==
    ASSUME NEW x, CanStep(x), WellBuilt(x), IsA(x, x.index, "loop_start"),
           NEW j \in Jumps(x.code)
    PROVE  j < x.index
<1> DEFINE i == x.index
           c == x.code
<1>1. /\ c \in Seq(Instruction) /\ i \in Nat /\ i >= 1 /\ DOMAIN c = 1..Len(c) /\ Len(c) \in Nat
      /\ c[i].action = "loop_start" /\ x.status = "running" /\ i <= Len(c)
  BY CanStepIs DEF IsA, CanStep
<1>2. j \in 1..Len(c) /\ c[j].action = "while_jump" /\ j >= 3 /\ c[j - 2].action = "while_clear"
  BY <1>1 DEF Jumps, WellBuilt, HitsWhile
<1>3. j # i /\ j - 2 # i
  BY <1>1, <1>2
<1>4. j # i + 1
  <2> SUFFICES ASSUME j = i + 1 PROVE FALSE
    OBVIOUS
  <2>1. j - 2 \in 1..(Len(c) - 1) /\ (j - 2) + 1 = i
    <3>1. i \in Nat /\ Len(c) \in Nat /\ i + 1 >= 3 /\ i + 1 <= Len(c)
      BY <1>1, <1>2
    <3>2. j - 2 = i - 1 /\ i - 1 \in 1..(Len(c) - 1)
      BY <3>1
    <3>3. QED
      BY <3>1, <3>2
  <2>2. PICK k \in 1..(Len(c) - 1) : k = j - 2
    BY <2>1
  <2>3. c[k + 1].action = "loop_start" /\ c[k].action = "while_clear"
    BY <1>1, <1>2, <2>1, <2>2
  <2>4. QED
    BY <2>3 DEF WellBuilt, Flat
<1>5. ~(i + 2 \in Jumps(c))
  <2> SUFFICES ASSUME i + 2 \in Jumps(c) PROVE FALSE
    OBVIOUS
  <2>1. c[(i + 2) - 2].action = "while_clear" /\ (i + 2) - 2 = i
    BY <1>1 DEF WellBuilt, HitsWhile
  <2>2. QED
    BY <1>1, <2>1
<1>6. j >= i => j <= i + 2 \/ (j = i + 3 /\ i + 2 \in Jumps(c))
  BY <1>1 DEF WellBuilt, JumpsAreNear
<1>7. QED
  BY <1>1, <1>2, <1>3, <1>4, <1>5, <1>6

LEMMA LoopRepeatsNoLoop ==
    ASSUME NEW x, CanStep(x), WellBuilt(x), IsA(x, x.index, "loop_start"), x.index < Len(x.code)
    PROVE  x.code[x.index + 1].action # "loop_start"
<1>1. x.index \in 1..(Len(x.code) - 1)
  BY CanStepIs
<1>2. QED
  BY <1>1 DEF WellBuilt, Flat, IsA

LEMMA WhileKeepsBuilt ==
    ASSUME NEW x, CanStep(x), WellBuilt(x), IsA(x, x.index, "while_clear"),
           ~JumpsBack(x, x.index), x.index < Len(x.code), NEW y, WhileGrows(x, y.code),
           y.index = x.index + 1
    PROVE  WellBuilt(y)
<1> DEFINE i == x.index
           c == x.code
           n == Len(c)
           q == y.code
<1>1. /\ c \in Seq(Instruction) /\ i \in Nat /\ i >= 1 /\ i < n /\ n \in Nat
      /\ DOMAIN c = 1..n /\ c[i].action = "while_clear"
  BY CanStepIs DEF IsA
<1>2. /\ DOMAIN q = 1..(n + 1) /\ Len(q) = n + 1
      /\ \A k \in 1..(i + 1) : q[k] = c[k]
      /\ q[i + 2] = Jump(i)
      /\ \A k \in (i + 3)..(n + 1) : q[k] = c[k - 1]
  BY <1>1 DEF WhileGrows
<1> HIDE DEF q
<1>3. ASSUME NEW j \in Jumps(q)
      PROVE  (j \in Jumps(c) /\ j \in 1..(i + 1)) \/ j = i + 2
  <2>1. j \in 1..(n + 1) /\ q[j].action = "while_jump"
    BY <1>2 DEF Jumps
  <2>2. CASE j \in 1..(i + 1)
    BY <1>1, <1>2, <2>1, <2>2 DEF Jumps
  <2>3. CASE j \in (i + 3)..(n + 1)
    <3>1. j - 1 \in 1..n /\ q[j] = c[j - 1]
      BY <1>1, <1>2, <2>3
    <3>2. j - 1 \in Jumps(c)
      BY <1>1, <2>1, <3>1 DEF Jumps
    <3>3. j - 1 < i \/ j - 1 = i + 1
      BY <3>2, NoJumpBehindWhile
    <3>4. QED
      BY <1>1, <2>3, <3>3
  <2>4. j \in 1..(i + 1) \/ j = i + 2 \/ j \in (i + 3)..(n + 1)
    <3>1. i \in Nat /\ n \in Nat
      BY <1>1
    <3>2. QED
      BY <2>1, <3>1
  <2>5. QED
    BY <2>2, <2>3, <2>4
<1>4. ASSUME NEW j \in Jumps(q)
      PROVE  j >= 3 /\ q[j].target = j - 2 /\ q[j - 2].action = "while_clear"
  <2>1. CASE j \in Jumps(c) /\ j \in 1..(i + 1)
    <3>1. j >= 3 /\ c[j].target = j - 2 /\ c[j - 2].action = "while_clear"
      BY <2>1 DEF WellBuilt, HitsWhile
    <3>2. j - 2 \in 1..(i + 1)
      BY <1>1, <2>1, <3>1
    <3>3. q[j] = c[j] /\ q[j - 2] = c[j - 2]
      BY <1>2, <2>1, <3>2
    <3>4. QED
      BY <3>1, <3>3
  <2>2. CASE j = i + 2
    <3>1. q[j].target = i /\ j - 2 = i
      BY <1>1, <1>2, <2>2 DEF Jump
    <3>2. q[i] = c[i]
      BY <1>1, <1>2
    <3>3. QED
      BY <1>1, <2>2, <3>1, <3>2
  <2>3. QED
    BY <1>3, <2>1, <2>2
<1>5. ASSUME NEW j \in 1..(Len(q) - 1), q[j + 1].action = "loop_start"
      PROVE  q[j].action \notin {"while_clear", "loop_start"}
  <2>1. j \in 1..n /\ j + 1 \in 1..(n + 1)
    BY <1>1, <1>2
  <2>2. CASE j + 1 \in 1..(i + 1)
    <3>1. j \in 1..(n - 1) /\ j \in 1..(i + 1)
      BY <1>1, <2>1, <2>2
    <3>2. q[j] = c[j] /\ q[j + 1] = c[j + 1]
      BY <1>2, <2>2, <3>1
    <3>3. QED
      BY <1>5, <3>1, <3>2 DEF WellBuilt, Flat
  <2>3. CASE j + 1 = i + 2
    BY <1>2, <1>5, <2>3 DEF Jump
  <2>4. CASE j = i + 2
    <3>1. q[j].action = "while_jump"
      BY <1>2, <2>4 DEF Jump
    <3>2. QED
      BY <3>1
  <2>5. CASE j \in (i + 3)..n
    <3>1. /\ j \in (i + 3)..(n + 1) /\ j + 1 \in (i + 3)..(n + 1)
          /\ j - 1 \in 1..(n - 1) /\ (j + 1) - 1 = (j - 1) + 1
      BY <1>1, <2>5
    <3>2. PICK k \in 1..(n - 1) : k = j - 1
      BY <3>1
    <3>3. q[j] = c[k] /\ q[j + 1] = c[k + 1]
      BY <1>2, <3>1, <3>2
    <3>4. QED
      BY <1>5, <3>3 DEF WellBuilt, Flat
  <2>6. j + 1 \in 1..(i + 1) \/ j + 1 = i + 2 \/ j = i + 2 \/ j \in (i + 3)..n
    <3>1. i \in Nat /\ n \in Nat /\ j \in 1..n
      BY <1>1, <2>1
    <3>2. QED
      BY <3>1
  <2>7. QED
    BY <2>2, <2>3, <2>4, <2>5, <2>6
<1>6. ASSUME NEW j \in Jumps(q), j >= y.index PROVE j <= y.index + 2
  BY <1>1, <1>3
<1>7. QED
  BY <1>4, <1>5, <1>6 DEF WellBuilt, Flat, HitsWhile, JumpsAreNear, q

LEMMA LoopKeepsBuilt ==
    ASSUME NEW x, CanStep(x), WellBuilt(x), IsA(x, x.index, "loop_start"),
           x.index < Len(x.code), NEW y, LoopGrows(x, y.code), Copies \in Nat,
           y.index = x.index + 1
    PROVE  WellBuilt(y)
<1> DEFINE i == x.index
           c == x.code
           n == Len(c)
           q == y.code
           m == Copies
<1>1. /\ c \in Seq(Instruction) /\ i \in Nat /\ i >= 1 /\ i < n /\ n \in Nat /\ m \in Nat
      /\ DOMAIN c = 1..n /\ c[i].action = "loop_start" /\ c[i + 1].action # "loop_start"
  BY CanStepIs, LoopRepeatsNoLoop DEF IsA
<1> HIDE DEF m
<1>2. /\ DOMAIN q = 1..(n + m) /\ Len(q) = n + m
      /\ \A k \in 1..i : q[k] = c[k]
      /\ \A k \in (i + 1)..(i + m) : q[k] = c[i + 1]
      /\ \A k \in (i + m + 1)..(n + m) : q[k] = c[k - m]
  BY <1>1 DEF LoopGrows, m
<1> HIDE DEF q
<1>3. ASSUME NEW j \in Jumps(q) PROVE j \in Jumps(c) /\ j \in 1..(i - 1)
  <2>1. j \in 1..(n + m) /\ q[j].action = "while_jump"
    BY <1>2 DEF Jumps
  <2>2. CASE j \in 1..i
    <3>1. j \in Jumps(c)
      BY <1>1, <1>2, <2>1, <2>2 DEF Jumps
    <3>2. j < i
      BY <3>1, NoJumpBehindLoop
    <3>3. QED
      BY <1>1, <2>2, <3>1, <3>2
  <2>3. CASE j \in (i + 1)..(i + m)
    <3>1. q[j] = c[i + 1] /\ i + 1 \in 1..n
      BY <1>1, <1>2, <2>3
    <3>2. i + 1 \in Jumps(c)
      BY <1>1, <2>1, <3>1 DEF Jumps
    <3>3. i + 1 < i
      BY <3>2, NoJumpBehindLoop
    <3>4. QED
      BY <1>1, <3>3
  <2>4. CASE j \in (i + m + 1)..(n + m)
    <3>1. q[j] = c[j - m] /\ j - m \in 1..n /\ j - m > i
      BY <1>1, <1>2, <2>4
    <3>2. j - m \in Jumps(c)
      BY <1>1, <2>1, <3>1 DEF Jumps
    <3>3. j - m < i
      BY <3>2, NoJumpBehindLoop
    <3>4. QED
      BY <1>1, <3>1, <3>3
  <2>5. QED
    BY <1>1, <2>1, <2>2, <2>3, <2>4
<1>4. ASSUME NEW j \in Jumps(q)
      PROVE  j >= 3 /\ q[j].target = j - 2 /\ q[j - 2].action = "while_clear"
  <2>1. j >= 3 /\ c[j].target = j - 2 /\ c[j - 2].action = "while_clear"
    BY <1>3 DEF WellBuilt, HitsWhile
  <2>2. j \in 1..i /\ j - 2 \in 1..i
    BY <1>1, <1>3, <2>1
  <2>3. q[j] = c[j] /\ q[j - 2] = c[j - 2]
    BY <1>2, <2>2
  <2>4. QED
    BY <2>1, <2>3
<1>5. ASSUME NEW j \in 1..(Len(q) - 1), q[j + 1].action = "loop_start"
      PROVE  q[j].action \notin {"while_clear", "loop_start"}
  <2>1. j \in 1..(n + m - 1) /\ j + 1 \in 1..(n + m)
    BY <1>1, <1>2
  <2>2. CASE j + 1 \in 1..i
    <3>1. j \in 1..(n - 1) /\ j \in 1..i
      BY <1>1, <2>1, <2>2
    <3>2. q[j] = c[j] /\ q[j + 1] = c[j + 1]
      BY <1>2, <2>2, <3>1
    <3>3. QED
      BY <1>5, <3>1, <3>2 DEF WellBuilt, Flat
  <2>3. CASE j + 1 \in (i + 1)..(i + m)
    BY <1>1, <1>2, <1>5, <2>3
  <2>4. CASE j + 1 = i + m + 1
    <3>1. j + 1 \in (i + m + 1)..(n + m) /\ (j + 1) - m = i + 1
      BY <1>1, <2>1, <2>4
    <3>2. q[j + 1] = c[(j + 1) - m]
      BY <1>2, <3>1
    <3>3. q[j + 1] = c[i + 1]
      BY <3>1, <3>2, Zenon
    <3>4. QED
      BY <1>1, <1>5, <3>3
  <2>5. CASE j \in (i + m + 1)..(n + m - 1)
    <3>1. /\ j \in (i + m + 1)..(n + m) /\ j + 1 \in (i + m + 1)..(n + m)
          /\ j - m \in 1..(n - 1) /\ (j + 1) - m = (j - m) + 1
      <4>1. i \in Nat /\ n \in Nat /\ m \in Nat /\ j \in Nat
        BY <1>1, <2>1
      <4>2. QED
        BY <2>5, <4>1
    <3>2. PICK k \in 1..(n - 1) : k = j - m
      BY <3>1
    <3>3. q[j] = c[k] /\ q[j + 1] = c[k + 1]
      BY <1>2, <3>1, <3>2
    <3>4. QED
      BY <1>5, <3>3 DEF WellBuilt, Flat
  <2>6. \/ j + 1 \in 1..i \/ j + 1 \in (i + 1)..(i + m) \/ j + 1 = i + m + 1
        \/ j \in (i + m + 1)..(n + m - 1)
    <3>1. i \in Nat /\ n \in Nat /\ m \in Nat /\ j \in 1..(n + m - 1)
      BY <1>1, <2>1
    <3>2. QED
      BY <3>1
  <2>7. QED
    BY <2>2, <2>3, <2>4, <2>5, <2>6
<1>6. ASSUME NEW j \in Jumps(q) PROVE ~(j >= y.index)
  BY <1>1, <1>3
<1>7. QED
  BY <1>4, <1>5, <1>6 DEF WellBuilt, Flat, HitsWhile, JumpsAreNear, q

LEMMA StepsKeepBuilt ==
    ASSUME NEW x, CanStep(x), WellBuilt(x), NEW y, Becomes(x, y)
    PROVE  WellBuilt(y)
<1> DEFINE i == x.index
           c == x.code
<1>1. i \in Nat /\ DOMAIN c = 1..Len(c) /\ Len(c) \in Nat /\ i \in DOMAIN c /\ x.status = "running"
  BY CanStepIs DEF CanStep
<1>2. ASSUME NEW j \in Jumps(c), j >= i
      PROVE  j <= i + 2 \/ (j = i + 3 /\ i + 2 \in Jumps(c))
  BY <1>1, <1>2 DEF WellBuilt, JumpsAreNear
<1>3. \A j \in Jumps(c) : j \in Nat
  BY <1>1 DEF Jumps
<1>4. CASE GoesOn(x, y)
  <2>1. y.code = c /\ (y.status = "running" => y.index \in {i + 1, i + 2, i + 3})
    BY <1>4 DEF GoesOn
  <2>2. JumpsAreNear(y)
    <3> SUFFICES ASSUME y.status = "running", NEW j \in Jumps(c), j >= y.index
                 PROVE  j <= y.index + 2
      BY <2>1 DEF JumpsAreNear
    <3>1. y.index \in Nat /\ y.index >= i + 1
      BY <1>1, <2>1
    <3>2. QED
      BY <1>1, <1>2, <1>3, <3>1
  <2>3. QED
    BY <2>1, <2>2 DEF WellBuilt
<1>5. CASE GoesBack(x, y)
  <2>1. y.code = c /\ y.index = c[i].target /\ i \in Jumps(c) /\ c[i].action = "while_jump"
    BY <1>1, <1>5 DEF GoesBack, IsA, Jumps
  <2>2. y.index = i - 2
    BY <2>1 DEF WellBuilt, HitsWhile
  <2>3. \A k \in Jumps(c) : k # i + 2
    <3> SUFFICES ASSUME NEW k \in Jumps(c), k = i + 2 PROVE FALSE
      OBVIOUS
    <3>1. c[k - 2].action = "while_clear" /\ k - 2 = i
      BY <1>1 DEF WellBuilt, HitsWhile
    <3>2. QED
      BY <2>1, <3>1
  <2>4. JumpsAreNear(y)
    <3> SUFFICES ASSUME NEW j \in Jumps(c), j >= y.index
                 PROVE  \/ j <= y.index + 2
                        \/ j = y.index + 3 /\ y.index + 2 \in Jumps(c)
      BY <2>1 DEF JumpsAreNear
    <3>1. j \in Nat /\ y.index + 2 = i /\ y.index + 3 = i + 1
      BY <1>1, <1>3, <2>2
    <3>2. j >= i => j <= i + 1
      BY <1>1, <1>2, <2>3, <3>1
    <3>3. QED
      BY <1>1, <2>1, <3>1, <3>2
  <2>5. QED
    BY <2>1, <2>4 DEF WellBuilt
<1>6. CASE Grows(x, y)
  <2>1. y.index = i + 1 /\ i < Len(c)
    BY <1>6 DEF Grows
  <2>2. QED
    BY <1>6, <2>1, GrownBy, WhileKeepsBuilt, LoopKeepsBuilt
<1>7. QED
  BY <1>4, <1>5, <1>6 DEF Becomes

RobotBuilt == \A r \in Runs : WellBuilt(run[r])

LEMMA BuiltAtFirst == Init => RobotBuilt
<1> SUFFICES ASSUME Init, NEW r \in Runs PROVE WellBuilt(run[r])
  BY DEF RobotBuilt
<1>1. run[r] = NotStarted
  BY DEF Init
<1>2. NotStarted.code = <<>> /\ NotStarted.status = "none"
  BY DEF NotStarted
<1>3. Len(<<>>) = 0 /\ DOMAIN <<>> = {}
  OBVIOUS
<1>4. QED
  BY <1>1, <1>2, <1>3 DEF WellBuilt, Flat, HitsWhile, JumpsAreNear, Jumps

\* A program that ends or waits keeps its list.
LEMMA BuiltStays ==
    ASSUME NEW x, WellBuilt(x), NEW y, y.code = x.code,
           y.status = "running" => x.status = "running" /\ y.index = x.index
    PROVE  WellBuilt(y)
BY DEF WellBuilt, JumpsAreNear

LEMMA StepsBuild ==
    ASSUME LessonsAreFlat, RobotInv, RobotBuilt, [Next]_vars
    PROVE  RobotBuilt'
<1>0. \A r \in Runs : run[r] \in Run /\ StaysInCode(run[r]) /\ WellBuilt(run[r])
  BY DEF RobotInv, RobotTypeOK, RobotBuilt
<1>1. ASSUME NEW r \in Runs, NEW y \in Run, WellBuilt(y), run' = [run EXCEPT ![r] = y]
      PROVE  RobotBuilt'
  <2>1. /\ run'[r] = y
        /\ \A s \in Runs : s # r => run'[s] = run[s]
    BY <1>1, OneRun DEF RobotInv
  <2>2. \A s \in Runs : WellBuilt(run'[s])
    BY <1>0, <1>1, <2>1
  <2>3. QED
    BY <2>2 DEF RobotBuilt, WellBuilt, Flat, HitsWhile, JumpsAreNear, Jumps
<1>2. ASSUME NEW r \in Runs, execute_step(r) PROVE RobotBuilt'
  <2> DEFINE x == run[r]
  <2>1. x.index <= Len(x.code) /\ x.status = "running"
    BY <1>2, ExecutesOne DEF Due, Running
  <2>2. PICK clear \in BOOLEAN : run' = [run EXCEPT ![r] = Executed(x, clear)]
    BY <1>2, ExecutesOne
  <2>3. CanStep(x)
    BY <1>0, <2>1 DEF CanStep
  <2> DEFINE y == Executed(x, clear)
  <2>4. Becomes(x, y)
    BY <2>3, ExecutedBecomes
  <2> HIDE DEF y
  <2>5. y \in Run /\ WellBuilt(y)
    BY <1>0, <2>3, <2>4, StepsStayInCode, StepsKeepBuilt
  <2>6. QED
    BY <1>1, <2>2, <2>5 DEF y
<1>3. ASSUME NEW r \in Runs, NEW status \in Statuses \ {"running"},
             run' = [run EXCEPT ![r] = End(run[r], status)]
      PROVE  RobotBuilt'
  <2> DEFINE y == End(run[r], status)
  <2>1. y \in Run /\ y.code = run[r].code /\ y.status # "running"
    BY <1>0 DEF Run, End
  <2> HIDE DEF y
  <2>2. WellBuilt(y)
    BY <1>0, <2>1, BuiltStays
  <2>3. QED
    BY <1>1, <1>3, <2>1, <2>2 DEF y
<1>4. ASSUME NEW r \in Runs, run_program(r) PROVE RobotBuilt'
  <2> DEFINE p == parse_program(lesson.row)
  <2>1. RobotInv'
    BY <1>4, StartKeepsInv
  <2>2. PICK y : /\ run' = [run EXCEPT ![r] = y]
                 /\ y = [NotStarted EXCEPT !.status = "running", !.index = 1, !.code = p]
    BY <1>4, Zenon DEF run_program, Step
  <2>3. Jumps(p) = {} /\ Flat(p)
    BY ParsedIs DEF LessonsAreFlat, RobotInv, RobotTypeOK
  <2>4. y.code = p
    BY <2>2 DEF NotStarted
  <2>5. y \in Run
    <3>1. run \in [Runs -> Run] /\ run' \in [Runs -> Run]
      BY <2>1 DEF RobotInv, RobotTypeOK
    <3>2. run'[r] = y
      BY <2>2, <3>1
    <3>3. QED
      BY <3>1, <3>2
  <2> HIDE DEF p
  <2>6. WellBuilt(y)
    BY <2>3, <2>4 DEF WellBuilt, HitsWhile, JumpsAreNear
  <2>7. QED
    BY <1>1, <2>2, <2>5, <2>6
<1>5. ASSUME NEW d \in Dtimes, GlobalStep(d) PROVE RobotBuilt'
  <2>1. ASSUME NEW r \in Runs
        PROVE  /\ run'[r].code = run[r].code /\ run'[r].status = run[r].status
               /\ run'[r].index = run[r].index
    <3>1. PICK t : run'[r] \in {[run[r] EXCEPT !.delay = t], run[r]}
      BY <1>5 DEF GlobalStep
    <3>2. QED
      BY <1>0, <3>1 DEF Run
  <2>2. ASSUME NEW r \in Runs PROVE WellBuilt(run'[r])
    BY <1>0, <2>1, BuiltStays
  <2>3. QED
    BY <2>2 DEF RobotBuilt, WellBuilt, Flat, HitsWhile, JumpsAreNear, Jumps
<1>6. ASSUME UNCHANGED run PROVE RobotBuilt'
  BY <1>6 DEF RobotBuilt, WellBuilt, Flat, HitsWhile, JumpsAreNear, Jumps
<1>7. ASSUME NEW r \in Runs, Finish(r) \/ StepWithoutRobot(r) PROVE RobotBuilt'
  BY <1>3, <1>7 DEF Finish, StepWithoutRobot, Step, Statuses
<1>8. on_step \/ RobotGone \/ UNCHANGED vars => UNCHANGED run
  BY DEF on_step, RobotGone, vars
<1>9. QED
  BY <1>2, <1>4, <1>5, <1>6, <1>7, <1>8 DEF Next, ServerStep

\* RobotProgram: however often a program rewrites its own list (WHILE and LOOP of
\* execute_step in executor.lua), a while_jump stands two places behind the WHILE that it
\* goes back to, as long as no WHILE or LOOP of a lesson repeats a LOOP.
THEOREM JumpsGoBack == LessonsAreFlat /\ Spec => []JumpsHitTheirWhile
<1>1. RobotBuilt => JumpsHitTheirWhile
  BY DEF RobotBuilt, WellBuilt, HitsWhile, JumpsHitTheirWhile, Jumps
<1> DEFINE Built == LessonsAreFlat /\ RobotInv /\ RobotBuilt
<1>2. LessonsAreFlat /\ Init => Built
  BY ProgramsBegin, BuiltAtFirst
<1>3. Built /\ [Next]_vars /\ RobotInv' => Built'
  BY StepsBuild DEF LessonsAreFlat
<1>4. Built => JumpsHitTheirWhile
  BY <1>1
<1> HIDE DEF Built
<1>5. QED
  BY <1>2, <1>3, <1>4, RobotInvariant, PTL DEF Spec
=============================================================================
