---------------------------- MODULE RobotProgram ----------------------------
(***************************************************************************)
(* Programs of coding blocks and the robot they drive:                     *)
(* luanti_coding/executor.lua and the moves of luanti_robot/init.lua in    *)
(* src/games/luanti_edu/mods.                                              *)
(*                                                                         *)
(* A program is a row of blocks to the right of a START block.  Running it *)
(* means one call of execute_step per instruction, each of which asks      *)
(* minetest.after for the next one; WHILE and LOOP rewrite the list of     *)
(* instructions as they are reached.  A server step first runs what        *)
(* minetest.after has due and then moves the objects (serverenvironment.cpp*)
(* step); it may take longer than the ideal server step.                   *)
(*                                                                         *)
(* What stands in front of the robot is chosen freely at each step, since  *)
(* players build around it.  Of the robot's place only the distance it has *)
(* walked is kept.                                                         *)
(***************************************************************************)
EXTENDS Integers, Sequences, SequencesExt, FiniteSetsExt

CONSTANTS
    Lessons,            \* what is tried: [row : the blocks, starts : clicks on START]
    Runs,               \* identities of program runs, 1..n
    LoopCount,          \* loop_count of a LOOP block
    WHILE_MAX_REPEAT,
    MAX_INSTRUCTIONS,
    MaxWires,           \* wires that may join two blocks
    STEP_DELAY, WAIT_DELAY, ACTION_ANIMATION_TIME,
    Dtimes              \* how long a server step may take

ASSUME AnimationFits == ACTION_ANIMATION_TIME < STEP_DELAY

ASSUME RobotAssumption ==
    /\ {STEP_DELAY, WAIT_DELAY, ACTION_ANIMATION_TIME, WHILE_MAX_REPEAT} \subseteq Nat
    /\ LoopCount \in Nat \ {0}
    /\ Dtimes \subseteq Nat \ {0}
    /\ \A l \in Lessons : l.starts \in Nat

VARIABLES
    lesson,     \* the lesson of this behaviour
    clicks,     \* clicks on START still to come
    run,        \* Runs -> what one chain of execute_step calls carries along
    robot,      \* [from, to, left]: the last move and what is left of its animation
    alive,      \* the robot's object exists
    dtime,      \* of the server step in progress; 0 between two steps
    moves,      \* history: how often move_forward returned true
    shared,     \* history: a program was started while another one drove the robot
    hiccup      \* history: a server step took too long for the animation to keep up

vars == <<lesson, clicks, run, robot, alive, dtime, moves, shared, hiccup>>

\* The instructions that can fail, and all of them.
Deeds == {"move_forward", "place_block", "dig_block"}
Actions == Deeds \union {"turn", "variable_inc", "wait", "if_clear", "else_block",
                        "while_clear", "sensor_clear", "loop_start", "stop"}

Inst(a) == [action |-> a, target |-> 0]

\* The first i things in the row belong together: coding blocks with a few wires between
\* them, and no STOP but the last.
Joined(row, i) ==
    \A j \in 1..i :
        /\ row[j] \in Actions \union {"wire"}
        /\ j < i => row[j] # "stop"
        /\ j > MaxWires => \E k \in (j - MaxWires)..j : row[k] # "wire"

\* START is the first of the MAX_INSTRUCTIONS blocks that are looked at.
parse_program(row) ==
    LET part == [i \in {i \in DOMAIN row : Joined(row, i)} |-> row[i]]
        blocks == SelectSeq(part, LAMBDA c : c # "wire")
    IN  [i \in 1..Min({Len(blocks), MAX_INSTRUCTIONS - 1}) |-> Inst(blocks[i])]

\* Every row is parsed into a sequence of instructions (SelectSeq is defined by recursion,
\* which no proof reaches).
ASSUME RowsAreParsed ==
    \A l \in Lessons : parse_program(l.row) \in Seq([action : Actions, target : {0}])

NotStarted == [status |-> "none", code |-> <<>>, index |-> 0, counts |-> <<>>, delay |-> 0]

Init ==
    /\ lesson \in Lessons
    /\ clicks = lesson.starts
    /\ run = [r \in Runs |-> NotStarted]
    /\ robot = [from |-> 0, to |-> 0, left |-> 0]
    /\ alive = TRUE /\ dtime = 0
    /\ moves = 0 /\ shared = FALSE /\ hiccup = FALSE

Running == {r \in Runs : run[r].status = "running"}
Due == {r \in Running : run[r].delay = 0}

-----------------------------------------------------------------------------
(* execute_step: each operator gives what a run carries along after one step *)

\* Fault: the next instruction does not wait for the animation.
ThenAtOnce(x, i) == [x EXCEPT !.index = i + 1, !.delay = 1]

\* The usual end of a step: the instruction after i, in STEP_DELAY.
Then(x, i) == [x EXCEPT !.index = i + 1, !.delay = STEP_DELAY]

\* The program has ended, with a result for the teacher's console unless the robot is lost.
End(x, status) == [x EXCEPT !.status = status]

\* Fault: off by one.
InsertBefore(s, i, t) == SubSeq(s, 1, i - 1) \o t \o SubSeq(s, i, Len(s))

InsertAfter(s, i, t) == SubSeq(s, 1, i) \o t \o SubSeq(s, i + 1, Len(s))

\* IF and SENSOR.
if_clear(x, clear) == Then(x, IF clear THEN x.index ELSE x.index + 1)

\* Fault: ELSE leaves out one block too many.
else_blockFurther(x) == Then(x, x.index + 2)

else_block(x) == Then(x, x.index + 1)

Count(x, i) == IF i \in DOMAIN x.counts THEN x.counts[i] ELSE 0

SetCount(x, i, n) ==
    [x EXCEPT !.counts = [j \in 1..Len(x.code) |-> IF j = i THEN n ELSE Count(x, j)]]

Jump(i) == [action |-> "while_jump", target |-> i]

JumpsBack(x, i) == i + 2 <= Len(x.code) /\ x.code[i + 2] = Jump(i)

while_clear(x, clear) ==
    LET i == x.index
        next == i < Len(x.code)
    IN  IF clear /\ next /\ Count(x, i) < WHILE_MAX_REPEAT
        THEN [Then(SetCount(x, i, Count(x, i) + 1), i) EXCEPT
                !.code = IF JumpsBack(x, i) THEN @ ELSE InsertAfter(@, i + 1, <<Jump(i)>>)]
        ELSE Then(SetCount(x, i, 0),
                  IF ~next THEN i ELSE IF JumpsBack(x, i) THEN i + 2 ELSE i + 1)

while_jump(x) == Then(x, x.code[x.index].target - 1)

Copies == LoopCount - 1

\* The next instruction, whatever it is, is put in again.
loop_start(x) ==
    LET i == x.index
    IN  IF i = Len(x.code) THEN Then(x, i)
        ELSE [Then(x, i) EXCEPT
                !.code = InsertAfter(@, i, [k \in 1..Copies |-> x.code[i + 1]])]

\* move_forward starts from the centre of the block the robot is in: in the middle of a
\* move that is the one it comes from or the one it goes to.
move_forward ==
    \E base \in (IF robot.left = 0 THEN {robot.to}
                 ELSE IF robot.left = ACTION_ANIMATION_TIME THEN {robot.from}
                 ELSE {robot.from, robot.to}) :
        robot' = [from |-> base, to |-> base + 1, left |-> ACTION_ANIMATION_TIME]

-----------------------------------------------------------------------------
Step(r, x) == run' = [run EXCEPT ![r] = x]

\* Whether the way is clear decides about IF, SENSOR and WHILE, and whether a deed succeeds.
execute_step(r) ==
    LET x == run[r]
        action == x.code[x.index].action
    IN  /\ r \in Due /\ alive /\ x.index <= Len(x.code)
        /\ \E clear \in BOOLEAN :
              /\ Step(r, CASE action \in {"if_clear", "sensor_clear"} -> if_clear(x, clear)
                           [] action = "else_block"  -> else_block(x)
                           [] action = "while_clear" -> while_clear(x, clear)
                           [] action = "while_jump"  -> while_jump(x)
                           [] action = "loop_start"  -> loop_start(x)
                           [] action = "wait" -> [Then(x, x.index) EXCEPT !.delay = WAIT_DELAY]
                           [] action = "stop" -> End(x, "stopped")
                           [] action \in {"turn", "variable_inc"} -> Then(x, x.index)
                           [] action \in Deeds -> IF clear THEN Then(x, x.index)
                                                  ELSE End(x, "blocked"))
              /\ IF action = "move_forward" /\ clear
                 THEN move_forward /\ moves' = moves + 1
                 ELSE UNCHANGED <<robot, moves>>
    /\ UNCHANGED <<lesson, clicks, alive, dtime, shared, hiccup>>

Finish(r) ==
    /\ r \in Due /\ run[r].index > Len(run[r].code)
    /\ Step(r, End(run[r], "finished"))
    /\ UNCHANGED <<lesson, clicks, robot, alive, dtime, moves, shared, hiccup>>

\* Fault: the chain of steps waits for the robot to come back.
StepLater(r) ==
    /\ r \in Due /\ ~alive /\ run[r].index <= Len(run[r].code)
    /\ Step(r, Then(run[r], run[r].index - 1))
    /\ UNCHANGED <<lesson, clicks, robot, alive, dtime, moves, shared, hiccup>>

\* The robot has gone: the chain of steps ends without a result.
StepWithoutRobot(r) ==
    /\ r \in Due /\ ~alive /\ run[r].index <= Len(run[r].code)
    /\ Step(r, End(run[r], "lost"))
    /\ UNCHANGED <<lesson, clicks, robot, alive, dtime, moves, shared, hiccup>>

\* A click on START, read between two server steps.  Nothing asks whether the robot is
\* running a program.  The first instruction is executed at once.
run_program(r) ==
    /\ clicks > 0 /\ alive /\ dtime = 0 /\ Due = {}
    /\ clicks' = clicks - 1
    /\ r = lesson.starts - clicks + 1
    /\ parse_program(lesson.row) # <<>>
    /\ Step(r, [NotStarted EXCEPT !.status = "running", !.index = 1,
                                  !.code = parse_program(lesson.row)])
    /\ shared' = (shared \/ Running # {})
    /\ UNCHANGED <<lesson, robot, alive, dtime, moves, hiccup>>

\* The server step begins: minetest.after finds what is due.
GlobalStep(d) ==
    /\ dtime = 0 /\ Due = {} /\ Running # {}
    /\ dtime' = d
    /\ run' = [r \in Runs |->
                  IF r \in Running THEN [run[r] EXCEPT !.delay = Max({@ - d, 0})] ELSE run[r]]
    /\ hiccup' = (hiccup \/ d > STEP_DELAY - ACTION_ANIMATION_TIME)
    /\ UNCHANGED <<lesson, clicks, robot, alive, moves, shared>>

\* After the callbacks the objects move: on_step of the robot.
on_step ==
    /\ dtime > 0 /\ Due = {}
    /\ dtime' = 0
    /\ robot' = [robot EXCEPT !.left = Max({@ - dtime, 0})]
    /\ UNCHANGED <<lesson, clicks, run, alive, moves, shared, hiccup>>

\* The robot is removed, or unloaded with the block it stands in.
RobotGone ==
    /\ alive /\ Running # {}
    /\ alive' = FALSE
    /\ UNCHANGED <<lesson, clicks, run, robot, dtime, moves, shared, hiccup>>

ServerStep ==
    \/ \E d \in Dtimes : GlobalStep(d)
    \/ \E r \in Runs : execute_step(r) \/ Finish(r) \/ StepWithoutRobot(r)
    \/ on_step

Next == ServerStep \/ RobotGone \/ \E r \in Runs : run_program(r)

\* The server goes on stepping.
Spec == Init /\ [][Next]_vars /\ WF_vars(ServerStep)

-----------------------------------------------------------------------------
(* Properties *)

TypeOK ==
    /\ lesson \in Lessons /\ clicks \in Nat /\ dtime \in Dtimes \union {0}
    /\ \A r \in Runs :
          /\ run[r].status \in {"none", "running", "finished", "stopped", "blocked", "lost"}
          /\ run[r].delay \in 0..Max({STEP_DELAY, WAIT_DELAY})
          /\ run[r].status = "running" => run[r].index \in 1..(Len(run[r].code) + 2)
    /\ robot.to \in Nat /\ robot.left \in 0..ACTION_ANIMATION_TIME
    /\ alive \in BOOLEAN /\ moves \in Nat /\ shared \in BOOLEAN /\ hiccup \in BOOLEAN

\* However the list grows under it, a while_jump stands right behind the instruction that
\* its WHILE repeats, and its target, noted when it was put in, is still that WHILE.
JumpsHitTheirWhile ==
    \A r \in Runs : \A j \in DOMAIN run[r].code :
        run[r].code[j].action = "while_jump" =>
            /\ run[r].code[j].target = j - 2
            /\ run[r].code[j - 2].action = "while_clear"

\* Every move that a program counts as done takes the robot one block on, as long as one
\* program at a time drives it and no server step outlasts the gap between animation and
\* next instruction: otherwise a move starts before the last one has got anywhere.
MovesAddUp == ~shared /\ ~hiccup => robot.to = moves

\* A move is made once, LoopCount times behind a LOOP, WHILE_MAX_REPEAT times behind a
\* WHILE, and never more often than that.
MostMoves(row) ==
    LET code == parse_program(row)
        is(i, action) == i > 0 /\ code[i].action = action
        times(i) == CASE ~is(i, "move_forward")   -> 0
                      [] is(i - 1, "loop_start")  -> LoopCount
                      [] is(i - 1, "while_clear") -> WHILE_MAX_REPEAT
                      [] OTHER                    -> 1
    IN  MapThenSumSet(times, DOMAIN code)

NoMoveTooMany == moves <= lesson.starts * MostMoves(lesson.row)

\* Unrolling a loop in the list it runs from keeps both its jumps and its count.
LoopsKeepCount == JumpsHitTheirWhile /\ NoMoveTooMany

\* Every program ends, whatever stands in its way: WHILE gives up after WHILE_MAX_REPEAT.
ProgramsEnd == <>[](Running = {})
=============================================================================
