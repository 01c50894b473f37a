---------------------------- MODULE GridPlacement ----------------------------
(***************************************************************************)
(* A game of placing marks on a board (match-runtime/src/declarative.ts),  *)
(* run by the test arena (packages/test-arena) behind the routes of        *)
(* app.ts: requests for a step, and for a run to its end, interleave over  *)
(* their awaits and share one match.  A second client submits any action.  *)
(*                                                                         *)
(* A submission is handled in the order of its call; the runtime's state   *)
(* sequence is turn - 1.  A policy chooses any legal action, or none when  *)
(* its list names no free cell.  A prefix is a plausible board because the *)
(* lines are given, as in the code.                                        *)
(***************************************************************************)
EXTENDS Naturals, Sequences, FiniteSets, Functions

CONSTANTS
    Seats,             \* the roster, a sequence
    Cells, Lines,
    Steppers,          \* requests
    MaxSteps,          \* of a run to its end (64 in the code)
    MaxCalls, MaxOthers   \* bounds: steps requested, actions of the other client

Players == Range(Seats)

\* validateRules, and the length of the roster.
GridAssumption ==
    /\ Cells # {} /\ Len(Seats) > 1 /\ Cardinality(Players) = Len(Seats)
    /\ Lines # {} /\ \A line \in Lines : line \subseteq Cells /\ Cardinality(line) > 1

NoSeat == "none"

VARIABLES
    board, currentSeat, turn, winner, draw,
    steps,     \* actions that the arena numbered
    caller,    \* each request: where it is, and whether it runs to the end
    queue,     \* submissions, in the order of their calls
    made, others, \* steps and other actions so far
    moves,     \* ghost: accepted moves
    answers    \* ghost: what became of each submission

grid == <<board, currentSeat, turn, winner, draw, steps, caller, queue, made, others, moves, answers>>
game == <<board, currentSeat, turn, winner, draw>>

Init ==
    /\ board = [c \in Cells |-> NoSeat]
    /\ currentSeat = Seats[1] /\ turn = 1 /\ winner = NoSeat /\ draw = FALSE
    /\ steps = 0 /\ caller = [r \in Steppers |-> [pc |-> "idle", whole |-> FALSE]]
    /\ queue = <<>> /\ made = 0 /\ others = 0 /\ moves = <<>> /\ answers = {}
-----------------------------------------------------------------------------
Over == winner # NoSeat \/ draw
Next2(seat) == Seats[((CHOOSE i \in DOMAIN Seats : Seats[i] = seat) % Len(Seats)) + 1]

\* winningMark: whose mark fills a line.
FullLine(b) == {s \in Players : \E line \in Lines : \A c \in line : b[c] = s}

LegalActions(seat) ==
    IF Over \/ currentSeat # seat THEN {} ELSE {c \in Cells : board[c] = NoSeat}

\* Slip: a cell may be taken twice.
ValidateTurnOnly(seat, cell) == ~Over /\ seat = currentSeat /\ cell \in Cells

ValidateAction(seat, cell) ==
    /\ ~Over
    /\ seat = currentSeat
    /\ cell \in Cells
    /\ board[cell] = NoSeat

ApplyAction(seat, cell) ==
    /\ board' = [board EXCEPT ![cell] = seat]
    /\ winner' = IF FullLine(board') = {} THEN NoSeat ELSE CHOOSE s \in FullLine(board') : TRUE
    /\ draw' = (winner' = NoSeat /\ \A c \in Cells : board'[c] # NoSeat)
    /\ currentSeat' = IF winner' # NoSeat \/ draw' THEN currentSeat ELSE Next2(seat)
    /\ turn' = turn + 1
    /\ moves' = Append(moves, [seat |-> seat, cell |-> cell])
-----------------------------------------------------------------------------
(* The test arena.                                                         *)
Goes(r, pc) == caller' = [caller EXCEPT ![r].pc = pc]

\* A request for a step or for the whole run; it awaits a snapshot.
Request(r) ==
    /\ caller[r].pc \in {"idle", "done"} /\ made < MaxCalls
    /\ \E whole \in BOOLEAN : caller' = [caller EXCEPT ![r] = [pc |-> "begin", whole |-> whole]]
    /\ made' = made + 1
    /\ UNCHANGED <<game, steps, queue, others, moves, answers>>

\* runToCompletion, between two steps.
Loop(r) ==
    /\ caller[r].pc = "begin" /\ caller[r].whole
    /\ Goes(r, IF Over THEN "done" ELSE IF steps >= MaxSteps THEN "failed" ELSE "step")
    /\ UNCHANGED <<game, steps, queue, made, others, moves, answers>>

\* step, from the snapshot to the submission: the seat whose turn it is chooses.
Step(r) ==
    /\ \/ caller[r].pc = "step" \/ (caller[r].pc = "begin" /\ ~caller[r].whole)
    /\ IF Over
       THEN Goes(r, IF caller[r].whole THEN "begin" ELSE "done") /\ UNCHANGED <<steps, queue>>
       ELSE \/ \E cell \in LegalActions(currentSeat) :
                  /\ steps' = steps + 1
                  /\ queue' = Append(queue, [id |-> steps + 1, by |-> r, seat |-> currentSeat,
                                             cell |-> cell, based |-> turn])
                  /\ Goes(r, "submitted")
            \/ Goes(r, "failed") /\ UNCHANGED <<steps, queue>>   \* the policy produced no action
    /\ UNCHANGED <<game, made, others, moves, answers>>

\* The client of the last seat acts, on what it sees or on what it saw first.
OtherSubmits ==
    /\ others < MaxOthers /\ others' = others + 1
    /\ \E cell \in Cells, based \in {turn, 1} :
          queue' = Append(queue, [id |-> 0, by |-> "other", seat |-> Seats[Len(Seats)],
                                  cell |-> cell, based |-> based])
    /\ UNCHANGED <<game, steps, caller, made, moves, answers>>

\* submitAction, when its turn has come.
Handle ==
    /\ queue # <<>> /\ queue' = Tail(queue)
    /\ LET call == Head(queue)
           seen == call.id # 0 /\ \E a \in answers : a.id = call.id
           good == ~seen /\ ~Over /\ call.based = turn /\ ValidateAction(call.seat, call.cell) IN
       /\ IF good THEN ApplyAction(call.seat, call.cell) ELSE UNCHANGED <<game, moves>>
       /\ answers' = answers \cup {[id |-> call.id, by |-> call.by, based |-> call.based,
                                    how |-> IF seen THEN "duplicate"
                                            ELSE IF good THEN "accepted" ELSE "rejected"]}
       /\ IF call.by = "other" THEN UNCHANGED caller
          ELSE Goes(call.by, IF caller[call.by].whole THEN "begin" ELSE "done")
    /\ UNCHANGED <<steps, made, others>>

Next ==
    \/ OtherSubmits \/ Handle
    \/ \E r \in Steppers : Request(r) \/ Loop(r) \/ Step(r)

Spec == Init /\ [][Next]_grid
-----------------------------------------------------------------------------
TypeOK ==
    /\ board \in [Cells -> Players \cup {NoSeat}] /\ currentSeat \in Players
    /\ steps \in 0..(MaxCalls * MaxSteps) /\ made \in 0..MaxCalls /\ others \in 0..MaxOthers
    /\ \A r \in Steppers : caller[r].pc \in {"idle", "begin", "step", "submitted", "done", "failed"}

Marks(s) == {moves[i].cell : i \in {j \in DOMAIN moves : moves[j].seat = s}}

(* The game is the one that its moves tell: seats take turns, no cell is     *)
(* taken twice, a seat has won when and only when it fills a line, and       *)
(* nobody has moved after that or on a full board.                           *)
GameIsAsPlayed ==
    /\ turn = Len(moves) + 1
    /\ \A i \in DOMAIN moves : moves[i].seat = Seats[((i - 1) % Len(Seats)) + 1]
    /\ \A i, j \in DOMAIN moves : moves[i].cell = moves[j].cell => i = j
    /\ \A c \in Cells : board[c] = IF \E s \in Players : c \in Marks(s)
                                   THEN CHOOSE s \in Players : c \in Marks(s) ELSE NoSeat
    /\ \A s \in Players : winner = s <=> \E line \in Lines : line \subseteq Marks(s)
    /\ draw <=> winner = NoSeat /\ Len(moves) = Cardinality(Cells)

(* What is offered is what will be accepted, and every step that the arena   *)
(* numbered is answered once: two requests at the same turn do not share an  *)
(* action id, so that none is taken for the repetition of another, and of    *)
(* those that were planned on one state one at most is carried out.          *)
StepsAreAnswered ==
    /\ \A s \in Players, c \in Cells : c \in LegalActions(s) <=> ValidateAction(s, c)
    /\ \A a \in answers : a.how # "duplicate"
    /\ \A a, b \in answers : a.how = "accepted" /\ b.how = "accepted" /\ a.based = b.based => a = b
=============================================================================
