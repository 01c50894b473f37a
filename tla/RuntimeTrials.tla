---------------------------- MODULE RuntimeTrials ----------------------------
(***************************************************************************)
(* The trials of a creator's rules before they host matches: the smoke     *)
(* test of a release (control-api/src/runtime-validation.ts) and the       *)
(* headless test of a project (packages/studio/src/runtime-test.ts).       *)
(*                                                                         *)
(* The rules are anything.  In the smoke test each call has any answer; in *)
(* the headless test a state is what led to it, and rules that waver add   *)
(* something of their own.  Left out: costs, time limits and warnings, and *)
(* the schema of a document.                                               *)
(***************************************************************************)
EXTENDS Naturals, Sequences, FiniteSets

CONSTANTS
    SeatCount, MaxSteps,   \* of a trial; 5 seconds or 4 moves a seat, and 600, in the code
    Choices                \* actions that are offered at once in the headless test

TrialAssumption == SeatCount \in Nat \ {0} /\ MaxSteps \in Nat \ {0} /\ Choices \in Nat \ {0}

VARIABLES
    kind,                               \* of trial; its rules tick, waver, are scripted
    verdict, step, place,               \* "running", or how it ended; place is the next seat
    moved, acted, answers,              \* smoke test; answers is a ghost
    attempt, runs, decided              \* headless test: the two runs, decisions of each seat

trial == <<kind, verdict, step, place, moved, acted, answers, attempt, runs, decided>>

Roster == 1..SeatCount
NewRun == [state |-> <<>>, observations |-> <<>>, checkpoints |-> <<>>]

Init ==
    /\ kind \in [smoke : BOOLEAN, ticks : BOOLEAN, wavers : BOOLEAN, scripted : BOOLEAN]
    /\ kind.smoke => ~kind.wavers /\ ~kind.scripted
    /\ verdict = "running" /\ step = 0 /\ place = 1
    /\ moved = FALSE /\ acted = {} /\ answers = <<>>
    /\ attempt = 1 /\ runs = <<NewRun, NewRun>> /\ decided = [s \in Roster |-> 0]

Runs == verdict = "running"
OfSmoke == <<moved, acted, answers>>
OfTest == <<attempt, runs, decided>>
-----------------------------------------------------------------------------
(* The smoke test.                                                         *)

\* What the rules say of a seat: it is offered something, some of that is refused, a stranger may do
\* it, and the game is over then.
Answers == [offered : BOOLEAN, refuses : BOOLEAN, strangers : BOOLEAN, over : BOOLEAN]

EndsAtOnce ==
    /\ kind.smoke /\ Runs /\ step = 0 /\ place = 1
    /\ verdict' = "ends at once"
    /\ UNCHANGED <<kind, step, place, OfSmoke, OfTest>>

TrySeat ==
    /\ kind.smoke /\ Runs /\ place <= SeatCount
    /\ \E a \in Answers :
          /\ ~a.offered => ~a.refuses /\ ~a.strangers /\ ~a.over
          /\ answers' = Append(answers, [seat |-> place, answer |-> a])
          /\ LET good == a.offered /\ ~a.refuses /\ ~a.strangers IN
             /\ verdict' = CASE a.refuses -> "illegal offer"
                             [] ~a.refuses /\ a.strangers -> "stranger accepted"
                             [] good /\ a.over -> "passed"
                             [] OTHER -> "running"
             /\ moved' = (moved \/ good)
             /\ acted' = IF good THEN acted \cup {place} ELSE acted
    /\ place' = place + 1
    /\ UNCHANGED <<kind, step, OfTest>>

\* Slip: it is enough that somebody acted.
SomebodyActed == acted # {}

EverybodyActed == acted = Roster

\* The end of a step: the clock ticks, or somebody must have moved.
EndStep ==
    /\ kind.smoke /\ Runs /\ place > SeatCount
    /\ \E over \in IF kind.ticks THEN BOOLEAN ELSE {FALSE} :
          verdict' = CASE over -> IF acted = {} THEN "ends unplayed" ELSE "passed"
                       [] ~over /\ ~kind.ticks /\ ~moved -> "stuck"
                       [] ~over /\ (kind.ticks \/ moved) /\ EverybodyActed -> "passed"
                       [] ~over /\ (kind.ticks \/ moved) /\ ~EverybodyActed ->
                             IF step + 1 < MaxSteps THEN "running" ELSE "seat never acts"
    /\ step' = step + 1 /\ place' = 1 /\ moved' = FALSE
    /\ UNCHANGED <<kind, acted, answers, OfTest>>
-----------------------------------------------------------------------------
(* The headless test.                                                      *)
Trying == ~kind.smoke /\ Runs
Run == runs[attempt]
Over == Len(Run.state) >= 3

\* What the rules add of their own.
Noise == IF kind.wavers THEN {0, 1} ELSE {0}

\* The seats are observed at the beginning of a step.
Observe ==
    /\ Trying /\ place = 1 /\ step < MaxSteps /\ ~Over
    /\ Len(Run.observations) = step
    /\ \E n \in Noise :
          runs' = [runs EXCEPT ![attempt].observations = Append(@, <<Run.state, n>>)]
    /\ UNCHANGED <<kind, verdict, step, place, OfSmoke, attempt, decided>>

\* Each seat plays its next offer in turn, or what the script says, which may be refused.
PlaySeat ==
    /\ Trying /\ place <= SeatCount /\ Len(Run.observations) > step
    /\ \E n \in Noise :
          LET choice == IF kind.scripted THEN 1 ELSE (decided[place] % Choices) + 1
              input == <<place, choice, n>> IN
          \/ /\ ~Over
             /\ runs' = [runs EXCEPT ![attempt].state = Append(@, input),
                                     ![attempt].checkpoints = Append(@, Append(Run.state, input))]
             /\ UNCHANGED verdict
          \/ /\ Over /\ UNCHANGED runs
             /\ verdict' = IF kind.scripted THEN "script refused" ELSE verdict
    /\ decided' = [decided EXCEPT ![place] = @ + 1]
    /\ place' = place + 1
    /\ UNCHANGED <<kind, step, OfSmoke, attempt>>

EndOfStep ==
    /\ Trying /\ place > SeatCount
    /\ runs' = IF kind.ticks /\ ~Over
               THEN [runs EXCEPT ![attempt].state = Append(@, <<0, 0, 0>>)] ELSE runs
    /\ step' = step + 1 /\ place' = 1
    /\ UNCHANGED <<kind, verdict, OfSmoke, attempt, decided>>

\* Slip: the decisions of the seats are counted through both runs.
CountedThrough == decided

\* Each run begins anew.
Anew == [s \in Roster |-> 0]

Deterministic ==
    /\ runs[1].state = runs[2].state
    /\ runs[1].observations = runs[2].observations
    /\ runs[1].checkpoints = runs[2].checkpoints

EndOfRun ==
    /\ Trying /\ place = 1 /\ (step >= MaxSteps \/ (Over /\ Len(Run.observations) <= step))
    /\ attempt' = 2 /\ step' = 0 /\ decided' = Anew
    /\ verdict' = IF attempt = 1 THEN "running"
                  ELSE IF Deterministic THEN "deterministic" ELSE "differs"
    /\ UNCHANGED <<kind, place, OfSmoke, runs>>

Next == EndsAtOnce \/ TrySeat \/ EndStep \/ Observe \/ PlaySeat \/ EndOfStep \/ EndOfRun
Spec == Init /\ [][Next]_trial
-----------------------------------------------------------------------------
TypeOK ==
    /\ step \in 0..MaxSteps /\ place \in 1..(SeatCount + 1) /\ acted \subseteq Roster
    /\ attempt \in 1..2

(* Rules that pass the smoke test refused nothing that they offered, and     *)
(* nobody acted for a seat that is not his; either all seats could act, or   *)
(* the game was played to its end.                                           *)
PassedIsPlayable ==
    verdict = "passed" =>
        /\ \A i \in DOMAIN answers : ~answers[i].answer.refuses /\ ~answers[i].answer.strangers
        /\ \E i \in DOMAIN answers : answers[i].answer.offered
        /\ \/ \A s \in Roster : \E i \in DOMAIN answers : answers[i].seat = s /\ answers[i].answer.offered
           \/ answers[Len(answers)].answer.over
           \/ kind.ticks /\ step > 0

(* Rules that are a function of seed and inputs are not reported as          *)
(* wavering, whatever the test itself counts; and those that are reported as *)
(* deterministic showed the seats the same in both runs.                     *)
WaveringIsSeen ==
    /\ verdict = "differs" => kind.wavers
    /\ verdict = "deterministic" =>
          \A i \in DOMAIN runs[1].observations : runs[1].observations[i] = runs[2].observations[i]
=============================================================================
