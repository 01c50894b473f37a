---------------------------- MODULE SandboxedGame ----------------------------
(***************************************************************************)
(* The rules of a creator in a sandbox (sandboxed-script.ts), as the match *)
(* worker plays its rounds with them: one game object serves every round   *)
(* of a match and the verification of a replay, and holds what the rules   *)
(* prepared from the seed of the match that was initialized last.          *)
(*                                                                         *)
(* The rules are any function of what they are given: a state is the       *)
(* sequence of what each call saw.  A call fails when it runs out of fuel, *)
(* throws, or returns something that is not allowed.  The serial           *)
(* operations of a round run in the worker's exclusive section; views do   *)
(* not wait for it.  The creation of a next round may fail after the rules *)
(* have prepared it, or have not; one that fails after a restart leaves no *)
(* match, and is left out.                                                 *)
(***************************************************************************)
EXTENDS Naturals, Sequences

CONSTANTS
    MaxRounds, MaxSteps,  \* of a match; of a round
    MaxClock              \* of the wall clock

SandboxAssumption == MaxRounds \in Nat \ {0} /\ MaxSteps \in Nat \ {0} /\ MaxClock \in Nat

VARIABLES
    clock,     \* of the wall
    prepared,  \* in the game object: of which seed; 0 is null
    round,     \* the current match: seed, state, elapsed, status
    next,      \* its successor while its creation is awaited, or the one that verifies; 0 if none
    purpose,   \* of the creation: "none", "advance", "verify"; "failed" if it was never replaced
    replay,    \* what was recorded of the current round
    astray,    \* ghost: a result failed after the state had moved
    seen,      \* ghost: the seed and the prepared data of each call that made a state
    views      \* ghost: likewise of the views

sandbox == <<clock, prepared, round, next, purpose, replay, astray, seen, views>>

\* Slip: the worker's clock is passed on.
ToldTheWall(elapsed) == clock

\* What the rules are told of the time: evaluate puts the match's own time for the wall's.
Told(elapsed) == elapsed

\* prepare and initialize, synchronously: the prepared data of all matches is replaced.
Initialized(seed) ==
    [seed |-> seed, state |-> <<[call |-> "initialize", data |-> seed, time |-> 0]>>,
     elapsed |-> 0, status |-> "running"]

Init ==
    /\ clock = 0 /\ prepared = 1
    /\ round = Initialized(1) /\ next = 0 /\ purpose = "none"
    /\ replay = <<>> /\ astray = FALSE /\ seen = {} /\ views = {}

Passes ==
    /\ clock < MaxClock /\ clock' = clock + 1
    /\ UNCHANGED <<prepared, round, next, purpose, replay, astray, seen, views>>
-----------------------------------------------------------------------------
(* The rules' answers.                                                     *)
Verdicts == {"null", "true", "undefined", "string", "object", "false", "number", "array", "fails"}

\* Slip: whatever is not a rejection is taken for consent.
JudgedLoosely(verdict) == IF verdict \in {"string", "object", "fails"} THEN "rejected" ELSE "accepted"

\* validateAction: accepted, refused, or the call fails.
Judged(verdict) ==
    CASE verdict \in {"null", "true", "undefined"} -> "accepted"
      [] verdict \in {"string", "object"} -> "rejected"
      [] OTHER -> "throws"

\* A call that makes a state, and what its rules saw.
After(call) ==
    [round EXCEPT !.state = Append(@, [call |-> call, data |-> prepared, time |-> Told(round.elapsed)])]

Free == purpose = "none" /\ round.status = "running" /\ Len(round.state) <= MaxSteps

\* The transition is applied; then the result is asked for, which may fail: the state has moved,
\* and nothing is recorded.
Moves(moved, entry) ==
    \/ \E over \in BOOLEAN :
          /\ round' = [moved EXCEPT !.status = IF over THEN "completed" ELSE @]
          /\ replay' = Append(replay, entry)
          /\ UNCHANGED astray
    \/ round' = moved /\ astray' = TRUE /\ UNCHANGED replay

Act(verdict) ==
    /\ Free
    /\ \/ /\ Judged(verdict) = "accepted"
          /\ Moves(After("action"), [kind |-> "action", verdict |-> verdict, delta |-> 0])
          /\ seen' = seen \cup {<<round.seed, prepared>>}
       \/ UNCHANGED <<round, replay, astray, seen>>   \* refused, or the transition failed
    /\ UNCHANGED <<clock, prepared, next, purpose, views>>

Tick(delta) ==
    /\ Free
    /\ LET moved == [After("tick") EXCEPT !.elapsed = @ + delta] IN
       Moves(moved, [kind |-> "tick", verdict |-> "null", delta |-> delta])
    /\ seen' = seen \cup {<<round.seed, prepared>>}
    /\ UNCHANGED <<clock, prepared, next, purpose, views>>

\* A view needs no turn: observe, spectate.
View ==
    /\ views' = views \cup {<<round.seed, prepared, purpose>>}
    /\ UNCHANGED <<clock, prepared, round, next, purpose, replay, astray, seen>>

\* advanceRound, to its await: initialize clears the prepared data, and prepare may throw.
Advance ==
    /\ purpose = "none" /\ round.status = "completed" /\ round.seed < MaxRounds
    /\ next' = round.seed + 1 /\ purpose' = "advance"
    /\ prepared' \in {0, next'}
    /\ UNCHANGED <<clock, round, replay, astray, seen, views>>

\* The rules threw in prepare or initialize: the completed round stays the match's, and
\* nothing asks for the next one again, for the series counts as active.
AdvanceFails ==
    /\ purpose = "advance" /\ purpose' = "failed" /\ next' = 0
    /\ UNCHANGED <<clock, prepared, round, replay, astray, seen, views>>

\* The worker restarts: the game is compiled anew, and a match is created for the saved round.
Restart ==
    /\ purpose \in {"none", "failed"}
    /\ next' = round.seed /\ purpose' = "verify"
    /\ prepared' = next'
    /\ UNCHANGED <<clock, round, replay, astray, seen, views>>

Created ==
    /\ next # 0 /\ prepared = next /\ purpose' = "none" /\ next' = 0
    /\ IF purpose = "advance"
       THEN round' = Initialized(next) /\ replay' = <<>> /\ astray' = FALSE
       ELSE UNCHANGED <<round, replay, astray>>
    /\ UNCHANGED <<clock, prepared, seen, views>>

Next ==
    \/ Passes \/ View \/ Advance \/ AdvanceFails \/ Restart \/ Created
    \/ \E verdict \in Verdicts : Act(verdict)
    \/ \E delta \in {1, 2} : Tick(delta)

Spec == Init /\ [][Next]_sandbox
-----------------------------------------------------------------------------
TypeOK ==
    /\ prepared \in 0..MaxRounds /\ round.seed \in 1..MaxRounds
    /\ round.status \in {"running", "completed"}
    /\ purpose \in {"none", "advance", "verify", "failed"} /\ (next = 0 <=> purpose \in {"none", "failed"})

\* The time at which entry i of the replay was carried out.
RECURSIVE TimeBefore(_)
TimeBefore(i) == IF i = 1 THEN 0 ELSE TimeBefore(i - 1) + replay[i - 1].delta

(* A round is a function of its seed and of what its replay holds: played    *)
(* again at any other time, after the rounds that followed it or a restart,  *)
(* the rules see the same and go the same way; unless the rules fail at the  *)
(* result of a step that was already made.                                   *)
ReplayLeadsHere ==
    ~astray =>
      round.state = Initialized(round.seed).state \o
        [i \in DOMAIN replay |-> [call |-> replay[i].kind, data |-> round.seed, time |-> TimeBefore(i)]]

(* Every state was made with the prepared data of its own round, though the  *)
(* game object is shared and the data replaced while a creation is awaited;  *)
(* so were the views, but for those of a completed round whose successor is  *)
(* being created or could not be; and an action that the rules did not       *)
(* plainly accept changes nothing.                                           *)
OwnDataOnly ==
    /\ \A s \in seen : s[1] = s[2]
    /\ \A v \in views : v[3] \notin {"advance", "failed"} => v[1] = v[2]
    /\ \A i \in DOMAIN replay : replay[i].verdict \in {"null", "true", "undefined"}
=============================================================================
