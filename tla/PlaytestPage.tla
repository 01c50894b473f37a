---------------------------- MODULE PlaytestPage ----------------------------
(***************************************************************************)
(* A turn-based playtest as the studio's page runs it: browserDecision,    *)
(* browserHumanDecision, startBrowserRun, resumeBrowserRun and             *)
(* updateBrowserStrategy of apps/web/app/components/game-studio.tsx.       *)
(*                                                                         *)
(* Every decision is committed by the control API before the page plays it *)
(* in the game's frame. Decisions of agents, moves of the person, coaching *)
(* and the session that is open go on beside each other; their answers     *)
(* come in any order. What the API does is taken from Playtest: a step is  *)
(* decided once, under the strategy that holds then, and whoever asks for  *)
(* a decided step gets what was decided if it saw and asks the same.       *)
(*                                                                         *)
(* A managed game starts anew with a session, and a session of before is   *)
(* only shown; any other goes on from what was played before, and a        *)
(* session of before is played again in a new frame.                       *)
(*                                                                         *)
(* The frame may start anew at any time: Restart preview, the code view,   *)
(* a change of the co-pilot. The session goes on, and nothing is played    *)
(* again. While the code is shown, playing fails as in a frame that does   *)
(* not answer.                                                             *)
(*                                                                         *)
(* Simplifications: one seat of a person and one of an agent, either may   *)
(* move; games that were played differently look different.                *)
(***************************************************************************)
EXTENDS Naturals, Sequences, FiniteSets

CONSTANTS Sessions, MaxSteps, MaxCoaching, MaxMishaps

PageBounds == {MaxSteps, MaxCoaching, MaxMishaps} \subseteq Nat

VARIABLES
    managed,    \* whether Arcade's engine runs the game
    saved,      \* session -> what the API has of it: decisions, strategy's epoch
    open,       \* the session of the page: its step, whether it is only shown, what the
                \* frame had played when it began, and whether the frame has been there
                \* from then on, with all that was to be played again (ghost)
    installed,  \* session -> epoch of the strategy that the page was told of
    frame,      \* decisions played in the game's frame since that started
    playing,    \* the agents go on
    deciding,   \* a decision for the agent
    task,       \* what makes the page busy: a move, a start or a resumption
    coaching,   \* a request for a new strategy
    mishaps

vars == <<managed, saved, open, installed, frame, playing, deciding, task, coaching, mishaps>>

Nothing == [pc |-> "none"]
Closed == [session |-> 0, step |-> 0, reviewed |-> FALSE, over |-> <<>>, whole |-> TRUE]
NotStarted == [started |-> FALSE, log |-> <<>>, epoch |-> 1]

Init ==
    /\ managed \in BOOLEAN
    /\ saved = [r \in Sessions |-> NotStarted]
    /\ open = Closed /\ installed = [r \in Sessions |-> 0]
    /\ frame = <<>> /\ playing = FALSE
    /\ deciding = Nothing /\ task = Nothing /\ coaching = Nothing
    /\ mishaps = 0

\* So many decisions are explored, of all sessions.
Room == Cardinality({<<r, n>> \in Sessions \X (1..MaxSteps) : n \in DOMAIN saved[r].log}) < MaxSteps

Mishap == mishaps < MaxMishaps /\ mishaps' = mishaps + 1

-----------------------------------------------------------------------------
(* The API: a decision for a step, by the agent or by the person.          *)

Decision(q, by) == [session |-> q.session, step |-> q.step, saw |-> q.saw, by |-> by,
                    epoch |-> saved[q.session].epoch]

\* Slip: what a decided step was asked with is not compared.
AnswerUnseen(q, by) ==
    LET log == saved[q.session].log IN
    IF q.step < Len(log) THEN log[q.step + 1]
    ELSE IF q.step = Len(log) THEN Decision(q, by) ELSE Nothing

\* What the API answers for a request that saw these plays.
Answer(q, by) ==
    LET log == saved[q.session].log IN
    IF q.step < Len(log)
    THEN IF log[q.step + 1].by = by /\ log[q.step + 1].saw = q.saw THEN log[q.step + 1] ELSE Nothing
    ELSE IF q.step = Len(log) THEN Decision(q, by) ELSE Nothing

Commits(q, by) ==
    saved' = IF q.step = Len(saved[q.session].log)
             THEN [saved EXCEPT ![q.session].log = Append(@, Decision(q, by))]
             ELSE saved

\* The observation of the frame, which tells what was played.
Observed == [i \in DOMAIN frame |-> <<frame[i].session, frame[i].step>>]
Request == [session |-> open.session, step |-> open.step, saw |-> Observed]

-----------------------------------------------------------------------------
(* Decisions of the agent: by a timer while it plays, or one at a click.   *)

Begin ==
    /\ deciding = Nothing /\ open.session # 0 /\ Room
    /\ playing \/ (task = Nothing /\ ~open.reviewed)
    /\ deciding' = [pc |-> "asked", q |-> Request]
    /\ UNCHANGED <<saved, open, installed, frame, playing, task, coaching, mishaps>>

\* An error stops the agents.
Stops == deciding' = Nothing /\ playing' = FALSE

Decide ==
    /\ deciding.pc = "asked"
    /\ IF Answer(deciding.q, "agent") = Nothing
       THEN Stops /\ UNCHANGED <<saved, mishaps>>
       ELSE /\ Commits(deciding.q, "agent")
            /\ \/ /\ deciding' = [pc |-> "answered", q |-> deciding.q,
                                  event |-> Answer(deciding.q, "agent")]
                  /\ UNCHANGED <<playing, mishaps>>
               \/ Mishap /\ Stops  \* the answer is lost
    /\ UNCHANGED <<open, installed, frame, task, coaching>>

\* The session is the one that asked, and its strategy was not replaced.
StillWanted(q, event) ==
    open.session = q.session /\ installed[q.session] <= event.epoch

Play ==
    /\ deciding.pc = "answered"
    /\ IF StillWanted(deciding.q, deciding.event)
       THEN \/ /\ frame' = Append(frame, deciding.event)
               /\ deciding' = [pc |-> "played", q |-> deciding.q]
               /\ UNCHANGED <<playing, mishaps>>
            \/ /\ Mishap /\ Stops  \* the frame does not answer in time
               /\ frame' \in {frame, Append(frame, deciding.event)}
       ELSE deciding' = Nothing /\ UNCHANGED <<frame, playing, mishaps>>
    /\ UNCHANGED <<saved, open, installed, task, coaching>>

\* The page learns of the step when the frame has answered.
Count(q) == IF open.session = q.session THEN [open EXCEPT !.step = q.step + 1] ELSE open
Played ==
    /\ deciding.pc = "played" /\ open' = Count(deciding.q) /\ deciding' = Nothing
    /\ UNCHANGED <<saved, installed, frame, playing, task, coaching, mishaps>>

\* The frame that was to answer is not there any more.
Unanswered ==
    /\ deciding.pc = "played" /\ ~open.whole /\ Stops
    /\ UNCHANGED <<saved, open, installed, frame, task, coaching, mishaps>>

Pause ==
    /\ open.session # 0 /\ ~open.reviewed /\ playing' = ~playing
    /\ UNCHANGED <<saved, open, installed, frame, deciding, task, coaching, mishaps>>

-----------------------------------------------------------------------------
(* Moves of the person, while the agents are paused.                       *)

MoveBegins ==
    /\ task = Nothing /\ ~playing /\ open.session # 0 /\ ~open.reviewed
    /\ Room
    /\ task' = [pc |-> "move", q |-> Request]
    /\ UNCHANGED <<saved, open, installed, frame, playing, deciding, coaching, mishaps>>

Move ==
    /\ task.pc = "move"
    /\ IF Answer(task.q, "person") = Nothing THEN task' = Nothing /\ UNCHANGED <<saved, mishaps>>
       ELSE /\ Commits(task.q, "person")
            /\ \/ /\ task' = [pc |-> "moved", q |-> task.q, event |-> Answer(task.q, "person")]
                  /\ UNCHANGED mishaps
               \/ Mishap /\ task' = Nothing
    /\ UNCHANGED <<open, installed, frame, playing, deciding, coaching>>

MovePlayed ==
    /\ task.pc = "moved"
    /\ \/ /\ frame' = Append(frame, task.event)
          /\ open' = Count(task.q) /\ playing' \in BOOLEAN /\ UNCHANGED mishaps
       \/ /\ Mishap /\ UNCHANGED <<open, playing>>  \* the frame does not answer in time
          /\ frame' \in {frame, Append(frame, task.event)}
    /\ task' = Nothing
    /\ UNCHANGED <<saved, installed, deciding, coaching>>

-----------------------------------------------------------------------------
(* Sessions.                                                               *)

\* New session: not while a decision is under way.
Close ==
    /\ open.session # 0 /\ deciding = Nothing
    /\ open' = Closed /\ playing' = FALSE
    /\ UNCHANGED <<saved, installed, frame, deciding, task, coaching, mishaps>>

\* The frame of a managed game starts anew, then the session is created.
Start ==
    /\ task = Nothing /\ open.session = 0
    /\ \E r \in Sessions : /\ ~saved[r].started /\ \A s \in 1..(r - 1) : saved[s].started
                           /\ task' = [pc |-> "start", session |-> r]
    /\ frame' = IF managed THEN <<>> ELSE frame
    /\ UNCHANGED <<saved, open, installed, playing, deciding, coaching, mishaps>>
Started ==
    /\ task.pc = "start"
    /\ saved' = [saved EXCEPT ![task.session].started = TRUE]
    /\ \/ /\ open' = [session |-> task.session, step |-> 0, reviewed |-> FALSE, over |-> frame,
                     whole |-> TRUE]
          /\ playing' \in BOOLEAN /\ UNCHANGED mishaps
       \/ Mishap /\ playing' = FALSE /\ UNCHANGED open
    /\ task' = Nothing
    /\ UNCHANGED <<installed, frame, deciding, coaching>>

\* A session of before is shown, or played again if it is of this revision.
Resume(r) ==
    /\ task = Nothing /\ saved[r].started
    /\ task' = [pc |-> "read", session |-> r]
    /\ UNCHANGED <<saved, open, installed, frame, playing, deciding, coaching, mishaps>>
Opened(reviewed, over) ==
    [session |-> task.session, step |-> Len(saved[task.session].log), reviewed |-> reviewed,
     over |-> over, whole |-> TRUE]
ReadToShow ==
    /\ task.pc = "read" /\ task' = Nothing
    /\ open' = Opened(TRUE, frame) /\ playing' = FALSE
    /\ UNCHANGED <<saved, installed, frame, deciding, coaching, mishaps>>
ReadToReplay ==
    /\ task.pc = "read" /\ ~managed
    /\ task' = [pc |-> "replay", session |-> task.session, log |-> saved[task.session].log,
               at |-> 0]
    /\ open' = Opened(FALSE, <<>>) /\ playing' = FALSE /\ frame' = <<>>
    /\ UNCHANGED <<saved, installed, deciding, coaching, mishaps>>
Replay ==
    /\ task.pc = "replay"
    /\ \/ /\ task.at = Len(task.log) /\ task' = Nothing /\ UNCHANGED <<frame, open, mishaps>>
       \/ /\ task.at < Len(task.log) /\ task' = [task EXCEPT !.at = @ + 1]
          /\ frame' = Append(frame, task.log[task.at + 1]) /\ UNCHANGED <<open, mishaps>>
       \/ /\ task.at < Len(task.log) /\ Mishap /\ task' = Nothing  \* no answer in time
          /\ frame' \in {frame, Append(frame, task.log[task.at + 1])}
          /\ open' = [open EXCEPT !.whole = FALSE]
    /\ UNCHANGED <<saved, installed, playing, deciding, coaching>>

\* The preview is restarted, or left and shown again. A request that is under way
\* goes on, and is played in the new frame.
Restart ==
    /\ frame' = <<>>
    /\ open' = IF open.session = 0 THEN open ELSE [open EXCEPT !.over = <<>>, !.whole = FALSE]
    /\ UNCHANGED <<saved, installed, playing, deciding, task, coaching, mishaps>>

-----------------------------------------------------------------------------
(* Coaching.                                                               *)

Coach ==
    /\ coaching = Nothing /\ task = Nothing /\ open.session # 0
    /\ \A r \in Sessions : saved[r].epoch <= MaxCoaching
    /\ coaching' = [pc |-> "asked", session |-> open.session]
    /\ UNCHANGED <<saved, open, installed, frame, playing, deciding, task, mishaps>>
Coached ==
    /\ coaching.pc = "asked"
    /\ saved' = [saved EXCEPT ![coaching.session].epoch = @ + 1]
    /\ coaching' = [pc |-> "told", session |-> coaching.session,
                    epoch |-> saved'[coaching.session].epoch]
    /\ UNCHANGED <<open, installed, frame, playing, deciding, task, mishaps>>
Told ==
    /\ coaching.pc = "told" /\ coaching' = Nothing
    /\ installed' = IF open.session = coaching.session
                    THEN [installed EXCEPT ![coaching.session] = coaching.epoch]
                    ELSE installed
    /\ UNCHANGED <<saved, open, frame, playing, deciding, task, mishaps>>

Next ==
    /\ UNCHANGED managed
    /\ \/ Begin \/ Decide \/ Play \/ Played \/ Unanswered \/ Pause \/ MoveBegins \/ Move \/ MovePlayed
       \/ Close \/ Start \/ Started \/ ReadToShow \/ ReadToReplay \/ Replay \/ Restart \/ Coach \/ Coached \/ Told
       \/ \E r \in Sessions : Resume(r)

\* No session is resumed while a decision is under way.
ResumedAtRest == task'.pc \in {"read", "replay"} => deciding' = Nothing

-----------------------------------------------------------------------------
TypeOK ==
    /\ open.session \in Sessions \cup {0} /\ open.step \in 0..(MaxSteps + 1)
    /\ installed \in [Sessions -> 0..(MaxCoaching + 1)]
    /\ playing \in BOOLEAN /\ mishaps <= MaxMishaps
    /\ \A r \in Sessions : Len(saved[r].log) <= (MaxSteps + 1)

(* What the frame has played since the session began, or since it started   *)
(* anew in it, are decisions of the session's log, in its order, no decision *)
(* twice and none of another session. Played again from where it began it   *)
(* goes as it went: no decision is left out, unless the frame was restarted *)
(* in the session or the playing again of an earlier one was cut off.       *)
FrameIsTheLog ==
    LET log == saved[open.session].log
        played == SubSeq(frame, Len(open.over) + 1, Len(frame))
    IN  open.session # 0 /\ ~open.reviewed =>
          /\ open.over = SubSeq(frame, 1, Len(open.over))
          /\ \A i \in DOMAIN played : played[i].step < Len(log) /\ played[i] = log[played[i].step + 1]
          /\ \A i, j \in DOMAIN played : i < j => played[i].step < played[j].step
          /\ open.whole => \A i \in DOMAIN played : played[i].step = i - 1
=============================================================================
