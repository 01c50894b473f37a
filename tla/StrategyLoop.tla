----------------------------- MODULE StrategyLoop -----------------------------
(***************************************************************************)
(* One seat of a match that an agent plays by reviews: the match worker's  *)
(* strategies and their leases (match-worker/src/index.ts), the routes     *)
(* that run a review (control-api/src/app.ts) and the page that asks for   *)
(* them in a loop (play-match.tsx).                                        *)
(*                                                                         *)
(* Time is counted in units of half a lease or less, as what is left of a  *)
(* lease and how old a plan is, so that it needs no bound.  The worker's   *)
(* timer of 16 ms runs, and an exclusive operation ends, within a unit.    *)
(* A review is its own request, session and strategy.  What a script       *)
(* chooses is left open: to hold a control, to let go of it, to move.      *)
(* What the game offers to the seat is left open as well: it may offer no  *)
(* action, or not the release of the control that is on, and it may refuse *)
(* an action that it has offered.  One control of mode "hold" is modelled. *)
(***************************************************************************)
EXTENDS Integers, FiniteSets

CONSTANTS AgentControllers, Human, \* controllers that the owner may give the seat to
          NoOne,
          Lease,         \* leaseMs
          Planning,      \* turnPlanningMs, and the turn clock less two seconds
          Patience,      \* reviews that may fail in a row, 3 in the code
          MaxReviews, MaxMoves, MaxHandoffs, MaxUpsets, MaxNotes  \* bounds

LoopAssumption ==
    /\ Human \notin AgentControllers /\ NoOne \notin AgentControllers \cup {Human}
    /\ {Lease, Planning, Patience} \subseteq Nat \ {0}
    /\ {MaxReviews, MaxMoves, MaxHandoffs, MaxUpsets, MaxNotes} \subseteq Nat

VARIABLES
    game,     \* status, mode, stateSequence, whether the seat may act, held input; ghost
              \* astray: it is on since its release was refused or a save failed
    seat,     \* controller, whether a release is remembered
    agent,    \* agentPolicies: the strategy in use and its lease
    request,  \* strategyRequests: the review that may still be applied
    review,   \* reviews, as their callers and the worker see them
    sessions, \* control sessions that were opened for strategies
    op,       \* the update that runs in exclusive
    timer,    \* agentTimers
    ran,      \* the timer has run in this unit of time
    page,     \* the loop of the match page
    heard,    \* ghost: the owner's notes that an update has answered
    kept,     \* ghost: units that the seat could act, engaged, and did not
    budget    \* handoffs, upsets, notes

vars == <<game, seat, agent, request, review, sessions, op, timer, ran, page, heard, kept, budget>>

Reviews == 1..MaxReviews
NoReview == [pc |-> "none", kind |-> "loop", note |-> 0, who |-> NoOne, seq |-> -1, outdated |-> FALSE]
NoAgent == [who |-> NoOne, session |-> 0, left |-> -1, age |-> 0,
            planned |-> -1, seen |-> -1, since |-> 0, held |-> FALSE]
NoOp == [pc |-> "idle", by |-> 0]

Init ==
    /\ \E mode \in {"discrete", "realtime"} :
          game = [mode |-> mode, status |-> "lobby", seq |-> 0, mine |-> TRUE,
                  input |-> FALSE, astray |-> FALSE]
    /\ \E c \in AgentControllers : seat = [who |-> c, hold |-> FALSE]
    /\ agent = NoAgent /\ request = 0 /\ sessions = {}
    /\ review = [r \in Reviews |-> NoReview]
    /\ op = NoOp /\ timer = FALSE /\ ran = FALSE
    /\ page = [loop |-> "on", agent |-> seat.who, review |-> 0, failures |-> 0, note |-> 0]
    /\ heard = {} /\ kept = 0
    /\ budget = [handoffs |-> 0, upsets |-> 0, notes |-> 0]

Discrete == game.mode = "discrete"
\* ownedAgent, for the agent that a review is meant for.
Owned(c) == seat.who \in AgentControllers /\ seat.who = c
Open == game.status \in {"lobby", "running"}
Engaged == agent.who # NoOne /\ agent.left >= 0
\* The clock of a turn stops when the seat has acted.
Ready == game.mine /\ agent.planned # game.seq
Spend(b) == budget' = [budget EXCEPT ![b] = @ + 1]
Least(a, b) == IF a < b THEN a ELSE b
Most(a, b) == IF a > b THEN a ELSE b
-----------------------------------------------------------------------------
(* Reviews.                                                                *)
\* Only the page listens; nobody else's answers matter any more.
Answers == {"applied", "waited", "superseded", "inactive", "foreign", "failed"}
Heard(r) == page.review = r \/ review[r].kind = "coach"
Answered(r, pc) ==
    IF Heard(r) THEN [review[r] EXCEPT !.pc = pc, !.outdated = FALSE] ELSE [NoReview EXCEPT !.pc = "done"]
Answer(r, pc) == review' = [review EXCEPT ![r] = Answered(r, pc)]

\* cancelStrategyUpdate.
Canceled(r) == IF request = r THEN 0 ELSE request

Fresh(r, kind, who, note) ==
    /\ review[r].pc = "none" /\ \A q \in Reviews : q < r => review[q].pc # "none"
    /\ review' = [review EXCEPT ![r] = [NoReview EXCEPT !.pc = "waits", !.kind = kind,
                                                       !.who = who, !.note = note]]

\* An external agent opens a review; it may answer, abandon or forget it.
External(r) ==
    /\ seat.who \in AgentControllers /\ Open /\ Fresh(r, "external", seat.who, 0)
    /\ UNCHANGED <<game, seat, agent, request, sessions, op, timer, ran, page, heard, kept, budget>>

\* Slip: reviews alone keep a strategy running.
ProlongedFreely == [agent EXCEPT !.left = Most(@, Lease)]

\* Planning keeps the strategy running, up to two leases after the last update.
Prolonged ==
    IF agent.who = NoOne THEN agent
    ELSE [agent EXCEPT !.left = Most(@, Least(Lease, 2 * Lease - agent.age))]

\* Slip: a note is not looked at before a review is skipped.
SkipsWithNote(r) ==
    /\ review[r].kind # "external" /\ agent.who # NoOne
    /\ game.status # "running" \/ (Discrete /\ ~Ready)

\* Nothing to decide: commonsReview keeps the script and saves a model call.
NothingToDo(r) ==
    /\ review[r].kind # "external" /\ agent.who # NoOne /\ review[r].note = 0
    /\ game.status # "running" \/ (Discrete /\ ~Ready)

\* The wait for a decision point is over, or its time is: beginStrategyUpdate.
Begin(r) ==
    /\ review[r].pc = "waits" /\ Owned(review[r].who) /\ Open
    /\ request' = r /\ agent' = Prolonged
    /\ review' = [q \in Reviews |->
          IF q = r THEN [review[r] EXCEPT !.pc = IF NothingToDo(r) THEN "skips" ELSE "plans",
                                          !.seq = game.seq]
          ELSE [review[q] EXCEPT !.outdated = @ \/ review[q].pc \in {"plans", "applies"}]]
    /\ UNCHANGED <<game, seat, sessions, op, timer, ran, page, heard, kept, budget>>

\* The seat has changed hands or the match has ended meanwhile.
BeginFails(r) ==
    /\ review[r].pc = "waits" /\ ~(Owned(review[r].who) /\ Open)
    /\ Answer(r, IF Owned(review[r].who) THEN "inactive" ELSE "foreign")
    /\ UNCHANGED <<game, seat, agent, request, sessions, op, timer, ran, page, heard, kept, budget>>

Skip(r) ==
    /\ review[r].pc = "skips" /\ request' = Canceled(r) /\ Answer(r, "waited")
    /\ UNCHANGED <<game, seat, agent, sessions, op, timer, ran, page, heard, kept, budget>>

\* The agent gives no valid answer in time, or abandons the review.
Fails(r) ==
    /\ review[r].pc = "plans" /\ budget.upsets < MaxUpsets /\ Spend("upsets")
    /\ request' = Canceled(r) /\ Answer(r, "failed")
    /\ UNCHANGED <<game, seat, agent, sessions, op, timer, ran, page, heard, kept>>
-----------------------------------------------------------------------------
(* The strategy plays: runAgentPolicies.                                   *)
\* Slip: any look at the turn begins its planning anew.
SeenAgain == [agent EXCEPT !.seen = game.seq, !.since = 0]

\* turnSeen: the first time that the worker looked at this decision point.
Seen == IF agent.seen = game.seq THEN agent ELSE [agent EXCEPT !.seen = game.seq, !.since = 0]

\* A review that waits for the decision point, or has begun, holds the move.
PlanningNow == request # 0 \/ \E r \in Reviews : review[r].pc = "waits"
HoldsMove == /\ Discrete /\ agent.planned # game.seq
             /\ PlanningNow /\ Seen.since < Planning

\* The control goes on or off, the seat remembers its release, the agent holds
\* it.  A control that stays on for a cause has gone astray.
Control(g, on, hold, held, cause) ==
    /\ game' = [g EXCEPT !.input = on, !.astray = on /\ (g.astray \/ cause)]
    /\ seat' = [seat EXCEPT !.hold = hold] /\ agent' = [agent EXCEPT !.held = held]

\* Slip: the agent has forgotten what it held before the release is looked up.
ForgetsFirst(g, offered) == Control(g, g.input, seat.hold, FALSE, agent.held /\ ~offered)

\* releaseAgentInput: the agent forgets what it held whether or not the game
\* offers (and accepts) the release.
LetGo(g, offered) ==
    IF agent.held /\ offered THEN Control(g, FALSE, FALSE, FALSE, FALSE)
    ELSE Control(g, g.input, seat.hold, FALSE, agent.held /\ ~offered)

\* A new round forgets what belonged to the old one: advanceRound.
NewRound(g) == [g EXCEPT !.seq = @ + 1, !.mine = TRUE, !.status = "running",
                             !.input = FALSE, !.astray = FALSE]
AgentOfNewRound == [agent EXCEPT !.held = FALSE, !.planned = -1, !.seen = -1]

\* Slip: what an action of the old round held is put into the new one.
HeldAfterRound == [AgentOfNewRound EXCEPT !.held = TRUE]

\* The action ended the round, and the next one has begun.
AfterRound == AgentOfNewRound

\* Whether the game offers a release matters to an agent that holds something.
Offers == IF agent.held THEN BOOLEAN ELSE {FALSE}

\* The script holds the control (on): what its seat remembers is a release that
\* the game offers along with it.
Press ==
    IF agent.held THEN UNCHANGED <<game, seat, agent>>
    ELSE \E offered \in BOOLEAN : Control([game EXCEPT !.astray = FALSE], TRUE, offered, TRUE, FALSE)

\* The script does something else, after letting go of what it held: this may
\* turn the control off as well; if it is accepted, the seat forgets its release.
ActsOtherwise(g) ==
    \E offered \in Offers :
        \E on \in {FALSE, g.input /\ ~(agent.held /\ offered)} :
            \E hold \in {FALSE, on /\ seat.hold} :
                Control(g, on, hold, FALSE, agent.held /\ ~offered)

\* An action may end the round, and the next begins at once.
EndsRound ==
    /\ game.seq < MaxMoves /\ game' = NewRound(game)
    /\ agent' = AfterRound /\ seat' = [seat EXCEPT !.hold = FALSE]

\* A move in a turn; a decision in real time, which without a legal action
\* comes to forgetting what is held.
Plays ==
    IF Discrete
    THEN /\ game' = [game EXCEPT !.seq = @ + 1, !.mine = FALSE]
         /\ agent' = Seen /\ UNCHANGED seat
    ELSE Press \/ ActsOtherwise(game) \/ EndsRound \/ LetGo(game, FALSE)

Stays == UNCHANGED <<game, agent, seat, kept>>
Run ==
    IF game.status # "running" \/ agent.who = NoOne THEN Stays
    ELSE IF ~Engaged THEN kept' = 0 /\ \E offered \in Offers : LetGo(game, offered)
    ELSE IF ~game.mine THEN Stays
    ELSE IF HoldsMove THEN agent' = Seen /\ UNCHANGED <<game, seat, kept>>
    ELSE kept' = 0 /\ Plays

\* The save after an action in real time fails: it has been done, a control
\* may be on that the agent does not know of, and the match is paused.
RunFails ==
    LET paused == [game EXCEPT !.status = "paused"] IN
    /\ game.status = "running" /\ agent.who # NoOne /\ ~Discrete
    /\ budget.upsets < MaxUpsets /\ Spend("upsets")
    /\ \/ /\ Engaged /\ game.mine
          /\ \/ ~agent.held /\ \E offered \in BOOLEAN : Control(paused, TRUE, offered, FALSE, TRUE)
             \/ ActsOtherwise(paused)
       \/ ~Engaged /\ agent.held /\ LetGo(paused, TRUE)
    /\ UNCHANGED kept

TimerRuns ==
    /\ op.pc = "idle" /\ timer /\ ran' = TRUE
    /\ timer' = (game.status # "over")
    /\ Run
    /\ UNCHANGED <<request, review, sessions, op, page, heard, budget>>

\* A failure stops agent control, never the simulation clock.
TimerFails ==
    /\ op.pc = "idle" /\ timer /\ RunFails
    /\ timer' = FALSE
    /\ UNCHANGED <<request, review, sessions, op, ran, page, heard>>
-----------------------------------------------------------------------------
(* Updates: applyStrategyUpdate.                                           *)
Current(r) == request = r /\ Owned(review[r].who) /\ Open
Refusal(r) ==
    IF seat.who \notin AgentControllers THEN "foreign"
    ELSE IF ~Open THEN "inactive" ELSE "superseded"
Reusable == agent.who = seat.who /\ agent.session \in sessions

\* What every update ends with: a new lease, no open request, the timer.
Renewed(a, r) == [a EXCEPT !.left = Lease, !.age = 0, !.planned = review[r].seq]
Installed(r, a) ==
    /\ agent' = Renewed(a, r) /\ request' = 0 /\ timer' = TRUE
    /\ op' = [pc |-> "run", by |-> r]
    /\ heard' = IF review[r].note = 0 THEN heard ELSE heard \cup {review[r].note}
Strategy(r, session) ==
    [(IF Reusable THEN agent ELSE NoAgent) EXCEPT !.who = seat.who, !.session = session]

Refused(r) ==
    /\ op.pc = "idle" /\ review[r].pc = "plans" /\ ~Current(r)
    /\ request' = Canceled(r) /\ Answer(r, Refusal(r))
    /\ UNCHANGED <<game, seat, agent, sessions, op, timer, ran, page, heard, kept, budget>>

\* "Keep" without a strategy is refused.
Keep(r) ==
    /\ op.pc = "idle" /\ review[r].pc = "plans" /\ Current(r)
    /\ IF agent.who = NoOne
       THEN /\ request' = Canceled(r) /\ Answer(r, "failed") /\ UNCHANGED <<agent, op, timer, heard>>
       ELSE Installed(r, agent) /\ review' = [review EXCEPT ![r].pc = "applies"]
    /\ UNCHANGED <<game, seat, sessions, ran, page, kept, budget>>

Replace(r) ==
    /\ op.pc = "idle" /\ review[r].pc = "plans" /\ Current(r)
    /\ review' = [review EXCEPT ![r].pc = "applies"]
    /\ IF Reusable
       THEN Installed(r, Strategy(r, agent.session))
       ELSE op' = [pc |-> "connect", by |-> r] /\ UNCHANGED <<agent, request, timer, heard>>
    /\ UNCHANGED <<game, seat, sessions, ran, page, kept, budget>>

\* Slip: the session of an update that came too late stays open.
LeaveSession(r) == sessions \cup {r}

\* An update that was superseded during an await ends its own session.
EndSession(r) == sessions \ {r}
GivenUp(r) == 
    /\ sessions' = EndSession(r) /\ request' = Canceled(r) /\ Answer(r, Refusal(r)) /\ op' = NoOp
    /\ UNCHANGED <<game, seat, agent, timer, heard>>

\* A fresh control lease: its ticket is redeemed and the seat connected.
Connected ==
    LET r == op.by IN
    /\ op.pc = "connect"
    /\ sessions' = sessions \cup {r} /\ op' = [op EXCEPT !.pc = "check"]
    /\ UNCHANGED <<game, seat, agent, request, review, timer, ran, page, heard, kept, budget>>

\* stopSeatInput: the release that the seat remembers, which the game may refuse.
StopInput(accepted) ==
    LET on == game.input /\ ~(seat.hold /\ game.status = "running" /\ accepted) IN
    game' = [game EXCEPT !.input = on, !.astray = on /\ (game.astray \/ ~seat.hold \/ ~accepted)]

\* What the controller's own actions held on is stopped.
Checked ==
    LET r == op.by IN
    /\ op.pc = "check"
    /\ IF Current(r)
       THEN /\ op' = [op EXCEPT !.pc = "install"]
            /\ \E accepted \in BOOLEAN : StopInput(accepted)
            /\ seat' = [seat EXCEPT !.hold = FALSE]
            /\ UNCHANGED <<agent, request, review, sessions, timer, heard>>
       ELSE GivenUp(r)
    /\ UNCHANGED <<ran, page, kept, budget>>

\* Slip: the update is not compared again after the last await.
StillTheSame(r) == TRUE

StillCurrent(r) == Current(r)
Install ==
    LET r == op.by IN
    /\ op.pc = "install"
    /\ IF StillCurrent(r)
       THEN /\ Installed(r, Strategy(r, r)) /\ sessions' = sessions \ {agent.session}
            /\ UNCHANGED <<game, seat, review>>
       ELSE GivenUp(r)
    /\ UNCHANGED <<ran, page, kept, budget>>

\* The strategy plays at once; a failure is the update's.  A Commons review
\* then stores an event, which may fail as well.
Applied ==
    LET r == op.by IN
    /\ op.pc = "run" /\ op' = NoOp
    /\ \/ Run /\ Answer(r, "applied") /\ UNCHANGED budget
       \/ RunFails /\ Answer(r, "failed")
       \/ Run /\ Answer(r, "failed") /\ budget.upsets < MaxUpsets /\ Spend("upsets")
    /\ UNCHANGED <<request, sessions, timer, ran, page, heard>>
-----------------------------------------------------------------------------
(* The match and the seat.                                                 *)
\* The last seat is taken.
Starts ==
    /\ op.pc = "idle" /\ game.status = "lobby" /\ game' = [game EXCEPT !.status = "running"]
    /\ UNCHANGED <<seat, agent, request, review, sessions, op, timer, ran, page, heard, kept, budget>>

\* The other seat moves in its turn, and it is this one's again.
OtherMoves ==
    /\ Discrete /\ game.status = "running" /\ ~game.mine /\ game.seq < MaxMoves
    /\ op.pc = "idle"
    /\ game' = [game EXCEPT !.seq = @ + 1, !.mine = TRUE] /\ kept' = 0
    /\ UNCHANGED <<seat, agent, request, review, sessions, op, timer, ran, page, heard, budget>>

\* A round ends by another seat's action or by the clock; the next may begin.
RoundEnds ==
    /\ op.pc = "idle" /\ game.status = "running" /\ game.seq < MaxMoves
    /\ game' = [game EXCEPT !.status = "over"] /\ kept' = 0
    /\ UNCHANGED <<seat, agent, request, review, sessions, op, timer, ran, page, heard, budget>>

NextRound ==
    /\ op.pc = "idle" /\ game.status = "over" /\ kept' = 0
    /\ game' = NewRound(game) /\ agent' = AgentOfNewRound
    /\ seat' = [seat EXCEPT !.hold = FALSE]
    /\ timer' = (timer \/ agent.who # NoOne)
    /\ UNCHANGED <<request, review, sessions, op, ran, page, heard, budget>>

\* pauseMatch lets go of what an agent holds; the failed save of another
\* action, or of a tick, does not.
Pauses ==
    LET paused == [game EXCEPT !.status = "paused"] IN
    /\ op.pc = "idle" /\ game.status = "running" /\ budget.upsets < MaxUpsets /\ Spend("upsets")
    /\ kept' = 0
    /\ \/ \E offered \in Offers : LetGo(paused, offered)
       \/ game' = paused /\ UNCHANGED <<agent, seat>>
    /\ UNCHANGED <<request, review, sessions, op, timer, ran, page, heard>>

\* The timer has not run yet in what is left of this unit.
Resumes ==
    /\ op.pc = "idle" /\ game.status = "paused"
    /\ game' = [game EXCEPT !.status = "running"] /\ kept' = 0 /\ ran' = FALSE
    /\ UNCHANGED <<seat, agent, request, review, sessions, op, timer, page, heard, budget>>

\* A controller that has no strategy acts itself: it holds the control, taps
\* another, which makes the seat forget the release, or lets go.
ActsItself ==
    /\ op.pc = "idle" /\ ~Discrete /\ game.status = "running" /\ agent.who = NoOne
    /\ \/ \E offered \in BOOLEAN :
             Control([game EXCEPT !.astray = FALSE], TRUE, offered, FALSE, ~offered)
       \/ Control(game, game.input, FALSE, FALSE, TRUE)
       \/ Control(game, FALSE, FALSE, FALSE, FALSE)
    /\ UNCHANGED <<request, review, sessions, op, timer, ran, page, heard, kept, budget>>

\* changeSeatController: input stopped, strategy, request and session revoked.
Revoked(c) ==
    /\ \E accepted \in BOOLEAN : StopInput(accepted)
    /\ seat' = [who |-> c, hold |-> FALSE]
    /\ agent' = NoAgent /\ request' = 0 /\ sessions' = {} /\ kept' = 0

\* A page that gives the seat to somebody goes on with that agent's loop.
HandsOver(c) ==
    /\ op.pc = "idle" /\ Open /\ c # seat.who
    /\ budget.handoffs < MaxHandoffs /\ Spend("handoffs")
    /\ Revoked(c)
    /\ \/ UNCHANGED page
       \/ page' = [loop |-> IF c \in AgentControllers THEN "on" ELSE "off",
                   agent |-> IF c \in AgentControllers THEN c ELSE page.agent,
                   review |-> 0, failures |-> 0, note |-> page.note]
    /\ UNCHANGED <<review, op, timer, ran, heard>>
-----------------------------------------------------------------------------
(* The page's loop.                                                        *)
Elsewhere == UNCHANGED <<game, seat, agent, request, sessions, op, timer, ran, heard, kept>>

PageAsks(r) ==
    /\ page.loop = "on" /\ page.review = 0 /\ game.status # "over"
    /\ Fresh(r, "loop", page.agent, page.note) /\ page' = [page EXCEPT !.review = r]
    /\ Elsewhere /\ UNCHANGED budget

\* Slip: the page forgets a note as soon as it has sent it.
ForgetsNote(r, ok) == 0

\* A note that was written meanwhile stays for the next review.
NoteAfter(r, ok) == IF ok /\ page.note = review[r].note THEN 0 ELSE page.note

PageHears ==
    LET r == page.review
        pc == review[r].pc
        ok == pc \in {"applied", "waited"}
        failures == IF ok THEN 0 ELSE IF pc = "failed" THEN page.failures + 1 ELSE page.failures
    IN  /\ r # 0 /\ pc \in Answers
        /\ page' = [page EXCEPT
              !.loop = IF pc = "foreign" THEN "off" ELSE IF failures = Patience THEN "paused" ELSE "on",
              !.review = 0, !.failures = failures, !.note = NoteAfter(r, ok)]
        /\ review' = [review EXCEPT ![r] = [NoReview EXCEPT !.pc = "done"]]
        /\ Elsewhere /\ UNCHANGED budget

\* The owner writes a note; a page whose loop does not run asks at once.
Coaches ==
    /\ page.loop = "on" /\ budget.notes < MaxNotes /\ Spend("notes")
    /\ page' = [page EXCEPT !.note = budget.notes + 1]
    /\ Elsewhere /\ UNCHANGED review

CoachesDirectly(r) ==
    /\ page.loop # "on" /\ seat.who \in AgentControllers /\ budget.notes < MaxNotes /\ Spend("notes")
    /\ Fresh(r, "coach", seat.who, budget.notes + 1)
    /\ Elsewhere /\ UNCHANGED page

\* Coaching begins the loop of a page that has none.
CoachedDirectly(r) ==
    /\ review[r].kind = "coach" /\ review[r].pc \in Answers
    /\ review' = [review EXCEPT ![r] = [NoReview EXCEPT !.pc = "done"]]
    /\ page' = IF review[r].pc = "applied" /\ page.loop = "off"
               THEN [page EXCEPT !.loop = "on", !.agent = review[r].who] ELSE page
    /\ Elsewhere /\ UNCHANGED budget

\* Pausing leaves a review that is on its way alone; its answer is ignored.
PagePauses ==
    /\ page.loop = "on" /\ page' = [page EXCEPT !.loop = "paused", !.review = 0, !.failures = 0]
    /\ Elsewhere /\ UNCHANGED <<review, budget>>
\* Slip: failures are counted on where the loop had been paused.
GoesOnCounting == page' = [page EXCEPT !.loop = "on"]

GoesOn == page' = [page EXCEPT !.loop = "on", !.failures = 0]
PageGoesOn ==
    /\ page.loop = "paused" /\ GoesOn
    /\ Elsewhere /\ UNCHANGED <<review, budget>>

\* A unit of time passes.
Waited == Discrete /\ game.status = "running" /\ game.mine /\ Engaged /\ timer
Tick ==
    /\ op.pc = "idle" /\ (timer => ran) /\ ran' = FALSE
    /\ agent' = IF agent.who = NoOne THEN agent
                ELSE [agent EXCEPT !.left = Most(@ - 1, -1), !.age = Least(@ + 1, 2 * Lease + 1),
                                   !.since = Least(@ + 1, Planning)]
    /\ kept' = IF Waited THEN Least(kept + 1, Planning + 2) ELSE 0
    /\ UNCHANGED <<game, seat, request, review, sessions, op, timer, page, heard, budget>>

Next ==
    \/ \E r \in Reviews : \/ External(r) \/ Begin(r) \/ BeginFails(r) \/ Skip(r) \/ Fails(r)
                          \/ Refused(r) \/ Keep(r) \/ Replace(r)
                          \/ PageAsks(r) \/ CoachesDirectly(r) \/ CoachedDirectly(r)
    \/ Connected \/ Checked \/ Install \/ Applied \/ TimerRuns \/ TimerFails
    \/ Starts \/ OtherMoves \/ RoundEnds \/ NextRound \/ Pauses \/ Resumes \/ ActsItself
    \/ \E c \in AgentControllers \cup {Human} : HandsOver(c)
    \/ PageHears \/ Coaches \/ PagePauses \/ PageGoesOn
    \/ Tick

Spec == Init /\ [][Next]_vars
-----------------------------------------------------------------------------
TypeOK ==
    /\ game \in [mode : {"discrete", "realtime"}, status : {"lobby", "running", "paused", "over"},
                 seq : Nat, mine : BOOLEAN, input : BOOLEAN, astray : BOOLEAN]
    /\ seat \in [who : AgentControllers \cup {Human}, hold : BOOLEAN]
    /\ agent \in [who : AgentControllers \cup {NoOne}, session : 0..MaxReviews,
                  left : -1..Lease, age : 0..(2 * Lease + 1), planned : Int, seen : Int,
                  since : 0..Planning, held : BOOLEAN]
    /\ request \in 0..MaxReviews /\ sessions \subseteq Reviews
    /\ op \in [pc : {"idle", "connect", "check", "install", "run"}, by : 0..MaxReviews]
    /\ page \in [loop : {"on", "off", "paused"}, agent : AgentControllers, review : 0..MaxReviews,
                 failures : 0..Patience, note : 0..MaxNotes]
    /\ heard \subseteq 1..MaxNotes /\ kept \in 0..(Planning + 2)

(* A strategy comes into force, or is kept, only by a review that no newer  *)
(* one has overtaken, made for the controller that has the seat.            *)
Updates(r) == agent'.who # NoOne /\ op'.pc = "run" /\ op.pc # "run" /\ op'.by = r
UpdatesAreCurrent ==
    [][\A r \in Reviews : Updates(r) => ~review[r].outdated /\ review[r].who = seat'.who]_vars

(* No autoplay: what plays for the seat is its controller's strategy, within *)
(* two leases of the last completed update.                                 *)
NoAutoplay ==
    [][(game'.input /\ ~game.input /\ agent.who # NoOne) \/ (game.mine /\ ~game'.mine)
       => agent.who = seat.who /\ agent.age <= 2 * Lease]_vars

(* When a lease has lapsed, nothing is on within a unit of time but what has *)
(* gone astray: the game did not let the agent release it (releaseAgentInput)*)
(* or did not let it act, a save failed, or it was on before the strategy.   *)
LapsedLetsGo ==
    game.status = "running" /\ timer /\ ran /\ op.pc = "idle" /\ agent.who # NoOne /\ ~Engaged
    => (game.input => game.astray)

(* An input that is on and has not gone astray can be let go of: its seat    *)
(* remembers the release or its agent holds it; and neither believes that    *)
(* something is on which is not.                                             *)
InputIsRemembered ==
    /\ game.input => seat.hold \/ agent.held \/ game.astray
    /\ seat.hold \/ agent.held \/ game.astray => game.input

(* A slow review never forfeits a turn: an engaged seat that may act acts    *)
(* within the planning time.                                                 *)
TurnIsPlayed == kept <= Planning + 1

(* A control session of a strategy belongs to the strategy in force; updates *)
(* that came too late leave none behind.                                     *)
NoSessionLeft == op.pc = "idle" => sessions = {agent.session} \ {0}

(* A note of the owner stays with the page until an update has answered it   *)
(* or the owner has written another one.                                     *)
NotesAreHeard == [][page.note # 0 /\ page'.note = 0 => page.note \in heard]_vars

(* A strategy plays on its lease: when that has lapsed the seat's input is   *)
(* let go and until then it can be, unless the game does not offer that or   *)
(* a save has failed; a slow review does not forfeit a turn, and no control  *)
(* session is left over.                                                     *)
LeasesAreKept == TypeOK /\ LapsedLetsGo /\ InputIsRemembered /\ TurnIsPlayed /\ NoSessionLeft

(* Only an update that nothing has overtaken comes into force, a strategy    *)
(* plays for the controller it was made for and within two leases of its     *)
(* last update, and the owner's coaching is not lost on the way.             *)
StrategiesAreCurrent == UpdatesAreCurrent /\ NoAutoplay /\ NotesAreHeard
=============================================================================
