---------------------------- MODULE MatchWorker ----------------------------
(***************************************************************************)
(* One match of LocalArcadePlatform (services/match-worker/src/index.ts):  *)
(* its seats and their controllers, realtime sessions, rounds, held inputs *)
(* and the saved record.                                                   *)
(*                                                                         *)
(* Requests, actions, ticks and maintenance of a match run one after the   *)
(* other (exclusive); op says where the current one waits: for an input to *)
(* stop, for the runtime of the next round, or for the store.  Sessions    *)
(* connect, drop, resume and end at any time, in between.  A tick that     *)
(* fails leaves the queue and saves the failed match beside whatever runs  *)
(* next (late).                                                            *)
(*                                                                         *)
(* A controller stands for a pair of an actor and one of its controller    *)
(* ids.  A game is the set of its accepted actions, the controls that are  *)
(* held on in it, and a winner; a step of it is atomic.  Left out:         *)
(* strategies of agents, admission rules, spectators, the creation of a    *)
(* match, listeners.                                                       *)
(***************************************************************************)
EXTENDS Naturals, Sequences, FiniteSets

CONSTANTS Seats, Controllers, Actor(_), Owner, NoOne,
          Realtime,    \* the game has a clock
          LateJoin,    \* manifest.spec.seats.lateJoin
          MinSeats,    \* manifest.spec.seats.min
          Policies,    \* restart policies a match may be created with
          MaxRounds,   \* series.maximumRounds
          Kinds,       \* of actions: "hold", "stop", "tap", "win"
          Faults,      \* "write", "answer", "takeover", "crash", "throw",
                       \* "create", "overrun"
          Idles,       \* a match may be left alone beyond its idle limit
          MaxFaults, MaxSessions, MaxActions, MaxRequests, MaxVersion  \* bounds

ASSUME Bounds == /\ MaxRounds \in Nat \ {0} /\ MinSeats \in Nat \ {0}
                 /\ {MaxFaults, MaxSessions, MaxActions, MaxRequests, MaxVersion} \subseteq Nat
ASSUME RestartPolicies == Policies \subseteq {"automatic", "owner", "unanimous"}
ASSUME NobodyAssumption == NoOne \notin Controllers \cup Seats

VARIABLES
    seat,        \* record.seats
    session,     \* sessions, and tickets that were minted for them
    runtime,     \* record.runtime
    series,      \* record.series
    archive,     \* record.completedRounds
    clock,       \* clocks has a timer of the match
    tick,        \* that timer has queued a tick
    unattended,  \* the idle limit of its status has passed since lastActiveAt
    version,     \* record.version
    op,          \* the operation in exclusive
    late,        \* the save of a failed tick, outside exclusive
    store,       \* the saved record
    answered,    \* actions answered "accepted"
    faults,      \* so far, and whether the creation of a round was one of them
    requests     \* so far

match == <<seat, runtime, series, archive>>
disk == <<version, op, late, store>>
budget == <<faults, requests>>
vars == <<match, session, clock, tick, unattended, disk, answered, budget>>

Actors == {Actor(c) : c \in Controllers}
Actions == Seats \X (1..MaxActions)
Sessions == 1..MaxSessions

OpenSeat == [who |-> NoOne, status |-> "open", gen |-> 0, released |-> FALSE,
             hold |-> FALSE]
NoSession == [state |-> "none", seat |-> NoOne, who |-> NoOne, gen |-> 0, epoch |-> 0]
NewGame(epoch) == [status |-> "lobby", epoch |-> epoch, log |-> {}, refused |-> {},
                   held |-> [s \in Seats |-> NoOne], winner |-> NoOne]
Idle == [pc |-> "idle", kind |-> "none", action |-> NoOne, version |-> 0,
         saved |-> NoOne]

\* What persist writes: exportReplay keeps accepted actions only.
Record == [seat |-> seat, runtime |-> [runtime EXCEPT !.refused = {}],
           series |-> series, archive |-> archive]

Init ==
    /\ seat = [s \in Seats |-> OpenSeat]
    /\ session = [i \in Sessions |-> NoSession]
    /\ runtime = NewGame(1)
    /\ \E p \in Policies :
          series = [policy |-> p, round |-> 1, status |-> "active",
                    scores |-> [s \in Seats |-> 0], votes |-> {}]
    /\ archive = <<>> /\ clock = FALSE /\ tick = FALSE /\ unattended = FALSE
    /\ version = 1 /\ op = Idle /\ late = Idle
    /\ store = [version |-> 1, record |-> Record]
    /\ answered = {} /\ faults = [count |-> 0, create |-> FALSE] /\ requests = 0
-----------------------------------------------------------------------------
(* What operations share.                                                  *)
Fault(f) ==
    /\ f \in Faults /\ faults.count < MaxFaults
    /\ faults' = [count |-> faults.count + 1, create |-> faults.create \/ f = "create"]
Request == requests < MaxRequests /\ requests' = requests + 1

Active == {"lobby", "running", "paused"}
Live(i) == session[i].state \in {"connected", "suspended"}
Attended == \E i \in Sessions : session[i].state = "connected"

\* end: a match that is over stays as it ended.
Ended(r, status) == IF r.status \in Active THEN [r EXCEPT !.status = status] ELSE r
\* Slip: a match whose write failed goes on without its clock.
NotHalted(r) == r

\* What persist does to the runtime when the write fails.
Halted(r) == IF r.status = "running" THEN [r EXCEPT !.status = "paused"] ELSE r

\* persist, up to its await; stated last, when the record is determined.
Saving(kind, action) ==
    [pc |-> "save", kind |-> kind, action |-> action, version |-> version,
     saved |-> Record']
Save(kind, action) ==
    op' = Saving(kind, action) /\ UNCHANGED <<version, late, store>>

\* startClock after the runtime has changed.
StartClock == clock' = (Realtime /\ runtime'.status = "running")

\* Slip: the last round is not the last.
FinishedLate(ser, r) ==
    [ser EXCEPT !.status = IF ser.round > MaxRounds THEN "complete" ELSE "awaiting-restart"]

Scored(scores, w) == [s \in Seats |-> IF s = w THEN scores[s] + 1 ELSE scores[s]]

\* Slip: whoever finds the round over counts it.
FinishedTwice(ser, r) ==
    [ser EXCEPT !.scores = Scored(@, r.winner),
                !.status = IF ser.round >= MaxRounds THEN "complete"
                           ELSE "awaiting-restart"]

\* finishRound.
Finished(ser, r) ==
    IF ser.status # "active" THEN ser
    ELSE [ser EXCEPT
            !.scores = Scored(@, r.winner),
            !.status = IF ser.round >= MaxRounds THEN "complete" ELSE "awaiting-restart",
            !.votes = {}]

\* Slip: what a seat has to release is taken into the next round.
HoldsKept == seat

HoldsForgotten == [s \in Seats |-> [seat[s] EXCEPT !.hold = FALSE]]

\* advanceRound, up to the await of the new runtime; r and ser are those of
\* the round that is over.
Advance(kind, action, r, ser) ==
    /\ archive' = Append(archive, [log |-> r.log, winner |-> r.winner])
    /\ series' = [ser EXCEPT !.round = @ + 1, !.status = "active", !.votes = {}]
    /\ seat' = HoldsForgotten
    /\ runtime' = r /\ clock' = FALSE
    /\ op' = [Idle EXCEPT !.pc = "create", !.kind = kind, !.action = action]
    /\ UNCHANGED <<version, late, store>>

GoesOn(ser) == ser.status = "awaiting-restart" /\ ser.policy = "automatic"
-----------------------------------------------------------------------------
(* Seats.                                                                  *)
Filled(seats) ==
    LET taken == {s \in Seats : seats[s].status # "open"} IN
    IF LateJoin THEN Cardinality(taken) >= MinSeats ELSE taken = Seats

\* claimSeat; joinMatch takes the first open seat.  Asking again for a seat
\* one has is answered at once and changes nothing.
Claim(s, c) ==
    /\ op.pc = "idle" /\ Request
    /\ series.status # "complete"
    /\ \/ runtime.status = "lobby"
       \/ runtime.status = "running" /\ (LateJoin \/ seat[s].released)
    /\ seat[s].status = "open"
    /\ seat' = [seat EXCEPT ![s].who = c, ![s].status = "claimed", ![s].released = FALSE]
    /\ IF runtime.status = "lobby" /\ Filled(seat')
       THEN runtime' = [runtime EXCEPT !.status = "running"] /\ StartClock
       ELSE UNCHANGED <<runtime, clock>>
    /\ UNCHANGED <<session, series, archive, tick, unattended, answered, faults>>
    /\ Save("request", NoOne)

\* revokeSeatSessions: a new generation, and the seat's sessions are dropped.
SessionsRevoked(s) ==
    [i \in Sessions |-> IF Live(i) /\ session[i].seat = s
                        THEN [NoSession EXCEPT !.state = "gone"] ELSE session[i]]

\* releaseSeat and changeSeatController, after stopSeatInput: the seat goes
\* to c; an actor that was taken from it meanwhile does not come back.
Reassign(s, c) ==
    /\ session' = SessionsRevoked(s)
    /\ seat' = [seat EXCEPT ![s].who = IF @ = NoOne THEN NoOne ELSE c,
                            ![s].status = IF c = NoOne THEN "open" ELSE "claimed",
                            ![s].released = (c = NoOne) \/ @,
                            ![s].gen = @ + 1, ![s].hold = FALSE]
    /\ UNCHANGED <<runtime, series, archive, clock, tick, unattended, answered, faults>>
    /\ Save("request", NoOne)

\* stopSeatInput: a remembered release is submitted to a match that runs,
\* and awaited.
Handover(s, c) ==
    IF seat[s].hold /\ runtime.status = "running"
    THEN /\ runtime' = [runtime EXCEPT !.held[s] = NoOne]
         /\ op' = [Idle EXCEPT !.pc = "stop", !.action = <<s, c>>]
         /\ UNCHANGED <<seat, session, series, archive, clock, tick, unattended,
                        version, late, store, answered, faults>>
    ELSE Reassign(s, c)

Release(s) ==
    /\ op.pc = "idle" /\ Request
    /\ seat[s].who # NoOne
    /\ Handover(s, NoOne)

ChangeController(s, c) ==
    /\ op.pc = "idle" /\ Request
    /\ seat[s].who # NoOne /\ Actor(c) = Actor(seat[s].who)
    /\ series.status # "complete" /\ runtime.status \in {"lobby", "running"}
    /\ Handover(s, c)

InputHasStopped ==
    /\ op.pc = "stop" /\ Reassign(op.action[1], op.action[2])
    /\ UNCHANGED requests
-----------------------------------------------------------------------------
(* Sessions, outside exclusive.                                            *)
Elsewhere == UNCHANGED <<runtime, series, archive, clock, tick, unattended, disk,
                         answered, budget>>
At(s, states) == {i \in Sessions : session[i].seat = s /\ session[i].state \in states}

\* createSession: a ticket for the controller of the seat.
Mint(i, s) ==
    /\ i = Cardinality({j \in Sessions : session[j].state # "none"}) + 1
    /\ seat[s].who # NoOne
    /\ session' = [session EXCEPT
                     ![i] = [state |-> "minted", seat |-> s, who |-> seat[s].who,
                             gen |-> seat[s].gen, epoch |-> 0]]
    /\ Elsewhere /\ UNCHANGED seat

\* Slip: the generation of the ticket is not compared.
BoundToName(i) == seat[session[i].seat].who = session[i].who

\* connectWithTicket, once the ticket is redeemed: assertTicketBinding.
Bound(i) == LET s == session[i].seat IN
            seat[s].who = session[i].who /\ seat[s].gen = session[i].gen

Connect(i) ==
    /\ session[i].state = "minted"
    /\ IF Bound(i)
       THEN /\ session' = [session EXCEPT ![i].state = "connected",
                                          ![i].epoch = runtime.epoch]
            /\ seat' = [seat EXCEPT ![session[i].seat].status = "connected"]
       ELSE session' = [session EXCEPT ![i] = [NoSession EXCEPT !.state = "gone"]]
            /\ UNCHANGED seat
    /\ Elsewhere

\* Slip: the other sessions of the seat are not looked at.
SuspendSeat(i) ==
    /\ session[i].state = "connected"
    /\ session' = [session EXCEPT ![i].state = "suspended"]
    /\ seat' = [seat EXCEPT ![session[i].seat].status = "disconnected"]
    /\ Elsewhere

Suspend(i) ==
    LET s == session[i].seat IN
    /\ session[i].state = "connected"
    /\ session' = [session EXCEPT ![i].state = "suspended"]
    /\ seat' = IF At(s, {"connected"}) = {i}
               THEN [seat EXCEPT ![s].status = "disconnected"] ELSE seat
    /\ Elsewhere

Resume(i) ==
    /\ session[i].state = "suspended"
    /\ session' = [session EXCEPT ![i].state = "connected"]
    /\ seat' = [seat EXCEPT ![session[i].seat].status = "connected"]
    /\ Elsewhere

\* disconnectSession: the gateway gives up a session that did not resume.
Disconnect(i) ==
    LET s == session[i].seat IN
    /\ session[i].state = "suspended"
    /\ session' = [session EXCEPT ![i] = [NoSession EXCEPT !.state = "gone"]]
    /\ seat' = IF At(s, {"connected", "suspended"}) # {i} THEN seat
               ELSE IF LateJoin
                    THEN [seat EXCEPT ![s].who = NoOne, ![s].status = "open"]
                    ELSE [seat EXCEPT ![s].status = "disconnected"]
    /\ Elsewhere
-----------------------------------------------------------------------------
(* Actions of a session.                                                   *)
\* The end of an action or a tick after which the runtime is r.
Settle(kind, action, r, seats) ==
    LET ser == IF r.status = "completed" THEN Finished(series, r) ELSE series IN
    IF r.status = "completed" /\ GoesOn(ser)
    THEN Advance(kind, action, r, ser)
    ELSE /\ runtime' = r /\ series' = ser /\ seat' = seats
         /\ clock' = (clock /\ (kind = "tick" => r.status = "running"))
         /\ UNCHANGED archive
         /\ Save(kind, action)

\* The game after action a of kind k by the controller of seat s.
Played(a, s, k, w) ==
    [runtime EXCEPT
       !.log = @ \cup {a},
       !.held[s] = IF k = "hold" THEN seat[s].who ELSE IF k = "stop" THEN NoOne ELSE @,
       !.status = IF k = "win" THEN "completed" ELSE @,
       !.winner = IF k = "win" THEN w ELSE @]

\* Only the last accepted action can have left something to release.
Remembered(s, k) == [seat EXCEPT ![s].hold = (k = "hold")]

Submit(i, a, k, w) ==
    LET s == session[i].seat IN
    /\ op.pc = "idle" /\ session[i].state = "connected" /\ a[1] = s
    /\ a \notin runtime.log \cup runtime.refused
    /\ session[i].epoch = runtime.epoch /\ runtime.status = "running"
    /\ Settle("action", a, Played(a, s, k, w), Remembered(s, k))
    /\ UNCHANGED <<session, tick, unattended, answered, budget>>

\* An action is refused: a stale epoch, a match that does not run, a game
\* that finds it illegal.  The refusal is remembered.
Refuse(i, a) ==
    /\ op.pc = "idle" /\ session[i].state = "connected" /\ a[1] = session[i].seat
    /\ a \notin runtime.log \cup runtime.refused
    /\ runtime' = [runtime EXCEPT !.refused = @ \cup {a}]
    /\ UNCHANGED <<seat, session, series, archive, clock, tick, unattended, disk,
                   answered, budget>>

-----------------------------------------------------------------------------
(* The simulation clock.                                                   *)
TimerFires ==
    /\ clock /\ ~tick /\ tick' = TRUE
    /\ UNCHANGED <<match, session, clock, unattended, disk, answered, budget>>

\* The catch of a tick: the match fails, and this is saved outside exclusive.
TickFails(r) ==
    /\ late.pc = "idle"
    /\ runtime' = Ended(r, "failed") /\ clock' = FALSE /\ op' = Idle
    /\ UNCHANGED <<seat, series, archive>>
    /\ late' = Saving("late", NoOne)

TickEnd == tick /\ op.pc = "idle" /\ tick' = FALSE
TickFrame == UNCHANGED <<session, unattended, answered>>

TickGoesOn ==
    /\ TickEnd /\ runtime.status # "completed"
    /\ clock' = (clock /\ runtime.status = "running")
    /\ UNCHANGED match
    /\ \/ UNCHANGED disk
       \/ version < MaxVersion /\ Save("tick", NoOne)
    /\ UNCHANGED budget /\ TickFrame

TickFinishes(w) ==
    /\ TickEnd /\ runtime.status = "running"
    /\ Settle("tick", NoOne, [runtime EXCEPT !.status = "completed", !.winner = w], seat)
    /\ UNCHANGED budget /\ TickFrame

TickFindsEnd ==
    /\ TickEnd /\ runtime.status = "completed"
    /\ Settle("tick", NoOne, runtime, seat)
    /\ UNCHANGED budget /\ TickFrame

TickThrows ==
    /\ TickEnd /\ runtime.status = "running"
    /\ Fault("throw") /\ TickFails(runtime)
    /\ UNCHANGED <<version, store, requests>> /\ TickFrame
-----------------------------------------------------------------------------
(* Rounds.                                                                 *)
Players == {Actor(seat[s].who) : s \in {t \in Seats : seat[t].who # NoOne}}

RestartRound(a) ==
    /\ op.pc = "idle" /\ Request
    /\ series.status = "awaiting-restart" /\ series.policy # "automatic"
    /\ IF series.policy = "owner" THEN a = Owner ELSE a \in Players
    /\ LET votes == IF series.policy = "owner" THEN {} ELSE series.votes \cup {a} IN
       IF series.policy = "owner" \/ Players \subseteq votes
       THEN Advance("request", NoOne, runtime, series)
       ELSE /\ series' = [series EXCEPT !.votes = votes]
            /\ UNCHANGED <<seat, runtime, archive, clock>>
            /\ Save("request", NoOne)
    /\ UNCHANGED <<session, tick, unattended, answered, faults>>

\* advanceRound, from the new runtime to the save that follows it.
NextRound ==
    LET status(s) == IF seat[s].who = NoOne THEN "open"
                     ELSE IF At(s, {"connected"}) # {} THEN "connected" ELSE "claimed"
        starts == \A s \in Seats : seat[s].who # NoOne
    IN
    /\ op.pc = "create"
    /\ runtime' = [NewGame(runtime.epoch + 1) EXCEPT
                     !.status = IF starts THEN "running" ELSE "lobby"]
    /\ session' = [i \in Sessions |-> IF Live(i)
                     THEN [session[i] EXCEPT !.epoch = runtime.epoch + 1] ELSE session[i]]
    /\ seat' = [s \in Seats |-> [seat[s] EXCEPT !.status = status(s)]]
    /\ StartClock /\ unattended' = FALSE
    /\ UNCHANGED <<series, archive, tick, answered, budget>>
    /\ Save(op.kind, op.action)

\* The game's initialize throws.
NextRoundFails ==
    /\ op.pc = "create" /\ Fault("create")
    /\ IF op.kind = "tick" THEN TickFails(runtime)
       ELSE op' = Idle /\ UNCHANGED <<match, clock, late>>
    /\ UNCHANGED <<session, tick, unattended, version, store, answered, requests>>
-----------------------------------------------------------------------------
(* The end of a match.                                                     *)
End(status) ==
    /\ runtime' = Ended(runtime, status)
    /\ series' = [series EXCEPT !.status = "complete"]
    /\ clock' = FALSE
    /\ UNCHANGED <<seat, session, archive, tick, unattended, answered>>
    /\ Save("request", NoOne)

Abandon == op.pc = "idle" /\ Request /\ End("canceled") /\ UNCHANGED faults

\* startMaintenance: the sweep of every five seconds.
MaintainKeeps ==
    /\ op.pc = "idle" /\ runtime.status \in Active /\ Attended
    /\ unattended /\ unattended' = FALSE
    /\ UNCHANGED <<match, session, clock, tick, disk, answered, budget>>

\* Slip: the sweep overlooks paused matches.
MaintainPlayed ==
    /\ op.pc = "idle" /\ runtime.status \in {"lobby", "running"}
    /\ ~Attended /\ unattended
    /\ End("expired") /\ UNCHANGED budget

MaintainExpires ==
    /\ op.pc = "idle" /\ runtime.status \in Active
    /\ ~Attended /\ unattended
    /\ End("expired") /\ UNCHANGED budget

\* The sum of its running time has reached the maximum.
Overruns ==
    /\ op.pc = "idle" /\ runtime.status \in Active
    /\ Fault("overrun") /\ End("expired") /\ UNCHANGED requests

Wait ==
    /\ Idles /\ ~unattended /\ unattended' = TRUE
    /\ UNCHANGED <<match, session, clock, tick, disk, answered, budget>>
-----------------------------------------------------------------------------
(* The store (DurableMatchStore.save): a conditional write.                *)
Written(o) == store' = [version |-> o.version + 1, record |-> o.saved]

\* Slip: the write has no condition.
WriteAlwaysLands(o) ==
    /\ o.pc = "save" /\ UNCHANGED faults
    /\ Written(o) /\ version' = o.version + 1

\* Slip: a write that fails is taken for a write that lands.
WriteLandsOrNot(o) ==
    /\ o.pc = "save" /\ UNCHANGED faults
    /\ IF store.version = o.version THEN Written(o) ELSE UNCHANGED store
    /\ version' = o.version + 1

WriteLands(o) ==
    /\ o.pc = "save" /\ store.version = o.version
    /\ Written(o) /\ version' = o.version + 1 /\ UNCHANGED faults

\* A conflict, a failed write, or a write whose answer is lost.
WriteFails(o) ==
    /\ o.pc = "save" /\ UNCHANGED version
    /\ \/ store.version # o.version /\ UNCHANGED <<store, faults>>
       \/ Fault("write") /\ UNCHANGED store
       \/ store.version = o.version /\ Fault("answer") /\ Written(o)

SaveFrame == UNCHANGED <<session, tick, unattended, requests>>

Saved ==
    /\ WriteLands(op) /\ op' = Idle
    /\ answered' = IF op.kind = "action" THEN answered \cup {op.action} ELSE answered
    /\ UNCHANGED <<match, clock, late>> /\ SaveFrame

\* persist stops the clock and pauses the match; the operation throws.
SaveFails ==
    /\ WriteFails(op) /\ UNCHANGED answered /\ SaveFrame
    /\ IF op.kind = "tick" THEN TickFails(Halted(runtime))
       ELSE /\ op' = Idle /\ clock' = FALSE /\ runtime' = Halted(runtime)
            /\ UNCHANGED <<seat, series, archive, late>>

LateSaved ==
    /\ WriteLands(late) /\ late' = Idle
    /\ UNCHANGED <<match, clock, op, answered>> /\ SaveFrame

LateSaveFails ==
    /\ WriteFails(late) /\ late' = Idle
    /\ clock' = FALSE /\ runtime' = Halted(runtime)
    /\ UNCHANGED <<seat, series, archive, op, answered>> /\ SaveFrame
-----------------------------------------------------------------------------
(* Processes.                                                              *)
\* Another worker starts on the same store and saves the match under a new
\* epoch; this one goes on until its next write.
TakeOver ==
    /\ Fault("takeover")
    /\ store' = [version |-> store.version + 1,
                 record |-> [store.record EXCEPT !.runtime.epoch = @ + 1]]
    /\ UNCHANGED <<match, session, clock, tick, unattended, version, op, late, answered,
                   requests>>

\* The process is killed; LocalArcadePlatform.create restores the match from
\* the store and saves it.  Sessions and tickets do not survive.
Restart ==
    LET record == store.record IN
    /\ Fault("crash")
    /\ runtime' = [record.runtime EXCEPT !.epoch = @ + 1]
    /\ seat' = [s \in Seats |-> IF record.seat[s].status = "open" THEN record.seat[s]
                                ELSE [record.seat[s] EXCEPT !.status = "disconnected"]]
    /\ series' = record.series /\ archive' = record.archive
    /\ session' = [i \in Sessions |-> IF session[i].state = "none" THEN NoSession
                                      ELSE [NoSession EXCEPT !.state = "gone"]]
    /\ StartClock /\ tick' = FALSE /\ unattended' = FALSE
    /\ op' = Idle /\ late' = Idle
    /\ version' = store.version + 1
    /\ store' = [version |-> store.version + 1, record |-> Record']
    /\ UNCHANGED <<answered, requests>>
-----------------------------------------------------------------------------
Requests ==
    \/ \E s \in Seats, c \in Controllers : Claim(s, c) \/ ChangeController(s, c)
    \/ \E s \in Seats : Release(s)
    \/ \E a \in Actors : RestartRound(a)
    \/ Abandon
Sockets ==
    \/ \E i \in Sessions, s \in Seats : Mint(i, s)
    \/ \E i \in Sessions : Connect(i) \/ Suspend(i) \/ Resume(i) \/ Disconnect(i)
Play ==
    \E i \in Sessions, a \in Actions :
       \/ \E k \in Kinds : \E w \in (IF k = "win" THEN {a[1], NoOne} ELSE {NoOne}) :
             Submit(i, a, k, w)
       \/ Refuse(i, a)
Clock ==
    \/ TimerFires \/ TickGoesOn \/ TickFindsEnd \/ TickThrows
    \/ \E w \in Seats \cup {NoOne} : TickFinishes(w)
Continue == InputHasStopped \/ NextRound \/ Saved \/ SaveFails \/ LateSaved \/ LateSaveFails
Maintenance == MaintainKeeps \/ MaintainExpires

Next ==
    \/ Requests \/ Sockets \/ Play \/ Clock \/ Continue \/ Maintenance
    \/ NextRoundFails \/ Overruns \/ Wait \/ TakeOver \/ Restart

Spec == Init /\ [][Next]_vars

\* Awaits return, timers fire, and the queue of a match is first come, first
\* served.  Nothing is assumed of players.
Fairness == WF_vars(Continue) /\ WF_vars(Wait) /\ SF_vars(Maintenance)
-----------------------------------------------------------------------------
(* Types of the state.                                                     *)
Status == Active \cup {"completed", "canceled", "expired", "failed"}
SeatOf == [who : Controllers \cup {NoOne}, gen : 0..MaxRequests,
           status : {"open", "claimed", "connected", "disconnected"},
           released : BOOLEAN, hold : BOOLEAN]
RuntimeOf == [status : Status, epoch : Nat \ {0}, log : SUBSET Actions,
              refused : SUBSET Actions, held : [Seats -> Controllers \cup {NoOne}],
              winner : Seats \cup {NoOne}]
TypeOK ==
    /\ seat \in [Seats -> SeatOf]
    /\ runtime \in RuntimeOf
    /\ \A i \in Sessions :
          /\ session[i].state \in {"none", "minted", "connected", "suspended", "gone"}
          /\ Live(i) => session[i].seat \in Seats /\ session[i].who \in Controllers
    /\ series.round \in 1..MaxRounds
    /\ series.status \in {"active", "awaiting-restart", "complete"}
    /\ series.scores \in [Seats -> 0..MaxRounds] /\ series.votes \subseteq Actors
    /\ Len(archive) < MaxRounds
    /\ op.pc \in {"idle", "stop", "create", "save"} /\ late.pc \in {"idle", "save"}
    /\ version <= store.version
    /\ answered \subseteq Actions

(***************************************************************************)
(* Whoever can act through a session holds its seat: seats are released,   *)
(* handed over and taken again, tickets are redeemed late, and sessions    *)
(* come and go outside the queue, but no live session belongs to a former  *)
(* controller or to a former generation of its seat, and every one follows *)
(* its match into the next round (revokeSeatSessions, assertTicketBinding, *)
(* disconnectSession, advanceRound).                                       *)
(***************************************************************************)
SessionsHoldSeats ==
    \A i \in Sessions : Live(i) =>
        LET s == session[i].seat IN
        /\ seat[s].who = session[i].who /\ seat[s].gen = session[i].gen
        /\ op.pc # "create" => session[i].epoch = runtime.epoch

(***************************************************************************)
(* What a lobby shows is so: a seat is open exactly when nobody has it,    *)
(* and connected exactly when a session of it is, although seven handlers  *)
(* keep the status up to date each in its own way and some run while a     *)
(* round is being replaced.  Not so with held inputs and late joins        *)
(* together: a handoff that waits for an input to stop takes the seat even *)
(* if its player was given up meanwhile and the seat opened.               *)
(***************************************************************************)
SeatStatusIsTrue ==
    \A s \in Seats :
        /\ seat[s].status = "open" <=> seat[s].who = NoOne
        /\ seat[s].status = "connected" <=> At(s, {"connected"}) # {}

(***************************************************************************)
(* Each finished round is counted once and archived once, in memory and in *)
(* what is saved, whatever write fails and whenever the worker is started  *)
(* again (finishRound, advanceRound).  Not so once a game has refused to   *)
(* start its next round: advanceRound has changed the series before it     *)
(* awaits the runtime, and the round that is over is found again.          *)
(***************************************************************************)
Adds(rec) ==
    LET counted == IF rec.series.status # "active" /\ rec.runtime.status = "completed"
                   THEN Append(rec.archive, [winner |-> rec.runtime.winner])
                   ELSE rec.archive
    IN
    /\ Len(rec.archive) = rec.series.round - 1
    /\ \A s \in Seats : rec.series.scores[s] =
          Cardinality({r \in 1..Len(counted) : counted[r].winner = s})
RoundsAddUp == ~faults.create => Adds(Record) /\ Adds(store.record)

(***************************************************************************)
(* A running realtime match has its clock when the queue is empty, after   *)
(* any sequence of starts, finishes, rounds, failed writes and restarts    *)
(* (startClock, stopClock, persist): without it the game stands still.     *)
(***************************************************************************)
ClockRuns == Realtime /\ op.pc = "idle" /\ runtime.status = "running" => clock

(***************************************************************************)
(* An action answered "accepted" is in the saved record from then on: no   *)
(* failed write, lost answer, restart or other worker undoes it            *)
(* (submitActionInternal, persist, LocalArcadePlatform.create).            *)
(***************************************************************************)
SavedActions == store.record.runtime.log \cup
                UNION {store.record.archive[r].log : r \in 1..Len(store.record.archive)}
AnsweredIsSaved == answered \subseteq SavedActions

(* The record of a match makes sense whatever fails.                       *)
RecordMakesSense == TypeOK /\ RoundsAddUp /\ ClockRuns /\ AnsweredIsSaved

(***************************************************************************)
(* The saved match only goes forward: no write of a worker that was        *)
(* replaced, of a failed tick or after a restart drops a round or an       *)
(* action of the current one (persist, recordVersion).                     *)
(***************************************************************************)
SavedGoesForward ==
    [][LET old == store.record
           new == store'.record
       IN  /\ new.runtime.epoch >= old.runtime.epoch
           /\ \/ new.series.round > old.series.round
              \/ /\ new.series.round = old.series.round
                 /\ old.runtime.log \subseteq new.runtime.log]_store

(***************************************************************************)
(* The release that a seat remembers belongs to its present controller and *)
(* to an input that is still on, across handoffs, rounds and restarts      *)
(* (heldReleaseAction in submitActionInternal, stopSeatInput, advanceRound)*)
(* With late joins a disconnect leaves it to whoever comes next.           *)
(***************************************************************************)
HoldIsCurrent ==
    \A s \in Seats : seat[s].hold /\ op.pc # "stop" /\ ~LateJoin
                     => runtime.held[s] = seat[s].who /\ seat[s].who # NoOne

(***************************************************************************)
(* A held input belongs to a player who is there: it is stopped when its   *)
(* controller hands the seat over, and when the last session of the seat   *)
(* is given up.                                                            *)
(***************************************************************************)
InputIsReleased ==
    \A s \in Seats :
        op.pc = "idle" /\ runtime.status = "running" /\ runtime.held[s] # NoOne
        => runtime.held[s] = seat[s].who /\ At(s, {"connected", "suspended"}) # {}

(***************************************************************************)
(* A match nobody is connected to ends, whatever state it was left in      *)
(* (startMaintenance): lobbies, running and paused matches do not stay.    *)
(***************************************************************************)
UnattendedEnds == ~Attended /\ runtime.status \in Active
                  ~> Attended \/ runtime.status \notin Active
=============================================================================
