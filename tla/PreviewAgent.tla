---------------------------- MODULE PreviewAgent ----------------------------
(***************************************************************************)
(* Agents that play a preview: the studio page (use-preview-agents.ts),    *)
(* the runtime in the preview's frame (preview-agent-runtime.ts), the      *)
(* messages between them in order, and the game, whose step may answer     *)
(* with a promise that is kept later, after a pause or a new strategy.     *)
(*                                                                         *)
(* Time is left out: a decision or a renewal may be due at any frame, and  *)
(* the frame may stop by its budget, the end of the game or an error.  The *)
(* game carries a release out at once, or not: it does not offer it any    *)
(* more, or refuses it.  MaxMail bounds the messages on their way to the   *)
(* frame: with one, the page sends nothing before the last has arrived.    *)
(***************************************************************************)
EXTENDS Naturals, Sequences, FiniteSets

CONSTANTS Seats,       \* the agents' seats
          Holds,       \* actions that the game goes on with until a release
          Pulses,      \* those of them that have to be renewed
          MaxEpochs, MaxStrategy, MaxMail, \* bounds: starts, strategies, messages,
          MaxPromises, \* open promises, and
          MaxTroubles  \* refused steps and stops of the frame's own

PreviewAssumption == Pulses \subseteq Holds /\ {MaxEpochs, MaxStrategy, MaxMail, MaxPromises, MaxTroubles} \subseteq Nat

VARIABLES
    page,     \* epoch, active, acknowledged, finished
    wanted,   \* strategyEpoch of each seat's controller on the page
    told,     \* strategies that the page calls active
    mail,     \* to the frame
    post,     \* to the page, those that it will still listen to
    frame,    \* the epoch of the runtime's config, 0 without one
    seats,    \* its seats: strategy, awaiting, held
    steps,    \* promises of the game that are not kept yet
    input,    \* what the game goes on with for each seat (external)
    accepted, \* ghost: strategies under which the game accepted a step
    crossed,  \* ghost: seats started anew while such a promise was open
    astray,   \* ghost: seats that may go on with what the runtime has forgotten: it let go
              \* while a promise was open, or the game did not carry its release out
    upsets    \* refused steps and stops of the frame's own

vars == <<page, wanted, told, mail, post, frame, seats, steps, input, accepted, crossed, astray, upsets>>

None == [action |-> "none", by |-> 0]
Once == "once"
NewSeat(strategy) == [strategy |-> strategy, awaiting |-> 0, held |-> None]

Init ==
    /\ page = [epoch |-> 0, active |-> FALSE, acknowledged |-> FALSE, finished |-> FALSE]
    /\ wanted = [s \in Seats |-> 0] /\ told = {}
    /\ mail = <<>> /\ post = <<>>
    /\ frame = 0 /\ seats = [s \in Seats |-> NewSeat(0)]
    /\ steps = {} /\ input = [s \in Seats |-> None]
    /\ accepted = {} /\ crossed = {} /\ astray = {} /\ upsets = 0

Page == <<page, wanted, told, mail>>
Game == <<steps, input, accepted>>
Start(epoch, strategies) == [type |-> "start", epoch |-> epoch, strategies |-> strategies]
\* The page listens to its own epoch's messages as long as it is active.
Posted(messages) == 
    IF page.active THEN post \o SelectSeq(messages, LAMBDA m : m.epoch = page.epoch) ELSE post
Message(type) == [type |-> type, epoch |-> frame]
\* A promise is open under an id.  It is `pending` as long as the seat's own
\* record is in use, and `current` in the generation, of the runtime and of
\* the seat, that it was made in.
Pending(s) == \E t \in steps : t.seat = s /\ t.pending
Outdated(these, gone) ==
    {IF t.seat \in these THEN [t EXCEPT !.current = FALSE, !.pending = @ /\ ~gone] ELSE t : t \in steps}
-----------------------------------------------------------------------------
(* The page                                                                 *)
Tell(m) == Len(mail) < MaxMail /\ mail' = Append(mail, m)

PageStarts ==
    /\ ~page.active /\ page.epoch < MaxEpochs
    /\ page' = [epoch |-> page.epoch + 1, active |-> TRUE, acknowledged |-> FALSE, finished |-> FALSE]
    /\ Tell(Start(page.epoch + 1, wanted)) /\ post' = <<>>
    /\ UNCHANGED <<wanted, told, frame, seats, Game, crossed, astray, upsets>>

\* The interval repeats a start that was not acknowledged.
PageRepeats ==
    /\ page.active /\ ~page.acknowledged /\ ~page.finished
    /\ Tell(Start(page.epoch, wanted))
    /\ UNCHANGED <<page, wanted, told, post, frame, seats, Game, crossed, astray, upsets>>

\* A coach has answered with the next strategy of a seat.
PageCoached(s) ==
    /\ wanted[s] < MaxStrategy /\ wanted' = [wanted EXCEPT ![s] = @ + 1]
    /\ IF page.active THEN Tell(Start(page.epoch, wanted')) ELSE UNCHANGED mail
    /\ UNCHANGED <<page, told, post, frame, seats, Game, crossed, astray, upsets>>

PageStops ==
    /\ page.active /\ page' = [page EXCEPT !.active = FALSE]
    /\ Tell([type |-> "stop"]) /\ post' = <<>>
    /\ UNCHANGED <<wanted, told, frame, seats, Game, crossed, astray, upsets>>

PageReceives ==
    /\ post # <<>> /\ post' = Tail(post)
    /\ LET m == Head(post)
       IN  /\ page' = [page EXCEPT !.acknowledged = @ \/ m.type = "started",
                                   !.finished = @ \/ m.type = "stopped"]
           /\ told' = IF m.type = "applied"
                      THEN told \cup {[seat |-> m.seat, strategy |-> m.strategy]} ELSE told
    /\ UNCHANGED <<wanted, mail, frame, seats, Game, crossed, astray, upsets>>
-----------------------------------------------------------------------------
(* The frame                                                                *)
HeldBy(s) == seats[s].held

\* release, of the seats in `given`: the runtime forgets what it holds in any
\* case, the game drops it for those that it `lets` go.
Released(given, lets) == {s \in given \cap lets : HeldBy(s) # None}
Dropped(given, lets) == [s \in Seats |-> IF s \in Released(given, lets) THEN None ELSE input[s]]
Left(given, lets) ==
    (astray \ Released(given, lets)) \cup {s \in given \ lets : HeldBy(s) # None /\ input[s] # None}

\* stop
Halt ==
    /\ frame' = 0 /\ steps' = Outdated(Seats, TRUE)
    /\ seats' = [s \in Seats |-> [seats[s] EXCEPT !.held = None]]
    /\ \E lets \in SUBSET Seats : input' = Dropped(Seats, lets) /\ astray' = Left(Seats, lets)
    /\ post' = IF frame = 0 THEN post ELSE Posted(<<Message("stopped")>>)

FrameStops ==
    /\ mail # <<>> /\ Head(mail).type = "stop" /\ mail' = Tail(mail)
    /\ Halt
    /\ UNCHANGED <<page, wanted, told, accepted, crossed, upsets>>

\* The end of the game or of the budget, a hidden page, an error.
FrameGivesUp ==
    /\ frame # 0 /\ upsets < MaxTroubles /\ upsets' = upsets + 1
    /\ Halt
    /\ UNCHANGED <<Page, accepted, crossed>>

\* Slip: only a lease of another start ends.
LeaseOfAnotherEnds ==
    /\ frame # 0 /\ page.epoch # frame
    /\ Halt
    /\ UNCHANGED <<Page, accepted, crossed, upsets>>

\* Three seconds without a heartbeat, which nobody sends any more.
LeaseEnds ==
    /\ frame # 0 /\ (~page.active \/ page.finished \/ page.epoch # frame)
    /\ Halt
    /\ UNCHANGED <<Page, accepted, crossed, upsets>>

\* Slip: a new strategy takes the seat, and what it holds stays.
FrameStartsHolding ==
    LET m == Head(mail) IN
    /\ mail # <<>> /\ m.type = "start" /\ mail' = Tail(mail) /\ Len(post) < MaxMail
    /\ frame' = m.epoch
    /\ seats' = [s \in Seats |->
          IF m.epoch # frame THEN NewSeat(m.strategies[s])
          ELSE [seats[s] EXCEPT !.strategy = m.strategies[s], !.awaiting = m.strategies[s]]]
    /\ post' = Posted(<<[type |-> "started", epoch |-> m.epoch]>>)
    /\ UNCHANGED <<page, wanted, told, Game, crossed, astray, upsets>>

\* Slip: a start of the epoch that is being played is a repetition.
FrameStartsOnce ==
    LET m == Head(mail) IN
    /\ mail # <<>> /\ m.type = "start" /\ mail' = Tail(mail) /\ Len(post) < MaxMail
    /\ frame' = m.epoch
    /\ steps' = IF m.epoch = frame THEN steps ELSE Outdated(Seats, TRUE)
    /\ seats' = IF m.epoch = frame THEN seats ELSE [s \in Seats |-> NewSeat(m.strategies[s])]
    /\ input' = IF m.epoch = frame THEN input ELSE Dropped(Seats, Seats)
    /\ post' = Posted(<<[type |-> "started", epoch |-> m.epoch]>>)
    /\ UNCHANGED <<page, wanted, told, accepted, crossed, astray, upsets>>

\* start: another epoch begins with new seats, and the same one gets the
\* strategies that are newer.
FrameStarts ==
    LET m == Head(mail)
        anew == m.epoch # frame
        replaced == IF anew THEN Seats ELSE {s \in Seats : m.strategies[s] > seats[s].strategy}
        started == [type |-> "started", epoch |-> m.epoch]
    IN  /\ mail # <<>> /\ m.type = "start" /\ mail' = Tail(mail) /\ Len(post) < MaxMail
        /\ frame' = m.epoch /\ steps' = Outdated(replaced, anew)
        /\ seats' = [s \in Seats |->
              IF anew THEN NewSeat(m.strategies[s])
              ELSE IF s \notin replaced THEN seats[s]
              ELSE [strategy |-> m.strategies[s], awaiting |-> m.strategies[s], held |-> None]]
        /\ \E lets \in SUBSET Seats : input' = Dropped(replaced, lets) /\ astray' = Left(replaced, lets)
        /\ post' = Posted((IF anew /\ frame # 0 THEN <<Message("stopped")>> ELSE <<>>) \o <<started>>)
        /\ crossed' = IF anew THEN crossed \cup {t.seat : t \in steps} ELSE crossed
    /\ UNCHANGED <<page, wanted, told, accepted, upsets>>

\* strategyApplied
Applied(s) ==
    IF seats[s].awaiting = 0 THEN <<>>
    ELSE <<[type |-> "applied", epoch |-> frame, seat |-> s, strategy |-> seats[s].awaiting]>>
Kept(s) == accepted \cup {[seat |-> s, strategy |-> seats[s].strategy]}

\* apply, after the runtime has noted what it will hold: the game answers at
\* once, or promises to.  It may have taken the input when it promises.
Apply(s, held, dropped, left) ==
    LET does == IF held = None THEN dropped ELSE [dropped EXCEPT ![s] = held]
        free == (1..MaxPromises) \ {t.id : t \in steps}
        promise == [id |-> CHOOSE i \in free : TRUE, seat |-> s, held |-> held,
                    pending |-> TRUE, current |-> TRUE]
    IN  \/ /\ input' = does /\ accepted' = Kept(s) /\ post' = Posted(Applied(s))
           /\ seats' = [seats EXCEPT ![s].held = held, ![s].awaiting = 0]
           /\ astray' = IF held = None THEN left ELSE left \ {s}
           /\ UNCHANGED steps
        \/ /\ free # {} /\ input' \in {does, dropped} /\ steps' = steps \cup {promise}
           /\ seats' = [seats EXCEPT ![s].held = held] /\ astray' = left
           /\ UNCHANGED <<accepted, post>>

\* Slip: the next decision does not wait for the promise of the last.
DecideAgain(s) ==
    /\ frame # 0 /\ Len(post) < MaxMail
    /\ Apply(s, None, Dropped({s}, {s}), astray)
    /\ UNCHANGED <<Page, frame, crossed, upsets>>

\* The part of one seat in tick: a decision is due.
Decide(s) ==
    /\ frame # 0 /\ ~Pending(s) /\ Len(post) < MaxMail
    /\ \E action \in Holds \cup {Once}, lets \in SUBSET {s} :
          LET held == IF action = Once THEN None ELSE [action |-> action, by |-> seats[s].strategy]
              changed == HeldBy(s).action # action
          IN  IF changed THEN Apply(s, held, Dropped({s}, lets), Left({s}, lets))
              ELSE IF action \in Pulses THEN Apply(s, held, input, astray)
              ELSE UNCHANGED <<seats, input, steps, accepted, post, astray>>
    /\ UNCHANGED <<Page, frame, crossed, upsets>>

\* A pulse is renewed between decisions.
Renew(s) ==
    /\ frame # 0 /\ ~Pending(s) /\ HeldBy(s).action \in Pulses /\ Len(post) < MaxMail
    /\ Apply(s, HeldBy(s), input, astray)
    /\ UNCHANGED <<Page, frame, crossed, upsets>>

\* No legal action is left, or the seat's phase does not let it act.
LetGo(s) ==
    /\ frame # 0 /\ HeldBy(s) # None /\ seats' = [seats EXCEPT ![s].held = None]
    /\ \E lets \in SUBSET {s} :
          input' = Dropped({s}, lets) /\ astray' = Left({s}, lets)
    /\ UNCHANGED <<Page, post, frame, steps, accepted, crossed, upsets>>

\* Slip: whoever made it, the step counts.
ResolveAnyway(t) ==
    /\ steps' = steps \ {t}
    /\ input' = IF t.held = None THEN input ELSE [input EXCEPT ![t.seat] = t.held]
    /\ accepted' = accepted /\ post' = Posted(Applied(t.seat))
    /\ seats' = [seats EXCEPT ![t.seat].awaiting = 0]
    /\ UNCHANGED <<Page, frame, crossed, astray, upsets>>

\* A promise is kept.  One of an earlier generation, or of an earlier
\* strategy, is released again.
Resolve(t) ==
    LET s == t.seat
        done == IF t.held = None THEN input ELSE [input EXCEPT ![s] = t.held]
    IN  /\ steps' = steps \ {t}
        /\ \/ /\ t.current /\ input' = done /\ accepted' = Kept(s) /\ post' = Posted(Applied(s))
              /\ seats' = [seats EXCEPT ![s].awaiting = 0]
              /\ astray' = IF t.held = None THEN astray
                            ELSE IF HeldBy(s) = t.held THEN astray \ {s} ELSE astray \cup {s}
           \/ /\ ~t.current /\ t.held # None
              /\ \/ input' = [done EXCEPT ![s] = None] /\ astray' = astray \ {s}
                 \/ input' = done /\ astray' = astray \cup {s}
              /\ UNCHANGED <<accepted, post, seats>>
           \/ ~t.current /\ t.held = None /\ UNCHANGED <<input, accepted, post, seats, astray>>
        /\ UNCHANGED <<Page, frame, crossed, upsets>>

\* Slip: a broken promise is passed over.
RefuseQuietly(t) ==
    /\ upsets < MaxTroubles /\ upsets' = upsets + 1
    /\ steps' = steps \ {t}
    /\ UNCHANGED <<Page, frame, seats, input, post, accepted, crossed, astray>>

\* A promise is broken, or kept with a refusal.
Refuse(t) ==
    /\ upsets < MaxTroubles /\ upsets' = upsets + 1
    /\ IF t.current
       THEN /\ frame' = 0 /\ steps' = Outdated(Seats, TRUE) \ {[t EXCEPT !.current = FALSE, !.pending = FALSE]}
            /\ seats' = [s \in Seats |-> [seats[s] EXCEPT !.held = None]]
            /\ \E lets \in SUBSET Seats : input' = Dropped(Seats, lets) /\ astray' = Left(Seats, lets)
            /\ post' = Posted(<<Message("stopped")>>)
       ELSE steps' = steps \ {t} /\ UNCHANGED <<frame, seats, input, post, astray>>
    /\ UNCHANGED <<Page, accepted, crossed>>
-----------------------------------------------------------------------------
Next ==
    \/ PageStarts \/ PageRepeats \/ PageStops \/ PageReceives
    \/ FrameStops \/ FrameStarts \/ FrameGivesUp \/ LeaseEnds
    \/ \E s \in Seats : PageCoached(s) \/ Decide(s) \/ Renew(s) \/ LetGo(s)
    \/ \E t \in steps : Resolve(t) \/ Refuse(t)

Spec == Init /\ [][Next]_vars

\* The frame's interval goes on, and sees the end of the lease.  Nothing is
\* assumed of the messages.
Fairness == WF_vars(LeaseEnds)
FairSpec == Spec /\ Fairness
-----------------------------------------------------------------------------
TypeOK ==
    /\ frame \in 0..page.epoch /\ page.epoch <= MaxEpochs
    /\ \A s \in Seats : seats[s].awaiting \in {0, seats[s].strategy} /\ seats[s].strategy <= wanted[s]
    /\ \A s \in Seats : Cardinality({t \in steps : t.seat = s /\ t.pending}) <= 1

(* A stopped runtime leaves no key down: once the promises of the game are  *)
(* settled, whatever became of them, it goes on with nothing.  Excepted are *)
(* seats that have gone astray: they were let go of while the promise of    *)
(* what they held was open, or the game did not carry their release out,    *)
(* and it has taken nothing else from them since.                           *)
NothingHeldWhenStopped ==
    frame = 0 /\ steps = {} => \A s \in Seats \ astray : input[s] = None

(* The game goes on with nothing but what the runtime holds for the seat,   *)
(* chosen under the strategy that is in force; an older strategy's input    *)
(* does not outlive it, unless the seat has gone astray.                    *)
InputIsCurrent ==
    \A s \in Seats \ astray : (\A t \in steps : t.seat # s) /\ input[s] # None =>
        /\ frame # 0 /\ input[s] = HeldBy(s)
        /\ input[s].by = seats[s].strategy

(* What the runtime believes it holds, the game goes on with; a seat that   *)
(* was started anew while a promise was open is excepted.                   *)
HeldIsApplied ==
    \A s \in Seats \ crossed :
        HeldBy(s) # None /\ (\A t \in steps : t.seat # s) => input[s] = HeldBy(s)

(* A strategy is reported as active when the game has accepted an action    *)
(* that was chosen under it, and not before.                                *)
ActiveIsTrue == told \subseteq accepted

(* When every message has arrived, the frame plays what the page shows.     *)
InstalledIsWanted ==
    mail = <<>> /\ page.active /\ frame = page.epoch =>
        \A s \in Seats : seats[s].strategy = wanted[s]

(* A page that has stopped leaves nothing running, even if the frame never  *)
(* gets to its stop: nobody renews the lease.                               *)
StoppedForGood == ~page.active ~> page.active \/ frame = 0
=============================================================================
