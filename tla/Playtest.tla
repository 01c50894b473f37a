------------------------------ MODULE Playtest ------------------------------
(***************************************************************************)
(* One browser playtest of the studio (control-api/browser-tests.ts): its  *)
(* record, with the step, the strategy of an agent's seat and the lock of  *)
(* a decision in progress, and the log of its decisions.  A decision asks  *)
(* a model and may take minutes, while others are asked for, the agent is  *)
(* coached or gets a new strategy.  Requests interleave at every call of   *)
(* the store and may stop between any two.                                 *)
(*                                                                         *)
(* One seat; observations of a step are the same in every request for it   *)
(* (another one is refused); what an action or a strategy is stays open.   *)
(***************************************************************************)
EXTENDS DocumentStore, FiniteSets

CONSTANTS Deciders, Coaches,
          MaxSteps,    \* bound on the steps of the playtest
          MaxRequests, \* bound on the requests made
          MaxCrashes   \* bound on the requests cut off

PlaytestBounds == {MaxSteps, MaxRequests, MaxCrashes} \subseteq Nat

VARIABLES
    run,      \* browser-runs: version, step, epoch, coaching, lock, last event
    log,      \* browser-events: the decisions by step
    strategies, \* browser-strategy-events: the epochs that were set by somebody
    lapsed,   \* requests whose lock is older than its two minutes
    decide,   \* requests for a decision: what they have read and decided
    coach,    \* requests to coach the agent or give it a strategy
    asked,    \* requests made, which numbers them
    cutOff,   \* requests that were cut off
    answers,  \* history: the answers given, by step
    word      \* history: the last coaching or strategy that was accepted

vars == <<run, log, strategies, lapsed, decide, coach, asked, cutOff, answers, word>>

NoEvent == [step |-> MaxSteps, epoch |-> 0, by |-> 0]
NoRun == [version |-> 0, step |-> 0, epoch |-> 0, coaching |-> 0, lock |-> 0, last |-> NoEvent]
Started == [NoRun EXCEPT !.version = 1, !.epoch = 1]
Free == [pc |-> "idle", id |-> 0, step |-> 0, seen |-> NoRun, event |-> NoEvent, adapts |-> FALSE]
Quiet == [pc |-> "idle", id |-> 0, seen |-> NoRun]

Init ==
    /\ run = Started /\ log = {} /\ strategies = {} /\ lapsed = {}
    /\ decide = [d \in Deciders |-> Free] /\ coach = [c \in Coaches |-> Quiet]
    /\ asked = 0 /\ cutOff = 0 /\ answers = {} /\ word = 0

Locked(r) == r.lock # 0 /\ r.lock \notin lapsed
Logged(step) == {e \in log : e.step = step}
-----------------------------------------------------------------------------
(* POST .../decide                                                          *)
Deciding(d, pc) == decide[d].pc = pc
Turn(d, s) == decide' = [decide EXCEPT ![d] = s]
Stored == <<run, log, strategies>>
Around == <<lapsed, coach, asked, cutOff, word>>
Refuse(d) == Turn(d, Free) /\ UNCHANGED <<Stored, Around, answers>>
Reply(d, event) == Turn(d, Free) /\ answers' = answers \cup {event}

DecideRead(d, step) ==
    /\ Deciding(d, "idle") /\ asked < MaxRequests /\ asked' = asked + 1
    /\ Turn(d, [Free EXCEPT !.pc = "look", !.id = asked', !.step = step, !.seen = run])
    /\ UNCHANGED <<Stored, lapsed, coach, cutOff, answers, word>>

\* A step that was decided is answered from the record or the log: "The run CAS
\* is the commit record."
Previous(q) ==
    IF q.step >= q.seen.step THEN {}
    ELSE IF q.seen.last.step = q.step THEN {q.seen.last} ELSE Logged(q.step)

DecideLook(d) ==
    LET q == decide[d] IN
    /\ Deciding(d, "look")
    /\ \/ \E e \in Previous(q) : Reply(d, e) /\ UNCHANGED <<Stored, Around>>
       \/ /\ Previous(q) = {} /\ (q.step # q.seen.step \/ Locked(q.seen))
          /\ Refuse(d)
       \/ /\ Previous(q) = {} /\ q.step = q.seen.step /\ ~Locked(q.seen)
          /\ Turn(d, [q EXCEPT !.pc = "lock"]) /\ UNCHANGED <<Stored, Around, answers>>

DecideLock(d) ==
    LET q == decide[d] IN
    /\ Deciding(d, "lock")
    /\ \/ /\ Unchanged(run, q.seen)
          /\ run' = [Updated(q.seen) EXCEPT !.lock = q.id]
          /\ Turn(d, [q EXCEPT !.pc = "think"])
          /\ UNCHANGED <<log, strategies, Around, answers>>
       \/ ~Unchanged(run, q.seen) /\ Refuse(d)

\* The model, the policy or a person chooses; feedback may change the strategy.
\* The record that is read then must be the one that was locked, with the strategy.
Held(q) == run.version = q.seen.version + 1 /\ run.epoch = q.seen.epoch
\* Slip: the decision is logged when it is made.
DecideThinkLogged(d, adapts) ==
    LET q == decide[d]
        event == [step |-> q.step, epoch |-> q.seen.epoch, by |-> q.id]
    IN  /\ Deciding(d, "think") /\ Held(q) /\ Logged(q.step) = {} /\ log' = log \cup {event}
        /\ Turn(d, [q EXCEPT !.pc = "commit", !.event = event, !.adapts = adapts])
        /\ UNCHANGED <<run, strategies, Around, answers>>

DecideThink(d, adapts) ==
    LET q == decide[d] IN
    /\ Deciding(d, "think")
    /\ Turn(d, IF Held(q)
               THEN [q EXCEPT !.pc = "commit", !.adapts = adapts,
                       !.event = [step |-> q.step, epoch |-> q.seen.epoch, by |-> q.id]]
               ELSE [q EXCEPT !.pc = "release"])
    /\ UNCHANGED <<Stored, Around, answers>>

DecideFails(d) ==
    /\ Deciding(d, "think") /\ Turn(d, [decide[d] EXCEPT !.pc = "release"])
    /\ UNCHANGED <<Stored, Around, answers>>

\* The record before the lock, with the decision, two versions later.
Decided(q) == [q.seen EXCEPT !.version = @ + 2, !.step = @ + 1, !.lock = 0, !.last = q.event,
                             !.epoch = IF q.adapts THEN @ + 1 ELSE @]
\* Slip: the decision is put over the record as it is by now.
DecideCommitOver(d) ==
    LET q == decide[d] IN
    /\ Deciding(d, "commit")
    /\ run' = [run EXCEPT !.version = @ + 1, !.step = q.step + 1, !.lock = 0, !.last = q.event]
    /\ Turn(d, [q EXCEPT !.pc = "log"])
    /\ UNCHANGED <<log, strategies, Around, answers>>

DecideCommit(d) ==
    LET q == decide[d] IN
    /\ Deciding(d, "commit")
    /\ \/ /\ run.version = q.seen.version + 1
          /\ run' = Decided(q) /\ Turn(d, [q EXCEPT !.pc = "log"])
       \/ /\ run.version # q.seen.version + 1
          /\ Turn(d, [q EXCEPT !.pc = "release"]) /\ UNCHANGED run
    /\ UNCHANGED <<log, strategies, Around, answers>>

DecideLog(d) ==
    LET q == decide[d] IN
    /\ Deciding(d, "log") /\ Logged(q.step) = {}
    /\ log' = log \cup {q.event} /\ Reply(d, q.event)
    /\ UNCHANGED <<run, strategies, Around>>

\* Slip: whatever lock is there is taken off.
DecideReleaseAny(d) ==
    /\ Deciding(d, "release")
    /\ Turn(d, [decide[d] EXCEPT !.pc = "unlock", !.seen = run])
    /\ UNCHANGED <<Stored, Around, answers>>

\* After an error the lock is taken off if it is this request's own.
DecideRelease(d) ==
    LET q == decide[d] IN
    /\ Deciding(d, "release")
    /\ \/ run.lock # q.id /\ Refuse(d)
       \/ run.lock = q.id /\ Turn(d, [q EXCEPT !.pc = "unlock", !.seen = run])
                          /\ UNCHANGED <<Stored, Around, answers>>
DecideUnlock(d) ==
    LET q == decide[d] IN
    /\ Deciding(d, "unlock")
    /\ run' = IF Unchanged(run, q.seen) THEN [Updated(q.seen) EXCEPT !.lock = 0] ELSE run
    /\ Turn(d, Free) /\ UNCHANGED <<log, strategies, Around, answers>>

-----------------------------------------------------------------------------
(* POST .../controllers/:seatId/coach and .../strategy                      *)
Coaching(c, pc) == coach[c].pc = pc
Plan(c, s) == coach' = [coach EXCEPT ![c] = s]
Aside == <<lapsed, decide, cutOff, answers>>
GiveUp(c) == Plan(c, Quiet) /\ UNCHANGED <<Stored, Aside, asked, word>>

CoachRead(c, pc) ==
    /\ Coaching(c, "idle") /\ asked < MaxRequests /\ asked' = asked + 1
    /\ Plan(c, [Quiet EXCEPT !.pc = pc, !.id = asked', !.seen = run])
    /\ UNCHANGED <<Stored, Aside, word>>

\* The coaching is announced in the record before its plan is asked for.
CoachAnnounce(c) ==
    LET q == coach[c] IN
    /\ Coaching(c, "announce")
    /\ \/ /\ Unchanged(run, q.seen)
          /\ run' = [Updated(q.seen) EXCEPT !.coaching = q.id] /\ word' = q.id
          /\ Plan(c, [q EXCEPT !.pc = "plan"])
          /\ UNCHANGED <<log, strategies, Aside, asked>>
       \/ ~Unchanged(run, q.seen) /\ GiveUp(c)

\* Slip: it is not asked whether the coaching is still wanted.
CoachPlannedAnyway(c) ==
    /\ Coaching(c, "plan") /\ Plan(c, [coach[c] EXCEPT !.pc = "adopt", !.seen = run])
    /\ UNCHANGED <<Stored, Aside, asked, word>>

\* The plan has come, and the record is read again.
CoachPlanned(c) ==
    LET q == coach[c] IN
    /\ Coaching(c, "plan")
    /\ \/ /\ run.coaching = q.id /\ Plan(c, [q EXCEPT !.pc = "adopt", !.seen = run])
          /\ UNCHANGED <<Stored, Aside, asked, word>>
       \/ run.coaching # q.id /\ GiveUp(c)

CoachFails(c) == Coaching(c, "plan") /\ GiveUp(c)

\* Slip: the epoch stays, so that nobody can tell the strategy is another.
InstructedQuietly(r) == [r EXCEPT !.coaching = 0, !.lock = 0]

\* A new strategy begins an epoch, and frees the seat of a decision in progress.
Instructed(r) == [Updated(r) EXCEPT !.epoch = @ + 1, !.coaching = 0, !.lock = 0]

Adopt(c) ==
    LET q == coach[c] IN
    /\ Coaching(c, "adopt")
    /\ \/ /\ Unchanged(run, q.seen)
          /\ run' = Instructed(q.seen) /\ Plan(c, [q EXCEPT !.pc = "record", !.seen = run'])
          /\ UNCHANGED <<log, strategies, Aside, asked, word>>
       \/ ~Unchanged(run, q.seen) /\ GiveUp(c)

Strategy(c) ==
    LET q == coach[c] IN
    /\ Coaching(c, "strategy")
    /\ \/ /\ Unchanged(run, q.seen)
          /\ run' = Instructed(q.seen) /\ Plan(c, [q EXCEPT !.pc = "record", !.seen = run'])
          /\ word' = q.id
          /\ UNCHANGED <<log, strategies, Aside, asked>>
       \/ ~Unchanged(run, q.seen) /\ GiveUp(c)

CoachRecord(c) ==
    /\ Coaching(c, "record")
    /\ strategies' = strategies \cup {coach[c].seen.epoch}
    /\ Plan(c, Quiet)
    /\ UNCHANGED <<run, log, Aside, asked, word>>
-----------------------------------------------------------------------------
\* Two minutes pass since the lock was taken.
Lapse(id) ==
    /\ id \in 1..asked /\ id \notin lapsed /\ run.lock = id /\ lapsed' = lapsed \cup {id}
    /\ UNCHANGED <<Stored, decide, coach, asked, cutOff, answers, word>>

Crash ==
    /\ cutOff < MaxCrashes /\ cutOff' = cutOff + 1
    /\ \/ \E d \in Deciders : /\ ~Deciding(d, "idle")
                              /\ Turn(d, Free) /\ UNCHANGED coach
       \/ \E c \in Coaches : /\ ~Coaching(c, "idle")
                             /\ Plan(c, Quiet) /\ UNCHANGED decide
    /\ UNCHANGED <<Stored, lapsed, asked, answers, word>>

Next ==
    \/ \E d \in Deciders :
          \/ \E step \in 0..(MaxSteps - 1) : DecideRead(d, step)
          \/ \E adapts \in BOOLEAN : DecideThink(d, adapts)
          \/ DecideLook(d) \/ DecideLock(d) \/ DecideFails(d) \/ DecideCommit(d)
          \/ DecideLog(d) \/ DecideRelease(d) \/ DecideUnlock(d)
    \/ \E c \in Coaches :
          \/ CoachRead(c, "announce") \/ CoachRead(c, "strategy")
          \/ CoachAnnounce(c) \/ CoachPlanned(c) \/ CoachFails(c) \/ Adopt(c)
          \/ Strategy(c) \/ CoachRecord(c)
    \/ \E id \in 1..MaxRequests : Lapse(id)
    \/ Crash

Spec == Init /\ [][Next]_vars
-----------------------------------------------------------------------------
Events == [step : 0..MaxSteps, epoch : Nat, by : Nat]
TypeOK ==
    /\ run \in [version : Nat, step : 0..MaxSteps, epoch : Nat, coaching : Nat, lock : Nat,
                last : Events]
    /\ log \subseteq Events /\ answers \subseteq Events
    /\ \A e, f \in log : e.step = f.step => e = f
    /\ strategies \subseteq 2..run.epoch
    /\ asked \in 0..MaxRequests /\ cutOff \in 0..MaxCrashes

(* However often a step is asked for, by retries and beside others, it is   *)
(* decided once: everybody who is answered gets the same action.            *)
SameStepSameAnswer == \A e, f \in answers : e.step = f.step => e = f

(* The record commits a decision: nothing is logged or answered before, and *)
(* all that it commits is logged; a gap in the log is the trace of a        *)
(* request cut off.                                                         *)
LogIsTrue ==
    /\ \A e \in log \cup answers : e.step < run.step
    /\ \A step \in 0..(run.step - 1) :
          \/ Logged(step) # {} \/ cutOff > 0
          \/ \E d \in Deciders : Deciding(d, "log") /\ decide[d].step = step

(* A decision that took long is not committed if the strategy it was made   *)
(* under was replaced meanwhile, by a coach or by a person.                 *)
DecidedUnderItsStrategy == [][run'.step > run.step => run'.last.epoch = run.epoch]_vars

(* Of several instructions the last one that was accepted holds: a plan that*)
(* arrives late is not adopted over a newer strategy or a newer coaching.   *)
LastWordHolds ==
    [][\A c \in Coaches : coach[c].pc = "adopt" /\ coach'[c].pc = "record" => coach[c].id = word]_vars

(* A lock is taken off by its own request, by a new strategy, or after its  *)
(* two minutes; never by another request's failure.                         *)
LockIsRespected ==
    [][Locked(run) /\ run'.lock # run.lock =>
         \/ \E d \in Deciders : decide[d].id = run.lock /\ decide'[d] # decide[d]
         \/ run'.epoch > run.epoch]_vars
=============================================================================
