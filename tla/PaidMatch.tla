----------------------------- MODULE PaidMatch -----------------------------
(***************************************************************************)
(* One paid match with open, staked seats: the record, the runtime and the *)
(* operations of MatchHost (services/payment-service/src/matches.ts), the  *)
(* settlement adapter it calls (escrow.ts) and, as EscrowMatch, the        *)
(* contract on the other side.                                             *)
(*                                                                         *)
(* The operations of a match run one after the other (exclusive), so one   *)
(* program counter is enough; what interleaves with them is everything     *)
(* else: blocks, other callers of the contract, deadlines, lost answers,   *)
(* failed writes, shutdown and crash.                                      *)
(*                                                                         *)
(* Abstracted: a game is a number of moves and an outcome; a replay is the *)
(* game it replays and how often that game was exported again, since every *)
(* export carries a new createdAt and hence a new hash.  Left out: reads   *)
(* outside exclusive (RuntimeCache has them), tickets, held inputs, the    *)
(* accounting report.                                                      *)
(***************************************************************************)
EXTENDS Naturals, Sequences

CONSTANTS Seats, Players, NoOne,
          Driver,     \* "none", "clock" (realtime) or "agent" (autoplay)
          Faults,     \* subset of {"rpc", "receipt", "disk", "crash", "close"}
          MaxFaults,  \* bound on the number of faults
          MaxMoves    \* bound on the length of a game

ASSUME Bounds == MaxMoves \in Nat \ {0} /\ MaxFaults \in Nat
ASSUME Drivers == Driver \in {"none", "clock", "agent"}

VARIABLES
    status, owner, paid, due, winner, resultHash,    \* the contract
    confirmed,   \* seats as read at a confirmed block, possibly behind
    mempool,     \* the resolver's submitted transactions, by nonce
    wait,        \* what the host knows of the transaction it waits for
    now,         \* 0, FundingDeadline or SettlementDeadline has passed
    stored,      \* the record on disk
    mem,         \* the record the host works on
    live,        \* mem is in liveRecords: the next operation finds it
    runtime,     \* the running game, in runtimes
    pc,          \* where the current operation stands
    clock,       \* the realtime or agent clock is set
    mode,        \* "up", "closing" or "down"
    faults       \* faults so far

chain == <<status, owner, paid, due, winner, resultHash>>
network == <<confirmed, mempool, wait>>
host == <<mem, live, runtime, pc, clock, mode>>
vars == <<chain, network, now, stored, host, faults>>

FundingDeadline == 1
SettlementDeadline == 2
Games == [moves : 0..MaxMoves, end : Seats \cup {"draw", "running"}]
Replays == [moves : 0..MaxMoves, end : Seats \cup {"draw", "running"},
            exported : 0..MaxFaults]
NewGame == [moves |-> 0, end |-> "running"]
GameOf(replay) == [moves |-> replay.moves, end |-> replay.end]
\* Slip: the replay counts a move that was not made.
ExportOneMore(game) ==
    [moves |-> game.moves + 1, end |-> game.end, exported |-> 0]

\* exportReplay, after a move.
Export(game) == [moves |-> game.moves, end |-> game.end, exported |-> 0]
\* exportReplay, at any time: the same game is exported with another date.
ExportAgain(game, replay) ==
    IF replay # NoOne /\ GameOf(replay) = game
    THEN [replay EXCEPT !.exported = @ + 1] ELSE Export(game)

ASSUME NobodyAssumption == NoOne \notin Games \cup Replays

NoRecord == [stage |-> "absent", seats |-> [s \in Seats |-> NoOne],
             funded |-> {}, cancel |-> FALSE, replay |-> NoOne, error |-> FALSE]
Stages == <<"absent", "prepared", "funding", "playing", "pending", "settled">>

Chain == INSTANCE EscrowMatch WITH Hashes <- Replays

Init ==
    /\ Chain!Init
    /\ confirmed = [owner |-> owner, paid |-> paid]
    /\ mempool = <<>> /\ wait = "none" /\ now = 0
    /\ stored = NoRecord /\ mem = NoRecord /\ live = FALSE /\ runtime = NoOne
    /\ pc = "idle" /\ clock = FALSE /\ mode = "up" /\ faults = 0
-----------------------------------------------------------------------------
(* What operations share.                                                  *)
Fault(f) == f \in Faults /\ faults < MaxFaults /\ faults' = faults + 1
NoFault == UNCHANGED faults

\* MatchStore.put: a write to a temporary file and a rename.
Put(record) == stored' = record /\ NoFault
PutFails == Fault("disk") /\ UNCHANGED stored

\* require: the live record, or a copy of the one on disk.
Record == IF live THEN mem ELSE stored

\* Slip: recovery starts the game again instead of replaying it.
RuntimeAnew(record) == IF runtime # NoOne THEN runtime ELSE NewGame

\* runtime: the cached game, or the one recovered from the replay.
Runtime(record) ==
    IF runtime # NoOne THEN runtime
    ELSE IF record.replay # NoOne THEN GameOf(record.replay) ELSE NewGame

\* An operation ends; its record is forgotten unless it is live.
Return(record) ==
    /\ pc' = "idle" /\ wait' = "none"
    /\ mem' = IF live' THEN record ELSE NoRecord
Forget == live' = FALSE /\ runtime' = NoOne

\* An operation throws.  A failed start drops the game it made.
Throw ==
    /\ IF pc \in {"settle.send", "settle.wait"} THEN UNCHANGED <<live, runtime>>
       ELSE Forget
    /\ Return(mem)
    /\ UNCHANGED <<chain, confirmed, mempool, now, stored, clock, mode>>

Serving == pc = "idle" /\ mode = "up"
-----------------------------------------------------------------------------
(* The contract and its transactions.  The resolver's calls are simulated, *)
(* submitted and awaited; the queue of a resolver keeps their order.       *)
Tx(call, w, hash) == [call |-> call, winner |-> w, hash |-> hash]

Valid(tx) ==
    \/ tx.call = "create" /\ status = "Absent" /\ now < FundingDeadline
    \/ /\ tx.call = "lock" /\ status = "Funding" /\ due \subseteq paid
       /\ now < FundingDeadline
    \/ /\ tx.call = "settle" /\ status = "Locked" /\ now < SettlementDeadline
       /\ owner[tx.winner] # NoOne
    \/ tx.call = "void" /\ status \in {"Funding", "Locked"}

Execute(tx) ==
    \/ tx.call = "create" /\ Chain!Create([s \in Seats |-> NoOne], Seats)
    \/ tx.call = "lock" /\ Chain!Lock
    \/ tx.call = "settle" /\ Chain!Settle(tx.winner, tx.hash)
    \/ tx.call = "void" /\ Chain!Void

Send(tx, next) ==
    /\ Valid(tx)
    /\ mempool' = Append(mempool, tx) /\ wait' = "pending" /\ pc' = next
    /\ NoFault
    /\ UNCHANGED <<chain, confirmed, now, stored, mem, live, runtime, clock, mode>>

\* The answer is already on chain: the operation goes on without sending.
Skip(next) ==
    /\ pc' = next /\ NoFault
    /\ UNCHANGED <<chain, network, now, stored, mem, live, runtime, clock, mode>>

\* A block with the next transaction; the host learns of the one it awaits
\* when that is confirmed.
Mine ==
    /\ mempool # <<>>
    /\ LET tx == Head(mempool)
           awaited == wait = "pending" /\ Len(mempool) = 1 IN
       /\ IF Valid(tx) THEN Execute(tx) ELSE UNCHANGED chain
       /\ wait' = IF ~awaited THEN wait
                  ELSE IF Valid(tx) THEN "success" ELSE "reverted"
       /\ confirmed' = IF awaited THEN [owner |-> owner', paid |-> paid']
                       ELSE confirmed
    /\ mempool' = Tail(mempool)
    /\ UNCHANGED <<now, stored, host, faults>>

Confirm ==
    /\ confirmed' = [owner |-> owner, paid |-> paid]
    /\ UNCHANGED <<chain, mempool, wait, now, stored, host, faults>>

\* Players stake, or the host relays their payment (entry).
TakeSeat(s, p) ==
    /\ now < FundingDeadline
    /\ \A t \in Seats \ {s} : owner[t] # p
    /\ Chain!TakeSeat(s, p)
    /\ UNCHANGED <<network, now, stored, host, faults>>

\* Anybody may void a match that has passed its deadline.
VoidExpired ==
    /\ now >= (IF status = "Funding" THEN FundingDeadline ELSE SettlementDeadline)
    /\ Chain!Void
    /\ UNCHANGED <<network, now, stored, host, faults>>

\* The deadlines are set when the record is made.
Tick ==
    /\ stored.stage # "absent" /\ now < SettlementDeadline
    /\ now' = now + 1
    /\ UNCHANGED <<chain, network, stored, host, faults>>
-----------------------------------------------------------------------------
(* create: the terms are durable before the pool is made, and a pool whose *)
(* receipt was lost is found again.                                        *)
CreateBegin ==
    /\ Serving /\ stored.stage \in {"absent", "prepared"}
    /\ mem' = [stored EXCEPT !.stage = "prepared"]
    /\ Put(mem') /\ pc' = "create.inspect"
    /\ UNCHANGED <<chain, network, now, live, runtime, clock, mode>>

CreateInspect ==
    /\ pc = "create.inspect"
    /\ IF status # "Absent" THEN Skip("create.save")
       ELSE \/ Send(Tx("create", NoOne, NoOne), "create.wait")
            \/ ~Valid(Tx("create", NoOne, NoOne)) /\ Throw /\ NoFault

CreateSave ==
    /\ pc = "create.save" \/ (pc = "create.wait" /\ wait = "success")
    /\ Put([mem EXCEPT !.stage = "funding"]) \/ PutFails
    /\ UNCHANGED <<live, runtime>> /\ Return(mem)
    /\ UNCHANGED <<chain, confirmed, mempool, now, clock, mode>>

(* refreshSeats, from view and from the funding watch.                     *)
Refreshed(record) ==
    [record EXCEPT !.seats = confirmed.owner, !.funded = confirmed.paid]

RefreshSeats ==
    /\ pc = "idle" /\ mode # "down" /\ stored.stage = "funding"
    /\ Put(Refreshed(stored))
    /\ UNCHANGED <<chain, network, now, host>>
-----------------------------------------------------------------------------
(* startForHost: by the host, or by the funding watch.                     *)
\* Slip: the game starts when the seats are paid, before the lock.
StartUnlocked ==
    /\ Serving /\ stored.stage = "funding" /\ ~stored.cancel
    /\ confirmed.paid = Seats /\ now < FundingDeadline
    /\ mem' = Refreshed(stored) /\ Put(mem')
    /\ live' = TRUE /\ runtime' = NewGame /\ pc' = "start.seats"
    /\ UNCHANGED <<chain, network, now, clock, mode>>

StartBegin ==
    /\ Serving /\ stored.stage = "funding" /\ ~stored.cancel
    /\ confirmed.paid = Seats /\ now < FundingDeadline
    /\ mem' = Refreshed(stored) /\ Put(mem')
    /\ live' = TRUE /\ runtime' = NewGame /\ pc' = "start.lock"
    /\ UNCHANGED <<chain, network, now, clock, mode>>

StartLock ==
    /\ pc = "start.lock"
    /\ IF status = "Locked" THEN Skip("start.seats")
       ELSE \/ Send(Tx("lock", NoOne, NoOne), "start.wait")
            \/ ~Valid(Tx("lock", NoOne, NoOne)) /\ Throw /\ NoFault

StartSeats ==
    /\ pc = "start.seats" \/ (pc = "start.wait" /\ wait = "success")
    /\ LET playing == [Refreshed(mem) EXCEPT !.stage = "playing",
                                             !.replay = Export(runtime)] IN
       \/ /\ Put(playing)
          /\ UNCHANGED <<live, runtime>> /\ Return(playing)
          /\ clock' = (Driver # "none" /\ mode = "up")
       \/ /\ PutFails
          /\ Forget /\ Return(mem)
          /\ UNCHANGED clock
    /\ UNCHANGED <<chain, confirmed, mempool, now, mode>>
-----------------------------------------------------------------------------
(* cancelFunding: the request is durable before the pool is voided.        *)
\* Slip: a cancellation that was requested is not taken up again.
CancelOnce ==
    /\ pc = "idle" /\ mode # "down"
    /\ stored.stage = "funding" /\ ~stored.cancel
    /\ mem' = [stored EXCEPT !.cancel = TRUE] /\ Put(mem')
    /\ pc' = "cancel.void"
    /\ UNCHANGED <<chain, network, now, live, runtime, clock, mode>>

CancelBegin ==
    /\ pc = "idle" /\ mode # "down" /\ stored.stage = "funding"
    /\ mem' = [stored EXCEPT !.cancel = TRUE] /\ Put(mem')
    /\ pc' = "cancel.void"
    /\ UNCHANGED <<chain, network, now, live, runtime, clock, mode>>

CancelVoid ==
    /\ pc = "cancel.void"
    /\ \/ status = "Voided" /\ Skip("cancel.save")
       \/ status = "Funding" /\ Send(Tx("void", NoOne, NoOne), "cancel.wait")
       \/ status \notin {"Voided", "Funding"} /\ Throw /\ NoFault

\* Slip: the cancellation is recorded without waiting for the receipt.
CancelSaveEarly ==
    /\ pc \in {"cancel.save", "cancel.wait"}
    /\ Put([mem EXCEPT !.stage = "settled"]) \/ PutFails
    /\ UNCHANGED <<live, runtime>> /\ Return(mem)
    /\ UNCHANGED <<chain, confirmed, mempool, now, clock, mode>>

CancelSave ==
    /\ pc = "cancel.save" \/ (pc = "cancel.wait" /\ wait = "success")
    /\ Put([mem EXCEPT !.stage = "settled"]) \/ PutFails
    /\ UNCHANGED <<live, runtime>> /\ Return(mem)
    /\ UNCHANGED <<chain, confirmed, mempool, now, clock, mode>>
-----------------------------------------------------------------------------
(* Play.                                                                   *)
Advance(game) ==
    { next \in Games : /\ next.moves = game.moves + 1
                       /\ next.moves = MaxMoves => next.end # "running" }
Played(record, game) ==
    [record EXCEPT !.replay = Export(game),
                   !.stage = IF game.end = "running" THEN "playing" ELSE "pending"]
Ended(game) == game.end # "running"
Over(game, next) == IF Ended(game) THEN "settle.begin" ELSE next

\* applyPlayerAction, for a player or to release an input on recovery.  An
\* action is acknowledged when it is durable; if that fails the game stops.
PlayerMove ==
    /\ Serving \/ pc = "recover.release"
    /\ Record.stage = "playing" /\ ~Record.error /\ now < SettlementDeadline
    /\ \E game \in Advance(Runtime(Record)) :
          LET played == Played(Record, game) IN
          /\ runtime' = game /\ live' = TRUE
          /\ \/ /\ Put(played) /\ mem' = played
                /\ pc' = Over(game, pc) /\ clock' = (clock /\ ~Ended(game))
             \/ /\ PutFails /\ mem' = [played EXCEPT !.error = TRUE]
                /\ pc' = "idle" /\ clock' = FALSE
    /\ UNCHANGED <<chain, network, now, mode>>

Ticking(driver) ==
    /\ Driver = driver /\ clock /\ Serving
    /\ mem.stage = "playing" /\ ~mem.error

\* startAgentClock: a failure of any kind only stops the clock.
AgentMove ==
    /\ Ticking("agent")
    /\ \/ /\ now < SettlementDeadline
          /\ \E game \in Advance(runtime) :
                LET played == Played(mem, game) IN
                /\ runtime' = game /\ mem' = played
                /\ \/ /\ Put(played) /\ pc' = Over(game, "idle")
                      /\ clock' = ~Ended(game)
                   \/ PutFails /\ pc' = "idle" /\ clock' = FALSE
       \/ /\ now >= SettlementDeadline /\ clock' = FALSE
          /\ UNCHANGED <<stored, mem, runtime, pc, faults>>
    /\ UNCHANGED <<chain, network, now, live, mode>>

\* startClock: progress is saved once per second and when the game ends; a
\* game that cannot be saved, or whose time is over, stops with an error.
ClockStops(record) ==
    /\ mem' = [record EXCEPT !.error = TRUE]
    /\ clock' = FALSE /\ pc' = "idle"

ClockMove ==
    /\ Ticking("clock")
    /\ \/ /\ now < SettlementDeadline
          /\ \E game \in Advance(runtime) :
                /\ runtime' = game
                /\ \/ /\ ~Ended(game)
                      /\ UNCHANGED <<stored, mem, pc, clock, faults>>
                   \/ /\ mem' = Played(mem, game) /\ Put(mem')
                      /\ pc' = Over(game, "idle") /\ clock' = ~Ended(game)
                   \/ /\ ClockStops(Played(mem, game)) /\ Fault("disk")
                      /\ stored' \in {stored, mem'}
       \/ /\ ClockStops(mem) /\ UNCHANGED runtime
          /\ Put(mem') \/ PutFails
    /\ UNCHANGED <<chain, network, now, live, mode>>
-----------------------------------------------------------------------------
(* settleRecord: after the last move, on recovery, or when asked again.    *)
\* Slip: the record is not written again before the payout.
SettleUnflushed ==
    /\ pc = "settle.begin" \/ (pc = "idle" /\ mode # "down")
    /\ Record.stage = "pending"
    /\ live' = (live \/ ~Record.error)
    /\ runtime' = IF live' THEN Runtime(Record) ELSE NoOne
    /\ mem' = Record /\ pc' = "settle.send"
    /\ UNCHANGED <<chain, network, now, stored, clock, mode, faults>>

SettleBegin ==
    /\ pc = "settle.begin" \/ (pc = "idle" /\ mode # "down")
    /\ Record.stage = "pending"
    /\ live' = (live \/ ~Record.error)
    /\ runtime' = IF live' THEN Runtime(Record) ELSE NoOne
    /\ \/ /\ Put(Record) /\ mem' = Record
          /\ pc' = "settle.send" /\ UNCHANGED wait
       \/ PutFails /\ Return(Record)
    /\ UNCHANGED <<chain, confirmed, mempool, now, clock, mode>>

Payout ==
    IF mem.replay.end = "draw" THEN Tx("void", NoOne, NoOne)
    ELSE Tx("settle", mem.replay.end, mem.replay)

\* Slip: a settlement that is already on chain is sent again.
SettleSendBlind ==
    /\ pc = "settle.send"
    /\ \/ Send(Payout, "settle.wait")
       \/ ~Valid(Payout) /\ Throw /\ NoFault

SettleSend ==
    /\ pc = "settle.send"
    /\ \/ /\ \/ /\ status = "Settled"
                /\ resultHash = mem.replay /\ winner = mem.replay.end
             \/ status = "Voided" /\ mem.replay.end = "draw"
          /\ Skip("settle.save")
       \/ status \notin {"Settled", "Voided"} /\ Send(Payout, "settle.wait")
       \/ /\ CASE status = "Settled" -> <<resultHash, winner>>
                                          # <<mem.replay, mem.replay.end>>
               [] status = "Voided" -> mem.replay.end # "draw"
               [] OTHER -> ~Valid(Payout)
          /\ Throw /\ NoFault

SettleSave ==
    /\ pc = "settle.save" \/ (pc = "settle.wait" /\ wait = "success")
    /\ LET settled == [mem EXCEPT !.stage = "settled"] IN
       \/ Put(settled) /\ Forget /\ Return(settled) /\ clock' = FALSE
       \/ PutFails /\ UNCHANGED <<live, runtime, clock>> /\ Return(settled)
    /\ UNCHANGED <<chain, confirmed, mempool, now, mode>>

\* refreshAccounting, of a settled record that is not on disk yet.
SaveAccounting ==
    /\ pc = "idle" /\ mode # "down" /\ live /\ mem.stage = "settled"
    /\ status \in {"Settled", "Voided"}
    /\ Put(mem)
    /\ UNCHANGED <<chain, network, now, host>>
-----------------------------------------------------------------------------
(* Failure, shutdown and recovery.                                         *)
RpcFails ==
    /\ pc \in {"create.inspect", "start.lock", "start.seats",
               "cancel.void", "settle.send"}
    /\ Fault("rpc") /\ Throw

\* The wait for a receipt ends without one; the transaction may be mined.
ReceiptLost == wait # "none" /\ Fault("receipt") /\ Throw
Reverted == wait = "reverted" /\ Throw /\ NoFault

\* close: clocks stop, operations drain, live records are saved.
CloseBegin ==
    /\ mode = "up" /\ Fault("close")
    /\ mode' = "closing" /\ clock' = FALSE
    /\ UNCHANGED <<chain, network, now, stored, mem, live, runtime, pc>>

Stop ==
    /\ mode' = "down" /\ Forget /\ Return(mem) /\ clock' = FALSE
    /\ UNCHANGED <<chain, confirmed, mempool, now>>

CloseEnd ==
    /\ mode = "closing" /\ pc = "idle"
    /\ IF live /\ runtime # NoOne
       THEN \/ Put([mem EXCEPT !.replay = ExportAgain(runtime, @)])
            \/ PutFails
       ELSE UNCHANGED <<stored, faults>>
    /\ Stop

Crash == mode # "down" /\ Fault("crash") /\ Stop /\ UNCHANGED stored

Restart ==
    /\ mode = "down"
    /\ mode' = "up" /\ pc' = "recover"
    /\ UNCHANGED <<chain, network, now, stored, mem, live, runtime, clock, faults>>

\* recoverRealtime: only games that are driven by a clock.
Recover ==
    /\ pc = "recover"
    /\ LET driven == /\ Driver # "none" /\ ~stored.error
                     /\ stored.stage \in {"playing", "pending"} IN
       \/ ~driven /\ pc' = "idle" /\ UNCHANGED <<mem, live, runtime>>
       \/ /\ driven
          /\ mem' = stored /\ live' = TRUE /\ runtime' = Runtime(stored)
          /\ pc' = IF stored.stage = "playing" THEN "recover.release" ELSE "settle.begin"
    /\ UNCHANGED <<chain, network, now, stored, clock, mode, faults>>

RecoverClock ==
    /\ pc = "recover.release"
    /\ pc' = "idle" /\ clock' = (mode = "up")
    /\ UNCHANGED <<chain, network, now, stored, mem, live, runtime, mode, faults>>
-----------------------------------------------------------------------------
Continue ==
    \/ CreateInspect \/ CreateSave
    \/ StartLock \/ StartSeats
    \/ CancelVoid \/ CancelSave
    \/ SettleSend \/ SettleSave
    \/ Reverted \/ CloseEnd \/ Restart \/ Recover \/ RecoverClock

Next ==
    \/ CreateBegin \/ RefreshSeats \/ StartBegin \/ CancelBegin
    \/ PlayerMove \/ AgentMove \/ ClockMove
    \/ SettleBegin \/ SaveAccounting \/ Continue
    \/ RpcFails \/ ReceiptLost \/ CloseBegin \/ Crash
    \/ Mine \/ Confirm \/ VoidExpired \/ Tick
    \/ \E s \in Seats, p \in Players : TakeSeat(s, p)

Spec == Init /\ [][Next]_vars

\* The event loop continues what it began, blocks are made, time passes, a
\* settlement or cancellation that failed is asked for again, and somebody
\* voids an expired match for its refunds.
Fairness ==
    /\ WF_vars(Continue) /\ WF_vars(Mine) /\ WF_vars(Tick)
    /\ WF_vars(VoidExpired)
    /\ WF_vars(SettleBegin) /\ WF_vars(SaveAccounting)
    /\ WF_vars(stored.cancel /\ CancelBegin)
FairSpec == Spec /\ Fairness
-----------------------------------------------------------------------------
TypeOK ==
    /\ status \in {"Absent", "Funding", "Locked", "Settled", "Voided"}
    /\ owner \in [Seats -> Players \cup {NoOne}]
    /\ paid \subseteq Seats /\ due \subseteq Seats
    /\ winner \in Seats \cup {NoOne} /\ resultHash \in Replays \cup {NoOne}
    /\ confirmed \in [owner : [Seats -> Players \cup {NoOne}], paid : SUBSET Seats]
    /\ mempool \in Seq([call : {"create", "lock", "settle", "void"},
                        winner : Seats \cup {NoOne}, hash : Replays \cup {NoOne}])
    /\ wait \in {"none", "pending", "success", "reverted"}
    /\ now \in FundingDeadline - 1..SettlementDeadline
    /\ {stored, mem} \subseteq
         [stage : {Stages[i] : i \in DOMAIN Stages},
          seats : [Seats -> Players \cup {NoOne}], funded : SUBSET Seats,
          cancel : BOOLEAN, replay : Replays \cup {NoOne}, error : BOOLEAN]
    /\ live \in BOOLEAN /\ runtime \in Games \cup {NoOne} /\ clock \in BOOLEAN
    /\ mode \in {"up", "closing", "down"} /\ faults \in 0..MaxFaults

\* A game is dealt only when the lock is confirmed ("Must be confirmed BEFORE
\* the worker deals cards", ArcadeEscrow.sol), every seat is paid, the seats
\* on record belong to the players on chain, and nobody canceled it.
DealtOnlyLocked ==
    \A record \in {stored, mem} : record.replay # NoOne =>
        /\ status \notin {"Absent", "Funding"}
        /\ paid = Seats /\ record.seats = owner /\ ~record.cancel

\* No payout before the result is durable, whatever writes failed before it,
\* and never a payout of another result than the one on disk (settleRecord).
Claims ==
    { <<mempool[i].winner, mempool[i].hash>> :
        i \in {j \in DOMAIN mempool : mempool[j].call = "settle"} }
    \cup (IF status = "Settled" THEN {<<winner, resultHash>>} ELSE {})

PaysWhatIsOnDisk ==
    \A claim \in Claims :
        /\ stored.stage \in {"pending", "settled"}
        /\ stored.replay.end = claim[1]
        /\ GameOf(stored.replay) = GameOf(claim[2])

\* A match is reported settled only when the contract has paid its winner or
\* opened its refunds, although every receipt and write can be lost.
ReportedAsPaid ==
    \A record \in {stored, mem} : record.stage = "settled" =>
        IF record.replay # NoOne /\ record.replay.end # "draw"
        THEN status = "Settled" /\ winner = record.replay.end
        ELSE status = "Voided"

\* The money follows the match: what is paid is what is on the disk, and what
\* the record says was paid.
PaymentsAreTrue == PaysWhatIsOnDisk /\ ReportedAsPaid

\* On disk a match only goes forward: no stage, move or result is undone by a
\* late write, a restart or a shutdown.
Rank(stage) == CHOOSE i \in DOMAIN Stages : Stages[i] = stage
Follows(replay, earlier) ==
    \/ GameOf(replay) = GameOf(earlier)
    \/ replay.moves > earlier.moves /\ earlier.end = "running"

DiskGoesForward ==
    [][ /\ Rank(stored'.stage) >= Rank(stored.stage)
        /\ stored.replay # NoOne => /\ stored'.replay # NoOne
                                    /\ Follows(stored'.replay, stored.replay)
      ]_vars

\* While an announced result waits for its payment, asking for it again can
\* still succeed: "Failure remains retryable" (applyPlayerAction).
RetryCanSucceed ==
    stored.stage = "pending" /\ status = "Settled" => resultHash = stored.replay

\* A durable result is paid, or the match is voided, when settlement is asked
\* for again after each failure.
PendingIsSettled ==
    stored.stage = "pending" ~> (stored.stage = "settled" \/ status = "Voided")

\* A lobby whose cancellation was requested closes, even when the lock that
\* raced it was mined and the cancellation was refused at first
\* ("Cancellation is durable and retryable", unified-live-sessions.md).
CanceledLobbyCloses == stored.cancel ~> stored.stage = "settled"
=============================================================================
