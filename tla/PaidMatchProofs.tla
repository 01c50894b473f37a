-------------------------- MODULE PaidMatchProofs --------------------------
(***************************************************************************)
(* Theorems of PaidMatch: what a paid match has on its record, in memory   *)
(* or on the disk, is true of the contract, whatever fails on the way.     *)
(*                                                                         *)
(* The inductive invariant is that each record is Sound by itself and with *)
(* respect to the contract, that the record in memory continues the one on *)
(* the disk (InHand), that what the host waits for is what it sent         *)
(* (WaitInv), and that no transaction that pays a winner is under way      *)
(* whose result is not on the disk (ClaimInv).                             *)
(***************************************************************************)
EXTENDS PaidMatch, TLAPS

Creating == {"create.inspect", "create.wait", "create.save"}
Starting == {"start.lock", "start.wait", "start.seats"}
Canceling == {"cancel.void", "cancel.wait", "cancel.save"}
Settling == {"settle.send", "settle.wait", "settle.save"}
Waits == {"create.wait", "start.wait", "cancel.wait", "settle.wait"}
Places == Creating \cup Starting \cup Canceling \cup Settling
          \cup {"idle", "settle.begin", "recover", "recover.release"}

StageKind == {"absent", "prepared", "funding", "playing", "pending", "settled"}
RecordKind == [stage : StageKind, seats : [Seats -> Players \cup {NoOne}],
               funded : SUBSET Seats, cancel : BOOLEAN,
               replay : Replays \cup {NoOne}, error : BOOLEAN]
TxKind == [call : {"create", "lock", "settle", "void"},
           winner : Seats \cup {NoOne}, hash : Replays \cup {NoOne}]

ChainTyped ==
    /\ status \in {"Absent", "Funding", "Locked", "Settled", "Voided"}
    /\ owner \in [Seats -> Players \cup {NoOne}]
    /\ paid \subseteq Seats /\ due \subseteq Seats
    /\ winner \in Seats \cup {NoOne} /\ resultHash \in Replays \cup {NoOne}

NetTyped ==
    /\ confirmed \in [owner : [Seats -> Players \cup {NoOne}], paid : SUBSET Seats]
    /\ mempool \in Seq(TxKind)
    /\ wait \in {"none", "pending", "success", "reverted"}

HostTyped ==
    /\ now \in 0..2 /\ live \in BOOLEAN /\ clock \in BOOLEAN
    /\ runtime \in Games \cup {NoOne} /\ pc \in Places
    /\ mode \in {"up", "closing", "down"} /\ faults \in 0..MaxFaults
    /\ mode = "closing" => faults # 0

(***************************************************************************)
(* The contract, as far as the host relies on it: nobody is paid before    *)
(* the pool exists, and what was confirmed is still so.                    *)
(***************************************************************************)
ChainInv ==
    /\ status = "Absent" => paid = {}
    /\ confirmed.paid \subseteq paid
    /\ \A s \in confirmed.paid : confirmed.owner[s] = owner[s]

(***************************************************************************)
(* A record by itself.  A game is on it from the lock on, and it is over   *)
(* exactly when it waits for its payment or has it.  Its replay was        *)
(* exported again at most once for each time that the host was closed.     *)
(***************************************************************************)
Early == {"absent", "prepared", "funding"}
Closings == IF mode = "closing" THEN faults - 1 ELSE faults

Shaped(r) ==
    /\ r.stage \in Early => r.replay = NoOne
    /\ r.stage \in {"playing", "pending"} => r.replay # NoOne
    /\ r.stage = "playing" => r.replay.end = "running"
    /\ r.stage \in {"pending", "settled"} /\ r.replay # NoOne
         => r.replay.end # "running"

Dealt(r) ==
    r.replay # NoOne => /\ status \notin {"Absent", "Funding"}
                        /\ paid = Seats /\ r.seats = owner /\ ~r.cancel

IsPaid(r) ==
    IF r.replay # NoOne /\ r.replay.end # "draw"
    THEN status = "Settled" /\ winner = r.replay.end
    ELSE status = "Voided"

Counted(r) == r.replay # NoOne => r.replay.exported <= Closings

Sound(r) ==
    /\ r \in RecordKind /\ Shaped(r) /\ Dealt(r) /\ Counted(r)
    /\ r.stage = "settled" => IsPaid(r)

RecordsInv == Sound(stored) /\ Sound(mem)

(***************************************************************************)
(* The record in memory continues the one on the disk, and the running     *)
(* game is the one of the record in memory, or ahead of it.                *)
(***************************************************************************)
SameGame(new, old) == GameOf(new.replay) = GameOf(old.replay)

Continues(new, old) ==
    /\ old.replay # NoOne /\ new.replay # NoOne
    /\ \/ /\ old.stage = "playing"
          /\ new.stage \in {"playing", "pending", "settled"}
          /\ \/ old.replay.moves < new.replay.moves
             \/ old.replay.moves = new.replay.moves /\ new.stage = "playing"
       \/ /\ old.stage = "pending" /\ new.stage \in {"pending", "settled"}
          /\ SameGame(new, old)
       \/ /\ old.stage = "settled" /\ new.stage = "settled"
          /\ SameGame(new, old)

RunsAs(r, game) ==
    IF r.stage = "playing"
    THEN game.end = "running" /\ r.replay.moves <= game.moves
    ELSE game = GameOf(r.replay)

Place ==
    /\ live <=> runtime # NoOne
    /\ mode = "down" => pc = "idle" /\ ~live
    /\ wait # "none" <=> pc \in Waits

InHand ==
    /\ pc \in {"idle", "recover"} /\ ~live => mem = NoRecord
    /\ pc = "recover" => ~live
    /\ pc \in Creating => ~live /\ mem = stored /\ mem.stage = "prepared"
    /\ pc \in Canceling => ~live /\ mem = stored /\ mem.stage = "funding"
    /\ pc \in Starting =>
         /\ live /\ mem = stored /\ mem.stage = "funding" /\ ~mem.cancel
         /\ confirmed.paid = Seats /\ runtime = NewGame
    /\ pc \in Settling => mem = stored /\ mem.stage = "pending"
    /\ pc = "settle.begin" => live /\ mem.stage = "pending"
    /\ pc = "recover.release" => live
    /\ live /\ pc \notin Starting => Continues(mem, stored) /\ RunsAs(mem, runtime)

(***************************************************************************)
(* What the host waits for is the last transaction that was sent, and when *)
(* it goes on, the contract is where that transaction leads.               *)
(***************************************************************************)
Last(txs) == txs[Len(txs)]

WaitInv ==
    /\ wait = "pending" =>
         /\ mempool # <<>>
         /\ pc = "start.wait" => Last(mempool).call = "lock"
         /\ pc = "cancel.wait" => Last(mempool).call = "void"
         /\ pc = "settle.wait" => Last(mempool) = Payout
    /\ pc = "start.seats" \/ (pc = "start.wait" /\ wait = "success")
         => status \notin {"Absent", "Funding"}
    /\ pc = "cancel.save" \/ (pc = "cancel.wait" /\ wait = "success")
         => status = "Voided"
    /\ pc = "settle.save" \/ (pc = "settle.wait" /\ wait = "success")
         => IsPaid(mem)

\* The result w, computed from the replay h, is on the disk; a draw is no
\* result that anybody is paid for.
OnDisk(w, h) ==
    /\ w # "draw"
    /\ stored.stage \in {"pending", "settled"} /\ stored.replay # NoOne
    /\ stored.replay.end = w /\ GameOf(stored.replay) = GameOf(h)

ClaimInv ==
    /\ \A i \in DOMAIN mempool :
         mempool[i].call = "settle" => OnDisk(mempool[i].winner, mempool[i].hash)
    /\ status = "Settled" => OnDisk(winner, resultHash)

PaidInv ==
    /\ ChainTyped /\ NetTyped /\ HostTyped /\ ChainInv /\ RecordsInv
    /\ Place /\ InHand /\ WaitInv /\ ClaimInv

\* How the record on the disk changes.
StoredStep ==
    \/ stored' = stored
    \/ Continues(stored', stored)
    \/ stored.stage \in Early /\ Rank(stored'.stage) >= Rank(stored.stage)
StoredGoesOn == [][StoredStep]_vars
-----------------------------------------------------------------------------
(***************************************************************************)
(* What the contract never takes back.                                     *)
(***************************************************************************)
ChainSteady ==
    /\ status \in {"Settled", "Voided"}
         => status' = status /\ winner' = winner /\ resultHash' = resultHash
    /\ status \notin {"Absent", "Funding"}
         => /\ status' \notin {"Absent", "Funding"}
            /\ owner' = owner /\ paid' = paid
    /\ paid \subseteq paid' /\ \A s \in paid : owner'[s] = owner[s]

ChainGoesOn ==
    ChainTyped' /\ ChainSteady /\ (status' = "Absent" => paid' = {})

ChainStays == chain' = chain

LEMMA ChainRests ==
    ASSUME ChainTyped, ChainInv, ChainStays PROVE ChainGoesOn
BY DEF ChainGoesOn, ChainTyped, ChainInv, ChainSteady, ChainStays, chain

LEMMA ChainExecutes ==
    ASSUME ChainTyped, ChainInv, NEW tx \in TxKind, Valid(tx), Execute(tx)
    PROVE  ChainGoesOn
<1>1. CASE tx.call = "create"
  BY <1>1 DEF Execute, Valid, Chain!Create, ChainGoesOn, ChainTyped, ChainInv, ChainSteady
<1>2. CASE tx.call = "lock"
  BY <1>2 DEF Execute, Chain!Lock, ChainGoesOn, ChainTyped, ChainInv, ChainSteady
<1>3. CASE tx.call = "settle"
  BY <1>3 DEF Execute, Chain!Settle, ChainGoesOn, ChainTyped, ChainInv, ChainSteady, TxKind
<1>4. CASE tx.call = "void"
  BY <1>4 DEF Execute, Chain!Void, ChainGoesOn, ChainTyped, ChainInv, ChainSteady
<1> QED  BY <1>1, <1>2, <1>3, <1>4 DEF TxKind

LEMMA ChainTakesSeat ==
    ASSUME ChainTyped, NEW s \in Seats, NEW p \in Players, Chain!TakeSeat(s, p)
    PROVE  ChainGoesOn
BY DEF Chain!TakeSeat, ChainGoesOn, ChainTyped, ChainSteady

LEMMA ChainVoids ==
    ASSUME ChainTyped, ChainInv, Chain!Void PROVE ChainGoesOn
BY DEF Chain!Void, ChainGoesOn, ChainTyped, ChainInv, ChainSteady

\* A sound record stays sound whatever the contract does next.
LEMMA SoundStays ==
    ASSUME ChainTyped, ChainGoesOn, NEW r, Sound(r),
           faults \in Nat, Closings <= Closings', Closings \in Nat, Closings' \in Nat
    PROVE  Sound(r)'
<1>1. Dealt(r)'
  BY DEF Sound, Dealt, ChainGoesOn, ChainSteady
<1>2. Counted(r)'
  <2>1. r.replay # NoOne => r.replay.exported \in Nat
    BY Bounds DEF Sound, RecordKind, Replays
  <2> QED  BY <2>1 DEF Sound, Counted
<1>3. r.stage = "settled" => IsPaid(r)'
  BY DEF Sound, IsPaid, ChainGoesOn, ChainSteady
<1> QED  BY <1>1, <1>2, <1>3 DEF Sound, Shaped

LEMMA ClosingsTyped == HostTyped => Closings \in Nat
BY Bounds DEF HostTyped, Closings

LEMMA ClosingsTypedNext == HostTyped' => Closings' \in Nat
<1> SUFFICES ASSUME HostTyped' PROVE Closings' \in Nat
  OBVIOUS
<1>1. faults' \in Nat /\ (mode' = "closing" => faults' # 0)
  BY Bounds DEF HostTyped
<1>2. CASE mode' = "closing"
  <2>1. faults' \in Nat /\ faults' # 0
    BY <1>1, <1>2
  <2>2. \A n \in Nat : n # 0 => n - 1 \in Nat
    OBVIOUS
  <2>3. faults' - 1 \in Nat
    BY <2>1, <2>2
  <2> QED  BY <1>2, <2>3 DEF Closings
<1>3. CASE mode' # "closing"
  BY <1>1, <1>3 DEF Closings
<1> QED  BY <1>2, <1>3

LEMMA RecordsNext ==
    ASSUME ChainTyped, ChainGoesOn, HostTyped, HostTyped', Closings <= Closings',
           NEW a, NEW b, Sound(a), Sound(b), stored' = a, mem' = b
    PROVE  RecordsInv'
<1>1. faults \in Nat /\ Closings \in Nat /\ Closings' \in Nat
  BY Bounds, ClosingsTyped, ClosingsTypedNext DEF HostTyped
<1>2. Sound(a)' /\ Sound(b)'
  BY <1>1, SoundStays
<1> QED  BY <1>2 DEF RecordsInv, Sound, Shaped, Dealt, Counted, IsPaid

LEMMA NoRecordIsSound == Sound(NoRecord)
BY NobodyAssumption DEF Sound, NoRecord, RecordKind, StageKind, Shaped, Dealt, Counted

(***************************************************************************)
(* The chain goes on while the host does nothing.                          *)
(***************************************************************************)
HostRests == UNCHANGED <<stored, host, faults>>

ConfirmedNext ==
    confirmed' = confirmed \/ confirmed' = [owner |-> owner', paid |-> paid']

LEMMA ChainInvNext ==
    ASSUME ChainInv, ChainTyped, ChainGoesOn, confirmed.paid \subseteq Seats, ConfirmedNext
    PROVE  ChainInv' /\ (confirmed.paid = Seats => confirmed'.paid = Seats)
BY DEF ChainInv, ChainGoesOn, ChainSteady, ChainTyped, ConfirmedNext

LEMMA OutsideKeeps ==
    ASSUME PaidInv, HostRests, ChainGoesOn, now' \in 0..2, ConfirmedNext,
           wait' # "none" <=> wait # "none"
    PROVE  HostTyped' /\ ChainInv' /\ RecordsInv' /\ Place' /\ InHand' /\ StoredStep
<1>1. HostTyped'
  BY DEF HostRests, host, PaidInv, HostTyped
<1>2. ChainInv' /\ (confirmed.paid = Seats => confirmed'.paid = Seats)
  BY ChainInvNext DEF PaidInv, NetTyped
<1>3. RecordsInv'
  <2>1. Closings' = Closings /\ stored' = stored /\ mem' = mem
    BY DEF HostRests, host, Closings
  <2>2. Closings <= Closings'
    BY <2>1, ClosingsTyped DEF PaidInv
  <2> QED  BY <1>1, <2>1, <2>2, RecordsNext DEF PaidInv, RecordsInv
<1>4. Place'
  BY DEF HostRests, host, PaidInv, Place
<1>5. InHand'
  BY <1>2 DEF HostRests, host, PaidInv, InHand, Continues, RunsAs, SameGame
<1>6. StoredStep
  BY DEF HostRests, StoredStep
<1> QED  BY <1>1, <1>2, <1>3, <1>4, <1>5, <1>6

\* What waits stays where it leads, when no transaction is mined.
LEMMA WaitStays ==
    ASSUME PaidInv, HostRests, ChainGoesOn, wait' = wait, mempool' = mempool
    PROVE  WaitInv'
<1>1. Payout' = Payout
  BY DEF Payout, Tx, HostRests, host
<1>2. pc' = pc /\ mem' = mem
  BY DEF HostRests, host
<1>3. \A r : IsPaid(r) => IsPaid(r)'
  BY DEF IsPaid, ChainGoesOn, ChainSteady
<1>4. IsPaid(mem) => IsPaid(mem)'
  BY <1>2, <1>3 DEF IsPaid
<1> QED  BY <1>1, <1>2, <1>4 DEF PaidInv, WaitInv, Last, ChainGoesOn, ChainSteady

LEMMA ClaimsStay ==
    ASSUME PaidInv, HostRests, ChainGoesOn, mempool' = mempool,
           status' = "Settled" => status = "Settled"
    PROVE  ClaimInv'
<1>1. stored' = stored
  BY DEF HostRests
<1>2. \A w, h : OnDisk(w, h) <=> OnDisk(w, h)'
  BY <1>1 DEF OnDisk
<1>3. status' = "Settled" => winner' = winner /\ resultHash' = resultHash
  BY DEF ChainGoesOn, ChainSteady
<1> QED  BY <1>1, <1>3 DEF PaidInv, ClaimInv, OnDisk

LEMMA LastOfTail ==
    ASSUME NEW txs \in Seq(TxKind), txs # <<>>
    PROVE  /\ Tail(txs) \in Seq(TxKind) /\ Head(txs) \in TxKind
           /\ Len(txs) = 1 => Head(txs) = Last(txs)
           /\ Len(txs) # 1 => Tail(txs) # <<>> /\ Last(Tail(txs)) = Last(txs)
           /\ \A i \in DOMAIN Tail(txs) :
                i + 1 \in DOMAIN txs /\ Tail(txs)[i] = txs[i + 1]
           /\ 1 \in DOMAIN txs /\ Head(txs) = txs[1]
<1>1. Len(txs) \in Nat \ {0} /\ DOMAIN txs = 1..Len(txs)
  OBVIOUS
<1>2. Tail(txs) \in Seq(TxKind) /\ Len(Tail(txs)) = Len(txs) - 1
  BY <1>1
<1>3. \A i \in 1..Len(txs) - 1 : Tail(txs)[i] = txs[i + 1]
  BY <1>1
<1>4. Head(txs) = txs[1] /\ Head(txs) \in TxKind
  BY <1>1
<1>5. DOMAIN Tail(txs) = 1..Len(txs) - 1
  BY <1>2
<1>6. Len(txs) = 1 => Head(txs) = Last(txs)
  BY <1>4 DEF Last
<1>7. Len(txs) # 1 => Tail(txs) # <<>> /\ Last(Tail(txs)) = Last(txs)
  <2>1. ASSUME Len(txs) # 1 PROVE Len(txs) - 1 \in 1..Len(txs) - 1
    BY <1>1, <2>1
  <2> QED  BY <1>1, <1>2, <1>3, <2>1 DEF Last
<1> QED  BY <1>1, <1>2, <1>3, <1>4, <1>5, <1>6, <1>7

\* The awaited transaction leads where the host expects it to.
LEMMA AwaitedLeads ==
    ASSUME PaidInv, HostRests, wait = "pending", NEW tx, tx = Last(mempool),
           Valid(tx), Execute(tx)
    PROVE  /\ pc = "start.wait" => status' \notin {"Absent", "Funding"}
           /\ pc = "cancel.wait" => status' = "Voided"
           /\ pc = "settle.wait" => IsPaid(mem)'
<1>1. pc = "start.wait" => status' \notin {"Absent", "Funding"}
  BY DEF PaidInv, WaitInv, Execute, Chain!Lock
<1>2. pc = "cancel.wait" => status' = "Voided"
  BY DEF PaidInv, WaitInv, Execute, Chain!Void
<1>3. ASSUME pc = "settle.wait" PROVE IsPaid(mem)'
  <2>1. tx = Payout
    BY <1>3 DEF PaidInv, WaitInv
  <2>2. mem.replay # NoOne /\ mem' = mem
    BY <1>3 DEF PaidInv, InHand, RecordsInv, Sound, Shaped, Settling, HostRests, host
  <2>3. CASE mem.replay.end = "draw"
    BY <2>1, <2>2, <2>3 DEF Payout, Tx, Execute, Chain!Void, IsPaid
  <2>4. CASE mem.replay.end # "draw"
    BY <2>1, <2>2, <2>4 DEF Payout, Tx, Execute, Chain!Settle, IsPaid
  <2> QED  BY <2>3, <2>4
<1> QED  BY <1>1, <1>2, <1>3

LEMMA MineKeeps == PaidInv /\ Mine => PaidInv' /\ StoredStep
<1> SUFFICES ASSUME PaidInv, Mine PROVE PaidInv' /\ StoredStep
  OBVIOUS
<1> DEFINE tx == Head(mempool)
           awaited == wait = "pending" /\ Len(mempool) = 1
<1>1. mempool # <<>> /\ mempool \in Seq(TxKind) /\ mempool' = Tail(mempool)
  BY DEF Mine, PaidInv, NetTyped
<1>2. HostRests /\ now' = now
  BY DEF Mine, HostRests
<1>3. tx \in TxKind
  BY <1>1, LastOfTail
<1>4. \/ Valid(tx) /\ Execute(tx)
      \/ ~Valid(tx) /\ ChainStays
  BY DEF Mine, ChainStays
<1>5. ChainGoesOn
  BY <1>3, <1>4, ChainExecutes, ChainRests DEF PaidInv
<1>6. /\ ConfirmedNext
      /\ wait' = IF ~awaited THEN wait
                 ELSE IF Valid(tx) THEN "success" ELSE "reverted"
  BY DEF Mine, ConfirmedNext
<1>7. NetTyped'
  <2>1. ChainTyped'
    BY <1>5 DEF ChainGoesOn
  <2>2. confirmed' \in [owner : [Seats -> Players \cup {NoOne}], paid : SUBSET Seats]
    BY <1>6, <2>1 DEF ConfirmedNext, PaidInv, NetTyped, ChainTyped
  <2>3. mempool' \in Seq(TxKind)
    BY <1>1, LastOfTail
  <2>4. wait' \in {"none", "pending", "success", "reverted"}
    BY <1>6 DEF PaidInv, NetTyped
  <2> QED  BY <2>2, <2>3, <2>4 DEF NetTyped
<1>8. now' \in 0..2 /\ (wait' # "none" <=> wait # "none")
  BY <1>2, <1>6 DEF PaidInv, HostTyped
<1>9. HostTyped' /\ ChainInv' /\ RecordsInv' /\ Place' /\ InHand' /\ StoredStep
  BY <1>2, <1>5, <1>6, <1>8, OutsideKeeps
<1>10. pc' = pc /\ mem' = mem /\ stored' = stored /\ Payout' = Payout
  BY <1>2 DEF HostRests, host, Payout, Tx
<1>11. WaitInv'
  <2>1. wait' = "pending" => wait = "pending" /\ Len(mempool) # 1
    BY <1>6
  <2>2. wait' = "pending" => mempool' # <<>> /\ Last(mempool') = Last(mempool)
    BY <1>1, <2>1, LastOfTail
  <2>3. wait' = "success" => wait = "success" \/ (awaited /\ Valid(tx))
    BY <1>6
  <2>4. IsPaid(mem) => IsPaid(mem)'
    BY <1>5, <1>10 DEF IsPaid, ChainGoesOn, ChainSteady
  <2>5. ASSUME awaited, Valid(tx)
        PROVE  /\ pc = "start.wait" => status' \notin {"Absent", "Funding"}
               /\ pc = "cancel.wait" => status' = "Voided"
               /\ pc = "settle.wait" => IsPaid(mem)'
    <3>1. wait = "pending" /\ tx = Last(mempool)
      BY <1>1, <2>5, LastOfTail
    <3> QED  BY <1>2, <1>4, <2>5, <3>1, AwaitedLeads
  <2>6. /\ wait' = "pending" =>
             /\ mempool' # <<>>
             /\ pc' = "start.wait" => Last(mempool').call = "lock"
             /\ pc' = "cancel.wait" => Last(mempool').call = "void"
             /\ pc' = "settle.wait" => Last(mempool') = Payout'
    BY <1>10, <2>1, <2>2 DEF PaidInv, WaitInv
  <2>7. pc' = "start.seats" \/ (pc' = "start.wait" /\ wait' = "success")
           => status' \notin {"Absent", "Funding"}
    BY <1>5, <1>10, <2>3, <2>5 DEF PaidInv, WaitInv, ChainGoesOn, ChainSteady
  <2>8. pc' = "cancel.save" \/ (pc' = "cancel.wait" /\ wait' = "success")
           => status' = "Voided"
    BY <1>5, <1>10, <2>3, <2>5 DEF PaidInv, WaitInv, ChainGoesOn, ChainSteady
  <2>9. pc' = "settle.save" \/ (pc' = "settle.wait" /\ wait' = "success")
           => IsPaid(mem)'
    BY <1>10, <2>3, <2>4, <2>5 DEF PaidInv, WaitInv
  <2> QED  BY <2>6, <2>7, <2>8, <2>9 DEF WaitInv, Last
<1>12. ClaimInv'
  <2>1. \A i \in DOMAIN mempool' : mempool'[i].call = "settle"
             => OnDisk(mempool'[i].winner, mempool'[i].hash)
    BY <1>1, LastOfTail DEF PaidInv, ClaimInv
  <2>2. ASSUME status' = "Settled" PROVE OnDisk(winner', resultHash')
    <3>1. CASE status = "Settled"
      BY <1>5, <3>1 DEF PaidInv, ClaimInv, ChainGoesOn, ChainSteady
    <3>2. CASE status # "Settled"
      <4>1. tx.call = "settle" /\ winner' = tx.winner /\ resultHash' = tx.hash
        BY <1>4, <2>2, <3>2 DEF Execute, ChainStays, chain,
           Chain!Create, Chain!Lock, Chain!Settle, Chain!Void
      <4>2. 1 \in DOMAIN mempool /\ tx = mempool[1]
        BY <1>1, LastOfTail
      <4> QED  BY <4>1, <4>2 DEF PaidInv, ClaimInv
    <3> QED  BY <3>1, <3>2
  <2> QED  BY <1>10, <2>1, <2>2 DEF ClaimInv, OnDisk
<1> QED  BY <1>5, <1>7, <1>9, <1>11, <1>12 DEF PaidInv, ChainGoesOn

LEMMA OutsideGoesOn ==
    ASSUME PaidInv, HostRests, ChainGoesOn, now' \in 0..2, ConfirmedNext,
           wait' = wait, mempool' = mempool, status' = "Settled" => status = "Settled"
    PROVE  PaidInv' /\ StoredStep
<1>1. HostTyped' /\ ChainInv' /\ RecordsInv' /\ Place' /\ InHand' /\ StoredStep
  BY OutsideKeeps
<1>2. WaitInv' /\ ClaimInv'
  BY WaitStays, ClaimsStay
<1>3. ChainTyped'
  BY DEF ChainGoesOn
<1>4. NetTyped'
  BY <1>3 DEF ConfirmedNext, PaidInv, NetTyped, ChainTyped
<1> QED  BY <1>1, <1>2, <1>3, <1>4 DEF PaidInv

LEMMA OutsideSteps ==
    PaidInv /\ (\/ Confirm \/ VoidExpired \/ Tick
                \/ \E s \in Seats, p \in Players : TakeSeat(s, p))
      => PaidInv' /\ StoredStep
<1> SUFFICES ASSUME PaidInv PROVE
      (\/ Confirm \/ VoidExpired \/ Tick
       \/ \E s \in Seats, p \in Players : TakeSeat(s, p)) => PaidInv' /\ StoredStep
  OBVIOUS
<1>0. ChainTyped /\ ChainInv /\ now \in 0..2
  BY DEF PaidInv, HostTyped
<1>1. ASSUME Confirm PROVE PaidInv' /\ StoredStep
  <2>1. ChainStays /\ ChainGoesOn
    BY <1>0, <1>1, ChainRests DEF Confirm, ChainStays
  <2>2. ConfirmedNext /\ HostRests /\ status' = status
    BY <1>1 DEF Confirm, ConfirmedNext, HostRests, chain
  <2> QED  BY <1>0, <1>1, <2>1, <2>2, OutsideGoesOn DEF Confirm
<1>2. ASSUME VoidExpired PROVE PaidInv' /\ StoredStep
  <2>1. ChainGoesOn /\ status' # "Settled"
    BY <1>0, <1>2, ChainVoids DEF VoidExpired, Chain!Void
  <2>2. ConfirmedNext /\ HostRests /\ wait' = wait /\ mempool' = mempool /\ now' = now
    BY <1>2 DEF VoidExpired, ConfirmedNext, HostRests, network
  <2> QED  BY <1>0, <2>1, <2>2, OutsideGoesOn
<1>3. ASSUME Tick PROVE PaidInv' /\ StoredStep
  <2>1. ChainStays /\ ChainGoesOn
    BY <1>0, <1>3, ChainRests DEF Tick, ChainStays
  <2>2. /\ ConfirmedNext /\ HostRests /\ wait' = wait /\ mempool' = mempool
        /\ status' = status
    BY <1>3 DEF Tick, ConfirmedNext, HostRests, network, chain
  <2>3. now' \in 0..2
    BY <1>0, <1>3 DEF Tick, SettlementDeadline
  <2> QED  BY <2>1, <2>2, <2>3, OutsideGoesOn
<1>4. ASSUME NEW s \in Seats, NEW p \in Players, TakeSeat(s, p)
      PROVE  PaidInv' /\ StoredStep
  <2>1. ChainGoesOn /\ status' = status
    BY <1>0, <1>4, ChainTakesSeat DEF TakeSeat, Chain!TakeSeat
  <2>2. ConfirmedNext /\ HostRests /\ wait' = wait /\ mempool' = mempool /\ now' = now
    BY <1>4 DEF TakeSeat, ConfirmedNext, HostRests, network
  <2> QED  BY <1>0, <2>1, <2>2, OutsideGoesOn
<1> QED  BY <1>1, <1>2, <1>3, <1>4

(***************************************************************************)
(* The host goes on, and the contract stays as it is.                      *)
(***************************************************************************)
Faulted == NoFault \/ \E f \in Faults : Fault(f)

LEMMA FaultsNext ==
    ASSUME HostTyped, Faulted, mode' = mode
    PROVE  /\ faults' \in 0..MaxFaults /\ Closings <= Closings'
           /\ mode' = "closing" => faults' # 0
<1>1. faults \in Nat /\ faults' \in Nat /\ faults <= faults' /\ faults' <= MaxFaults
  BY Bounds DEF HostTyped, Faulted, NoFault, Fault
<1>2. Closings = IF mode = "closing" THEN faults - 1 ELSE faults
  BY DEF Closings
<1>3. Closings' = IF mode' = "closing" THEN faults' - 1 ELSE faults'
  BY DEF Closings
<1>4. mode = "closing" => faults # 0
  BY DEF HostTyped
<1>5. faults' \in 0..MaxFaults
  BY <1>1, Bounds
<1>6. ASSUME mode' = "closing" PROVE faults' # 0
  <2>1. faults # 0
    BY <1>4, <1>6
  <2> QED  BY <1>1, <2>1
<1>7. Closings <= Closings'
  <2>1. CASE mode = "closing"
    <3>1. Closings = faults - 1 /\ Closings' = faults' - 1
      BY <1>2, <1>3, <2>1
    <3>2. \A m, n \in Nat : m <= n => m - 1 <= n - 1
      OBVIOUS
    <3> QED  BY <1>1, <3>1, <3>2
  <2>2. CASE mode # "closing"
    BY <1>1, <1>2, <1>3, <2>2
  <2> QED  BY <2>1, <2>2
<1> QED  BY <1>5, <1>6, <1>7

LEMMA OnDiskStays ==
    ASSUME StoredStep, NEW w, NEW h, OnDisk(w, h) PROVE OnDisk(w, h)'
<1>1. CASE stored' = stored
  BY <1>1 DEF OnDisk
<1>2. CASE Continues(stored', stored)
  BY <1>2 DEF OnDisk, Continues, SameGame, GameOf
<1>3. CASE stored.stage \in Early
  BY <1>3 DEF OnDisk, Early
<1> QED  BY <1>1, <1>2, <1>3 DEF StoredStep

LEMMA ClaimsKept ==
    ASSUME ClaimInv, ChainStays, StoredStep, mempool' = mempool PROVE ClaimInv'
<1>1. \A w, h : OnDisk(w, h) => OnDisk(w, h)'
  BY OnDiskStays
<1> QED  BY <1>1 DEF ClaimInv, ChainStays, chain, OnDisk

\* At rest the host waits for nothing.
LEMMA NothingAwaited ==
    ASSUME wait' = "none",
           pc' \notin {"start.seats", "cancel.save", "settle.save"} \cup Waits
    PROVE  WaitInv'
BY DEF WaitInv, Waits

LEMMA HostGoesOnWith ==
    ASSUME PaidInv, ChainStays, confirmed' = confirmed, mempool' = mempool,
           wait' \in {"none", "pending", "success", "reverted"},
           HostTyped', RecordsInv', StoredStep, Place', InHand', WaitInv'
    PROVE  PaidInv' /\ StoredStep
<1>1. ChainGoesOn
  BY ChainRests DEF PaidInv
<1>2. ChainTyped' /\ ChainInv'
  BY <1>1, ChainInvNext DEF ChainGoesOn, ConfirmedNext, PaidInv, NetTyped
<1>3. NetTyped'
  BY DEF PaidInv, NetTyped
<1>4. ClaimInv'
  BY ClaimsKept DEF PaidInv
<1> QED  BY <1>2, <1>3, <1>4 DEF PaidInv

LEMMA HostGoesOn ==
    ASSUME PaidInv, ChainStays, confirmed' = confirmed, mempool' = mempool,
           wait' \in {"none", "pending", "success", "reverted"},
           HostTyped', Closings <= Closings',
           NEW a, NEW b, Sound(a), Sound(b), stored' = a, mem' = b,
           StoredStep, Place', InHand', WaitInv'
    PROVE  PaidInv' /\ StoredStep
<1>1. ChainGoesOn
  BY ChainRests DEF PaidInv
<1>2. RecordsInv'
  BY <1>1, RecordsNext DEF PaidInv
<1> QED  BY <1>2, HostGoesOnWith

LEMMA ThrowKeeps ==
    ASSUME PaidInv, Throw, Faulted PROVE PaidInv' /\ StoredStep
<1>1. /\ ChainStays /\ confirmed' = confirmed /\ mempool' = mempool /\ now' = now
      /\ stored' = stored /\ clock' = clock /\ mode' = mode
      /\ pc' = "idle" /\ wait' = "none"
  BY DEF Throw, Return, ChainStays
<1>2. \/ live' = FALSE /\ runtime' = NoOne /\ mem' = NoRecord
      \/ /\ pc \in {"settle.send", "settle.wait"} /\ live' = live /\ runtime' = runtime
         /\ mem' = IF live THEN mem ELSE NoRecord
  BY DEF Throw, Return, Forget
<1>3. HostTyped' /\ Closings <= Closings'
  <2>1. HostTyped /\ faults' \in 0..MaxFaults /\ Closings <= Closings'
        /\ (mode' = "closing" => faults' # 0)
    BY <1>1, FaultsNext DEF PaidInv
  <2> QED  BY <1>1, <1>2, <2>1 DEF HostTyped, Places
<1>4. Sound(stored) /\ Sound(mem')
  BY <1>2, NoRecordIsSound DEF PaidInv, RecordsInv
<1>5. Place'
  BY <1>1, <1>2 DEF PaidInv, Place, Waits
<1>6. InHand'
  BY <1>1, <1>2 DEF PaidInv, InHand, Creating, Canceling, Starting, Settling,
     Continues, RunsAs, SameGame
<1>7. WaitInv' /\ StoredStep
  BY <1>1, NothingAwaited DEF Waits, StoredStep
<1> QED
  <2>1. PICK b : b = mem'
    OBVIOUS
  <2>2. Sound(b)
    BY <1>4, <2>1
  <2>3. PICK a : a = stored
    OBVIOUS
  <2> QED  BY <1>1, <1>3, <1>4, <1>5, <1>6, <1>7, <2>1, <2>2, HostGoesOn

(***************************************************************************)
(* An operation sends its transaction, or finds that it is already mined.  *)
(***************************************************************************)
SameOperation(new, old) ==
    \/ new \in Creating /\ old \in Creating
    \/ new \in Starting /\ old \in Starting
    \/ new \in Canceling /\ old \in Canceling
    \/ new \in Settling /\ old \in Settling

OnlyPlaceMoves ==
    UNCHANGED <<chain, confirmed, now, stored, mem, live, runtime, clock, mode, faults>>

LEMMA OperationGoesOn ==
    ASSUME PaidInv, OnlyPlaceMoves, SameOperation(pc', pc), wait' # "none" <=> pc' \in Waits
    PROVE  /\ ChainStays /\ HostTyped' /\ Closings <= Closings' /\ Sound(stored) /\ Sound(mem)
           /\ Place' /\ InHand' /\ StoredStep
<1>1. ChainStays /\ StoredStep
  BY DEF OnlyPlaceMoves, ChainStays, StoredStep
<1>2. HostTyped'
  BY DEF OnlyPlaceMoves, PaidInv, HostTyped, SameOperation, Places
<1>3. Closings <= Closings'
  <2>1. Closings' = Closings
    BY DEF OnlyPlaceMoves, Closings
  <2> QED  BY <2>1, ClosingsTyped DEF PaidInv
<1>4. Sound(stored) /\ Sound(mem)
  BY DEF PaidInv, RecordsInv
<1>5. Place'
  BY DEF OnlyPlaceMoves, PaidInv, Place, SameOperation, Creating, Starting, Canceling, Settling
<1>6. InHand'
  BY DEF OnlyPlaceMoves, PaidInv, InHand, Continues, RunsAs, SameGame,
     SameOperation, Creating, Starting, Canceling, Settling
<1> QED  BY <1>1, <1>2, <1>3, <1>4, <1>5, <1>6

LEMMA SkipKeeps ==
    ASSUME PaidInv, NEW next, Skip(next),
           \/ pc = "create.inspect" /\ next = "create.save"
           \/ pc = "start.lock" /\ next = "start.seats" /\ status = "Locked"
           \/ pc = "cancel.void" /\ next = "cancel.save" /\ status = "Voided"
           \/ pc = "settle.send" /\ next = "settle.save" /\ IsPaid(mem)
    PROVE  PaidInv' /\ StoredStep
<1>1. /\ OnlyPlaceMoves /\ pc' = next /\ wait' = wait /\ mempool' = mempool
      /\ confirmed' = confirmed /\ stored' = stored /\ mem' = mem
  BY DEF Skip, OnlyPlaceMoves, NoFault, network
<1>2. wait' = "none" /\ pc' \notin Waits
  BY <1>1 DEF PaidInv, Place, Waits
<1>3. SameOperation(pc', pc)
  BY <1>1 DEF SameOperation, Creating, Starting, Canceling, Settling
<1>4. /\ ChainStays /\ HostTyped' /\ Closings <= Closings' /\ Sound(stored) /\ Sound(mem)
      /\ Place' /\ InHand' /\ StoredStep
  BY <1>1, <1>2, <1>3, OperationGoesOn
<1>5. IsPaid(mem) => IsPaid(mem)'
  BY <1>1, <1>4 DEF IsPaid, ChainStays, chain
<1>6. WaitInv'
  BY <1>1, <1>2, <1>4, <1>5 DEF WaitInv, ChainStays, chain
<1> QED
  <2>1. PICK a, b : a = stored /\ b = mem
    OBVIOUS
  <2> QED  BY <1>1, <1>2, <1>4, <1>6, <2>1, HostGoesOn

LEMMA LastOfAppend ==
    ASSUME NEW txs \in Seq(TxKind), NEW tx \in TxKind
    PROVE  /\ Append(txs, tx) \in Seq(TxKind) /\ Append(txs, tx) # <<>>
           /\ Last(Append(txs, tx)) = tx
           /\ \A i \in DOMAIN Append(txs, tx) :
                Append(txs, tx)[i] = tx
                \/ (i \in DOMAIN txs /\ Append(txs, tx)[i] = txs[i])
BY DEF Last

LEMMA SendKeeps ==
    ASSUME PaidInv, NEW tx \in TxKind, NEW next, Send(tx, next),
           \/ pc = "create.inspect" /\ next = "create.wait" /\ tx.call = "create"
           \/ pc = "start.lock" /\ next = "start.wait" /\ tx.call = "lock"
           \/ pc = "cancel.void" /\ next = "cancel.wait" /\ tx.call = "void"
           \/ pc = "settle.send" /\ next = "settle.wait" /\ tx = Payout
    PROVE  PaidInv' /\ StoredStep
<1>1. /\ OnlyPlaceMoves /\ pc' = next /\ wait' = "pending"
      /\ mempool' = Append(mempool, tx)
      /\ confirmed' = confirmed /\ stored' = stored /\ mem' = mem
  BY DEF Send, OnlyPlaceMoves, NoFault
<1>2. SameOperation(pc', pc) /\ pc' \in Waits
  BY <1>1 DEF SameOperation, Creating, Starting, Canceling, Settling, Waits
<1>3. /\ ChainStays /\ HostTyped' /\ Closings <= Closings' /\ Sound(stored) /\ Sound(mem)
      /\ Place' /\ InHand' /\ StoredStep
  BY <1>1, <1>2, OperationGoesOn
<1>4. mempool \in Seq(TxKind)
  BY DEF PaidInv, NetTyped
<1>5. WaitInv'
  <2>1. Payout' = Payout
    BY <1>1 DEF Payout, Tx
  <2>2. mempool' # <<>> /\ Last(mempool') = tx
    BY <1>1, <1>4, LastOfAppend
  <2> QED  BY <1>1, <2>1, <2>2 DEF WaitInv, Last
<1>6. ClaimInv'
  <2>1. tx.call = "settle" => OnDisk(tx.winner, tx.hash)
    <3> SUFFICES ASSUME tx.call = "settle" PROVE OnDisk(tx.winner, tx.hash)
      OBVIOUS
    <3>1. pc = "settle.send" /\ tx = Payout
      OBVIOUS
    <3>2. mem = stored /\ mem.stage = "pending"
      BY <3>1 DEF PaidInv, InHand, Settling
    <3>3. mem.replay # NoOne
      BY <3>2 DEF PaidInv, RecordsInv, Sound, Shaped
    <3>4. tx.winner = mem.replay.end /\ tx.hash = mem.replay /\ tx.winner # "draw"
      BY <3>1 DEF Payout, Tx
    <3> QED  BY <3>2, <3>3, <3>4 DEF OnDisk
  <2>2. \A i \in DOMAIN mempool' : mempool'[i].call = "settle"
             => OnDisk(mempool'[i].winner, mempool'[i].hash)
    BY <1>1, <1>4, <2>1, LastOfAppend DEF PaidInv, ClaimInv
  <2> QED  BY <1>1, <1>3, <2>2 DEF PaidInv, ClaimInv, OnDisk, ChainStays, chain
<1>7. ChainTyped' /\ ChainInv'
  BY <1>1, <1>3, ChainRests, ChainInvNext DEF ChainGoesOn, ConfirmedNext, PaidInv, NetTyped
<1>8. NetTyped'
  BY <1>1, <1>4, LastOfAppend DEF PaidInv, NetTyped
<1>9. RecordsInv'
  <2>1. PICK a, b : a = stored /\ b = mem
    OBVIOUS
  <2> QED  BY <1>1, <1>3, <2>1, ChainRests, RecordsNext DEF PaidInv
<1> QED  BY <1>3, <1>5, <1>6, <1>7, <1>8, <1>9 DEF PaidInv

LEMMA NoHashTyped == Tx("create", NoOne, NoOne) \in TxKind
                     /\ Tx("lock", NoOne, NoOne) \in TxKind
                     /\ Tx("void", NoOne, NoOne) \in TxKind
BY DEF Tx, TxKind

LEMMA PayoutTyped ==
    ASSUME PaidInv, pc = "settle.send" PROVE Payout \in TxKind /\ mem.replay # NoOne
<1>1. /\ mem.stage = "pending" /\ mem.replay # NoOne /\ mem.replay \in Replays
      /\ mem.replay.end # "running"
  BY DEF PaidInv, InHand, Settling, RecordsInv, Sound, Shaped, RecordKind
<1>2. mem.replay.end \in Seats \cup {"draw"}
  BY <1>1 DEF Replays
<1>3. CASE mem.replay.end = "draw"
  BY <1>1, <1>3, NoHashTyped DEF Payout
<1>4. CASE mem.replay.end # "draw"
  <2>1. Payout = Tx("settle", mem.replay.end, mem.replay)
    BY <1>4 DEF Payout
  <2> QED  BY <1>1, <1>2, <1>4, <2>1 DEF Tx, TxKind
<1> QED  BY <1>1, <1>3, <1>4

LEMMA SendingSteps ==
    PaidInv /\ (\/ CreateInspect \/ StartLock \/ CancelVoid \/ SettleSend
                \/ RpcFails \/ ReceiptLost \/ Reverted)
      => PaidInv' /\ StoredStep
<1> SUFFICES ASSUME PaidInv PROVE
      (\/ CreateInspect \/ StartLock \/ CancelVoid \/ SettleSend
       \/ RpcFails \/ ReceiptLost \/ Reverted) => PaidInv' /\ StoredStep
  OBVIOUS
<1>1. ASSUME CreateInspect PROVE PaidInv' /\ StoredStep
  <2>1. CASE Skip("create.save")
    BY <1>1, <2>1, SkipKeeps DEF CreateInspect
  <2>2. CASE Send(Tx("create", NoOne, NoOne), "create.wait")
    BY <1>1, <2>2, NoHashTyped, SendKeeps DEF CreateInspect, Tx
  <2>3. CASE Throw /\ NoFault
    BY <2>3, ThrowKeeps DEF Faulted
  <2> QED  BY <1>1, <2>1, <2>2, <2>3 DEF CreateInspect
<1>2. ASSUME StartLock PROVE PaidInv' /\ StoredStep
  <2>1. CASE status = "Locked" /\ Skip("start.seats")
    BY <1>2, <2>1, SkipKeeps DEF StartLock
  <2>2. CASE Send(Tx("lock", NoOne, NoOne), "start.wait")
    BY <1>2, <2>2, NoHashTyped, SendKeeps DEF StartLock, Tx
  <2>3. CASE Throw /\ NoFault
    BY <2>3, ThrowKeeps DEF Faulted
  <2> QED  BY <1>2, <2>1, <2>2, <2>3 DEF StartLock
<1>3. ASSUME CancelVoid PROVE PaidInv' /\ StoredStep
  <2>1. CASE status = "Voided" /\ Skip("cancel.save")
    BY <1>3, <2>1, SkipKeeps DEF CancelVoid
  <2>2. CASE Send(Tx("void", NoOne, NoOne), "cancel.wait")
    BY <1>3, <2>2, NoHashTyped, SendKeeps DEF CancelVoid, Tx
  <2>3. CASE Throw /\ NoFault
    BY <2>3, ThrowKeeps DEF Faulted
  <2> QED  BY <1>3, <2>1, <2>2, <2>3 DEF CancelVoid
<1>4. ASSUME SettleSend PROVE PaidInv' /\ StoredStep
  <2>0. pc = "settle.send" /\ Payout \in TxKind /\ mem.replay # NoOne
    BY <1>4, PayoutTyped DEF SettleSend
  <2>1. CASE /\ \/ status = "Settled" /\ resultHash = mem.replay /\ winner = mem.replay.end
                \/ status = "Voided" /\ mem.replay.end = "draw"
             /\ Skip("settle.save")
    <3>1. IsPaid(mem)
      <4>1. CASE status = "Voided" /\ mem.replay.end = "draw"
        BY <4>1 DEF IsPaid
      <4>2. CASE status = "Settled" /\ resultHash = mem.replay /\ winner = mem.replay.end
        <5>1. mem = stored /\ OnDisk(winner, resultHash)
          BY <2>0, <4>2 DEF PaidInv, InHand, Settling, ClaimInv
        <5>2. winner # "draw"
          BY <5>1 DEF OnDisk
        <5> QED  BY <2>0, <4>2, <5>2 DEF IsPaid
      <4> QED  BY <2>1, <4>1, <4>2
    <3> QED  BY <2>0, <2>1, <3>1, SkipKeeps
  <2>2. CASE Send(Payout, "settle.wait")
    BY <2>0, <2>2, SendKeeps
  <2>3. CASE Throw /\ NoFault
    BY <2>3, ThrowKeeps DEF Faulted
  <2> QED  BY <1>4, <2>1, <2>2, <2>3 DEF SettleSend
<1>5. ASSUME RpcFails PROVE PaidInv' /\ StoredStep
  BY <1>5, ThrowKeeps DEF RpcFails, Faulted, Fault
<1>6. ASSUME ReceiptLost PROVE PaidInv' /\ StoredStep
  BY <1>6, ThrowKeeps DEF ReceiptLost, Faulted, Fault
<1>7. ASSUME Reverted PROVE PaidInv' /\ StoredStep
  BY <1>7, ThrowKeeps DEF Reverted, Faulted
<1> QED  BY <1>1, <1>2, <1>3, <1>4, <1>5, <1>6, <1>7

(***************************************************************************)
(* The lobby: the record is made, refreshed, started and canceled.         *)
(***************************************************************************)
LEMMA Ranks ==
    /\ Rank("absent") = 1 /\ Rank("prepared") = 2 /\ Rank("funding") = 3
    /\ Rank("playing") = 4 /\ Rank("pending") = 5 /\ Rank("settled") = 6
<1>1. DOMAIN Stages = 1..6
  BY DEF Stages
<1>2. /\ Stages[1] = "absent" /\ Stages[2] = "prepared" /\ Stages[3] = "funding"
      /\ Stages[4] = "playing" /\ Stages[5] = "pending" /\ Stages[6] = "settled"
  BY DEF Stages
<1>3. \A i \in 1..6 : i = 1 \/ i = 2 \/ i = 3 \/ i = 4 \/ i = 5 \/ i = 6
  OBVIOUS
<1>4. ASSUME NEW i \in 1..6 PROVE Rank(Stages[i]) = i
  <2>1. Rank(Stages[i]) \in 1..6 /\ Stages[Rank(Stages[i])] = Stages[i]
    BY <1>1 DEF Rank
  <2>2. PICK j : j = Rank(Stages[i])
    OBVIOUS
  <2>3. j \in 1..6 /\ Stages[j] = Stages[i]
    BY <2>1, <2>2
  <2>4. j = i
    BY <1>2, <1>3, <2>3
  <2> QED  BY <2>2, <2>4
<1>5. 1 \in 1..6 /\ 2 \in 1..6 /\ 3 \in 1..6 /\ 4 \in 1..6 /\ 5 \in 1..6 /\ 6 \in 1..6
  OBVIOUS
<1> QED  BY <1>2, <1>4, <1>5

LEMMA EarlyIsSound ==
    ASSUME NEW r \in RecordKind, r.stage \in Early, r.replay = NoOne PROVE Sound(r)
BY DEF Sound, Shaped, Dealt, Counted, Early

\* Before the game is dealt nothing is in memory but the operation's record.
LEMMA NothingInMemory ==
    ASSUME PaidInv, pc = "idle", stored.stage \in Early
    PROVE  /\ ~live /\ runtime = NoOne /\ mem = NoRecord /\ wait = "none"
           /\ stored \in RecordKind /\ stored.replay = NoOne
<1>1. ~live
  <2>1. stored.replay = NoOne
    BY DEF PaidInv, RecordsInv, Sound, Shaped
  <2> QED  BY <2>1 DEF PaidInv, InHand, Continues, Starting
<1> QED  BY <1>1 DEF PaidInv, InHand, Place, Waits, RecordsInv, Sound, Shaped

LEMMA CreateBeginKeeps == PaidInv /\ CreateBegin => PaidInv' /\ StoredStep
<1> SUFFICES ASSUME PaidInv, CreateBegin PROVE PaidInv' /\ StoredStep
  OBVIOUS
<1> DEFINE r == [stored EXCEPT !.stage = "prepared"]
<1>1. /\ ChainStays /\ confirmed' = confirmed /\ mempool' = mempool /\ now' = now
      /\ stored' = r /\ mem' = r /\ live' = live /\ runtime' = runtime /\ clock' = clock
      /\ mode' = mode /\ mode = "up" /\ wait' = wait /\ pc' = "create.inspect" /\ pc = "idle"
      /\ stored.stage \in {"absent", "prepared"} /\ NoFault
  BY DEF CreateBegin, Put, Serving, ChainStays, network
<1>2. /\ ~live /\ runtime = NoOne /\ wait = "none"
      /\ stored \in RecordKind /\ stored.replay = NoOne
  BY <1>1, NothingInMemory DEF Early
<1>3. r \in RecordKind /\ r.stage = "prepared" /\ r.replay = NoOne
  BY <1>2 DEF RecordKind, StageKind
<1>4. Sound(r)
  BY <1>3, EarlyIsSound DEF Early
<1>5. HostTyped' /\ Closings <= Closings'
  BY <1>1, FaultsNext DEF Faulted, PaidInv, HostTyped, Places, Creating
<1>6. Place' /\ WaitInv'
  BY <1>1, <1>2, NothingAwaited DEF Place, Waits
<1>7. InHand'
  BY <1>1, <1>2, <1>3 DEF InHand, Creating, Canceling, Starting, Settling
<1>8. StoredStep
  BY <1>1, <1>3, Ranks DEF StoredStep, Early
<1> HIDE DEF r
<1> QED  BY <1>1, <1>2, <1>4, <1>5, <1>6, <1>7, <1>8, HostGoesOn

LEMMA CancelBeginKeeps == PaidInv /\ CancelBegin => PaidInv' /\ StoredStep
<1> SUFFICES ASSUME PaidInv, CancelBegin PROVE PaidInv' /\ StoredStep
  OBVIOUS
<1> DEFINE r == [stored EXCEPT !.cancel = TRUE]
<1>1. /\ ChainStays /\ confirmed' = confirmed /\ mempool' = mempool /\ now' = now
      /\ stored' = r /\ mem' = r /\ live' = live /\ runtime' = runtime /\ clock' = clock
      /\ mode' = mode /\ mode # "down" /\ wait' = wait /\ pc' = "cancel.void" /\ pc = "idle"
      /\ stored.stage = "funding" /\ NoFault
  BY DEF CancelBegin, Put, ChainStays, network
<1>2. /\ ~live /\ runtime = NoOne /\ wait = "none"
      /\ stored \in RecordKind /\ stored.replay = NoOne
  BY <1>1, NothingInMemory DEF Early
<1>3. r \in RecordKind /\ r.stage = "funding" /\ r.replay = NoOne
  BY <1>1, <1>2 DEF RecordKind
<1>4. Sound(r)
  BY <1>3, EarlyIsSound DEF Early
<1>5. HostTyped' /\ Closings <= Closings'
  BY <1>1, FaultsNext DEF Faulted, PaidInv, HostTyped, Places, Canceling
<1>6. Place' /\ WaitInv'
  BY <1>1, <1>2, NothingAwaited DEF Place, Waits
<1>7. InHand'
  BY <1>1, <1>2, <1>3 DEF InHand, Creating, Canceling, Starting, Settling
<1>8. StoredStep
  BY <1>1, <1>3, Ranks DEF StoredStep, Early
<1> HIDE DEF r
<1> QED  BY <1>1, <1>2, <1>4, <1>5, <1>6, <1>7, <1>8, HostGoesOn

LEMMA RefreshedTyped ==
    ASSUME PaidInv, NEW r \in RecordKind
    PROVE  /\ Refreshed(r) \in RecordKind /\ Refreshed(r).stage = r.stage
           /\ Refreshed(r).replay = r.replay /\ Refreshed(r).cancel = r.cancel
           /\ Refreshed(r).seats = confirmed.owner
BY DEF Refreshed, RecordKind, PaidInv, NetTyped

LEMMA RefreshSeatsKeeps == PaidInv /\ RefreshSeats => PaidInv' /\ StoredStep
<1> SUFFICES ASSUME PaidInv, RefreshSeats PROVE PaidInv' /\ StoredStep
  OBVIOUS
<1> DEFINE r == Refreshed(stored)
<1>1. /\ ChainStays /\ confirmed' = confirmed /\ mempool' = mempool /\ now' = now
      /\ stored' = r /\ mem' = mem /\ live' = live /\ runtime' = runtime /\ clock' = clock
      /\ mode' = mode /\ mode # "down" /\ wait' = wait /\ pc' = "idle" /\ pc = "idle"
      /\ stored.stage = "funding" /\ NoFault
  BY DEF RefreshSeats, Put, ChainStays, network, host
<1>2. /\ ~live /\ runtime = NoOne /\ wait = "none" /\ mem = NoRecord
      /\ stored \in RecordKind /\ stored.replay = NoOne
  BY <1>1, NothingInMemory DEF Early
<1>3. r \in RecordKind /\ r.stage = "funding" /\ r.replay = NoOne
  BY <1>1, <1>2, RefreshedTyped
<1>4. Sound(r) /\ Sound(mem)
  BY <1>3, EarlyIsSound DEF Early, PaidInv, RecordsInv
<1>5. HostTyped' /\ Closings <= Closings'
  BY <1>1, FaultsNext DEF Faulted, PaidInv, HostTyped, Places
<1>6. Place' /\ WaitInv'
  BY <1>1, <1>2, NothingAwaited DEF Place, Waits
<1>7. InHand'
  BY <1>1, <1>2 DEF InHand, Creating, Canceling, Starting, Settling
<1>8. StoredStep
  BY <1>1, <1>3, Ranks DEF StoredStep, Early
<1> HIDE DEF r
<1>9. PICK b : b = mem
  OBVIOUS
<1> QED  BY <1>1, <1>2, <1>4, <1>5, <1>6, <1>7, <1>8, <1>9, HostGoesOn

LEMMA StartBeginKeeps == PaidInv /\ StartBegin => PaidInv' /\ StoredStep
<1> SUFFICES ASSUME PaidInv, StartBegin PROVE PaidInv' /\ StoredStep
  OBVIOUS
<1> DEFINE r == Refreshed(stored)
<1>1. /\ ChainStays /\ confirmed' = confirmed /\ mempool' = mempool /\ now' = now
      /\ stored' = r /\ mem' = r /\ live' = TRUE /\ runtime' = NewGame /\ clock' = clock
      /\ mode' = mode /\ mode = "up" /\ wait' = wait /\ pc' = "start.lock" /\ pc = "idle"
      /\ stored.stage = "funding" /\ ~stored.cancel /\ confirmed.paid = Seats /\ NoFault
  BY DEF StartBegin, Put, Serving, ChainStays, network
<1>2. wait = "none" /\ stored \in RecordKind /\ stored.replay = NoOne
  BY <1>1, NothingInMemory DEF Early
<1>3. r \in RecordKind /\ r.stage = "funding" /\ r.replay = NoOne /\ ~r.cancel
  BY <1>1, <1>2, RefreshedTyped
<1>4. Sound(r)
  BY <1>3, EarlyIsSound DEF Early
<1>5. NewGame \in Games /\ NewGame # NoOne
  BY Bounds, NobodyAssumption DEF NewGame, Games
<1>6. HostTyped' /\ Closings <= Closings'
  BY <1>1, <1>5, FaultsNext DEF Faulted, PaidInv, HostTyped, Places, Starting
<1>7. Place' /\ WaitInv'
  BY <1>1, <1>2, <1>5, NothingAwaited DEF Place, Waits
<1>8. InHand'
  BY <1>1, <1>3 DEF InHand, Creating, Canceling, Starting, Settling
<1>9. StoredStep
  BY <1>1, <1>3, Ranks DEF StoredStep, Early
<1> HIDE DEF r
<1> QED  BY <1>1, <1>2, <1>4, <1>6, <1>7, <1>8, <1>9, HostGoesOn

LEMMA EarlyStep ==
    ASSUME stored.stage \in Early, NEW r, stored' = r \/ stored' = stored,
           Rank(r.stage) >= Rank(stored.stage)
    PROVE  StoredStep
BY DEF StoredStep

\* What an operation leaves in memory when it ends without a live record.
LEMMA OperationOver ==
    ASSUME PaidInv, ~live', runtime' = NoOne, mem' = NoRecord, wait' = "none", pc' = "idle"
    PROVE  Place' /\ InHand' /\ WaitInv' /\ Sound(mem')
<1>1. Place' /\ WaitInv'
  BY NothingAwaited DEF Place, Waits
<1>2. InHand'
  BY DEF InHand, Creating, Canceling, Starting, Settling
<1> QED  BY <1>1, <1>2, NoRecordIsSound

LEMMA CreateSaveKeeps == PaidInv /\ CreateSave => PaidInv' /\ StoredStep
<1> SUFFICES ASSUME PaidInv, CreateSave PROVE PaidInv' /\ StoredStep
  OBVIOUS
<1> DEFINE r == [mem EXCEPT !.stage = "funding"]
<1>1. /\ ChainStays /\ confirmed' = confirmed /\ mempool' = mempool /\ now' = now
      /\ live' = live /\ runtime' = runtime /\ clock' = clock /\ mode' = mode
      /\ wait' = "none" /\ pc' = "idle" /\ pc \in Creating /\ Faulted
      /\ mem' = IF live' THEN mem ELSE NoRecord
      /\ stored' = r \/ stored' = stored
  BY DEF CreateSave, Put, PutFails, Faulted, Fault, Return, ChainStays, Creating
<1>2. /\ ~live /\ runtime = NoOne /\ mem = stored /\ mem.stage = "prepared"
      /\ mem \in RecordKind /\ mem.replay = NoOne
  BY <1>1 DEF PaidInv, InHand, Place, RecordsInv, Sound, Shaped, Early
<1>3. r \in RecordKind /\ r.stage = "funding" /\ r.replay = NoOne
  BY <1>2 DEF RecordKind, StageKind
<1>4. Sound(r) /\ Sound(stored)
  BY <1>3, EarlyIsSound DEF Early, PaidInv, RecordsInv
<1>5. HostTyped' /\ Closings <= Closings'
  BY <1>1, FaultsNext DEF PaidInv, HostTyped, Places
<1>6. Place' /\ InHand' /\ WaitInv' /\ Sound(mem') /\ mem' = NoRecord
  BY <1>1, <1>2, OperationOver
<1>7. StoredStep
  <2>1. stored.stage \in Early /\ Rank(r.stage) >= Rank(stored.stage)
    BY <1>2, <1>3, Ranks DEF Early
  <2> QED  BY <1>1, <2>1, EarlyStep
<1>8. PICK a : a = stored' /\ Sound(a)
  BY <1>1, <1>4
<1> HIDE DEF r
<1> QED  BY <1>1, <1>5, <1>6, <1>7, <1>8, NoRecordIsSound, HostGoesOn

LEMMA CancelSaveKeeps == PaidInv /\ CancelSave => PaidInv' /\ StoredStep
<1> SUFFICES ASSUME PaidInv, CancelSave PROVE PaidInv' /\ StoredStep
  OBVIOUS
<1> DEFINE r == [mem EXCEPT !.stage = "settled"]
<1>1. /\ ChainStays /\ confirmed' = confirmed /\ mempool' = mempool /\ now' = now
      /\ live' = live /\ runtime' = runtime /\ clock' = clock /\ mode' = mode
      /\ wait' = "none" /\ pc' = "idle" /\ pc \in Canceling /\ Faulted
      /\ mem' = IF live' THEN mem ELSE NoRecord
      /\ stored' = r \/ stored' = stored
      /\ pc = "cancel.save" \/ (pc = "cancel.wait" /\ wait = "success")
  BY DEF CancelSave, Put, PutFails, Faulted, Fault, Return, ChainStays, Canceling
<1>2. /\ ~live /\ runtime = NoOne /\ mem = stored /\ mem.stage = "funding"
      /\ mem \in RecordKind /\ mem.replay = NoOne
  BY <1>1 DEF PaidInv, InHand, Place, RecordsInv, Sound, Shaped, Early
<1>3. r \in RecordKind /\ r.stage = "settled" /\ r.replay = NoOne
  BY <1>2 DEF RecordKind, StageKind
<1>4. status = "Voided"
  BY <1>1 DEF PaidInv, WaitInv
<1>5. Sound(r) /\ Sound(stored)
  BY <1>3, <1>4 DEF Sound, Shaped, Dealt, Counted, IsPaid, Early, PaidInv, RecordsInv
<1>6. HostTyped' /\ Closings <= Closings'
  BY <1>1, FaultsNext DEF PaidInv, HostTyped, Places
<1>7. Place' /\ InHand' /\ WaitInv' /\ Sound(mem') /\ mem' = NoRecord
  BY <1>1, <1>2, OperationOver
<1>8. StoredStep
  <2>1. stored.stage \in Early /\ Rank(r.stage) >= Rank(stored.stage)
    BY <1>2, <1>3, Ranks DEF Early
  <2> QED  BY <1>1, <2>1, EarlyStep
<1>9. PICK a : a = stored' /\ Sound(a)
  BY <1>1, <1>5
<1> HIDE DEF r
<1> QED  BY <1>1, <1>6, <1>7, <1>8, <1>9, NoRecordIsSound, HostGoesOn

LEMMA ContinuesItself ==
    ASSUME NEW r, r.replay # NoOne, r.stage \in {"playing", "pending", "settled"}
    PROVE  Continues(r, r)
BY DEF Continues, SameGame

LEMMA StartSeatsKeeps == PaidInv /\ StartSeats => PaidInv' /\ StoredStep
<1> SUFFICES ASSUME PaidInv, StartSeats PROVE PaidInv' /\ StoredStep
  OBVIOUS
<1> DEFINE f == Refreshed(mem)
           r == [f EXCEPT !.stage = "playing", !.replay = Export(runtime)]
<1>1. /\ ChainStays /\ confirmed' = confirmed /\ mempool' = mempool /\ now' = now
      /\ mode' = mode /\ wait' = "none" /\ pc' = "idle" /\ pc \in Starting /\ Faulted
      /\ clock' \in BOOLEAN
      /\ \/ stored' = r /\ live' = live /\ runtime' = runtime
            /\ mem' = IF live' THEN r ELSE NoRecord
         \/ stored' = stored /\ live' = FALSE /\ runtime' = NoOne /\ mem' = NoRecord
      /\ pc = "start.seats" \/ (pc = "start.wait" /\ wait = "success")
  BY DEF StartSeats, Put, PutFails, Faulted, Fault, Return, Forget, ChainStays, Starting,
     PaidInv, HostTyped
<1>2. /\ live /\ mem = stored /\ mem.stage = "funding" /\ ~mem.cancel /\ runtime = NewGame
      /\ confirmed.paid = Seats /\ mem \in RecordKind /\ runtime # NoOne
  BY <1>1 DEF PaidInv, InHand, Place, RecordsInv, Sound
<1>3. f \in RecordKind /\ ~f.cancel /\ f.seats = confirmed.owner
  BY <1>2, RefreshedTyped
<1>4. Export(runtime) = [moves |-> 0, end |-> "running", exported |-> 0]
  BY <1>2 DEF Export, NewGame
<1>5. Export(runtime) \in Replays /\ Export(runtime) # NoOne
  BY <1>4, Bounds, NobodyAssumption DEF Replays
<1>6. /\ r \in RecordKind /\ r.stage = "playing" /\ r.replay = Export(runtime)
      /\ ~r.cancel /\ r.seats = confirmed.owner
  BY <1>3, <1>5 DEF RecordKind, StageKind
<1>7. Sound(r) /\ Sound(stored)
  <2>1. status \notin {"Absent", "Funding"}
    BY <1>1 DEF PaidInv, WaitInv
  <2>2. paid = Seats /\ owner = confirmed.owner
    <3>1. /\ Seats \subseteq paid /\ paid \subseteq Seats
          /\ \A s \in Seats : confirmed.owner[s] = owner[s]
      BY <1>2 DEF PaidInv, ChainInv, ChainTyped
    <3>2. /\ owner \in [Seats -> Players \cup {NoOne}]
          /\ confirmed.owner \in [Seats -> Players \cup {NoOne}]
      BY DEF PaidInv, ChainTyped, NetTyped
    <3>3. paid = Seats
      BY <3>1
    <3> QED  BY <3>1, <3>2, <3>3
  <2>3. Shaped(r)
    BY <1>4, <1>5, <1>6 DEF Shaped, Early
  <2>4. Dealt(r)
    BY <1>6, <2>1, <2>2 DEF Dealt
  <2>5. Counted(r)
    <3>1. r.replay.exported = 0 /\ Closings \in Nat
      BY <1>4, <1>6, ClosingsTyped DEF PaidInv
    <3> QED  BY <3>1 DEF Counted
  <2> HIDE DEF r
  <2> QED  BY <1>6, <2>3, <2>4, <2>5 DEF Sound, PaidInv, RecordsInv
<1>8. StoredStep
  <2>1. stored.stage \in Early /\ Rank(r.stage) >= Rank(stored.stage)
    BY <1>2, <1>6, Ranks DEF Early
  <2> HIDE DEF r
  <2> QED  BY <1>1, <2>1, EarlyStep
<1>9. HostTyped' /\ Closings <= Closings'
  <2>1. HostTyped /\ runtime' \in Games \cup {NoOne} /\ live' \in BOOLEAN
    BY <1>1 DEF PaidInv, HostTyped
  <2>2. /\ faults' \in 0..MaxFaults /\ Closings <= Closings'
        /\ mode' = "closing" => faults' # 0
    BY <1>1, <2>1, FaultsNext
  <2>3. /\ pc' = "idle" /\ mode' = mode /\ now' = now /\ clock' \in BOOLEAN
    BY <1>1
  <2> QED  BY <2>1, <2>2, <2>3 DEF HostTyped, Places
<1>10. CASE stored' = r /\ live' = live /\ runtime' = runtime /\ mem' = r
  <2>1. Place' /\ WaitInv'
    BY <1>1, <1>2, <1>10, NothingAwaited DEF Place, Waits, PaidInv
  <2>2. Continues(r, r) /\ RunsAs(r, runtime)
    <3>1. Continues(r, r)
      BY <1>5, <1>6, ContinuesItself
    <3>2. r.replay.moves = 0 /\ runtime.moves = 0 /\ runtime.end = "running"
      BY <1>2, <1>4, <1>6 DEF NewGame
    <3> QED  BY <1>6, <3>1, <3>2 DEF RunsAs
  <2> HIDE DEF r
  <2>3. InHand'
    BY <1>1, <1>2, <1>10, <2>2 DEF InHand, Creating, Canceling, Starting, Settling,
       Continues, RunsAs, SameGame
  <2> QED  BY <1>1, <1>7, <1>8, <1>9, <1>10, <2>1, <2>3, HostGoesOn
<1>11. CASE stored' = stored /\ live' = FALSE /\ runtime' = NoOne /\ mem' = NoRecord
  <2>1. Place' /\ InHand' /\ WaitInv'
    BY <1>1, <1>11, OperationOver
  <2>2. PICK a : a = stored
    OBVIOUS
  <2> HIDE DEF r
  <2> QED  BY <1>1, <1>7, <1>8, <1>9, <1>11, <2>1, <2>2, NoRecordIsSound, HostGoesOn
<1> QED  BY <1>1, <1>2, <1>10, <1>11

(***************************************************************************)
(* The game: a move continues the record it was made from.                 *)
(***************************************************************************)
LEMMA ContinuesOn ==
    ASSUME NEW new, NEW mid, NEW old, Continues(new, mid), Continues(mid, old),
           old.replay.moves \in Nat, mid.replay.moves \in Nat, new.replay.moves \in Nat
    PROVE  Continues(new, old)
<1>1. /\ old.replay # NoOne /\ new.replay # NoOne
      /\ SameGame(new, mid) => new.replay.moves = mid.replay.moves
      /\ SameGame(mid, old) => mid.replay.moves = old.replay.moves
  BY DEF Continues, SameGame, GameOf
<1>2. CASE old.stage = "playing"
  BY <1>1, <1>2 DEF Continues
<1>3. CASE old.stage = "pending"
  BY <1>1, <1>3 DEF Continues, SameGame
<1>4. CASE old.stage = "settled"
  BY <1>1, <1>4 DEF Continues, SameGame
<1> QED  BY <1>2, <1>3, <1>4 DEF Continues

LEMMA MovesTyped ==
    ASSUME NEW r, Sound(r), r.replay # NoOne
    PROVE  /\ r.replay.moves \in Nat /\ r.replay \in Replays
           /\ GameOf(r.replay) \in Games /\ GameOf(r.replay) # NoOne
<1>1. r.replay \in Replays
  BY DEF Sound, RecordKind
<1>2. GameOf(r.replay) \in Games
  BY <1>1 DEF Replays, Games, GameOf
<1> QED  BY <1>1, <1>2, NobodyAssumption, Bounds DEF Replays

LEMMA AdvanceTyped ==
    ASSUME NEW game \in Games, NEW next \in Advance(game)
    PROVE  /\ next \in Games /\ next # NoOne
           /\ game.moves \in Nat /\ next.moves \in Nat /\ game.moves < next.moves
<1>1. next \in Games /\ next.moves = game.moves + 1
  BY DEF Advance
<1>2. game.moves \in Nat /\ next.moves \in Nat
  BY <1>1, Bounds DEF Games
<1> QED  BY <1>1, <1>2, NobodyAssumption

\* The record after a move of a game that is ahead of it, or as far.
LEMMA PlayedIsSound ==
    ASSUME PaidInv, NEW r, Sound(r), r.stage = "playing",
           NEW game \in Games, r.replay.moves < game.moves
    PROVE  /\ Sound(Played(r, game)) /\ Continues(Played(r, game), r)
           /\ RunsAs(Played(r, game), game)
           /\ Played(r, game).stage = (IF Ended(game) THEN "pending" ELSE "playing")
           /\ Played(r, game).replay # NoOne /\ Played(r, game).replay.moves = game.moves
<1> DEFINE p == Played(r, game)
<1>1. r \in RecordKind /\ r.replay # NoOne
  BY DEF Sound, Shaped
<1>2. /\ Export(game) \in Replays /\ Export(game) # NoOne
      /\ Export(game).moves = game.moves /\ Export(game).end = game.end
      /\ Export(game).exported = 0
  BY Bounds, NobodyAssumption DEF Export, Games, Replays
<1>3. /\ p \in RecordKind /\ p.replay = Export(game) /\ p.seats = r.seats
      /\ p.cancel = r.cancel
      /\ p.stage = IF game.end = "running" THEN "playing" ELSE "pending"
  BY <1>1, <1>2 DEF Played, RecordKind, StageKind
<1> HIDE DEF p
<1>4. Sound(p)
  <2>1. Shaped(p)
    BY <1>2, <1>3 DEF Shaped, Early
  <2>2. Dealt(p)
    BY <1>1, <1>3 DEF Sound, Dealt
  <2>3. Counted(p)
    <3>1. Closings \in Nat /\ p.replay.exported = 0
      BY <1>2, <1>3, ClosingsTyped DEF PaidInv
    <3> QED  BY <3>1 DEF Counted
  <2> QED  BY <1>3, <2>1, <2>2, <2>3 DEF Sound
<1>5. Continues(p, r)
  BY <1>1, <1>2, <1>3 DEF Continues
<1>6. RunsAs(p, game)
  <2>1. CASE game.end = "running"
    <3>1. game.moves \in Nat
      BY Bounds DEF Games
    <3> QED  BY <1>2, <1>3, <2>1, <3>1 DEF RunsAs
  <2>2. CASE game.end # "running"
    <3>1. game = GameOf(p.replay)
      BY <1>2, <1>3 DEF Games, GameOf
    <3> QED  BY <1>3, <2>2, <3>1 DEF RunsAs
  <2> QED  BY <2>1, <2>2
<1> QED  BY <1>2, <1>3, <1>4, <1>5, <1>6 DEF Ended, p

\* That a game stopped with an error changes nothing else.
LEMMA ErrorIsSound ==
    ASSUME NEW r, Sound(r)
    PROVE  LET e == [r EXCEPT !.error = TRUE] IN
           /\ Sound(e) /\ e.stage = r.stage /\ e.replay = r.replay
           /\ \A old : Continues(r, old) => Continues(e, old)
           /\ \A game : RunsAs(r, game) => RunsAs(e, game)
<1> DEFINE e == [r EXCEPT !.error = TRUE]
<1>1. r \in RecordKind
  BY DEF Sound
<1>2. /\ e \in RecordKind /\ e.stage = r.stage /\ e.replay = r.replay
      /\ e.seats = r.seats /\ e.cancel = r.cancel
  BY <1>1 DEF RecordKind
<1> HIDE DEF e
<1>3. Sound(e)
  BY <1>2 DEF Sound, Shaped, Dealt, Counted, IsPaid
<1>4. \A old : Continues(r, old) => Continues(e, old)
  BY <1>2 DEF Continues, SameGame
<1>5. \A game : RunsAs(r, game) => RunsAs(e, game)
  BY <1>2 DEF RunsAs
<1> QED  BY <1>2, <1>3, <1>4, <1>5 DEF e

\* What require and runtime return while no operation is under way.
LEMMA RecordInHand ==
    ASSUME PaidInv, pc \in {"idle", "recover.release", "settle.begin"},
           Record.stage \in {"playing", "pending"}
    PROVE  /\ Sound(Record) /\ Continues(Record, stored)
           /\ Runtime(Record) \in Games /\ Runtime(Record) # NoOne
           /\ RunsAs(Record, Runtime(Record)) /\ wait = "none"
<1>1. wait = "none" /\ pc \notin Starting /\ live \in BOOLEAN
  BY DEF PaidInv, Place, Waits, Starting, HostTyped
<1>2. CASE live
  <2>1. Record = mem /\ runtime # NoOne /\ runtime \in Games
    BY <1>2 DEF Record, PaidInv, Place, HostTyped
  <2>2. Runtime(Record) = runtime
    BY <2>1 DEF Runtime
  <2> QED  BY <1>1, <1>2, <2>1, <2>2 DEF PaidInv, RecordsInv, InHand
<1>3. CASE ~live
  <2>1. Record = stored /\ runtime = NoOne /\ Sound(stored)
    BY <1>3 DEF Record, PaidInv, Place, RecordsInv
  <2>2. stored.replay # NoOne
    BY <2>1 DEF Sound, Shaped
  <2>3. Runtime(Record) = GameOf(stored.replay)
    BY <2>1, <2>2 DEF Runtime
  <2>4. /\ stored.replay.moves \in Nat
        /\ GameOf(stored.replay) \in Games /\ GameOf(stored.replay) # NoOne
    BY <2>1, <2>2, MovesTyped
  <2>5. Continues(stored, stored)
    BY <2>1, <2>2, ContinuesItself
  <2>6. RunsAs(stored, GameOf(stored.replay))
    <3>1. CASE stored.stage = "playing"
      <4>1. stored.replay.end = "running"
        BY <2>1, <3>1 DEF Sound, Shaped
      <4>2. /\ GameOf(stored.replay).end = "running"
            /\ GameOf(stored.replay).moves = stored.replay.moves
        BY <4>1 DEF GameOf
      <4> QED  BY <2>4, <3>1, <4>2 DEF RunsAs
    <3>2. CASE stored.stage # "playing"
      BY <3>2 DEF RunsAs
    <3> QED  BY <3>1, <3>2
  <2> QED  BY <1>1, <2>1, <2>3, <2>4, <2>5, <2>6
<1> QED  BY <1>1, <1>2, <1>3

\* A step after which the match is live.
LEMMA LiveKeeps ==
    ASSUME PaidInv, ChainStays, confirmed' = confirmed, mempool' = mempool, now' = now,
           wait' = "none", pc' \in {"idle", "settle.begin", "recover.release", "settle.send"},
           mode' = mode, mode # "down", Faulted, live' = TRUE, clock' \in BOOLEAN,
           NEW game \in Games, game # NoOne, runtime' = game,
           NEW a, NEW b, Sound(a), Sound(b), stored' = a, mem' = b, StoredStep,
           Continues(b, a), RunsAs(b, game),
           pc' = "settle.begin" => b.stage = "pending",
           pc' = "settle.send" => b = a /\ b.stage = "pending"
    PROVE  PaidInv' /\ StoredStep
<1>1. HostTyped' /\ Closings <= Closings'
  <2>1. /\ HostTyped /\ faults' \in 0..MaxFaults /\ Closings <= Closings'
        /\ mode' = "closing" => faults' # 0
    BY FaultsNext DEF PaidInv
  <2> QED  BY <2>1 DEF HostTyped, Places, Settling
<1>2. Place'
  BY DEF Place, Waits
<1>3. WaitInv'
  BY NothingAwaited DEF Waits
<1>4. InHand'
  BY DEF InHand, Creating, Canceling, Starting, Settling, Continues, RunsAs, SameGame
<1> QED  BY <1>1, <1>2, <1>3, <1>4, HostGoesOn

LEMMA PlayerMoveKeeps == PaidInv /\ PlayerMove => PaidInv' /\ StoredStep
<1> SUFFICES ASSUME PaidInv, PlayerMove PROVE PaidInv' /\ StoredStep
  OBVIOUS
<1>1. PICK game \in Advance(Runtime(Record)) :
        LET played == Played(Record, game) IN
        /\ runtime' = game /\ live' = TRUE
        /\ \/ /\ Put(played) /\ mem' = played
              /\ pc' = Over(game, pc) /\ clock' = (clock /\ ~Ended(game))
           \/ /\ PutFails /\ mem' = [played EXCEPT !.error = TRUE]
              /\ pc' = "idle" /\ clock' = FALSE
  BY DEF PlayerMove
<1>2. /\ pc \in {"idle", "recover.release"} /\ mode # "down" /\ mode' = mode
      /\ Record.stage = "playing" /\ ChainStays /\ confirmed' = confirmed
      /\ mempool' = mempool /\ now' = now /\ wait' = wait
  BY DEF PlayerMove, Serving, ChainStays, network, PaidInv, Place
<1>3. /\ Sound(Record) /\ Continues(Record, stored) /\ Runtime(Record) \in Games
      /\ RunsAs(Record, Runtime(Record)) /\ wait = "none"
  BY <1>2, RecordInHand
<1>4. /\ game \in Games /\ game # NoOne
      /\ Runtime(Record).moves \in Nat /\ game.moves \in Nat /\ Runtime(Record).moves < game.moves
  BY <1>3, AdvanceTyped
<1>5. Record.replay # NoOne /\ Record.replay.moves \in Nat /\ Record.replay.moves < game.moves
  <2>1. Record.replay # NoOne
    BY <1>2, <1>3 DEF Sound, Shaped
  <2>2. Record.replay.moves <= Runtime(Record).moves /\ Record.replay.moves \in Nat
    BY <1>2, <1>3, <2>1, MovesTyped DEF RunsAs
  <2> QED  BY <1>4, <2>1, <2>2
<1> DEFINE p == Played(Record, game)
<1>6. /\ Sound(p) /\ Continues(p, Record) /\ RunsAs(p, game) /\ p.replay # NoOne
      /\ p.stage = (IF Ended(game) THEN "pending" ELSE "playing")
      /\ p.replay.moves = game.moves
  BY <1>2, <1>3, <1>4, <1>5, PlayedIsSound
<1> HIDE DEF p
<1>7. Continues(p, stored)
  <2>1. stored.replay.moves \in Nat
    BY <1>3, MovesTyped DEF Continues, PaidInv, RecordsInv
  <2> QED  BY <1>3, <1>4, <1>5, <1>6, <2>1, ContinuesOn
<1>8. CASE Put(p) /\ mem' = p /\ pc' = Over(game, pc) /\ clock' = (clock /\ ~Ended(game))
  <2>1. Faulted /\ stored' = p /\ clock' \in BOOLEAN
    BY <1>8 DEF Put, Faulted
  <2>2. (pc' = "settle.begin" /\ Ended(game)) \/ pc' = pc
    BY <1>8 DEF Over
  <2>3. StoredStep
    BY <1>7, <2>1 DEF StoredStep
  <2>4. Continues(p, p)
    BY <1>6, ContinuesItself
  <2> QED  BY <1>1, <1>2, <1>3, <1>4, <1>6, <1>8, <2>1, <2>2, <2>3, <2>4, LiveKeeps
<1>9. CASE PutFails /\ mem' = [p EXCEPT !.error = TRUE] /\ pc' = "idle" /\ clock' = FALSE
  <2>1. Faulted /\ stored' = stored /\ Sound(stored) /\ StoredStep
    BY <1>9 DEF PutFails, Faulted, Fault, PaidInv, RecordsInv, StoredStep
  <2> DEFINE e == [p EXCEPT !.error = TRUE]
  <2>2. Sound(e) /\ Continues(e, stored) /\ RunsAs(e, game)
    BY <1>6, <1>7, ErrorIsSound
  <2> HIDE DEF e
  <2>3. mem' = e
    BY <1>9 DEF e
  <2>4. PICK a : a = stored
    OBVIOUS
  <2> QED  BY <1>1, <1>2, <1>3, <1>4, <1>9, <2>1, <2>2, <2>3, <2>4, LiveKeeps
<1> QED  BY <1>1, <1>8, <1>9 DEF p

\* A clock finds the match live, and the game it moves is the one on record
\* or ahead of it.
LEMMA TickingLive ==
    ASSUME PaidInv, NEW driver, Ticking(driver)
    PROVE  /\ pc = "idle" /\ mode # "down" /\ live = TRUE /\ wait = "none"
           /\ mem.stage = "playing" /\ Sound(mem) /\ Continues(mem, stored)
           /\ runtime \in Games /\ runtime # NoOne /\ RunsAs(mem, runtime)
           /\ Sound(stored)
<1>1. pc = "idle" /\ mode = "up" /\ mem.stage = "playing"
  BY DEF Ticking, Serving
<1>2. live = TRUE
  BY <1>1 DEF PaidInv, InHand, NoRecord, HostTyped
<1> QED  BY <1>1, <1>2 DEF PaidInv, RecordsInv, InHand, Place, Waits, Starting, HostTyped

LEMMA NextGame ==
    ASSUME PaidInv, NEW driver, Ticking(driver), NEW game \in Advance(runtime)
    PROVE  /\ game \in Games /\ game # NoOne
           /\ ~Ended(game) => RunsAs(mem, game)
           /\ Sound(Played(mem, game)) /\ RunsAs(Played(mem, game), game)
           /\ Continues(Played(mem, game), stored)
           /\ Continues(Played(mem, game), Played(mem, game))
           /\ Played(mem, game).stage = (IF Ended(game) THEN "pending" ELSE "playing")
<1>1. /\ mem.stage = "playing" /\ Sound(mem) /\ Continues(mem, stored) /\ Sound(stored)
      /\ runtime \in Games /\ RunsAs(mem, runtime)
  BY TickingLive
<1>2. /\ game \in Games /\ game # NoOne
      /\ runtime.moves \in Nat /\ game.moves \in Nat /\ runtime.moves < game.moves
  BY <1>1, AdvanceTyped
<1>3. mem.replay # NoOne /\ mem.replay.moves \in Nat /\ mem.replay.moves < game.moves
  <2>1. mem.replay # NoOne
    BY <1>1 DEF Sound, Shaped
  <2>2. mem.replay.moves <= runtime.moves /\ mem.replay.moves \in Nat
    BY <1>1, <2>1, MovesTyped DEF RunsAs
  <2> QED  BY <1>2, <2>1, <2>2
<1> DEFINE p == Played(mem, game)
<1>4. /\ Sound(p) /\ Continues(p, mem) /\ RunsAs(p, game) /\ p.replay # NoOne
      /\ p.stage = (IF Ended(game) THEN "pending" ELSE "playing")
      /\ p.replay.moves = game.moves
  BY <1>1, <1>2, <1>3, PlayedIsSound
<1> HIDE DEF p
<1>5. Continues(p, stored)
  <2>1. stored.replay.moves \in Nat
    BY <1>1, MovesTyped DEF Continues
  <2> QED  BY <1>1, <1>2, <1>3, <1>4, <2>1, ContinuesOn
<1>6. Continues(p, p)
  BY <1>4, ContinuesItself
<1>7. ~Ended(game) => RunsAs(mem, game)
  BY <1>1, <1>2, <1>3 DEF Ended, RunsAs
<1> QED  BY <1>2, <1>4, <1>5, <1>6, <1>7 DEF p

LEMMA AgentMoveKeeps == PaidInv /\ AgentMove => PaidInv' /\ StoredStep
<1> SUFFICES ASSUME PaidInv, AgentMove PROVE PaidInv' /\ StoredStep
  OBVIOUS
<1>0. Ticking("agent")
  BY DEF AgentMove
<1>1. /\ pc = "idle" /\ mode # "down" /\ live = TRUE /\ wait = "none"
      /\ Sound(mem) /\ Continues(mem, stored) /\ Sound(stored)
      /\ runtime \in Games /\ runtime # NoOne /\ RunsAs(mem, runtime)
  BY <1>0, TickingLive
<1>2. /\ ChainStays /\ confirmed' = confirmed /\ mempool' = mempool /\ now' = now
      /\ wait' = "none" /\ mode' = mode /\ live' = TRUE
  BY <1>1 DEF AgentMove, ChainStays, network
<1>3. ASSUME NEW game \in Advance(runtime), runtime' = game, mem' = Played(mem, game),
             \/ Put(Played(mem, game)) /\ pc' = Over(game, "idle") /\ clock' = ~Ended(game)
             \/ PutFails /\ pc' = "idle" /\ clock' = FALSE
      PROVE  PaidInv' /\ StoredStep
  <2> DEFINE p == Played(mem, game)
  <2>1. /\ game \in Games /\ game # NoOne /\ Sound(p) /\ RunsAs(p, game)
        /\ Continues(p, stored) /\ Continues(p, p)
        /\ p.stage = (IF Ended(game) THEN "pending" ELSE "playing")
    BY <1>0, <1>3, NextGame
  <2>2. mem' = p
    BY <1>3
  <2>3. \/ stored' = p /\ NoFault /\ pc' = Over(game, "idle") /\ clock' = ~Ended(game)
        \/ stored' = stored /\ Faulted /\ pc' = "idle" /\ clock' = FALSE
    BY <1>3 DEF Put, PutFails, Faulted, Fault
  <2> HIDE DEF p
  <2>4. CASE stored' = p /\ NoFault /\ pc' = Over(game, "idle") /\ clock' = ~Ended(game)
    <3>1. pc' = "idle" \/ (pc' = "settle.begin" /\ Ended(game))
      BY <2>4 DEF Over
    <3>2. StoredStep /\ Faulted /\ clock' \in BOOLEAN
      BY <2>1, <2>4 DEF StoredStep, Faulted
    <3> QED  BY <1>1, <1>2, <1>3, <2>1, <2>2, <2>4, <3>1, <3>2, LiveKeeps
  <2>5. CASE stored' = stored /\ Faulted /\ pc' = "idle" /\ clock' = FALSE
    <3>1. StoredStep
      BY <2>5 DEF StoredStep
    <3>2. PICK a : a = stored
      OBVIOUS
    <3> QED  BY <1>1, <1>2, <1>3, <2>1, <2>2, <2>5, <3>1, <3>2, LiveKeeps
  <2> QED  BY <2>3, <2>4, <2>5
<1>4. ASSUME clock' = FALSE, UNCHANGED <<stored, mem, runtime, pc, faults>>
      PROVE  PaidInv' /\ StoredStep
  <2>1. Faulted /\ StoredStep
    BY <1>4 DEF Faulted, NoFault, StoredStep
  <2>2. PICK a, b, g : a = stored /\ b = mem /\ g = runtime
    OBVIOUS
  <2> QED  BY <1>1, <1>2, <1>4, <2>1, <2>2, LiveKeeps
<1> QED  BY <1>3, <1>4 DEF AgentMove

LEMMA ClockMoveKeeps == PaidInv /\ ClockMove => PaidInv' /\ StoredStep
<1> SUFFICES ASSUME PaidInv, ClockMove PROVE PaidInv' /\ StoredStep
  OBVIOUS
<1>0. Ticking("clock")
  BY DEF ClockMove
<1>1. /\ pc = "idle" /\ mode # "down" /\ live = TRUE /\ wait = "none"
      /\ Sound(mem) /\ Continues(mem, stored) /\ Sound(stored) /\ mem.stage = "playing"
      /\ runtime \in Games /\ runtime # NoOne /\ RunsAs(mem, runtime)
  BY <1>0, TickingLive
<1>2. /\ ChainStays /\ confirmed' = confirmed /\ mempool' = mempool /\ now' = now
      /\ wait' = "none" /\ mode' = mode /\ live' = TRUE
  BY <1>1 DEF ClockMove, ChainStays, network
<1>3. PICK s : s = stored
  OBVIOUS
<1>4. ASSUME NEW game \in Advance(runtime), runtime' = game, ~Ended(game),
             UNCHANGED <<stored, mem, pc, clock, faults>>
      PROVE  PaidInv' /\ StoredStep
  <2>1. game \in Games /\ game # NoOne /\ RunsAs(mem, game)
    BY <1>0, <1>4, NextGame
  <2>2. Faulted /\ StoredStep /\ clock' \in BOOLEAN
    BY <1>4 DEF Faulted, NoFault, StoredStep, PaidInv, HostTyped
  <2>3. PICK b : b = mem
    OBVIOUS
  <2> QED  BY <1>1, <1>2, <1>3, <1>4, <2>1, <2>2, <2>3, LiveKeeps
<1>5. ASSUME NEW game \in Advance(runtime), runtime' = game,
             mem' = Played(mem, game), Put(mem'),
             pc' = Over(game, "idle"), clock' = ~Ended(game)
      PROVE  PaidInv' /\ StoredStep
  <2> DEFINE p == Played(mem, game)
  <2>1. /\ game \in Games /\ game # NoOne /\ Sound(p) /\ RunsAs(p, game)
        /\ Continues(p, stored) /\ Continues(p, p)
        /\ p.stage = (IF Ended(game) THEN "pending" ELSE "playing")
    BY <1>0, <1>5, NextGame
  <2>2. mem' = p /\ stored' = p /\ Faulted
    BY <1>5 DEF Put, Faulted
  <2> HIDE DEF p
  <2>3. pc' = "idle" \/ (pc' = "settle.begin" /\ Ended(game))
    BY <1>5 DEF Over
  <2>4. StoredStep /\ clock' \in BOOLEAN
    BY <1>5, <2>1, <2>2 DEF StoredStep
  <2> QED  BY <1>1, <1>2, <1>5, <2>1, <2>2, <2>3, <2>4, LiveKeeps
<1>6. ASSUME NEW game \in Advance(runtime), runtime' = game,
             ClockStops(Played(mem, game)), Fault("disk"), stored' \in {stored, mem'}
      PROVE  PaidInv' /\ StoredStep
  <2> DEFINE p == Played(mem, game)
             e == [p EXCEPT !.error = TRUE]
  <2>1. /\ game \in Games /\ game # NoOne /\ Sound(p) /\ RunsAs(p, game)
        /\ Continues(p, stored)
    BY <1>0, <1>6, NextGame
  <2> HIDE DEF p
  <2>2. /\ Sound(e) /\ Continues(e, stored) /\ RunsAs(e, game)
        /\ e.stage = p.stage /\ e.replay = p.replay
    BY <2>1, ErrorIsSound
  <2>3. mem' = e /\ clock' = FALSE /\ pc' = "idle" /\ Faulted
    BY <1>6 DEF ClockStops, Faulted, Fault, p
  <2> HIDE DEF e
  <2>4. Continues(e, e)
    BY <2>2, ContinuesItself DEF Continues
  <2>5. CASE stored' = stored
    <3>1. StoredStep
      BY <2>5 DEF StoredStep
    <3> QED  BY <1>1, <1>2, <1>3, <1>6, <2>1, <2>2, <2>3, <2>5, <3>1, LiveKeeps
  <2>6. CASE stored' = e
    <3>1. StoredStep
      BY <2>2, <2>6 DEF StoredStep
    <3> QED  BY <1>1, <1>2, <1>6, <2>1, <2>2, <2>3, <2>4, <2>6, <3>1, LiveKeeps
  <2> QED  BY <1>6, <2>3, <2>5, <2>6
<1>7. ASSUME ClockStops(mem), UNCHANGED runtime, Put(mem') \/ PutFails
      PROVE  PaidInv' /\ StoredStep
  <2> DEFINE e == [mem EXCEPT !.error = TRUE]
  <2>1. /\ Sound(e) /\ Continues(e, stored) /\ RunsAs(e, runtime)
        /\ e.stage = mem.stage /\ e.replay = mem.replay
    BY <1>1, ErrorIsSound
  <2>2. mem' = e /\ clock' = FALSE /\ pc' = "idle"
    BY <1>7 DEF ClockStops
  <2>3. Faulted /\ (stored' = e \/ stored' = stored)
    BY <1>7, <2>2 DEF Put, PutFails, Faulted, Fault
  <2> HIDE DEF e
  <2>4. Continues(e, e)
    BY <1>1, <2>1, ContinuesItself DEF Continues
  <2>5. PICK g : g = runtime
    OBVIOUS
  <2>6. CASE stored' = stored
    <3>1. StoredStep
      BY <2>6 DEF StoredStep
    <3> QED  BY <1>1, <1>2, <1>3, <1>7, <2>1, <2>2, <2>3, <2>5, <2>6, <3>1, LiveKeeps
  <2>7. CASE stored' = e
    <3>1. StoredStep
      BY <2>1, <2>7 DEF StoredStep
    <3> QED  BY <1>1, <1>2, <1>7, <2>1, <2>2, <2>3, <2>4, <2>5, <2>7, <3>1, LiveKeeps
  <2> QED  BY <2>3, <2>6, <2>7
<1> QED  BY <1>4, <1>5, <1>6, <1>7 DEF ClockMove

(***************************************************************************)
(* Settlement.                                                             *)
(***************************************************************************)
LEMMA SettleBeginKeeps == PaidInv /\ SettleBegin => PaidInv' /\ StoredStep
<1> SUFFICES ASSUME PaidInv, SettleBegin PROVE PaidInv' /\ StoredStep
  OBVIOUS
<1>1. /\ pc \in {"settle.begin", "idle"} /\ mode # "down" /\ Record.stage = "pending"
      /\ ChainStays /\ confirmed' = confirmed /\ mempool' = mempool /\ now' = now
      /\ clock' = clock /\ mode' = mode /\ live' = (live \/ ~Record.error)
      /\ runtime' = IF live' THEN Runtime(Record) ELSE NoOne
  BY DEF SettleBegin, ChainStays, PaidInv, Place
<1>2. /\ Sound(Record) /\ Continues(Record, stored) /\ Runtime(Record) \in Games
      /\ Runtime(Record) # NoOne /\ RunsAs(Record, Runtime(Record)) /\ wait = "none"
  BY <1>1, RecordInHand
<1>3. \/ /\ stored' = Record /\ mem' = Record /\ pc' = "settle.send"
      \/ /\ stored' = stored /\ pc' = "idle"
         /\ mem' = IF live' THEN Record ELSE NoRecord
  BY DEF SettleBegin, Put, PutFails, Return
<1>4. wait' = "none" /\ Faulted /\ clock' \in BOOLEAN
  BY <1>1, <1>2 DEF SettleBegin, Put, PutFails, Return, Faulted, Fault, PaidInv, HostTyped
<1>5. live' \in BOOLEAN
  BY <1>1
<1>6. PICK r, g : r = Record /\ g = Runtime(Record)
  OBVIOUS
<1>7. PICK s : s = stored
  OBVIOUS
<1>8. Sound(s) /\ r.replay # NoOne /\ Continues(r, r)
  BY <1>1, <1>2, <1>6, <1>7, ContinuesItself DEF PaidInv, RecordsInv, Continues
<1>9. CASE live' = TRUE
  <2>1. CASE stored' = Record /\ mem' = Record /\ pc' = "settle.send"
    <3>1. StoredStep
      BY <1>2, <2>1 DEF StoredStep
    <3> QED  BY <1>1, <1>2, <1>4, <1>6, <1>8, <1>9, <2>1, <3>1, LiveKeeps
  <2>2. CASE stored' = stored /\ pc' = "idle" /\ mem' = Record
    <3>1. StoredStep
      BY <2>2 DEF StoredStep
    <3> QED  BY <1>1, <1>2, <1>4, <1>6, <1>7, <1>8, <1>9, <2>2, <3>1, LiveKeeps
  <2> QED  BY <1>3, <1>9, <2>1, <2>2
<1>10. CASE live' = FALSE
  <2>1. ~live /\ Record = stored /\ runtime' = NoOne
    BY <1>1, <1>10 DEF Record
  <2>2. HostTyped' /\ Closings <= Closings'
    <3>1. /\ HostTyped /\ faults' \in 0..MaxFaults /\ Closings <= Closings'
          /\ mode' = "closing" => faults' # 0
      BY <1>1, <1>4, FaultsNext DEF PaidInv
    <3>2. pc' \in Places
      BY <1>3 DEF Places, Settling
    <3> QED  BY <1>1, <1>4, <1>10, <2>1, <3>1, <3>2 DEF HostTyped
  <2>3. StoredStep
    BY <1>3, <2>1 DEF StoredStep
  <2>4. CASE stored' = Record /\ mem' = Record /\ pc' = "settle.send"
    <3>1. Place' /\ WaitInv'
      BY <1>1, <1>4, <1>10, <2>1, <2>4, NothingAwaited DEF Place, Waits
    <3>2. InHand'
      BY <1>1, <1>10, <2>1, <2>4 DEF InHand, Creating, Canceling, Starting, Settling
    <3> QED  BY <1>1, <1>2, <1>4, <1>6, <2>2, <2>3, <2>4, <3>1, <3>2, HostGoesOn
  <2>5. CASE stored' = stored /\ pc' = "idle" /\ mem' = NoRecord
    <3>1. Place' /\ InHand' /\ WaitInv'
      BY <1>4, <1>10, <2>1, <2>5, OperationOver
    <3> QED  BY <1>1, <1>4, <1>7, <1>8, <2>2, <2>3, <2>5, <3>1, NoRecordIsSound, HostGoesOn
  <2> QED  BY <1>3, <1>10, <2>4, <2>5
<1> QED  BY <1>5, <1>9, <1>10

LEMMA SettleSaveKeeps == PaidInv /\ SettleSave => PaidInv' /\ StoredStep
<1> SUFFICES ASSUME PaidInv, SettleSave PROVE PaidInv' /\ StoredStep
  OBVIOUS
<1> DEFINE r == [mem EXCEPT !.stage = "settled"]
<1>1. /\ pc = "settle.save" \/ (pc = "settle.wait" /\ wait = "success")
      /\ ChainStays /\ confirmed' = confirmed /\ mempool' = mempool /\ now' = now
      /\ mode' = mode /\ wait' = "none" /\ pc' = "idle" /\ Faulted
      /\ \/ /\ stored' = r /\ live' = FALSE /\ runtime' = NoOne /\ mem' = NoRecord
            /\ clock' = FALSE
         \/ /\ stored' = stored /\ live' = live /\ runtime' = runtime /\ clock' = clock
            /\ mem' = IF live' THEN r ELSE NoRecord
  BY DEF SettleSave, Put, PutFails, Faulted, Fault, Return, Forget, ChainStays
<1>2. /\ pc \in Settling /\ pc \notin Starting /\ mode # "down"
      /\ mem = stored /\ mem.stage = "pending" /\ Sound(mem) /\ IsPaid(mem)
  BY <1>1 DEF PaidInv, InHand, Place, RecordsInv, WaitInv, Settling, Starting
<1>3. mem.replay # NoOne /\ mem \in RecordKind
  BY <1>2 DEF Sound, Shaped
<1>4. /\ r \in RecordKind /\ r.stage = "settled" /\ r.replay = mem.replay
      /\ r.seats = mem.seats /\ r.cancel = mem.cancel
  BY <1>3 DEF RecordKind, StageKind
<1> HIDE DEF r
<1>5. Sound(r)
  BY <1>2, <1>3, <1>4 DEF Sound, Shaped, Dealt, Counted, IsPaid, Early
<1>6. Continues(r, stored)
  BY <1>2, <1>3, <1>4 DEF Continues, SameGame
<1>7. StoredStep
  BY <1>1, <1>6 DEF StoredStep
<1>8. /\ HostTyped /\ faults' \in 0..MaxFaults /\ Closings <= Closings'
      /\ mode' = "closing" => faults' # 0
  BY <1>1, FaultsNext DEF PaidInv
<1>9. PICK s : s = stored /\ Sound(s)
  BY <1>2
<1>10. CASE stored' = r /\ live' = FALSE /\ runtime' = NoOne /\ mem' = NoRecord /\ clock' = FALSE
  <2>1. HostTyped'
    BY <1>1, <1>8, <1>10 DEF HostTyped, Places
  <2>2. Place' /\ InHand' /\ WaitInv'
    BY <1>1, <1>10, OperationOver
  <2> QED  BY <1>1, <1>5, <1>7, <1>8, <1>10, <2>1, <2>2, NoRecordIsSound, HostGoesOn
<1>11. CASE /\ stored' = stored /\ live' = live /\ runtime' = runtime /\ clock' = clock
            /\ mem' = IF live' THEN r ELSE NoRecord
  <2>1. live \in BOOLEAN /\ clock \in BOOLEAN
    BY <1>8 DEF HostTyped
  <2>2. CASE live = TRUE
    <3>1. runtime \in Games /\ runtime # NoOne /\ RunsAs(mem, runtime)
      BY <1>2, <1>8, <2>2 DEF PaidInv, Place, InHand, HostTyped
    <3>2. RunsAs(r, runtime)
      BY <1>2, <1>4, <3>1 DEF RunsAs
    <3>3. PICK g : g = runtime
      OBVIOUS
    <3> QED  BY <1>1, <1>2, <1>5, <1>6, <1>7, <1>9, <1>11, <2>1, <2>2, <3>1, <3>2, <3>3,
                LiveKeeps
  <2>3. CASE live = FALSE
    <3>1. runtime = NoOne
      BY <2>3 DEF PaidInv, Place
    <3>2. HostTyped'
      BY <1>1, <1>8, <1>11 DEF HostTyped, Places
    <3>3. Place' /\ InHand' /\ WaitInv' /\ mem' = NoRecord
      BY <1>1, <1>11, <2>3, <3>1, OperationOver
    <3> QED  BY <1>1, <1>7, <1>8, <1>9, <1>11, <3>2, <3>3, NoRecordIsSound, HostGoesOn
  <2> QED  BY <2>1, <2>2, <2>3
<1> QED  BY <1>1, <1>10, <1>11

LEMMA SaveAccountingKeeps == PaidInv /\ SaveAccounting => PaidInv' /\ StoredStep
<1> SUFFICES ASSUME PaidInv, SaveAccounting PROVE PaidInv' /\ StoredStep
  OBVIOUS
<1>1. /\ pc = "idle" /\ mode # "down" /\ live /\ mem.stage = "settled"
      /\ ChainStays /\ confirmed' = confirmed /\ mempool' = mempool /\ now' = now
      /\ wait' = wait /\ pc' = pc /\ mode' = mode /\ live' = live /\ clock' = clock
      /\ runtime' = runtime /\ mem' = mem /\ stored' = mem /\ Faulted
  BY DEF SaveAccounting, Put, Faulted, ChainStays, network, host
<1>2. /\ wait = "none" /\ live = TRUE /\ clock \in BOOLEAN
      /\ runtime \in Games /\ runtime # NoOne
  BY <1>1 DEF PaidInv, Place, Waits, HostTyped
<1>3. Sound(mem) /\ Continues(mem, stored) /\ RunsAs(mem, runtime)
  BY <1>1 DEF PaidInv, RecordsInv, InHand, Starting
<1>4. Continues(mem, mem)
  BY <1>1, <1>3, ContinuesItself DEF Continues
<1>5. StoredStep
  BY <1>1, <1>3 DEF StoredStep
<1>6. PICK b, g : b = mem /\ g = runtime
  OBVIOUS
<1> QED  BY <1>1, <1>2, <1>3, <1>4, <1>5, <1>6, LiveKeeps

(***************************************************************************)
(* Shutdown, crash and recovery.                                           *)
(***************************************************************************)
LEMMA CloseBeginKeeps == PaidInv /\ CloseBegin => PaidInv' /\ StoredStep
<1> SUFFICES ASSUME PaidInv, CloseBegin PROVE PaidInv' /\ StoredStep
  OBVIOUS
<1>1. /\ mode = "up" /\ mode' = "closing" /\ clock' = FALSE /\ faults' = faults + 1
      /\ faults < MaxFaults /\ ChainStays /\ confirmed' = confirmed /\ mempool' = mempool
      /\ wait' = wait /\ now' = now /\ stored' = stored /\ mem' = mem /\ live' = live
      /\ runtime' = runtime /\ pc' = pc
  BY DEF CloseBegin, Fault, ChainStays, network
<1>2. faults \in Nat /\ HostTyped
  BY Bounds DEF PaidInv, HostTyped
<1>3. HostTyped'
  <2>1. faults' \in 0..MaxFaults /\ faults' # 0
    BY <1>1, <1>2, Bounds
  <2> QED  BY <1>1, <1>2, <2>1 DEF HostTyped
<1>4. Closings <= Closings'
  <2>1. Closings = faults /\ Closings' = faults' - 1
    BY <1>1 DEF Closings
  <2>2. faults' - 1 = faults
    BY <1>1, <1>2
  <2> QED  BY <1>2, <2>1, <2>2
<1>5. Place'
  BY <1>1 DEF PaidInv, Place
<1>6. InHand'
  BY <1>1 DEF PaidInv, InHand, Continues, RunsAs, SameGame
<1>7. WaitInv'
  <2>1. Payout' = Payout
    BY <1>1 DEF Payout, Tx
  <2>2. IsPaid(mem) => IsPaid(mem)'
    BY <1>1 DEF IsPaid, ChainStays, chain
  <2> QED  BY <1>1, <2>1, <2>2 DEF PaidInv, WaitInv, Last, ChainStays, chain
<1>8. StoredStep /\ Sound(stored) /\ Sound(mem)
  BY <1>1 DEF StoredStep, PaidInv, RecordsInv
<1>9. PICK a, b : a = stored /\ b = mem
  OBVIOUS
<1> QED  BY <1>1, <1>3, <1>4, <1>5, <1>6, <1>7, <1>8, <1>9, HostGoesOn DEF PaidInv, NetTyped

LEMMA Stopped ==
    ASSUME PaidInv, Stop, Faulted
    PROVE  /\ ChainStays /\ confirmed' = confirmed /\ mempool' = mempool /\ wait' = "none"
           /\ mem' = NoRecord /\ HostTyped' /\ Place' /\ InHand' /\ WaitInv'
           /\ Closings' = faults' /\ Closings' \in Nat
           /\ IF mode = "closing" THEN Closings + 1 <= Closings' ELSE Closings <= Closings'
<1>1. /\ mode' = "down" /\ live' = FALSE /\ runtime' = NoOne /\ mem' = NoRecord
      /\ pc' = "idle" /\ wait' = "none" /\ clock' = FALSE /\ ChainStays
      /\ confirmed' = confirmed /\ mempool' = mempool /\ now' = now
  BY DEF Stop, Forget, Return, ChainStays
<1>2. faults \in Nat /\ faults' \in Nat /\ faults <= faults' /\ faults' <= MaxFaults
  BY Bounds DEF PaidInv, HostTyped, Faulted, NoFault, Fault
<1>3. HostTyped'
  <2>1. faults' \in 0..MaxFaults
    BY <1>2, Bounds
  <2> QED  BY <1>1, <2>1 DEF PaidInv, HostTyped, Places
<1>4. Place' /\ InHand' /\ WaitInv'
  BY <1>1, OperationOver
<1>5. Closings' = faults'
  BY <1>1 DEF Closings
<1>6. IF mode = "closing" THEN Closings + 1 <= Closings' ELSE Closings <= Closings'
  <2>1. CASE mode = "closing"
    <3>1. Closings = faults - 1
      BY <2>1 DEF Closings
    <3>2. faults - 1 + 1 = faults
      BY <1>2
    <3>3. Closings + 1 = faults
      BY <3>1, <3>2
    <3> QED  BY <1>2, <1>5, <2>1, <3>3
  <2>2. CASE mode # "closing"
    BY <1>2, <1>5, <2>2 DEF Closings
  <2> QED  BY <2>1, <2>2
<1> QED  BY <1>1, <1>2, <1>3, <1>4, <1>5, <1>6

LEMMA CrashKeeps == PaidInv /\ Crash => PaidInv' /\ StoredStep
<1> SUFFICES ASSUME PaidInv, Crash PROVE PaidInv' /\ StoredStep
  OBVIOUS
<1>1. Stop /\ Faulted /\ stored' = stored /\ Sound(stored)
  BY DEF Crash, Faulted, Fault, PaidInv, RecordsInv
<1>2. /\ ChainStays /\ confirmed' = confirmed /\ mempool' = mempool /\ wait' = "none"
      /\ mem' = NoRecord /\ HostTyped' /\ Place' /\ InHand' /\ WaitInv'
      /\ Closings' \in Nat
      /\ IF mode = "closing" THEN Closings + 1 <= Closings' ELSE Closings <= Closings'
  BY <1>1, Stopped
<1>3. Closings <= Closings'
  <2>1. Closings \in Nat
    BY ClosingsTyped DEF PaidInv
  <2> QED  BY <1>2, <2>1
<1>4. StoredStep
  BY <1>1 DEF StoredStep
<1>5. PICK a : a = stored
  OBVIOUS
<1> QED  BY <1>1, <1>2, <1>3, <1>4, <1>5, NoRecordIsSound, HostGoesOn

\* What close saves: the game as it runs, exported once more.
LEMMA ExportedAgain ==
    ASSUME PaidInv, live, pc = "idle", mode = "closing",
           NEW r, r = [mem EXCEPT !.replay = ExportAgain(runtime, @)]
    PROVE  /\ r \in RecordKind /\ Shaped(r) /\ Dealt(r) /\ Continues(r, stored)
           /\ r.stage = "settled" => IsPaid(r)
           /\ r.replay # NoOne /\ r.replay.exported <= Closings + 1
<1>1. /\ runtime # NoOne /\ runtime \in Games /\ Sound(mem) /\ Continues(mem, stored)
      /\ RunsAs(mem, runtime) /\ Sound(stored)
  BY DEF PaidInv, RecordsInv, Place, HostTyped, InHand, Starting
<1>2. /\ mem.replay # NoOne /\ mem \in RecordKind /\ mem.replay \in Replays
      /\ mem.stage \in {"playing", "pending", "settled"}
  BY <1>1 DEF Continues, Sound, RecordKind
<1>3. Closings \in Nat /\ Closings + 1 <= MaxFaults
  <2>1. Closings = faults - 1 /\ faults \in 0..MaxFaults /\ faults # 0
    BY DEF Closings, PaidInv, HostTyped
  <2>2. \A n \in 0..MaxFaults : n # 0 => n - 1 \in Nat /\ n - 1 + 1 <= MaxFaults
    BY Bounds
  <2> QED  BY <2>1, <2>2
<1> DEFINE x == ExportAgain(runtime, mem.replay)
<1>4. /\ r.replay = x /\ r.stage = mem.stage /\ r.seats = mem.seats
      /\ r.cancel = mem.cancel /\ r = [mem EXCEPT !.replay = x]
  BY <1>2 DEF RecordKind
<1>5. /\ x \in Replays /\ x # NoOne /\ x.moves = runtime.moves /\ x.end = runtime.end
      /\ x.exported <= Closings + 1
  <2>1. CASE GameOf(mem.replay) = runtime
    <3>1. x = [mem.replay EXCEPT !.exported = @ + 1]
      BY <1>2, <2>1 DEF ExportAgain
    <3>2. mem.replay.exported <= Closings /\ mem.replay.exported \in Nat
      BY <1>1, <1>2, Bounds DEF Sound, Counted, Replays
    <3>3. mem.replay.exported + 1 \in 0..MaxFaults /\ mem.replay.exported + 1 <= Closings + 1
      BY <1>3, <3>2, Bounds
    <3>4. x \in Replays /\ x.exported = mem.replay.exported + 1
      BY <1>2, <3>1, <3>3 DEF Replays
    <3>5. x.moves = runtime.moves /\ x.end = runtime.end
      BY <1>2, <2>1, <3>1 DEF GameOf, Replays
    <3> QED  BY <3>3, <3>4, <3>5, NobodyAssumption
  <2>2. CASE GameOf(mem.replay) # runtime
    <3>1. x = [moves |-> runtime.moves, end |-> runtime.end, exported |-> 0]
      BY <2>2 DEF ExportAgain, Export
    <3>2. x \in Replays
      BY <1>1, <3>1, Bounds DEF Replays, Games
    <3>3. 0 <= Closings + 1
      BY <1>3
    <3> QED  BY <3>1, <3>2, <3>3, NobodyAssumption
  <2> QED  BY <2>1, <2>2
<1> HIDE DEF x
<1>6. r \in RecordKind
  BY <1>2, <1>4, <1>5 DEF RecordKind
<1>7. /\ mem.replay.moves \in Nat /\ runtime.moves \in Nat
  BY <1>1, <1>2, Bounds DEF Replays, Games
<1>8. CASE mem.stage = "playing"
  <2>1. runtime.end = "running" /\ mem.replay.moves <= runtime.moves
    BY <1>1, <1>8 DEF RunsAs
  <2>2. Continues(r, mem)
    BY <1>2, <1>4, <1>5, <1>7, <1>8, <2>1 DEF Continues
  <2>3. stored.replay.moves \in Nat /\ r.replay.moves \in Nat
    BY <1>1, <1>4, <1>5, <1>7, MovesTyped DEF Continues
  <2>4. Continues(r, stored)
    BY <1>1, <1>7, <2>2, <2>3, ContinuesOn
  <2>5. Shaped(r)
    BY <1>4, <1>5, <1>8, <2>1 DEF Shaped, Early
  <2>6. Dealt(r)
    BY <1>1, <1>2, <1>4 DEF Sound, Dealt
  <2> QED  BY <1>4, <1>5, <1>6, <1>8, <2>4, <2>5, <2>6
<1>9. CASE mem.stage # "playing"
  <2>1. runtime = GameOf(mem.replay)
    BY <1>1, <1>9 DEF RunsAs
  <2>2. x.moves = mem.replay.moves /\ x.end = mem.replay.end
    BY <1>5, <2>1 DEF GameOf
  <2>3. SameGame(r, mem)
    BY <1>4, <2>2 DEF SameGame, GameOf
  <2>4. Continues(r, mem)
    BY <1>2, <1>4, <1>5, <1>9, <2>3 DEF Continues
  <2>5. stored.replay.moves \in Nat /\ r.replay.moves \in Nat
    BY <1>1, <1>4, <1>5, <1>7, MovesTyped DEF Continues
  <2>6. Continues(r, stored)
    BY <1>1, <1>7, <2>4, <2>5, ContinuesOn
  <2>7. Shaped(r)
    BY <1>1, <1>2, <1>4, <1>5, <1>9, <2>2 DEF Shaped, Sound, Early
  <2>8. Dealt(r)
    BY <1>1, <1>2, <1>4 DEF Sound, Dealt
  <2>9. r.stage = "settled" => IsPaid(r)
    BY <1>1, <1>2, <1>4, <1>5, <2>2 DEF Sound, IsPaid
  <2> QED  BY <1>4, <1>5, <1>6, <2>6, <2>7, <2>8, <2>9
<1> QED  BY <1>8, <1>9

LEMMA CloseEndKeeps == PaidInv /\ CloseEnd => PaidInv' /\ StoredStep
<1> SUFFICES ASSUME PaidInv, CloseEnd PROVE PaidInv' /\ StoredStep
  OBVIOUS
<1> DEFINE x == [mem EXCEPT !.replay = ExportAgain(runtime, @)]
<1>1. /\ mode = "closing" /\ pc = "idle" /\ Stop /\ Faulted
      /\ stored' = stored \/ (stored' = x /\ live)
  BY DEF CloseEnd, Put, PutFails, Faulted, NoFault, Fault
<1>2. /\ ChainStays /\ confirmed' = confirmed /\ mempool' = mempool /\ wait' = "none"
      /\ mem' = NoRecord /\ HostTyped' /\ Place' /\ InHand' /\ WaitInv'
      /\ Closings' \in Nat /\ Closings + 1 <= Closings'
  BY <1>1, Stopped
<1>3. Closings \in Nat
  BY ClosingsTyped DEF PaidInv
<1>4. Closings <= Closings'
  BY <1>2, <1>3
<1>5. CASE stored' = stored
  <2>1. PICK a : a = stored
    OBVIOUS
  <2>2. StoredStep /\ Sound(stored)
    BY <1>5 DEF StoredStep, PaidInv, RecordsInv
  <2> QED  BY <1>2, <1>4, <1>5, <2>1, <2>2, NoRecordIsSound, HostGoesOn
<1>6. CASE stored' = x /\ live
  <2>1. PICK r : r = x
    OBVIOUS
  <2>2. stored' = r
    BY <1>6, <2>1
  <2>3. /\ r \in RecordKind /\ Shaped(r) /\ Dealt(r) /\ Continues(r, stored)
        /\ r.stage = "settled" => IsPaid(r)
        /\ r.replay # NoOne /\ r.replay.exported <= Closings + 1
    BY <1>1, <1>6, <2>1, ExportedAgain
  <2>4. r.replay.exported <= Closings'
    <3>1. r.replay.exported \in Nat
      BY <2>3, Bounds DEF RecordKind, Replays
    <3> QED  BY <1>2, <1>3, <2>3, <3>1
  <2>5. Sound(stored)'
    BY <1>2, <2>2, <2>3, <2>4 DEF Sound, Shaped, Dealt, Counted, IsPaid, ChainStays, chain
  <2>6. Sound(mem)'
    BY <1>2, NobodyAssumption DEF Sound, NoRecord, RecordKind, StageKind, Shaped, Dealt, Counted
  <2>7. StoredStep
    BY <2>2, <2>3 DEF StoredStep
  <2> QED  BY <1>2, <2>5, <2>6, <2>7, HostGoesOnWith DEF RecordsInv
<1> QED  BY <1>1, <1>5, <1>6

LEMMA RestartKeeps == PaidInv /\ Restart => PaidInv' /\ StoredStep
<1> SUFFICES ASSUME PaidInv, Restart PROVE PaidInv' /\ StoredStep
  OBVIOUS
<1>1. /\ mode = "down" /\ mode' = "up" /\ pc' = "recover" /\ ChainStays
      /\ confirmed' = confirmed /\ mempool' = mempool /\ wait' = wait /\ now' = now
      /\ stored' = stored /\ mem' = mem /\ live' = live /\ runtime' = runtime
      /\ clock' = clock /\ faults' = faults
  BY DEF Restart, ChainStays, network
<1>2. pc = "idle" /\ ~live /\ mem = NoRecord /\ wait = "none" /\ runtime = NoOne
  BY <1>1 DEF PaidInv, Place, InHand, Waits
<1>3. HostTyped' /\ Closings <= Closings'
  <2>1. Closings' = Closings
    BY <1>1 DEF Closings
  <2>2. Closings <= Closings'
    BY <2>1, ClosingsTyped DEF PaidInv
  <2> QED  BY <1>1, <2>2 DEF PaidInv, HostTyped, Places
<1>4. Place' /\ WaitInv'
  BY <1>1, <1>2, NothingAwaited DEF Place, Waits
<1>5. InHand'
  BY <1>1, <1>2 DEF InHand, Creating, Canceling, Starting, Settling
<1>6. StoredStep /\ Sound(stored)
  BY <1>1 DEF StoredStep, PaidInv, RecordsInv
<1>7. PICK a : a = stored
  OBVIOUS
<1> QED  BY <1>1, <1>2, <1>3, <1>4, <1>5, <1>6, <1>7, NoRecordIsSound, HostGoesOn

LEMMA RecoverKeeps == PaidInv /\ Recover => PaidInv' /\ StoredStep
<1> SUFFICES ASSUME PaidInv, Recover PROVE PaidInv' /\ StoredStep
  OBVIOUS
<1>1. /\ pc = "recover" /\ ChainStays /\ confirmed' = confirmed /\ mempool' = mempool
      /\ wait' = wait /\ now' = now /\ stored' = stored /\ clock' = clock /\ mode' = mode
      /\ Faulted
  BY DEF Recover, ChainStays, network, Faulted, NoFault
<1>2. /\ ~live /\ mem = NoRecord /\ wait = "none" /\ runtime = NoOne /\ mode # "down"
      /\ Sound(stored) /\ HostTyped
  BY <1>1 DEF PaidInv, Place, InHand, Waits, RecordsInv
<1>3. StoredStep
  BY <1>1 DEF StoredStep
<1>4. PICK a : a = stored
  OBVIOUS
<1>5. CASE pc' = "idle" /\ UNCHANGED <<mem, live, runtime>>
  <2>1. HostTyped' /\ Closings <= Closings'
    <3>1. /\ faults' \in 0..MaxFaults /\ Closings <= Closings'
          /\ mode' = "closing" => faults' # 0
      BY <1>1, <1>2, FaultsNext
    <3> QED  BY <1>1, <1>2, <1>5, <3>1 DEF HostTyped, Places
  <2>2. Place' /\ InHand' /\ WaitInv'
    BY <1>1, <1>2, <1>5, OperationOver
  <2> QED  BY <1>1, <1>2, <1>3, <1>4, <1>5, <2>1, <2>2, NoRecordIsSound, HostGoesOn
<1>6. CASE /\ stored.stage \in {"playing", "pending"}
           /\ mem' = stored /\ live' = TRUE /\ runtime' = Runtime(stored)
           /\ pc' = IF stored.stage = "playing" THEN "recover.release" ELSE "settle.begin"
  <2>1. stored.replay # NoOne
    BY <1>2, <1>6 DEF Sound, Shaped
  <2>2. PICK g : g = GameOf(stored.replay)
    OBVIOUS
  <2>3. runtime' = g /\ g \in Games /\ g # NoOne /\ stored.replay.moves \in Nat
    BY <1>2, <1>6, <2>1, <2>2, MovesTyped DEF Runtime
  <2>4. Continues(stored, stored)
    BY <1>6, <2>1, ContinuesItself
  <2>5. RunsAs(stored, g)
    <3>1. g.moves = stored.replay.moves /\ g.end = stored.replay.end
      BY <2>2 DEF GameOf
    <3>2. stored.stage = "playing" => stored.replay.end = "running"
      BY <1>2 DEF Sound, Shaped
    <3> QED  BY <2>2, <2>3, <3>1, <3>2 DEF RunsAs
  <2>6. clock' \in BOOLEAN
    BY <1>1, <1>2 DEF HostTyped
  <2> QED  BY <1>1, <1>2, <1>3, <1>4, <1>6, <2>3, <2>4, <2>5, <2>6, LiveKeeps
<1> QED  BY <1>5, <1>6 DEF Recover

LEMMA RecoverClockKeeps == PaidInv /\ RecoverClock => PaidInv' /\ StoredStep
<1> SUFFICES ASSUME PaidInv, RecoverClock PROVE PaidInv' /\ StoredStep
  OBVIOUS
<1>1. /\ pc = "recover.release" /\ pc' = "idle" /\ clock' = (mode = "up") /\ ChainStays
      /\ confirmed' = confirmed /\ mempool' = mempool /\ wait' = wait /\ now' = now
      /\ stored' = stored /\ mem' = mem /\ live' = live /\ runtime' = runtime
      /\ mode' = mode /\ Faulted
  BY DEF RecoverClock, ChainStays, network, Faulted, NoFault
<1>2. /\ live = TRUE /\ wait = "none" /\ mode # "down" /\ runtime \in Games
      /\ runtime # NoOne /\ Sound(stored) /\ Sound(mem)
      /\ Continues(mem, stored) /\ RunsAs(mem, runtime)
  BY <1>1 DEF PaidInv, Place, InHand, Waits, RecordsInv, HostTyped, Starting
<1>3. StoredStep /\ clock' \in BOOLEAN
  BY <1>1 DEF StoredStep
<1>4. PICK a, b, g : a = stored /\ b = mem /\ g = runtime
  OBVIOUS
<1> QED  BY <1>1, <1>2, <1>3, <1>4, LiveKeeps

(***************************************************************************)
(* The invariant, and how the record on the disk changes.                  *)
(***************************************************************************)
LEMMA PaidInit == Init => PaidInv
<1> SUFFICES ASSUME Init PROVE PaidInv
  OBVIOUS
<1>1. /\ status = "Absent" /\ owner = [s \in Seats |-> NoOne] /\ paid = {} /\ due = {}
      /\ winner = NoOne /\ resultHash = NoOne
      /\ confirmed = [owner |-> owner, paid |-> paid]
  BY DEF Init, Chain!Init
<1>2. /\ mempool = <<>> /\ wait = "none" /\ now = 0 /\ stored = NoRecord /\ mem = NoRecord
      /\ live = FALSE /\ runtime = NoOne /\ pc = "idle" /\ clock = FALSE
      /\ mode = "up" /\ faults = 0
  BY DEF Init
<1>3. ChainTyped /\ ChainInv
  BY <1>1 DEF ChainTyped, ChainInv
<1>4. NetTyped
  BY <1>1, <1>2, <1>3 DEF NetTyped, ChainTyped
<1>5. HostTyped
  <2>1. faults \in 0..MaxFaults
    BY <1>2, Bounds
  <2>2. now \in 0..2 /\ pc \in Places
    BY <1>2 DEF Places
  <2>3. live \in BOOLEAN /\ clock \in BOOLEAN /\ runtime \in Games \cup {NoOne}
    BY <1>2
  <2>4. mode \in {"up", "closing", "down"} /\ mode # "closing"
    BY <1>2
  <2> QED  BY <2>1, <2>2, <2>3, <2>4 DEF HostTyped
<1>6. RecordsInv
  BY <1>2, NoRecordIsSound DEF RecordsInv
<1>7. Place /\ InHand
  BY <1>2 DEF Place, Waits, InHand, Creating, Canceling, Starting, Settling
<1>8. WaitInv /\ ClaimInv
  BY <1>1, <1>2 DEF WaitInv, ClaimInv
<1> QED  BY <1>3, <1>4, <1>5, <1>6, <1>7, <1>8 DEF PaidInv

LEMMA PaidRests ==
    ASSUME PaidInv, UNCHANGED vars PROVE PaidInv' /\ StoredStep
<1>1. /\ ChainStays /\ HostRests /\ ConfirmedNext /\ now' = now
      /\ wait' = wait /\ mempool' = mempool /\ status' = status
  BY DEF vars, ChainStays, chain, HostRests, ConfirmedNext, network
<1>2. ChainGoesOn /\ now' \in 0..2
  BY <1>1, ChainRests DEF PaidInv, HostTyped
<1> QED  BY <1>1, <1>2, OutsideGoesOn

LEMMA PaidNext == PaidInv /\ [Next]_vars => PaidInv' /\ StoredStep
<1> SUFFICES ASSUME PaidInv, [Next]_vars PROVE PaidInv' /\ StoredStep
  OBVIOUS
<1>1. CASE UNCHANGED vars
  BY <1>1, PaidRests
<1>2. ASSUME Continue PROVE PaidInv' /\ StoredStep
  BY <1>2, SendingSteps, CreateSaveKeeps, StartSeatsKeeps, CancelSaveKeeps, SettleSaveKeeps,
     CloseEndKeeps, RestartKeeps, RecoverKeeps, RecoverClockKeeps DEF Continue
<1>3. CASE CreateBegin \/ RefreshSeats \/ StartBegin \/ CancelBegin
  BY <1>3, CreateBeginKeeps, RefreshSeatsKeeps, StartBeginKeeps, CancelBeginKeeps
<1>4. CASE PlayerMove \/ AgentMove \/ ClockMove
  BY <1>4, PlayerMoveKeeps, AgentMoveKeeps, ClockMoveKeeps
<1>5. CASE SettleBegin \/ SaveAccounting
  BY <1>5, SettleBeginKeeps, SaveAccountingKeeps
<1>6. CASE RpcFails \/ ReceiptLost \/ CloseBegin \/ Crash
  BY <1>6, SendingSteps, CloseBeginKeeps, CrashKeeps
<1>7. CASE \/ Mine \/ Confirm \/ VoidExpired \/ Tick
           \/ \E s \in Seats, p \in Players : TakeSeat(s, p)
  BY <1>7, MineKeeps, OutsideSteps
<1> QED  BY <1>1, <1>2, <1>3, <1>4, <1>5, <1>6, <1>7 DEF Next

LEMMA PaidMatchHolds == Spec => [][PaidInv' /\ StoredStep /\ PaidInv]_vars /\ []PaidInv
<1>1. PaidInv /\ [Next]_vars => [PaidInv' /\ StoredStep /\ PaidInv]_vars
  BY PaidNext
<1>2. PaidInv /\ [Next]_vars => PaidInv'
  BY PaidNext
<1> QED  BY <1>1, <1>2, PaidInit, PTL DEF Spec

(***************************************************************************)
(* The match is typed: no replay is of another kind than the model's, and  *)
(* no fault, transaction or record is out of its bounds.                   *)
(***************************************************************************)
THEOREM PaidMatchIsTyped == Spec => []TypeOK
<1>1. PaidInv => TypeOK
  <2> SUFFICES ASSUME PaidInv PROVE TypeOK
    OBVIOUS
  <2>1. StageKind = {Stages[i] : i \in DOMAIN Stages}
    <3>1. DOMAIN Stages = 1..6
      BY DEF Stages
    <3>2. /\ Stages[1] = "absent" /\ Stages[2] = "prepared" /\ Stages[3] = "funding"
          /\ Stages[4] = "playing" /\ Stages[5] = "pending" /\ Stages[6] = "settled"
      BY DEF Stages
    <3>3. \A i \in 1..6 : i = 1 \/ i = 2 \/ i = 3 \/ i = 4 \/ i = 5 \/ i = 6
      OBVIOUS
    <3>4. /\ 1 \in 1..6 /\ 2 \in 1..6 /\ 3 \in 1..6 /\ 4 \in 1..6 /\ 5 \in 1..6 /\ 6 \in 1..6
      OBVIOUS
    <3>5. StageKind \subseteq {Stages[i] : i \in 1..6}
      BY <3>2, <3>4 DEF StageKind
    <3>6. {Stages[i] : i \in 1..6} \subseteq StageKind
      BY <3>2, <3>3 DEF StageKind
    <3> QED  BY <3>1, <3>5, <3>6
  <2>2. {stored, mem} \subseteq RecordKind
    BY DEF PaidInv, RecordsInv, Sound
  <2>3. FundingDeadline - 1 = 0 /\ SettlementDeadline = 2
    BY DEF FundingDeadline, SettlementDeadline
  <2> QED  BY <2>1, <2>2, <2>3 DEF PaidInv, TypeOK, ChainTyped, NetTyped, HostTyped,
              RecordKind, TxKind
<1> QED  BY <1>1, PaidMatchHolds, PTL

(***************************************************************************)
(* A game is on record only of a locked pool whose seats are all paid,     *)
(* with the players that the contract has, and not of a canceled lobby     *)
(* (startForHost): for every number of seats, players, moves and faults.   *)
(***************************************************************************)
THEOREM DealtOnlyWhenLocked == Spec => []DealtOnlyLocked
<1>1. PaidInv => DealtOnlyLocked
  BY DEF PaidInv, RecordsInv, Sound, Dealt, DealtOnlyLocked
<1> QED  BY <1>1, PaidMatchHolds, PTL

(***************************************************************************)
(* No transaction pays, or paid, a winner whose game is not over on the    *)
(* disk with that result, and a record says "settled" only when the        *)
(* contract paid that winner or opened its refunds (settleRecord).         *)
(***************************************************************************)
THEOREM PaidAsRecorded == Spec => []PaymentsAreTrue
<1>1. PaidInv => PaysWhatIsOnDisk
  <2> SUFFICES ASSUME PaidInv, NEW claim \in Claims
      PROVE /\ stored.stage \in {"pending", "settled"}
            /\ stored.replay.end = claim[1]
            /\ GameOf(stored.replay) = GameOf(claim[2])
    BY DEF PaysWhatIsOnDisk
  <2>1. CASE \E i \in DOMAIN mempool : /\ mempool[i].call = "settle"
                                       /\ claim = <<mempool[i].winner, mempool[i].hash>>
    BY <2>1 DEF PaidInv, ClaimInv, OnDisk
  <2>2. CASE status = "Settled" /\ claim = <<winner, resultHash>>
    BY <2>2 DEF PaidInv, ClaimInv, OnDisk
  <2> QED  BY <2>1, <2>2 DEF Claims
<1>2. PaidInv => ReportedAsPaid
  BY DEF PaidInv, RecordsInv, Sound, IsPaid, ReportedAsPaid
<1> QED  BY <1>1, <1>2, PaidMatchHolds, PTL DEF PaymentsAreTrue

(***************************************************************************)
(* The record on the disk only goes forward: no stage, move or result of a *)
(* match is undone by a late write, a restart or a shutdown.               *)
(***************************************************************************)
LEMMA StepsForward ==
    ASSUME RecordsInv, RecordsInv', StoredStep
    PROVE  /\ Rank(stored'.stage) >= Rank(stored.stage)
           /\ stored.replay # NoOne => /\ stored'.replay # NoOne
                                       /\ Follows(stored'.replay, stored.replay)
<1>1. stored.stage \in StageKind /\ Shaped(stored)
  BY DEF RecordsInv, Sound, RecordKind
<1>2. CASE stored' = stored
  <2>1. Rank(stored.stage) \in Nat
    BY <1>1, Ranks DEF StageKind
  <2> QED  BY <1>2, <2>1 DEF Follows
<1>3. CASE Continues(stored', stored)
  <2>1. Rank(stored'.stage) >= Rank(stored.stage)
    BY <1>3, Ranks DEF Continues
  <2>2. stored.replay # NoOne /\ stored'.replay # NoOne
    BY <1>3 DEF Continues
  <2>3. Follows(stored'.replay, stored.replay)
    <3>1. CASE stored.stage = "playing" /\ stored.replay.moves < stored'.replay.moves
      <4>1. stored.replay.end = "running"
        BY <1>1, <3>1 DEF Shaped
      <4>2. stored.replay.moves \in Nat /\ stored'.replay.moves \in Nat
        BY <2>2, Bounds DEF RecordsInv, Sound, RecordKind, Replays
      <4> QED  BY <3>1, <4>1, <4>2 DEF Follows
    <3>2. CASE /\ stored.stage = "playing" /\ stored'.stage = "playing"
               /\ stored.replay.moves = stored'.replay.moves
      <4>1. stored.replay.end = "running" /\ stored'.replay.end = "running"
        BY <3>2 DEF RecordsInv, Sound, Shaped
      <4> QED  BY <3>2, <4>1 DEF Follows, GameOf
    <3>3. CASE SameGame(stored', stored)
      BY <3>3 DEF SameGame, Follows
    <3> QED  BY <1>3, <3>1, <3>2, <3>3 DEF Continues
  <2> QED  BY <2>1, <2>2, <2>3
<1>4. CASE stored.stage \in Early /\ Rank(stored'.stage) >= Rank(stored.stage)
  BY <1>1, <1>4 DEF Shaped
<1> QED  BY <1>2, <1>3, <1>4 DEF StoredStep

THEOREM DiskOnlyGoesForward == Spec => DiskGoesForward
<1> DEFINE Forward == /\ Rank(stored'.stage) >= Rank(stored.stage)
                      /\ stored.replay # NoOne => /\ stored'.replay # NoOne
                                                  /\ Follows(stored'.replay, stored.replay)
<1>1. [PaidInv' /\ StoredStep /\ PaidInv]_vars => [Forward]_vars
  BY StepsForward DEF PaidInv
<1> QED  BY <1>1, PaidMatchHolds, PTL DEF DiskGoesForward
=============================================================================
