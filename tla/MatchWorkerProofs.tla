------------------------- MODULE MatchWorkerProofs --------------------------
(***************************************************************************)
(* Theorems about one match of the worker: who may act on its seats, what  *)
(* its rounds add up to and what its saved record keeps, for any seats,    *)
(* controllers, sessions, actions, rounds and faults.                      *)
(***************************************************************************)
EXTENDS MatchWorker, FiniteSetTheorems, SequenceTheorems, TLAPS

(***************************************************************************)
(* Types, without the bounds that need more than the types.                *)
(***************************************************************************)
SeatKind == [who : Controllers \cup {NoOne}, gen : Nat,
             status : {"open", "claimed", "connected", "disconnected"},
             released : BOOLEAN, hold : BOOLEAN]
SeriesKind == [policy : Policies, round : Nat \ {0},
               status : {"active", "awaiting-restart", "complete"},
               scores : [Seats -> Nat], votes : SUBSET Actors]
ArchiveKind == [log : SUBSET Actions, winner : Seats \cup {NoOne}]
SessionKind == [state : {"none", "minted", "connected", "suspended", "gone"},
                seat : Seats \cup {NoOne}, who : Controllers \cup {NoOne},
                gen : Nat, epoch : Nat]
RecordKind == [seat : [Seats -> SeatKind], runtime : RuntimeOf, series : SeriesKind,
               archive : Seq(ArchiveKind)]

Typed(o) ==
    /\ o.version \in Nat
    /\ o.pc = "save" => o.saved \in RecordKind
    /\ o.pc = "stop" => o.action \in Seats \X (Controllers \cup {NoOne})
    /\ o.kind = "action" => o.action \in Actions

MatchTyped ==
    /\ seat \in [Seats -> SeatKind] /\ runtime \in RuntimeOf
    /\ series \in SeriesKind /\ archive \in Seq(ArchiveKind)

DiskTyped ==
    /\ version \in Nat /\ store.version \in Nat /\ store.record \in RecordKind
    /\ op.pc \in {"idle", "stop", "create", "save"} /\ Typed(op)
    /\ late.pc \in {"idle", "save"} /\ Typed(late)

RestTyped ==
    /\ session \in [Sessions -> SessionKind]
    /\ clock \in BOOLEAN /\ tick \in BOOLEAN /\ unattended \in BOOLEAN
    /\ answered \subseteq Actions
    /\ faults.count \in Nat /\ faults.create \in BOOLEAN
    /\ requests \in 0..MaxRequests

TypeInv == MatchTyped /\ DiskTyped /\ RestTyped

RecordOK == Record \in RecordKind

LEMMA RecordTyped == MatchTyped => RecordOK
BY DEF MatchTyped, Record, RecordKind, RuntimeOf, RecordOK

LEMMA RecordTypedNext == MatchTyped' => RecordOK'
BY RecordTyped, PTL

LEMMA SavingTyped ==
    ASSUME MatchTyped', version \in Nat, NEW kind, NEW action,
           kind = "action" => action \in Actions
    PROVE  Typed(Saving(kind, action)) /\ Saving(kind, action).pc = "save"
BY RecordTypedNext DEF Saving, Typed, RecordOK

LEMMA IdleTyped == Typed(Idle) /\ Idle.pc = "idle"
BY DEF Idle, Typed

LEMMA TypeInit == Init => TypeInv
<1> SUFFICES ASSUME Init PROVE TypeInv
  OBVIOUS
<1>1. MatchTyped
  BY DEF Init, MatchTyped, SeatKind, OpenSeat, NewGame, RuntimeOf, Status, Active, SeriesKind
<1>2. Record \in RecordKind
  BY <1>1, RecordTyped DEF RecordOK
<1>3. DiskTyped
  BY <1>2, IdleTyped DEF Init, DiskTyped
<1>4. RestTyped
  <2>1. session \in [Sessions -> SessionKind]
    BY DEF Init, SessionKind, NoSession
  <2>2. faults.count \in Nat /\ faults.create \in BOOLEAN
    BY DEF Init
  <2>3. requests \in 0..MaxRequests
    <3>1. MaxRequests \in Nat
      BY Bounds
    <3> QED  BY <3>1 DEF Init
  <2>4. clock \in BOOLEAN /\ tick \in BOOLEAN /\ unattended \in BOOLEAN
    BY DEF Init
  <2>5. answered \subseteq Actions
    BY DEF Init
  <2> QED  BY <2>1, <2>2, <2>3, <2>4, <2>5 DEF RestTyped
<1> QED  BY <1>1, <1>3, <1>4 DEF TypeInv

(***************************************************************************)
(* What an operation that saves leaves behind is typed if the match is.    *)
(***************************************************************************)
LEMMA SaveTyped ==
    ASSUME DiskTyped, MatchTyped', NEW kind, NEW action,
           kind = "action" => action \in Actions, Save(kind, action)
    PROVE  DiskTyped'
BY SavingTyped DEF DiskTyped, Save

LEMMA RequestTyped ==
    ASSUME TypeInv, Request PROVE requests' \in 0..MaxRequests
BY Bounds DEF Request, TypeInv, RestTyped

LEMMA FaultTyped ==
    ASSUME TypeInv, NEW f, Fault(f)
    PROVE  faults'.count \in Nat /\ faults'.create \in BOOLEAN
BY DEF Fault, TypeInv, RestTyped

LEMMA AdvanceTyped ==
    ASSUME TypeInv, NEW kind, NEW action, kind = "action" => action \in Actions,
           NEW r \in RuntimeOf, NEW ser \in SeriesKind, Advance(kind, action, r, ser)
    PROVE  MatchTyped' /\ DiskTyped' /\ clock' \in BOOLEAN
<1>1. /\ seat \in [Seats -> SeatKind] /\ archive \in Seq(ArchiveKind)
      /\ version \in Nat
  BY DEF TypeInv, MatchTyped, DiskTyped
<1>2. seat' \in [Seats -> SeatKind]
  BY <1>1 DEF Advance, HoldsForgotten, SeatKind
<1>3. archive' \in Seq(ArchiveKind)
  <2>1. [log |-> r.log, winner |-> r.winner] \in ArchiveKind
    BY DEF RuntimeOf, ArchiveKind
  <2> QED  BY <1>1, <2>1 DEF Advance
<1>4. series' \in SeriesKind /\ runtime' \in RuntimeOf
  <2>1. series' = [ser EXCEPT !.round = @ + 1, !.status = "active", !.votes = {}]
    BY DEF Advance
  <2>2. ser.round + 1 \in Nat \ {0}
    BY DEF SeriesKind
  <2> QED  BY <2>1, <2>2 DEF Advance, SeriesKind
<1>5. op'.pc = "create" /\ Typed(op)'
  BY DEF Advance, Idle, Typed
<1> QED  BY <1>2, <1>3, <1>4, <1>5 DEF Advance, MatchTyped, DiskTyped, TypeInv

LEMMA FinishedTyped ==
    ASSUME NEW ser \in SeriesKind, NEW r \in RuntimeOf
    PROVE  Finished(ser, r) \in SeriesKind
<1>1. ser.scores \in [Seats -> Nat]
  BY DEF SeriesKind
<1>2. Scored(ser.scores, r.winner) \in [Seats -> Nat]
  BY <1>1 DEF Scored
<1>3. Finished(ser, r) =
          IF ser.status # "active" THEN ser
          ELSE [ser EXCEPT
                  !.scores = Scored(ser.scores, r.winner),
                  !.status = IF ser.round >= MaxRounds THEN "complete" ELSE "awaiting-restart",
                  !.votes = {}]
  BY DEF Finished
<1> QED  BY <1>2, <1>3 DEF SeriesKind

LEMMA SettleTyped ==
    ASSUME TypeInv, NEW kind, NEW action, kind = "action" => action \in Actions,
           NEW r \in RuntimeOf, NEW seats \in [Seats -> SeatKind],
           Settle(kind, action, r, seats)
    PROVE  MatchTyped' /\ DiskTyped' /\ clock' \in BOOLEAN
<1> DEFINE ser == IF r.status = "completed" THEN Finished(series, r) ELSE series
<1>1. ser \in SeriesKind
  BY FinishedTyped DEF TypeInv, MatchTyped
<1>2. CASE r.status = "completed" /\ GoesOn(ser)
  BY <1>1, <1>2, AdvanceTyped DEF Settle
<1>3. CASE ~(r.status = "completed" /\ GoesOn(ser))
  <2>1. /\ runtime' = r /\ series' = ser /\ seat' = seats /\ archive' = archive
        /\ clock' = (clock /\ (kind = "tick" => r.status = "running"))
        /\ Save(kind, action)
    BY <1>3 DEF Settle
  <2>2. MatchTyped'
    BY <1>1, <2>1 DEF MatchTyped, TypeInv
  <2>3. clock' \in BOOLEAN
    BY <2>1
  <2> QED  BY <2>1, <2>2, <2>3, SaveTyped DEF TypeInv
<1> QED  BY <1>2, <1>3

LEMMA EndedTyped ==
    ASSUME NEW r \in RuntimeOf, NEW status \in Status
    PROVE  Ended(r, status) \in RuntimeOf /\ Halted(r) \in RuntimeOf
BY DEF Ended, Halted, RuntimeOf, Status, Active

LEMMA FailsTyped ==
    ASSUME TypeInv, NEW r \in RuntimeOf, TickFails(r)
    PROVE  /\ MatchTyped' /\ clock' \in BOOLEAN
           /\ op'.pc = "idle" /\ Typed(op)' /\ late'.pc = "save" /\ Typed(late)'
<1>1. Ended(r, "failed") \in RuntimeOf
  BY EndedTyped DEF Status
<1>2. MatchTyped'
  BY <1>1 DEF TickFails, MatchTyped, TypeInv
<1>3. version \in Nat
  BY DEF TypeInv, DiskTyped
<1> QED  BY <1>2, <1>3, SavingTyped, IdleTyped DEF TickFails
(***************************************************************************)
(* Every action keeps the types.                                           *)
(***************************************************************************)
LEMMA ReassignTyped ==
    ASSUME TypeInv, requests' \in 0..MaxRequests,
           NEW s \in Seats, NEW c \in Controllers \cup {NoOne}, Reassign(s, c)
    PROVE  TypeInv'
<1>1. seat' \in [Seats -> SeatKind]
  <2>1. seat \in [Seats -> SeatKind]
    BY DEF TypeInv, MatchTyped
  <2>2. \A x : ((c = NoOne) \/ x) \in BOOLEAN
    OBVIOUS
  <2>3. \A x \in Nat : x + 1 \in Nat
    OBVIOUS
  <2> QED  BY <2>1, <2>2, <2>3 DEF Reassign, SeatKind
<1>2. session' \in [Sessions -> SessionKind]
  BY DEF TypeInv, RestTyped, Reassign, SessionsRevoked, NoSession, SessionKind
<1>3. MatchTyped'
  BY <1>1 DEF TypeInv, MatchTyped, Reassign
<1>4. DiskTyped'
  BY <1>3, SaveTyped DEF TypeInv, Reassign
<1>5. RestTyped'
  BY <1>2 DEF TypeInv, RestTyped, Reassign
<1> QED  BY <1>3, <1>4, <1>5 DEF TypeInv

LEMMA HandoverTyped ==
    ASSUME TypeInv, requests' \in 0..MaxRequests,
           NEW s \in Seats, NEW c \in Controllers \cup {NoOne}, Handover(s, c)
    PROVE  TypeInv'
<1>1. CASE Reassign(s, c)
  BY <1>1, ReassignTyped
<1>2. CASE ~Reassign(s, c)
  <2>1. /\ runtime' = [runtime EXCEPT !.held[s] = NoOne]
        /\ op' = [Idle EXCEPT !.pc = "stop", !.action = <<s, c>>]
        /\ UNCHANGED <<seat, session, series, archive, clock, tick, unattended,
                       version, late, store, answered, faults>>
    BY <1>2 DEF Handover
  <2>2. MatchTyped'
    BY <2>1 DEF TypeInv, MatchTyped, RuntimeOf
  <2>3. op'.pc = "stop" /\ Typed(op)'
    BY <2>1 DEF Idle, Typed
  <2>4. DiskTyped'
    BY <2>1, <2>3 DEF TypeInv, DiskTyped, Typed
  <2>5. RestTyped'
    BY <2>1 DEF TypeInv, RestTyped
  <2> QED  BY <2>2, <2>4, <2>5 DEF TypeInv
<1> QED  BY <1>1, <1>2

LEMMA ClaimTyped ==
    ASSUME TypeInv, NEW s \in Seats, NEW c \in Controllers, Claim(s, c)
    PROVE  TypeInv'
<1>1. seat' \in [Seats -> SeatKind]
  BY DEF TypeInv, MatchTyped, Claim, SeatKind
<1>2. runtime' \in RuntimeOf
  BY DEF TypeInv, MatchTyped, Claim, RuntimeOf, Status, Active
<1>3. clock' \in BOOLEAN
  BY DEF TypeInv, RestTyped, Claim, StartClock
<1>4. MatchTyped'
  BY <1>1, <1>2 DEF TypeInv, MatchTyped, Claim
<1>5. DiskTyped'
  BY <1>4, SaveTyped DEF TypeInv, Claim
<1>6. requests' \in 0..MaxRequests
  BY RequestTyped DEF Claim
<1>7. RestTyped'
  BY <1>3, <1>6 DEF TypeInv, RestTyped, Claim
<1> QED  BY <1>4, <1>5, <1>7 DEF TypeInv

LEMMA RestartRoundTyped ==
    ASSUME TypeInv, NEW a \in Actors, RestartRound(a)
    PROVE  TypeInv'
<1> DEFINE votes == IF series.policy = "owner" THEN {} ELSE series.votes \cup {a}
<1>1. requests' \in 0..MaxRequests
  BY RequestTyped DEF RestartRound
<1>2. CASE series.policy = "owner" \/ Players \subseteq votes
  <2>1. Advance("request", NoOne, runtime, series)
    BY <1>2 DEF RestartRound
  <2>2. MatchTyped' /\ DiskTyped' /\ clock' \in BOOLEAN
    BY <2>1, AdvanceTyped DEF TypeInv, MatchTyped
  <2>3. RestTyped'
    BY <1>1, <2>2 DEF TypeInv, RestTyped, RestartRound
  <2> QED  BY <2>2, <2>3 DEF TypeInv
<1>3. CASE ~(series.policy = "owner" \/ Players \subseteq votes)
  <2>1. /\ series' = [series EXCEPT !.votes = votes]
        /\ UNCHANGED <<seat, runtime, archive, clock>>
        /\ Save("request", NoOne)
    BY <1>3 DEF RestartRound
  <2>2. votes \subseteq Actors
    BY DEF TypeInv, MatchTyped, SeriesKind
  <2>3. MatchTyped'
    BY <2>1, <2>2 DEF TypeInv, MatchTyped, SeriesKind
  <2>4. DiskTyped'
    BY <2>1, <2>3, SaveTyped DEF TypeInv
  <2>5. RestTyped'
    BY <1>1, <2>1 DEF TypeInv, RestTyped, RestartRound
  <2> QED  BY <2>3, <2>4, <2>5 DEF TypeInv
<1> QED  BY <1>2, <1>3

LEMMA EndTyped ==
    ASSUME TypeInv, NEW status \in Status, End(status),
           requests' \in 0..MaxRequests, faults'.count \in Nat, faults'.create \in BOOLEAN
    PROVE  TypeInv'
<1>1. runtime' \in RuntimeOf
  BY EndedTyped DEF End, TypeInv, MatchTyped
<1>2. series' \in SeriesKind
  BY DEF End, TypeInv, MatchTyped, SeriesKind
<1>3. MatchTyped'
  BY <1>1, <1>2 DEF End, TypeInv, MatchTyped
<1>4. DiskTyped'
  BY <1>3, SaveTyped DEF End, TypeInv
<1>5. RestTyped'
  BY DEF End, TypeInv, RestTyped
<1> QED  BY <1>3, <1>4, <1>5 DEF TypeInv

LEMMA RequestsTyped == TypeInv /\ Requests => TypeInv'
<1> SUFFICES ASSUME TypeInv, Requests PROVE TypeInv'
  OBVIOUS
<1>1. ASSUME NEW s \in Seats, NEW c \in Controllers, Claim(s, c) PROVE TypeInv'
  BY <1>1, ClaimTyped
<1>2. ASSUME NEW s \in Seats, NEW c \in Controllers, ChangeController(s, c) PROVE TypeInv'
  <2>1. requests' \in 0..MaxRequests
    BY <1>2, RequestTyped DEF ChangeController
  <2> QED  BY <1>2, <2>1, HandoverTyped DEF ChangeController
<1>3. ASSUME NEW s \in Seats, Release(s) PROVE TypeInv'
  <2>1. requests' \in 0..MaxRequests
    BY <1>3, RequestTyped DEF Release
  <2> QED  BY <1>3, <2>1, HandoverTyped DEF Release
<1>4. ASSUME NEW a \in Actors, RestartRound(a) PROVE TypeInv'
  BY <1>4, RestartRoundTyped
<1>5. ASSUME Abandon PROVE TypeInv'
  <2>1. requests' \in 0..MaxRequests
    BY <1>5, RequestTyped DEF Abandon
  <2>2. faults'.count \in Nat /\ faults'.create \in BOOLEAN
    BY <1>5 DEF Abandon, TypeInv, RestTyped
  <2> QED  BY <1>5, <2>1, <2>2, EndTyped DEF Abandon, Status
<1> QED  BY <1>1, <1>2, <1>3, <1>4, <1>5 DEF Requests

LEMMA ElsewhereTyped ==
    ASSUME TypeInv, Elsewhere, seat' \in [Seats -> SeatKind],
           session' \in [Sessions -> SessionKind]
    PROVE  TypeInv'
<1>1. MatchTyped'
  BY DEF Elsewhere, TypeInv, MatchTyped
<1>2. DiskTyped'
  BY DEF Elsewhere, disk, TypeInv, DiskTyped, Typed
<1>3. RestTyped'
  BY DEF Elsewhere, budget, TypeInv, RestTyped
<1> QED  BY <1>1, <1>2, <1>3 DEF TypeInv

LEMMA SocketsTyped == TypeInv /\ Sockets => TypeInv'
<1> SUFFICES ASSUME TypeInv, Sockets PROVE TypeInv'
  OBVIOUS
<1>0. seat \in [Seats -> SeatKind] /\ session \in [Sessions -> SessionKind]
  BY DEF TypeInv, MatchTyped, RestTyped
<1>1. ASSUME NEW i \in Sessions, NEW s \in Seats, Mint(i, s) PROVE TypeInv'
  <2>1. session' \in [Sessions -> SessionKind]
    BY <1>0, <1>1 DEF Mint, SessionKind, SeatKind
  <2> QED  BY <1>0, <1>1, <2>1, ElsewhereTyped DEF Mint
<1>2. ASSUME NEW i \in Sessions, Connect(i) PROVE TypeInv'
  <2>0. runtime.epoch \in Nat
    BY DEF TypeInv, MatchTyped, RuntimeOf
  <2>1. session' \in [Sessions -> SessionKind]
    BY <1>0, <1>2, <2>0 DEF Connect, SessionKind, NoSession
  <2>2. seat' \in [Seats -> SeatKind]
    BY <1>0, <1>2 DEF Connect, SeatKind
  <2> QED  BY <1>2, <2>1, <2>2, ElsewhereTyped DEF Connect
<1>3. ASSUME NEW i \in Sessions, Suspend(i) PROVE TypeInv'
  <2>1. session' \in [Sessions -> SessionKind]
    BY <1>0, <1>3 DEF Suspend, SessionKind
  <2>2. seat' \in [Seats -> SeatKind]
    BY <1>0, <1>3 DEF Suspend, SeatKind
  <2> QED  BY <1>3, <2>1, <2>2, ElsewhereTyped DEF Suspend
<1>4. ASSUME NEW i \in Sessions, Resume(i) PROVE TypeInv'
  <2>1. session' \in [Sessions -> SessionKind]
    BY <1>0, <1>4 DEF Resume, SessionKind
  <2>2. seat' \in [Seats -> SeatKind]
    BY <1>0, <1>4 DEF Resume, SeatKind
  <2> QED  BY <1>4, <2>1, <2>2, ElsewhereTyped DEF Resume
<1>5. ASSUME NEW i \in Sessions, Disconnect(i) PROVE TypeInv'
  <2>1. session' \in [Sessions -> SessionKind]
    BY <1>0, <1>5 DEF Disconnect, SessionKind, NoSession
  <2>2. seat' \in [Seats -> SeatKind]
    <3> DEFINE s == session[i].seat
               left == [seat EXCEPT ![s].who = NoOne, ![s].status = "open"]
               gone == [seat EXCEPT ![s].status = "disconnected"]
    <3>1. left \in [Seats -> SeatKind]
      BY <1>0 DEF SeatKind
    <3>2. gone \in [Seats -> SeatKind]
      BY <1>0 DEF SeatKind
    <3>3. seat' = seat \/ seat' = left \/ seat' = gone
      BY <1>5 DEF Disconnect
    <3> HIDE DEF left, gone
    <3> QED  BY <1>0, <3>1, <3>2, <3>3
  <2> QED  BY <1>5, <2>1, <2>2, ElsewhereTyped DEF Disconnect
<1> QED  BY <1>1, <1>2, <1>3, <1>4, <1>5 DEF Sockets

LEMMA PlayTyped == TypeInv /\ Play => TypeInv'
<1> SUFFICES ASSUME TypeInv, Play PROVE TypeInv'
  OBVIOUS
<1>1. ASSUME NEW i \in Sessions, NEW a \in Actions, NEW k \in Kinds,
             NEW w \in (IF k = "win" THEN {a[1], NoOne} ELSE {NoOne}), Submit(i, a, k, w)
      PROVE  TypeInv'
  <2>1. a[1] \in Seats /\ session[i].seat = a[1]
    BY <1>1 DEF Submit, Actions
  <2>2. w \in Seats \cup {NoOne}
    BY <1>1, <2>1
  <2>3. Played(a, a[1], k, w) \in RuntimeOf
    BY <1>1, <2>1, <2>2 DEF Played, TypeInv, MatchTyped, RuntimeOf, SeatKind, Status
  <2>4. Remembered(a[1], k) \in [Seats -> SeatKind]
    <3>1. seat \in [Seats -> SeatKind]
      BY DEF TypeInv, MatchTyped
    <3> DEFINE held == (k = "hold")
    <3>2. held \in BOOLEAN
      OBVIOUS
    <3>3. Remembered(a[1], k) = [seat EXCEPT ![a[1]].hold = held]
      BY DEF Remembered
    <3> HIDE DEF held
    <3>4. [seat[a[1]] EXCEPT !.hold = held] \in SeatKind
      BY <2>1, <3>1, <3>2 DEF SeatKind
    <3>5. [seat EXCEPT ![a[1]].hold = held] = [seat EXCEPT ![a[1]] = [seat[a[1]] EXCEPT !.hold = held]]
      OBVIOUS
    <3> QED  BY <2>1, <3>1, <3>3, <3>4, <3>5
  <2>5. MatchTyped' /\ DiskTyped' /\ clock' \in BOOLEAN
    BY <1>1, <2>1, <2>3, <2>4, SettleTyped DEF Submit
  <2>6. RestTyped'
    BY <1>1, <2>5 DEF Submit, budget, TypeInv, RestTyped
  <2> QED  BY <2>5, <2>6 DEF TypeInv
<1>2. ASSUME NEW i \in Sessions, NEW a \in Actions, Refuse(i, a) PROVE TypeInv'
  <2>1. MatchTyped'
    BY <1>2 DEF Refuse, TypeInv, MatchTyped, RuntimeOf
  <2>2. DiskTyped'
    BY <1>2 DEF Refuse, disk, TypeInv, DiskTyped, Typed
  <2>3. RestTyped'
    BY <1>2 DEF Refuse, budget, TypeInv, RestTyped
  <2> QED  BY <2>1, <2>2, <2>3 DEF TypeInv
<1> QED  BY <1>1, <1>2 DEF Play

LEMMA ClockTyped == TypeInv /\ Clock => TypeInv'
<1> SUFFICES ASSUME TypeInv, Clock PROVE TypeInv'
  OBVIOUS
<1>0. runtime \in RuntimeOf /\ seat \in [Seats -> SeatKind] /\ MatchTyped /\ DiskTyped
  BY DEF TypeInv, MatchTyped
<1>1. CASE TimerFires
  <2>1. MatchTyped'
    BY <1>0, <1>1 DEF TimerFires, match, MatchTyped
  <2>2. DiskTyped'
    BY <1>0, <1>1 DEF TimerFires, disk, DiskTyped, Typed
  <2>3. RestTyped'
    BY <1>1 DEF TimerFires, budget, TypeInv, RestTyped
  <2> QED  BY <2>1, <2>2, <2>3 DEF TypeInv
<1>2. CASE TickGoesOn
  <2>1. MatchTyped'
    BY <1>0, <1>2 DEF TickGoesOn, match, MatchTyped
  <2>2. DiskTyped'
    <3>1. CASE UNCHANGED disk
      BY <1>0, <3>1 DEF disk, DiskTyped, Typed
    <3>2. CASE Save("tick", NoOne)
      BY <1>0, <2>1, <3>2, SaveTyped
    <3> QED  BY <1>2, <3>1, <3>2 DEF TickGoesOn
  <2>3. RestTyped'
    BY <1>2 DEF TickGoesOn, TickEnd, TickFrame, budget, TypeInv, RestTyped
  <2> QED  BY <2>1, <2>2, <2>3 DEF TypeInv
<1>3. ASSUME NEW w \in Seats \cup {NoOne}, TickFinishes(w) PROVE TypeInv'
  <2>1. [runtime EXCEPT !.status = "completed", !.winner = w] \in RuntimeOf
    BY <1>0 DEF RuntimeOf, Status
  <2>2. MatchTyped' /\ DiskTyped' /\ clock' \in BOOLEAN
    BY <1>0, <1>3, <2>1, SettleTyped DEF TickFinishes
  <2>3. RestTyped'
    BY <1>3, <2>2 DEF TickFinishes, TickEnd, TickFrame, budget, TypeInv, RestTyped
  <2> QED  BY <2>2, <2>3 DEF TypeInv
<1>4. CASE TickFindsEnd
  <2>2. MatchTyped' /\ DiskTyped' /\ clock' \in BOOLEAN
    BY <1>0, <1>4, SettleTyped DEF TickFindsEnd
  <2>3. RestTyped'
    BY <1>4, <2>2 DEF TickFindsEnd, TickEnd, TickFrame, budget, TypeInv, RestTyped
  <2> QED  BY <2>2, <2>3 DEF TypeInv
<1>5. CASE TickThrows
  <2>1. /\ MatchTyped' /\ clock' \in BOOLEAN
        /\ op'.pc = "idle" /\ Typed(op)' /\ late'.pc = "save" /\ Typed(late)'
    BY <1>0, <1>5, FailsTyped DEF TickThrows
  <2>2. faults'.count \in Nat /\ faults'.create \in BOOLEAN
    BY <1>5, FaultTyped DEF TickThrows
  <2>3. DiskTyped'
    BY <1>0, <1>5, <2>1 DEF TickThrows, DiskTyped
  <2>4. RestTyped'
    BY <1>5, <2>1, <2>2 DEF TickThrows, TickEnd, TickFrame, TypeInv, RestTyped
  <2> QED  BY <2>1, <2>3, <2>4 DEF TypeInv
<1> QED  BY <1>1, <1>2, <1>3, <1>4, <1>5 DEF Clock

LEMMA WrittenTyped ==
    ASSUME TypeInv, NEW o, Typed(o), o.pc = "save"
    PROVE  /\ WriteLands(o) => /\ version' \in Nat /\ store'.version \in Nat
                               /\ store'.record \in RecordKind
                               /\ UNCHANGED faults
           /\ WriteFails(o) => /\ version' \in Nat /\ store'.version \in Nat
                               /\ store'.record \in RecordKind
                               /\ faults'.count \in Nat /\ faults'.create \in BOOLEAN
<1>1. version \in Nat /\ store.version \in Nat /\ store.record \in RecordKind
  BY DEF TypeInv, DiskTyped
<1>2. faults.count \in Nat /\ faults.create \in BOOLEAN
  BY DEF TypeInv, RestTyped
<1>3. o.version + 1 \in Nat /\ o.saved \in RecordKind
  BY DEF Typed
<1>4. Written(o) => store'.version \in Nat /\ store'.record \in RecordKind
  BY <1>3 DEF Written
<1>5. ASSUME WriteFails(o) PROVE faults'.count \in Nat /\ faults'.create \in BOOLEAN
  <2>1. UNCHANGED faults \/ Fault("write") \/ Fault("answer")
    BY <1>5 DEF WriteFails
  <2> QED  BY <1>2, <2>1, FaultTyped
<1>6. ASSUME WriteFails(o) PROVE store'.version \in Nat /\ store'.record \in RecordKind
  <2>1. UNCHANGED store \/ Written(o)
    BY <1>6 DEF WriteFails
  <2> QED  BY <1>1, <1>4, <2>1
<1>7. WriteFails(o) => version' \in Nat
  BY <1>1 DEF WriteFails
<1>8. WriteLands(o) => version' \in Nat /\ UNCHANGED faults /\ Written(o)
  BY <1>3 DEF WriteLands
<1> QED  BY <1>4, <1>5, <1>6, <1>7, <1>8

LEMMA ContinueTyped == TypeInv /\ Continue => TypeInv'
<1> SUFFICES ASSUME TypeInv, Continue PROVE TypeInv'
  OBVIOUS
<1>0. runtime \in RuntimeOf /\ seat \in [Seats -> SeatKind] /\ MatchTyped /\ DiskTyped
  BY DEF TypeInv, MatchTyped
<1>h. Halted(runtime) \in RuntimeOf
  BY <1>0, EndedTyped DEF Status
<1>1. CASE InputHasStopped
  <2>1. op.action \in Seats \X (Controllers \cup {NoOne})
    BY <1>0, <1>1 DEF InputHasStopped, DiskTyped, Typed
  <2>2. requests' \in 0..MaxRequests
    BY <1>1 DEF InputHasStopped, TypeInv, RestTyped
  <2> QED  BY <1>1, <2>1, <2>2, ReassignTyped DEF InputHasStopped
<1>2. CASE NextRound
  <2>1. runtime' \in RuntimeOf
    <3>1. runtime.epoch + 1 \in Nat \ {0}
      BY <1>0 DEF RuntimeOf
    <3>2. NewGame(runtime.epoch + 1) \in RuntimeOf
      BY <3>1 DEF NewGame, RuntimeOf, Status, Active
    <3> QED  BY <1>2, <3>2 DEF NextRound, RuntimeOf, Status, Active
  <2>2. seat' \in [Seats -> SeatKind]
    BY <1>0, <1>2 DEF NextRound, SeatKind
  <2>3. session' \in [Sessions -> SessionKind]
    <3>1. runtime.epoch + 1 \in Nat
      BY <1>0 DEF RuntimeOf
    <3>2. session \in [Sessions -> SessionKind]
      BY DEF TypeInv, RestTyped
    <3> QED  BY <1>2, <3>1, <3>2 DEF NextRound, SessionKind
  <2>4. MatchTyped'
    BY <1>0, <1>2, <2>1, <2>2 DEF NextRound, MatchTyped
  <2>5. DiskTyped'
    <3>1. op.kind = "action" => op.action \in Actions
      BY <1>0 DEF DiskTyped, Typed
    <3>2. Save(op.kind, op.action)
      BY <1>2 DEF NextRound
    <3> QED  BY <1>0, <2>4, <3>1, <3>2, SaveTyped
  <2>6. RestTyped'
    BY <1>2, <2>3 DEF NextRound, StartClock, budget, TypeInv, RestTyped
  <2> QED  BY <2>4, <2>5, <2>6 DEF TypeInv
<1>3. CASE Saved
  <2>1. op.pc = "save" /\ Typed(op)
    BY <1>0, <1>3 DEF Saved, WriteLands, DiskTyped
  <2>2. /\ version' \in Nat /\ store'.version \in Nat /\ store'.record \in RecordKind
        /\ UNCHANGED faults
    BY <1>3, <2>1, WrittenTyped DEF Saved
  <2>3. MatchTyped'
    BY <1>0, <1>3 DEF Saved, match, MatchTyped
  <2>4. DiskTyped'
    BY <1>0, <1>3, <2>2, IdleTyped DEF Saved, DiskTyped, Typed
  <2>5. answered' \subseteq Actions
    BY <1>3, <2>1 DEF Saved, Typed, TypeInv, RestTyped
  <2>6. RestTyped'
    BY <1>3, <2>2, <2>5 DEF Saved, SaveFrame, TypeInv, RestTyped
  <2> QED  BY <2>3, <2>4, <2>6 DEF TypeInv
<1>4. CASE SaveFails
  <2>1. op.pc = "save" /\ Typed(op)
    BY <1>0, <1>4 DEF SaveFails, WriteFails, DiskTyped
  <2>2. /\ version' \in Nat /\ store'.version \in Nat /\ store'.record \in RecordKind
        /\ faults'.count \in Nat /\ faults'.create \in BOOLEAN
    BY <1>4, <2>1, WrittenTyped DEF SaveFails
  <2>3. /\ MatchTyped' /\ clock' \in BOOLEAN
        /\ op'.pc = "idle" /\ Typed(op)' /\ late'.pc \in {"idle", "save"} /\ Typed(late)'
    <3>1. CASE op.kind = "tick"
      BY <1>4, <1>h, <3>1, FailsTyped DEF SaveFails
    <3>2. CASE op.kind # "tick"
      <4>1. /\ op' = Idle /\ clock' = FALSE /\ runtime' = Halted(runtime)
            /\ UNCHANGED <<seat, series, archive, late>>
        BY <1>4, <3>2 DEF SaveFails
      <4>2. MatchTyped'
        BY <1>0, <1>h, <4>1 DEF MatchTyped
      <4>3. late'.pc \in {"idle", "save"} /\ Typed(late)'
        BY <1>0, <4>1 DEF DiskTyped, Typed
      <4> QED  BY <4>1, <4>2, <4>3, IdleTyped
    <3> QED  BY <3>1, <3>2
  <2>4. DiskTyped'
    BY <2>2, <2>3 DEF DiskTyped
  <2>5. RestTyped'
    BY <1>4, <2>2, <2>3 DEF SaveFails, SaveFrame, TypeInv, RestTyped
  <2> QED  BY <2>3, <2>4, <2>5 DEF TypeInv
<1>5. CASE LateSaved
  <2>1. late.pc = "save" /\ Typed(late)
    BY <1>0, <1>5 DEF LateSaved, WriteLands, DiskTyped
  <2>2. /\ version' \in Nat /\ store'.version \in Nat /\ store'.record \in RecordKind
        /\ UNCHANGED faults
    BY <1>5, <2>1, WrittenTyped DEF LateSaved
  <2>3. MatchTyped'
    BY <1>0, <1>5 DEF LateSaved, match, MatchTyped
  <2>4. DiskTyped'
    BY <1>0, <1>5, <2>2, IdleTyped DEF LateSaved, DiskTyped, Typed
  <2>6. RestTyped'
    BY <1>5, <2>2 DEF LateSaved, SaveFrame, TypeInv, RestTyped
  <2> QED  BY <2>3, <2>4, <2>6 DEF TypeInv
<1>6. CASE LateSaveFails
  <2>1. late.pc = "save" /\ Typed(late)
    BY <1>0, <1>6 DEF LateSaveFails, WriteFails, DiskTyped
  <2>2. /\ version' \in Nat /\ store'.version \in Nat /\ store'.record \in RecordKind
        /\ faults'.count \in Nat /\ faults'.create \in BOOLEAN
    BY <1>6, <2>1, WrittenTyped DEF LateSaveFails
  <2>3. MatchTyped'
    BY <1>0, <1>6, <1>h DEF LateSaveFails, MatchTyped
  <2>4. DiskTyped'
    BY <1>0, <1>6, <2>2, IdleTyped DEF LateSaveFails, DiskTyped, Typed
  <2>6. RestTyped'
    BY <1>6, <2>2 DEF LateSaveFails, SaveFrame, TypeInv, RestTyped
  <2> QED  BY <2>3, <2>4, <2>6 DEF TypeInv
<1> QED  BY <1>1, <1>2, <1>3, <1>4, <1>5, <1>6 DEF Continue
LEMMA RestTypedNext ==
    TypeInv /\ (Maintenance \/ NextRoundFails \/ Overruns \/ Wait \/ TakeOver \/ Restart)
    => TypeInv'
<1> SUFFICES ASSUME TypeInv,
                    Maintenance \/ NextRoundFails \/ Overruns \/ Wait \/ TakeOver \/ Restart
             PROVE  TypeInv'
  OBVIOUS
<1>0. runtime \in RuntimeOf /\ seat \in [Seats -> SeatKind] /\ MatchTyped /\ DiskTyped
  BY DEF TypeInv, MatchTyped
<1>1. CASE MaintainKeeps \/ Wait
  <2>1. MatchTyped'
    BY <1>0, <1>1 DEF MaintainKeeps, Wait, match, MatchTyped
  <2>2. DiskTyped'
    BY <1>0, <1>1 DEF MaintainKeeps, Wait, disk, DiskTyped, Typed
  <2>3. RestTyped'
    BY <1>1 DEF MaintainKeeps, Wait, budget, TypeInv, RestTyped
  <2> QED  BY <2>1, <2>2, <2>3 DEF TypeInv
<1>2. CASE MaintainExpires
  <2>1. /\ requests' \in 0..MaxRequests
        /\ faults'.count \in Nat /\ faults'.create \in BOOLEAN
    BY <1>2 DEF MaintainExpires, budget, TypeInv, RestTyped
  <2> QED  BY <1>2, <2>1, EndTyped DEF MaintainExpires, Status
<1>3. CASE Overruns
  <2>1. requests' \in 0..MaxRequests
    BY <1>3 DEF Overruns, TypeInv, RestTyped
  <2>2. faults'.count \in Nat /\ faults'.create \in BOOLEAN
    BY <1>3, FaultTyped DEF Overruns
  <2> QED  BY <1>3, <2>1, <2>2, EndTyped DEF Overruns, Status
<1>4. CASE NextRoundFails
  <2>1. /\ MatchTyped' /\ clock' \in BOOLEAN
        /\ op'.pc = "idle" /\ Typed(op)' /\ late'.pc \in {"idle", "save"} /\ Typed(late)'
    <3>1. CASE op.kind = "tick"
      BY <1>0, <1>4, <3>1, FailsTyped DEF NextRoundFails
    <3>2. CASE op.kind # "tick"
      <4>1. op' = Idle /\ UNCHANGED <<match, clock, late>>
        BY <1>4, <3>2 DEF NextRoundFails
      <4>2. MatchTyped'
        BY <1>0, <4>1 DEF match, MatchTyped
      <4>3. late'.pc \in {"idle", "save"} /\ Typed(late)'
        BY <1>0, <4>1 DEF DiskTyped, Typed
      <4>4. clock' \in BOOLEAN
        BY <4>1 DEF TypeInv, RestTyped
      <4> QED  BY <4>1, <4>2, <4>3, <4>4, IdleTyped
    <3> QED  BY <3>1, <3>2
  <2>2. DiskTyped'
    BY <1>0, <1>4, <2>1 DEF NextRoundFails, DiskTyped
  <2>3. faults'.count \in Nat /\ faults'.create \in BOOLEAN
    BY <1>4, FaultTyped DEF NextRoundFails
  <2>4. RestTyped'
    BY <1>4, <2>1, <2>3 DEF NextRoundFails, TypeInv, RestTyped
  <2> QED  BY <2>1, <2>2, <2>4 DEF TypeInv
<1>5. CASE TakeOver
  <2>1. MatchTyped'
    BY <1>0, <1>5 DEF TakeOver, match, MatchTyped
  <2>2. store'.record \in RecordKind /\ store'.version \in Nat
    <3>1. store.record.runtime.epoch + 1 \in Nat \ {0}
      BY <1>0 DEF DiskTyped, RecordKind, RuntimeOf
    <3>2. store.version + 1 \in Nat
      BY <1>0 DEF DiskTyped
    <3> QED  BY <1>0, <1>5, <3>1, <3>2 DEF TakeOver, DiskTyped, RecordKind, RuntimeOf
  <2>3. DiskTyped'
    BY <1>0, <1>5, <2>2 DEF TakeOver, DiskTyped, Typed
  <2>4. faults'.count \in Nat /\ faults'.create \in BOOLEAN
    BY <1>5, FaultTyped DEF TakeOver
  <2>5. RestTyped'
    BY <1>5, <2>4 DEF TakeOver, TypeInv, RestTyped
  <2> QED  BY <2>1, <2>3, <2>5 DEF TypeInv
<1>6. CASE Restart
  <2>0. store.record \in RecordKind /\ store.version \in Nat
    BY <1>0 DEF DiskTyped
  <2>1. runtime' \in RuntimeOf
    <3>1. store.record.runtime.epoch + 1 \in Nat \ {0}
      BY <2>0 DEF RecordKind, RuntimeOf
    <3> QED  BY <1>6, <2>0, <3>1 DEF Restart, RecordKind, RuntimeOf
  <2>2. seat' \in [Seats -> SeatKind]
    BY <1>6, <2>0 DEF Restart, RecordKind, SeatKind
  <2>3. MatchTyped'
    BY <1>6, <2>0, <2>1, <2>2 DEF Restart, RecordKind, MatchTyped
  <2>4. RecordOK'
    BY <2>3, RecordTypedNext
  <2>5. DiskTyped'
    <3>1. store.version + 1 \in Nat
      BY <2>0
    <3>2. /\ op' = Idle /\ late' = Idle /\ version' = store.version + 1
          /\ store' = [version |-> store.version + 1, record |-> Record']
      BY <1>6 DEF Restart
    <3> QED  BY <2>4, <3>1, <3>2, IdleTyped DEF DiskTyped, Typed, RecordOK
  <2>6. session' \in [Sessions -> SessionKind]
    BY <1>6 DEF Restart, NoSession, SessionKind
  <2>7. faults'.count \in Nat /\ faults'.create \in BOOLEAN
    BY <1>6, FaultTyped DEF Restart
  <2>8. RestTyped'
    BY <1>6, <2>6, <2>7 DEF Restart, StartClock, TypeInv, RestTyped
  <2> QED  BY <2>3, <2>5, <2>8 DEF TypeInv
<1> QED  BY <1>1, <1>2, <1>3, <1>4, <1>5, <1>6 DEF Maintenance

LEMMA TypeStuttered == TypeInv /\ UNCHANGED vars => TypeInv'
<1> SUFFICES ASSUME TypeInv, UNCHANGED vars PROVE TypeInv'
  OBVIOUS
<1>1. MatchTyped'
  BY DEF vars, match, TypeInv, MatchTyped
<1>2. DiskTyped'
  BY DEF vars, disk, TypeInv, DiskTyped, Typed
<1>3. RestTyped'
  BY DEF vars, budget, TypeInv, RestTyped
<1> QED  BY <1>1, <1>2, <1>3 DEF TypeInv

LEMMA TypeNext == TypeInv /\ [Next]_vars => TypeInv'
BY RequestsTyped, SocketsTyped, PlayTyped, ClockTyped, ContinueTyped, RestTypedNext,
   TypeStuttered
   DEF Next

LEMMA AlwaysTyped == Spec => []TypeInv
BY TypeInit, TypeNext, PTL DEF Spec
(***************************************************************************)
(* What a step does to the match in memory.  Most steps leave the round    *)
(* where it is.                                                            *)
(***************************************************************************)
Quiet ==
    /\ archive' = archive
    /\ series'.round = series.round /\ series'.status = series.status
    /\ series'.scores = series.scores
    /\ runtime'.epoch = runtime.epoch /\ runtime'.winner = runtime.winner
    /\ runtime.log \subseteq runtime'.log
    /\ runtime'.status = "completed" <=> runtime.status = "completed"
    /\ runtime.status \notin Active => runtime'.status \notin Active
    /\ op'.pc = "create" => op.pc = "create" /\ runtime'.log = runtime.log

Ends ==
    /\ op.pc = "idle" /\ op'.pc # "create"
    /\ \E status \in {"canceled", "expired"} : End(status)

\* A round has ended with the runtime r, now or before.
Settles(kind, action, r) ==
    /\ op.pc = "idle"
    /\ r \in RuntimeOf /\ r.status = "completed"
    /\ runtime.status = "running" \/ r = runtime
    /\ r.epoch = runtime.epoch /\ runtime.log \subseteq r.log
    /\ \E seats \in [Seats -> SeatKind] : Settle(kind, action, r, seats)

Advances ==
    /\ op.pc = "idle" /\ series.status = "awaiting-restart"
    /\ Advance("request", NoOne, runtime, series)

Moves == \/ Quiet \/ Ends \/ Advances \/ NextRound \/ Restart
         \/ \E kind \in {"action", "tick"}, action \in Actions \cup {NoOne}, r \in RuntimeOf :
               Settles(kind, action, r)

LEMMA QuietWhenSame ==
    ASSUME UNCHANGED match, op'.pc = "create" => op.pc = "create" PROVE Quiet
BY DEF Quiet, match

LEMMA QuietWhenFailed ==
    ASSUME TypeInv, NEW status \in Status \ Active,
           status # "completed",
           runtime' = Ended(runtime, status) \/ runtime' = Halted(runtime),
           UNCHANGED <<seat, series, archive>>, op'.pc = "create" => op.pc = "create"
    PROVE  Quiet
<1>1. runtime \in RuntimeOf
  BY DEF TypeInv, MatchTyped
<1> QED  BY <1>1 DEF Quiet, Ended, Halted, RuntimeOf, Active

LEMMA NotCreate ==
    ASSUME NEW kind, NEW action, Save(kind, action) PROVE op'.pc = "save"
BY DEF Save, Saving

LEMMA HandoverMoves ==
    ASSUME TypeInv, NEW s \in Seats, NEW c, Handover(s, c) PROVE Quiet
<1>0. runtime \in RuntimeOf
  BY DEF TypeInv, MatchTyped
<1>1. CASE Reassign(s, c)
  <2>1. op'.pc = "save"
    BY <1>1, NotCreate DEF Reassign
  <2> QED  BY <1>1, <2>1 DEF Reassign, Quiet
<1>2. CASE ~Reassign(s, c)
  <2>1. /\ runtime' = [runtime EXCEPT !.held[s] = NoOne]
        /\ op' = [Idle EXCEPT !.pc = "stop", !.action = <<s, c>>]
        /\ UNCHANGED <<series, archive>>
    BY <1>2 DEF Handover
  <2>2. op'.pc = "stop"
    BY <2>1 DEF Idle
  <2> QED  BY <1>0, <2>1, <2>2 DEF Quiet, RuntimeOf
<1> QED  BY <1>1, <1>2

LEMMA RequestsMove == TypeInv /\ Requests => Moves
<1> SUFFICES ASSUME TypeInv, Requests PROVE Moves
  OBVIOUS
<1>0. runtime \in RuntimeOf /\ series \in SeriesKind
  BY DEF TypeInv, MatchTyped
<1>1. ASSUME NEW s \in Seats, NEW c \in Controllers, Claim(s, c) PROVE Quiet
  <2>1. op'.pc = "save" /\ UNCHANGED <<series, archive>>
    BY <1>1, NotCreate DEF Claim
  <2>2. \/ runtime' = runtime
        \/ runtime.status = "lobby" /\ runtime' = [runtime EXCEPT !.status = "running"]
    BY <1>1 DEF Claim
  <2> QED  BY <1>0, <2>1, <2>2 DEF Quiet, Active, RuntimeOf
<1>2. ASSUME NEW s \in Seats, NEW c \in Controllers, ChangeController(s, c) PROVE Quiet
  BY <1>2, HandoverMoves DEF ChangeController
<1>3. ASSUME NEW s \in Seats, Release(s) PROVE Quiet
  BY <1>3, HandoverMoves DEF Release
<1>4. ASSUME NEW a \in Actors, RestartRound(a) PROVE Quiet \/ Advances
  <2> DEFINE votes == IF series.policy = "owner" THEN {} ELSE series.votes \cup {a}
  <2>1. \/ Advance("request", NoOne, runtime, series)
        \/ /\ series' = [series EXCEPT !.votes = votes]
           /\ UNCHANGED <<seat, runtime, archive, clock>>
           /\ Save("request", NoOne)
    BY <1>4 DEF RestartRound
  <2>2. op.pc = "idle" /\ series.status = "awaiting-restart"
    BY <1>4 DEF RestartRound
  <2>3. CASE Advance("request", NoOne, runtime, series)
    BY <2>2, <2>3 DEF Advances
  <2>4. CASE ~Advance("request", NoOne, runtime, series)
    <3>1. /\ series' = [series EXCEPT !.votes = votes]
          /\ UNCHANGED <<runtime, archive>> /\ op'.pc = "save"
      BY <2>1, <2>4, NotCreate
    <3> QED  BY <1>0, <3>1 DEF Quiet, SeriesKind
  <2> QED  BY <2>3, <2>4
<1>5. ASSUME Abandon PROVE Ends
  BY <1>5, NotCreate DEF Abandon, End, Ends
<1> QED  BY <1>1, <1>2, <1>3, <1>4, <1>5 DEF Requests, Moves

LEMMA SocketsMove == TypeInv /\ Sockets => Quiet
<1>1. Sockets => Elsewhere
  BY DEF Sockets, Mint, Connect, Suspend, Resume, Disconnect
<1> QED  BY <1>1 DEF Elsewhere, disk, Quiet

LEMMA PlayMoves == TypeInv /\ Play => Moves
<1> SUFFICES ASSUME TypeInv, Play PROVE Moves
  OBVIOUS
<1>0. runtime \in RuntimeOf /\ series \in SeriesKind /\ seat \in [Seats -> SeatKind]
  BY DEF TypeInv, MatchTyped
<1>1. ASSUME NEW i \in Sessions, NEW a \in Actions, NEW k \in Kinds,
             NEW w \in (IF k = "win" THEN {a[1], NoOne} ELSE {NoOne}), Submit(i, a, k, w)
      PROVE  Moves
  <2> DEFINE r == Played(a, a[1], k, w)
             seats == Remembered(a[1], k)
  <2>1. a[1] \in Seats /\ session[i].seat = a[1]
    BY <1>1 DEF Submit, Actions
  <2>2. w \in Seats \cup {NoOne}
    BY <1>1, <2>1
  <2>3. r \in RuntimeOf
    BY <1>0, <1>1, <2>1, <2>2 DEF Played, RuntimeOf, SeatKind, Status
  <2>4. seats \in [Seats -> SeatKind]
    BY <1>0, <2>1 DEF Remembered, SeatKind
  <2>5. Settle("action", a, r, seats) /\ op.pc = "idle" /\ runtime.status = "running"
    BY <1>1, <2>1 DEF Submit
  <2>6. /\ r.log = runtime.log \cup {a} /\ r.epoch = runtime.epoch
        /\ r.status = IF k = "win" THEN "completed" ELSE runtime.status
        /\ r.winner = IF k = "win" THEN w ELSE runtime.winner
    BY <1>0 DEF Played, RuntimeOf
  <2>7. CASE r.status = "completed"
    <3> HIDE DEF r, seats
    <3>1. Settles("action", a, r)
      BY <2>3, <2>4, <2>5, <2>6, <2>7 DEF Settles
    <3> QED  BY <2>3, <3>1 DEF Moves
  <2>8. CASE r.status # "completed"
    <3>1. /\ runtime' = r /\ series' = series /\ archive' = archive
          /\ Save("action", a)
      BY <2>5, <2>8 DEF Settle
    <3>2. op'.pc = "save"
      BY <3>1, NotCreate
    <3>3. r.status = runtime.status /\ r.winner = runtime.winner
      BY <2>6, <2>8
    <3> HIDE DEF r, seats
    <3> QED  BY <2>5, <2>6, <3>1, <3>2, <3>3 DEF Quiet, Moves
  <2> QED  BY <2>7, <2>8
<1>2. ASSUME NEW i \in Sessions, NEW a \in Actions, Refuse(i, a) PROVE Quiet
  BY <1>0, <1>2 DEF Refuse, Quiet, disk, RuntimeOf
<1> QED  BY <1>1, <1>2 DEF Play, Moves

LEMMA ClockMoves == TypeInv /\ Clock => Moves
<1> SUFFICES ASSUME TypeInv, Clock PROVE Moves
  OBVIOUS
<1>0. runtime \in RuntimeOf /\ series \in SeriesKind /\ seat \in [Seats -> SeatKind]
  BY DEF TypeInv, MatchTyped
<1>1. CASE TimerFires
  BY <1>1, QuietWhenSame DEF TimerFires, disk, Moves
<1>2. CASE TickGoesOn
  <2>1. UNCHANGED match /\ (UNCHANGED disk \/ Save("tick", NoOne))
    BY <1>2 DEF TickGoesOn
  <2>2. op'.pc = "create" => op.pc = "create"
    BY <2>1, NotCreate DEF disk
  <2> QED  BY <2>1, <2>2, QuietWhenSame DEF Moves
<1>3. ASSUME NEW w \in Seats \cup {NoOne}, TickFinishes(w) PROVE Moves
  <2> DEFINE r == [runtime EXCEPT !.status = "completed", !.winner = w]
  <2>1. r \in RuntimeOf /\ r.log = runtime.log /\ r.epoch = runtime.epoch
        /\ r.status = "completed"
    BY <1>0 DEF RuntimeOf, Status
  <2>2. Settle("tick", NoOne, r, seat) /\ op.pc = "idle" /\ runtime.status = "running"
    BY <1>3 DEF TickFinishes, TickEnd
  <2> HIDE DEF r
  <2>3. Settles("tick", NoOne, r)
    BY <1>0, <2>1, <2>2 DEF Settles
  <2> QED  BY <2>1, <2>3 DEF Moves
<1>4. CASE TickFindsEnd
  <2>1. Settles("tick", NoOne, runtime)
    BY <1>0, <1>4 DEF TickFindsEnd, TickEnd, Settles
  <2> QED  BY <1>0, <2>1 DEF Moves
<1>5. CASE TickThrows
  <2>1. /\ runtime' = Ended(runtime, "failed") /\ op' = Idle
        /\ UNCHANGED <<seat, series, archive>>
    BY <1>5 DEF TickThrows, TickFails
  <2>2. op'.pc = "idle"
    BY <2>1 DEF Idle
  <2> QED  BY <2>1, <2>2, QuietWhenFailed DEF Moves, Status, Active
<1> QED  BY <1>1, <1>2, <1>3, <1>4, <1>5 DEF Clock

LEMMA OthersMove ==
    TypeInv /\ (Continue \/ Maintenance \/ NextRoundFails \/ Overruns \/ Wait \/ TakeOver)
    => Moves
<1> SUFFICES ASSUME TypeInv,
                    Continue \/ Maintenance \/ NextRoundFails \/ Overruns \/ Wait \/ TakeOver
             PROVE  Moves
  OBVIOUS
<1>i. Idle.pc = "idle"
  BY DEF Idle
<1>f. "failed" \in Status \ Active /\ "failed" # "completed"
  BY DEF Status, Active
<1>1. CASE InputHasStopped
  <2>1. op'.pc = "save" /\ UNCHANGED <<runtime, series, archive>>
    BY <1>1, NotCreate DEF InputHasStopped, Reassign
  <2> QED  BY <2>1 DEF Quiet, Moves
<1>2. CASE NextRound
  BY <1>2 DEF Moves
<1>3. CASE Saved
  BY <1>3, <1>i, QuietWhenSame DEF Saved, Moves
<1>4. CASE SaveFails
  <2>1. op' = Idle
    BY <1>4 DEF SaveFails, TickFails
  <2>2. CASE op.kind = "tick"
    <3> DEFINE r == Halted(runtime)
    <3>1. runtime' = Ended(r, "failed") /\ UNCHANGED <<seat, series, archive>>
      BY <1>4, <2>2 DEF SaveFails, TickFails
    <3>2. Ended(r, "failed") = Ended(runtime, "failed")
      BY DEF Ended, Halted, TypeInv, MatchTyped, RuntimeOf, Active
    <3> QED  BY <1>i, <1>f, <2>1, <3>1, <3>2, QuietWhenFailed DEF Moves
  <2>3. CASE op.kind # "tick"
    <3>1. runtime' = Halted(runtime) /\ UNCHANGED <<seat, series, archive>>
      BY <1>4, <2>3 DEF SaveFails
    <3> QED  BY <1>i, <1>f, <2>1, <3>1, QuietWhenFailed DEF Moves
  <2> QED  BY <2>2, <2>3
<1>5. CASE LateSaved
  BY <1>5, QuietWhenSame DEF LateSaved, Moves
<1>6. CASE LateSaveFails
  BY <1>6, <1>f, QuietWhenFailed DEF LateSaveFails, Moves
<1>7. CASE MaintainKeeps \/ Wait
  BY <1>7, QuietWhenSame DEF MaintainKeeps, Wait, disk, Moves
<1>8. CASE MaintainExpires
  BY <1>8, NotCreate DEF MaintainExpires, End, Ends, Moves
<1>9. CASE NextRoundFails
  <2>1. op' = Idle
    BY <1>9 DEF NextRoundFails, TickFails
  <2>2. \/ UNCHANGED match
        \/ runtime' = Ended(runtime, "failed") /\ UNCHANGED <<seat, series, archive>>
    BY <1>9 DEF NextRoundFails, TickFails
  <2> QED  BY <1>i, <1>f, <2>1, <2>2, QuietWhenSame, QuietWhenFailed DEF Moves
<1>10. CASE Overruns
  BY <1>10, NotCreate DEF Overruns, End, Ends, Moves
<1>11. CASE TakeOver
  BY <1>11, QuietWhenSame DEF TakeOver, Moves
<1> QED  BY <1>1, <1>2, <1>3, <1>4, <1>5, <1>6, <1>7, <1>8, <1>9, <1>10, <1>11
         DEF Continue, Maintenance

LEMMA Steps == TypeInv /\ [Next]_vars => Moves
<1>1. TypeInv /\ UNCHANGED vars => Moves
  BY QuietWhenSame DEF vars, disk, Moves
<1> QED  BY <1>1, RequestsMove, SocketsMove, PlayMoves, ClockMoves, OthersMove
         DEF Next, Moves
(***************************************************************************)
(* What a step does to the store and to the saves under way.               *)
(***************************************************************************)
Fresh(o) == o.pc = "save" /\ o.version = version /\ o.saved = Record'

StoreWritten ==
    \E o \in {op, late} :
        /\ o.pc = "save" /\ o.version = store.version /\ Written(o)
        /\ version' = version \/ version' = o.version + 1

Stores ==
    /\ op' = op \/ op'.pc # "save" \/ Fresh(op')
    /\ \/ late' = late \/ late'.pc # "save"
       \/ Fresh(late') /\ op'.pc = "idle"
    /\ \/ UNCHANGED <<store, version>>
       \/ StoreWritten
       \/ TakeOver

LEMMA FreshSaving ==
    \A kind, action : Fresh(Saving(kind, action))
BY DEF Fresh, Saving

LEMMA SaveStores ==
    ASSUME NEW kind, NEW action, Save(kind, action) PROVE Fresh(op') /\ UNCHANGED <<version, late, store>>
BY FreshSaving DEF Save

LEMMA SameStores == UNCHANGED disk => Stores
BY DEF disk, Stores

LEMMA AdvanceStores ==
    ASSUME NEW kind, NEW action, NEW r, NEW ser, Advance(kind, action, r, ser) PROVE Stores
BY DEF Advance, Idle, Stores

LEMMA SettleStores ==
    ASSUME NEW kind, NEW action, NEW r, NEW seats, Settle(kind, action, r, seats)
    PROVE  Stores
<1>1. \/ Save(kind, action)
      \/ \E ser : Advance(kind, action, r, ser)
  BY DEF Settle
<1>2. CASE Save(kind, action)
  BY <1>2, SaveStores DEF Stores
<1>3. CASE \E ser : Advance(kind, action, r, ser)
  BY <1>3, AdvanceStores
<1> QED  BY <1>1, <1>2, <1>3

LEMMA HandoverStores ==
    ASSUME NEW s, NEW c, Handover(s, c) PROVE Stores
<1>1. CASE Reassign(s, c)
  BY <1>1, SaveStores DEF Reassign, Stores
<1>2. CASE ~Reassign(s, c)
  <2>1. /\ op' = [Idle EXCEPT !.pc = "stop", !.action = <<s, c>>]
        /\ UNCHANGED <<version, late, store>>
    BY <1>2 DEF Handover
  <2>2. op'.pc = "stop"
    BY <2>1 DEF Idle
  <2> QED  BY <2>1, <2>2 DEF Stores
<1> QED  BY <1>1, <1>2

LEMMA EndStores == ASSUME NEW status, End(status) PROVE Stores
BY SaveStores DEF End, Stores

LEMMA RequestsStore == Requests => Stores
<1>1. ASSUME NEW s, NEW c, Claim(s, c) PROVE Stores
  BY <1>1, SaveStores DEF Claim, Stores
<1>2. ASSUME NEW a, RestartRound(a) PROVE Stores
  <2>1. Advance("request", NoOne, runtime, series) \/ Save("request", NoOne)
    BY <1>2 DEF RestartRound
  <2>2. CASE Save("request", NoOne)
    BY <2>2, SaveStores DEF Stores
  <2> QED  BY <2>1, <2>2, AdvanceStores
<1> QED  BY <1>1, <1>2, HandoverStores, EndStores
         DEF Requests, ChangeController, Release, Abandon

LEMMA PlayStores == Play => Stores
<1>1. ASSUME NEW i, NEW a, NEW k, NEW w, Submit(i, a, k, w) PROVE Stores
  BY <1>1, SettleStores DEF Submit
<1>2. ASSUME NEW i, NEW a, Refuse(i, a) PROVE Stores
  BY <1>2, SameStores DEF Refuse
<1> QED  BY <1>1, <1>2 DEF Play

LEMMA FailsStores == ASSUME NEW r, TickFails(r) PROVE op' = Idle /\ op'.pc = "idle" /\ Fresh(late')
BY FreshSaving DEF TickFails, Idle

LEMMA ClockStores == Clock => Stores
<1> SUFFICES ASSUME Clock PROVE Stores
  OBVIOUS
<1>1. CASE TimerFires
  BY <1>1, SameStores DEF TimerFires
<1>2. CASE TickGoesOn
  BY <1>2, SameStores, SaveStores DEF TickGoesOn, Stores
<1>3. CASE \E w \in Seats \cup {NoOne} : TickFinishes(w)
  BY <1>3, SettleStores DEF TickFinishes
<1>4. CASE TickFindsEnd
  BY <1>4, SettleStores DEF TickFindsEnd
<1>5. CASE TickThrows
  <2>1. op'.pc = "idle" /\ Fresh(late') /\ UNCHANGED <<version, store>>
    BY <1>5, FailsStores DEF TickThrows
  <2> QED  BY <2>1 DEF Stores
<1> QED  BY <1>1, <1>2, <1>3, <1>4, <1>5 DEF Clock

LEMMA WritesStore ==
    ASSUME NEW o \in {op, late}, WriteLands(o) \/ WriteFails(o)
    PROVE  UNCHANGED <<store, version>> \/ StoreWritten
BY DEF WriteLands, WriteFails, StoreWritten

LEMMA OthersStore ==
    Continue \/ Maintenance \/ NextRoundFails \/ Overruns \/ Wait \/ TakeOver => Stores
<1> SUFFICES ASSUME Continue \/ Maintenance \/ NextRoundFails \/ Overruns \/ Wait \/ TakeOver
             PROVE  Stores
  OBVIOUS
<1>i. Idle.pc = "idle"
  BY DEF Idle
<1>1. CASE InputHasStopped
  BY <1>1, SaveStores DEF InputHasStopped, Reassign, Stores
<1>2. CASE NextRound
  BY <1>2, SaveStores DEF NextRound, Stores
<1>3. CASE Saved
  BY <1>3, <1>i, WritesStore DEF Saved, Stores
<1>4. CASE SaveFails
  <2>1. op' = Idle /\ (late' = late \/ Fresh(late'))
    BY <1>4, FailsStores DEF SaveFails
  <2> QED  BY <1>4, <1>i, <2>1, WritesStore DEF SaveFails, Stores
<1>5. CASE LateSaved
  BY <1>5, <1>i, WritesStore DEF LateSaved, Stores
<1>6. CASE LateSaveFails
  BY <1>6, <1>i, WritesStore DEF LateSaveFails, Stores
<1>7. CASE MaintainKeeps \/ Wait
  BY <1>7, SameStores DEF MaintainKeeps, Wait
<1>8. CASE MaintainExpires \/ Overruns
  BY <1>8, EndStores DEF MaintainExpires, Overruns
<1>9. CASE NextRoundFails
  <2>1. op' = Idle /\ (late' = late \/ Fresh(late')) /\ UNCHANGED <<version, store>>
    BY <1>9, FailsStores DEF NextRoundFails
  <2> QED  BY <1>i, <2>1 DEF Stores
<1>10. CASE TakeOver
  <2>1. op' = op /\ late' = late
    BY <1>10 DEF TakeOver
  <2> QED  BY <1>10, <2>1 DEF Stores
<1> QED  BY <1>1, <1>2, <1>3, <1>4, <1>5, <1>6, <1>7, <1>8, <1>9, <1>10
         DEF Continue, Maintenance

LEMMA StoreSteps == [Next]_vars => Restart \/ Stores
<1>1. Sockets => UNCHANGED disk
  BY DEF Sockets, Mint, Connect, Suspend, Resume, Disconnect, Elsewhere
<1>2. UNCHANGED vars => UNCHANGED disk
  BY DEF vars, disk
<1> QED  BY <1>1, <1>2, SameStores, RequestsStore, PlayStores, ClockStores, OthersStore
         DEF Next

(***************************************************************************)
(* The records that are in the store or on their way to it come from the   *)
(* memory, or from another worker that has only raised the epoch.          *)
(***************************************************************************)
Stored == {store.record} \cup {o.saved : o \in {x \in {op, late} : x.pc = "save"}}
TakenOver == [store.record EXCEPT !.runtime.epoch = @ + 1]

LEMMA StoredAfter ==
    ASSUME [Next]_vars, NEW rec \in Stored'
    PROVE  \/ rec \in Stored \/ rec = TakenOver
           \/ rec = Record' /\ op'.pc \in {"idle", "save"}
<1>0. \/ rec = store'.record
      \/ op'.pc = "save" /\ rec = op'.saved
      \/ late'.pc = "save" /\ rec = late'.saved
  BY DEF Stored
<1>1. CASE Restart
  <2>1. store'.record = Record' /\ op'.pc = "idle" /\ late'.pc # "save"
    BY <1>1 DEF Restart, Idle
  <2> QED  BY <1>0, <2>1
<1>2. CASE Stores
  <2>1. CASE rec = store'.record
    <3>1. CASE UNCHANGED store
      BY <2>1, <3>1 DEF Stored
    <3>2. CASE StoreWritten
      BY <2>1, <3>2 DEF StoreWritten, Written, Stored
    <3>3. CASE TakeOver
      BY <2>1, <3>3 DEF TakeOver, TakenOver
    <3> QED  BY <1>2, <3>1, <3>2, <3>3 DEF Stores
  <2>2. CASE op'.pc = "save" /\ rec = op'.saved
    BY <1>2, <2>2 DEF Stores, Fresh, Stored
  <2>3. CASE late'.pc = "save" /\ rec = late'.saved
    BY <1>2, <2>3 DEF Stores, Fresh, Stored
  <2> QED  BY <1>0, <2>1, <2>2, <2>3
<1> QED  BY <1>1, <1>2, StoreSteps

LEMMA StoredTyped == TypeInv => Stored \subseteq RecordKind
BY DEF TypeInv, DiskTyped, Typed, Stored
(***************************************************************************)
(* What a step does to the seats and their sessions.                       *)
(***************************************************************************)
Asks == requests' = requests \/ requests' = requests + 1

SeatsStay ==
    /\ UNCHANGED <<seat, session>> /\ Asks
    /\ runtime'.held = runtime.held /\ runtime'.epoch = runtime.epoch
    /\ op'.pc = "create" => op.pc = "create"
    /\ \/ op.pc # "stop" /\ op'.pc # "stop"
       \/ op' = op

SeatsForget ==
    /\ seat' = HoldsForgotten /\ session' = session /\ Asks
    /\ runtime'.epoch = runtime.epoch /\ op'.pc = "create"

SeatPlays ==
    \E i \in Sessions, a \in Actions, k \in Kinds, w \in Seats \cup {NoOne} :
        /\ Submit(i, a, k, w)
        /\ seat' = Remembered(a[1], k) /\ runtime' = Played(a, a[1], k, w)
        /\ session' = session /\ requests' = requests
        /\ session[i].state = "connected" /\ session[i].seat = a[1] /\ a[1] \in Seats
        /\ op.pc = "idle" /\ op'.pc = "save"

SeatGoes ==
    \E s \in Seats, c \in Controllers \cup {NoOne} :
        \/ /\ op.pc = "idle" /\ requests' = requests + 1
           /\ seat[s].who # NoOne /\ Handover(s, c)
        \/ op.pc = "stop" /\ op.action = <<s, c>> /\ requests' = requests /\ Reassign(s, c)

SeatMoves ==
    \/ SeatsStay \/ SeatsForget \/ SeatPlays \/ SeatGoes
    \/ \E s \in Seats, c \in Controllers : Claim(s, c)
    \/ Sockets \/ NextRound \/ Restart

LEMMA EndSeats ==
    ASSUME TypeInv, NEW status, End(status), op.pc = "idle", Asks PROVE SeatsStay
<1>1. op'.pc = "save" /\ UNCHANGED <<seat, session>> /\ runtime' = Ended(runtime, status)
  BY NotCreate DEF End
<1>2. runtime'.held = runtime.held /\ runtime'.epoch = runtime.epoch
  BY <1>1 DEF Ended, TypeInv, MatchTyped, RuntimeOf
<1> QED  BY <1>1, <1>2 DEF SeatsStay

LEMMA FailedSeats ==
    ASSUME TypeInv, NEW r, r = runtime \/ r = Halted(runtime),
           TickFails(r) \/ (op' = Idle /\ runtime' = r /\ seat' = seat),
           session' = session, Asks, op.pc # "stop"
    PROVE  SeatsStay
<1>1. op'.pc = "idle" /\ seat' = seat /\ (runtime' = Ended(r, "failed") \/ runtime' = r)
  BY DEF TickFails, Idle
<1>2. runtime'.held = runtime.held /\ runtime'.epoch = runtime.epoch
  BY <1>1 DEF Ended, Halted, TypeInv, MatchTyped, RuntimeOf
<1> QED  BY <1>1, <1>2 DEF SeatsStay

LEMMA TickSeats ==
    ASSUME NEW r, r.held = runtime.held, r.epoch = runtime.epoch, op.pc = "idle",
           Settle("tick", NoOne, r, seat), session' = session, requests' = requests
    PROVE  SeatsStay \/ SeatsForget
<1>1. \/ \E ser : Advance("tick", NoOne, r, ser)
      \/ runtime' = r /\ seat' = seat /\ Save("tick", NoOne)
  BY DEF Settle
<1>2. CASE \E ser : Advance("tick", NoOne, r, ser)
  BY <1>2 DEF Advance, Idle, SeatsForget, Asks
<1>3. CASE runtime' = r /\ seat' = seat /\ Save("tick", NoOne)
  BY <1>3, NotCreate DEF SeatsStay, Asks
<1> QED  BY <1>1, <1>2, <1>3

LEMMA RequestSeats == TypeInv /\ Requests => SeatMoves
<1> SUFFICES ASSUME TypeInv, Requests PROVE SeatMoves
  OBVIOUS
<1>1. ASSUME NEW a \in Actors, RestartRound(a) PROVE SeatMoves
  <2>1. /\ op.pc = "idle" /\ Asks /\ session' = session
        /\ \/ Advance("request", NoOne, runtime, series)
           \/ UNCHANGED <<seat, runtime>> /\ Save("request", NoOne)
    BY <1>1 DEF RestartRound, Request, Asks
  <2>2. CASE Advance("request", NoOne, runtime, series)
    BY <2>1, <2>2 DEF Advance, Idle, SeatsForget, SeatMoves
  <2>3. CASE UNCHANGED <<seat, runtime>> /\ Save("request", NoOne)
    BY <2>1, <2>3, NotCreate DEF SeatsStay, SeatMoves
  <2> QED  BY <2>1, <2>2, <2>3
<1>2. ASSUME NEW s \in Seats, NEW c \in Controllers, ChangeController(s, c) PROVE SeatMoves
  BY <1>2 DEF ChangeController, Request, SeatGoes, SeatMoves
<1>3. ASSUME NEW s \in Seats, Release(s) PROVE SeatMoves
  BY <1>3 DEF Release, Request, SeatGoes, SeatMoves
<1>4. CASE Abandon
  BY <1>4, EndSeats DEF Abandon, Request, Asks, SeatMoves
<1> QED  BY <1>1, <1>2, <1>3, <1>4 DEF Requests, SeatMoves

LEMMA PlaySeats == TypeInv /\ Play => SeatMoves
<1> SUFFICES ASSUME TypeInv, Play PROVE SeatMoves
  OBVIOUS
<1>1. ASSUME NEW i \in Sessions, NEW a \in Actions, NEW k \in Kinds,
             NEW w \in (IF k = "win" THEN {a[1], NoOne} ELSE {NoOne}), Submit(i, a, k, w)
      PROVE  SeatMoves
  <2> DEFINE r == Played(a, a[1], k, w)
             seats == Remembered(a[1], k)
  <2>1. a[1] \in Seats /\ session[i].seat = a[1] /\ session[i].state = "connected"
    BY <1>1 DEF Submit, Actions
  <2>2. w \in Seats \cup {NoOne}
    BY <1>1, <2>1
  <2>3. /\ Settle("action", a, r, seats) /\ op.pc = "idle"
        /\ session' = session /\ requests' = requests
    BY <1>1, <2>1 DEF Submit, budget
  <2>4. r.epoch = runtime.epoch
    BY DEF Played, TypeInv, MatchTyped, RuntimeOf
  <2>5. CASE \E ser : Advance("action", a, r, ser)
    <3> HIDE DEF r, seats
    <3>1. runtime' = r /\ seat' = HoldsForgotten /\ op'.pc = "create"
      BY <2>5 DEF Advance, Idle
    <3> QED  BY <2>3, <2>4, <3>1 DEF SeatsForget, Asks, SeatMoves
  <2>6. CASE ~\E ser : Advance("action", a, r, ser)
    <3>1. runtime' = r /\ seat' = seats /\ Save("action", a)
      BY <2>3, <2>6 DEF Settle
    <3>2. op'.pc = "save"
      BY <3>1, NotCreate
    <3> QED  BY <1>1, <2>1, <2>2, <2>3, <3>1, <3>2 DEF SeatPlays, SeatMoves
  <2> QED  BY <2>5, <2>6
<1>2. ASSUME NEW i \in Sessions, NEW a \in Actions, Refuse(i, a) PROVE SeatMoves
  <2>1. runtime'.held = runtime.held /\ runtime'.epoch = runtime.epoch
    BY <1>2 DEF Refuse, TypeInv, MatchTyped, RuntimeOf
  <2> QED  BY <1>2, <2>1 DEF Refuse, disk, budget, SeatsStay, Asks, SeatMoves
<1> QED  BY <1>1, <1>2 DEF Play

LEMMA ClockSeats == TypeInv /\ Clock => SeatMoves
<1> SUFFICES ASSUME TypeInv, Clock PROVE SeatMoves
  OBVIOUS
<1>1. CASE TimerFires
  BY <1>1 DEF TimerFires, match, disk, budget, SeatsStay, Asks, SeatMoves
<1>2. CASE TickGoesOn
  <2>1. op' = op \/ op'.pc = "save"
    BY <1>2, NotCreate DEF TickGoesOn, disk
  <2> QED  BY <1>2, <2>1 DEF TickGoesOn, TickEnd, TickFrame, match, budget, SeatsStay, Asks, SeatMoves
<1>3. ASSUME NEW w \in Seats \cup {NoOne}, TickFinishes(w) PROVE SeatMoves
  <2> DEFINE r == [runtime EXCEPT !.status = "completed", !.winner = w]
  <2>1. r.held = runtime.held /\ r.epoch = runtime.epoch
    BY DEF TypeInv, MatchTyped, RuntimeOf
  <2>2. /\ Settle("tick", NoOne, r, seat) /\ op.pc = "idle"
        /\ session' = session /\ requests' = requests
    BY <1>3 DEF TickFinishes, TickEnd, TickFrame, budget
  <2> HIDE DEF r
  <2> QED  BY <2>1, <2>2, TickSeats DEF SeatMoves
<1>4. CASE TickFindsEnd
  BY <1>4, TickSeats DEF TickFindsEnd, TickEnd, TickFrame, budget, SeatMoves
<1>5. CASE TickThrows
  <2>1. /\ TickFails(runtime) /\ op.pc = "idle"
        /\ session' = session /\ requests' = requests
    BY <1>5 DEF TickThrows, TickEnd, TickFrame
  <2>2. SeatsStay
    BY <2>1, FailedSeats DEF Asks
  <2> QED  BY <2>2 DEF SeatMoves
<1> QED  BY <1>1, <1>2, <1>3, <1>4, <1>5 DEF Clock

LEMMA OtherSeats ==
    TypeInv /\ (Continue \/ Maintenance \/ NextRoundFails \/ Overruns \/ Wait \/ TakeOver)
    => SeatMoves
<1> SUFFICES ASSUME TypeInv,
                    Continue \/ Maintenance \/ NextRoundFails \/ Overruns \/ Wait \/ TakeOver
             PROVE  SeatMoves
  OBVIOUS
<1>i. Idle.pc = "idle"
  BY DEF Idle
<1>0. runtime \in RuntimeOf
  BY DEF TypeInv, MatchTyped
<1>1. CASE InputHasStopped
  <2>1. op.action \in Seats \X (Controllers \cup {NoOne}) /\ op.pc = "stop"
    BY <1>1 DEF InputHasStopped, TypeInv, DiskTyped, Typed
  <2>2. PICK s \in Seats, c \in Controllers \cup {NoOne} : op.action = <<s, c>>
    BY <2>1
  <2>3. Reassign(s, c) /\ requests' = requests
    BY <1>1, <2>2 DEF InputHasStopped
  <2> QED  BY <2>1, <2>2, <2>3 DEF SeatGoes, SeatMoves
<1>2. CASE NextRound
  BY <1>2 DEF SeatMoves
<1>3. CASE Saved
  <2>1. op.pc = "save" /\ op'.pc = "idle"
    BY <1>3, <1>i DEF Saved, WriteLands
  <2> QED  BY <1>3, <2>1 DEF Saved, SaveFrame, match, SeatsStay, Asks, SeatMoves
<1>4. CASE SaveFails
  <2>1. op.pc = "save" /\ session' = session /\ Asks
    BY <1>4 DEF SaveFails, SaveFrame, WriteFails, Asks
  <2>2. \/ TickFails(Halted(runtime))
        \/ op' = Idle /\ runtime' = Halted(runtime) /\ seat' = seat
    BY <1>4 DEF SaveFails
  <2>3. SeatsStay
    BY <2>1, <2>2, FailedSeats
  <2> QED  BY <2>3 DEF SeatMoves
<1>5. CASE LateSaved
  BY <1>5 DEF LateSaved, SaveFrame, match, SeatsStay, Asks, SeatMoves
<1>6. CASE LateSaveFails
  <2>1. runtime'.held = runtime.held /\ runtime'.epoch = runtime.epoch
    BY <1>0, <1>6 DEF LateSaveFails, Halted, RuntimeOf
  <2> QED  BY <1>6, <2>1 DEF LateSaveFails, SaveFrame, SeatsStay, Asks, SeatMoves
<1>7. CASE MaintainKeeps \/ Wait
  BY <1>7 DEF MaintainKeeps, Wait, match, disk, budget, SeatsStay, Asks, SeatMoves
<1>8. CASE MaintainExpires \/ Overruns
  BY <1>8, EndSeats DEF MaintainExpires, Overruns, budget, Asks, SeatMoves
<1>9. CASE NextRoundFails
  <2>1. op.pc = "create" /\ session' = session /\ Asks
    BY <1>9 DEF NextRoundFails, Asks
  <2>2. \/ TickFails(runtime)
        \/ op' = Idle /\ runtime' = runtime /\ seat' = seat
    BY <1>9 DEF NextRoundFails, match
  <2>3. SeatsStay
    BY <2>1, <2>2, FailedSeats
  <2> QED  BY <2>3 DEF SeatMoves
<1>10. CASE TakeOver
  BY <1>10 DEF TakeOver, match, SeatsStay, Asks, SeatMoves
<1> QED  BY <1>1, <1>2, <1>3, <1>4, <1>5, <1>6, <1>7, <1>8, <1>9, <1>10
         DEF Continue, Maintenance

LEMMA SeatSteps == TypeInv /\ [Next]_vars => SeatMoves
<1>1. UNCHANGED vars => SeatMoves
  BY DEF vars, match, disk, budget, SeatsStay, Asks, SeatMoves
<1> QED  BY <1>1, RequestSeats, PlaySeats, ClockSeats, OtherSeats DEF Next, SeatMoves
(***************************************************************************)
(* An open seat is nobody's, in memory and wherever the match is saved.    *)
(***************************************************************************)
OpenIsFree(seats) == \A s \in Seats : seats[s].status = "open" => seats[s].who = NoOne
OpenInv == OpenIsFree(seat) /\ \A rec \in Stored : OpenIsFree(rec.seat)

LEMMA OpenInit == Init => OpenInv
BY DEF Init, OpenInv, OpenIsFree, OpenSeat, Stored, Record, Idle

\* A session that comes or goes changes the status of its seat; with late
\* joins the seat may also lose its controller.
LEMMA SocketsSeat ==
    ASSUME TypeInv, Sockets, NEW s \in Seats
    PROVE  /\ seat'[s].gen = seat[s].gen /\ seat'[s].hold = seat[s].hold
           /\ \/ /\ seat'[s].who = seat[s].who
                 /\ seat'[s].status = "open" => seat[s].status = "open"
              \/ LateJoin /\ seat'[s].who = NoOne
<1>0. seat \in [Seats -> SeatKind]
  BY DEF TypeInv, MatchTyped
<1>1. \/ seat' = seat
      \/ \E i \in Sessions, status \in {"connected", "disconnected"} :
            seat' = [seat EXCEPT ![session[i].seat].status = status]
      \/ /\ LateJoin
         /\ \E i \in Sessions :
               seat' = [seat EXCEPT ![session[i].seat].who = NoOne,
                                    ![session[i].seat].status = "open"]
  BY DEF Sockets, Mint, Connect, Suspend, Resume, Disconnect
<1>2. ASSUME NEW i \in Sessions, NEW status \in {"connected", "disconnected"},
             seat' = [seat EXCEPT ![session[i].seat].status = status]
      PROVE  /\ seat'[s].gen = seat[s].gen /\ seat'[s].hold = seat[s].hold
             /\ seat'[s].who = seat[s].who
             /\ seat'[s].status = "open" => seat[s].status = "open"
  BY <1>0, <1>2 DEF SeatKind
<1>3. ASSUME NEW i \in Sessions,
             seat' = [seat EXCEPT ![session[i].seat].who = NoOne,
                                  ![session[i].seat].status = "open"]
      PROVE  /\ seat'[s].gen = seat[s].gen /\ seat'[s].hold = seat[s].hold
             /\ seat'[s] = seat[s] \/ seat'[s].who = NoOne
  BY <1>0, <1>3 DEF SeatKind
<1> QED  BY <1>1, <1>2, <1>3

LEMMA OpenNext == TypeInv /\ OpenInv /\ [Next]_vars => OpenInv'
<1> SUFFICES ASSUME TypeInv, OpenInv, [Next]_vars PROVE OpenInv'
  OBVIOUS
<1>0. seat \in [Seats -> SeatKind] /\ OpenIsFree(seat)
  BY DEF TypeInv, MatchTyped, OpenInv
<1>1. OpenIsFree(seat')
  <2>1. CASE SeatsStay
    BY <1>0, <2>1 DEF SeatsStay
  <2>2. CASE SeatsForget
    BY <1>0, <2>2 DEF SeatsForget, HoldsForgotten, OpenIsFree, SeatKind
  <2>3. CASE SeatPlays
    BY <1>0, <2>3 DEF SeatPlays, Remembered, OpenIsFree, SeatKind
  <2>4. CASE SeatGoes
    <3>1. ASSUME NEW s \in Seats, NEW c \in Controllers \cup {NoOne}, Reassign(s, c)
          PROVE  OpenIsFree(seat')
      BY <1>0, <3>1 DEF Reassign, OpenIsFree, SeatKind
    <3>2. ASSUME NEW s \in Seats, NEW c \in Controllers \cup {NoOne}, Handover(s, c)
          PROVE  OpenIsFree(seat')
      BY <1>0, <3>1, <3>2 DEF Handover
    <3> QED  BY <2>4, <3>1, <3>2 DEF SeatGoes
  <2>5. ASSUME NEW s \in Seats, NEW c \in Controllers, Claim(s, c) PROVE OpenIsFree(seat')
    BY <1>0, <2>5 DEF Claim, OpenIsFree, SeatKind
  <2>6. CASE Sockets
    <3>1. ASSUME NEW s \in Seats, seat'[s].status = "open" PROVE seat'[s].who = NoOne
      <4>1. \/ seat'[s].who = seat[s].who /\ seat[s].status = "open"
            \/ seat'[s].who = NoOne
        BY <2>6, <3>1, SocketsSeat
      <4> QED  BY <1>0, <4>1 DEF OpenIsFree
    <3> QED  BY <3>1 DEF OpenIsFree
  <2>7. CASE NextRound
    <3>1. seat' = [s \in Seats |->
                     [seat[s] EXCEPT !.status =
                        IF seat[s].who = NoOne THEN "open"
                        ELSE IF At(s, {"connected"}) # {} THEN "connected" ELSE "claimed"]]
      BY <2>7 DEF NextRound
    <3>2. \A s \in Seats : /\ seat'[s].who = seat[s].who
                           /\ seat[s].who # NoOne => seat'[s].status # "open"
      BY <1>0, <3>1 DEF SeatKind
    <3> QED  BY <3>2 DEF OpenIsFree
  <2>8. CASE Restart
    <3>1. store.record \in RecordKind /\ OpenIsFree(store.record.seat)
      BY DEF TypeInv, DiskTyped, OpenInv, Stored
    <3> QED  BY <2>8, <3>1 DEF Restart, OpenIsFree, RecordKind, SeatKind
  <2> QED  BY <2>1, <2>2, <2>3, <2>4, <2>5, <2>6, <2>7, <2>8, SeatSteps DEF SeatMoves
<1>2. ASSUME NEW rec \in Stored' PROVE OpenIsFree(rec.seat)
  <2>1. CASE rec \in Stored
    BY <2>1 DEF OpenInv
  <2>2. CASE rec = TakenOver
    <3>1. TakenOver.seat = store.record.seat
      BY DEF TakenOver, TypeInv, DiskTyped, RecordKind
    <3> QED  BY <2>2, <3>1 DEF OpenInv, Stored
  <2>3. CASE rec = Record'
    BY <1>1, <2>3 DEF Record
  <2> QED  BY <2>1, <2>2, <2>3, StoredAfter
<1> QED  BY <1>1, <1>2 DEF OpenInv

(***************************************************************************)
(* A seat has had no more generations than there were requests, also when  *)
(* one of them waits for an input to stop.                                 *)
(***************************************************************************)
Aged(seats, n) == \A s \in Seats : seats[s].gen <= n
AgeInv ==
    /\ Aged(seat, requests) /\ \A rec \in Stored : Aged(rec.seat, requests)
    /\ op.pc = "stop" => seat[op.action[1]].gen < requests

LEMMA AgeInit == Init => AgeInv
BY DEF Init, AgeInv, Aged, OpenSeat, Stored, Record, Idle

LEMMA AgedLonger ==
    ASSUME NEW seats \in [Seats -> SeatKind], NEW n \in Nat, NEW m \in Nat, n <= m,
           Aged(seats, n)
    PROVE  Aged(seats, m)
<1>1. \A s \in Seats : seats[s].gen \in Nat
  BY DEF SeatKind
<1> QED  BY <1>1 DEF Aged

LEMMA AgedWhenSame ==
    ASSUME NEW seats \in [Seats -> SeatKind], NEW n, Aged(seats, n),
           NEW new, \A s \in Seats : new[s].gen = seats[s].gen
    PROVE  Aged(new, n)
BY DEF Aged

LEMMA AgeNext == TypeInv /\ AgeInv /\ [Next]_vars => AgeInv'
<1> SUFFICES ASSUME TypeInv, AgeInv, [Next]_vars PROVE AgeInv'
  OBVIOUS
<1>0. /\ seat \in [Seats -> SeatKind] /\ requests \in Nat /\ Aged(seat, requests)
      /\ \A s \in Seats : seat[s].gen \in Nat
      /\ op.pc = "stop" => op.action[1] \in Seats /\ seat[op.action[1]].gen < requests
  <2>1. seat \in [Seats -> SeatKind] /\ Aged(seat, requests)
    BY DEF TypeInv, MatchTyped, AgeInv
  <2>2. requests \in Nat
    BY Bounds DEF TypeInv, RestTyped
  <2>3. op.pc = "stop" => op.action[1] \in Seats /\ seat[op.action[1]].gen < requests
    BY DEF TypeInv, DiskTyped, Typed, AgeInv
  <2> QED  BY <2>1, <2>2, <2>3 DEF SeatKind
<1>1. /\ requests' \in Nat /\ requests <= requests'
      /\ Aged(seat', requests')
      /\ op'.pc = "stop" => seat'[op'.action[1]].gen < requests'
  <2> DEFINE Same == \A s \in Seats : seat'[s].gen = seat[s].gen
             Later == requests' \in Nat /\ requests <= requests'
  <2>a. Asks => Later
    BY <1>0 DEF Asks
  <2>b. Same /\ Later => Aged(seat', requests')
    BY <1>0 DEF Aged
  <2>1. CASE SeatsStay
    <3>1. Same /\ Later /\ seat' = seat
      BY <2>1, <2>a DEF SeatsStay
    <3>2. op'.pc = "stop" => op' = op
      BY <2>1 DEF SeatsStay
    <3> QED  BY <1>0, <2>b, <3>1, <3>2
  <2>2. CASE SeatsForget
    <3>1. Same
      BY <1>0, <2>2 DEF SeatsForget, HoldsForgotten, SeatKind
    <3> QED  BY <2>2, <2>a, <2>b, <3>1 DEF SeatsForget
  <2>3. CASE SeatPlays
    <3>1. Same
      BY <1>0, <2>3 DEF SeatPlays, Remembered, SeatKind
    <3> QED  BY <2>3, <2>a, <2>b, <3>1 DEF SeatPlays, Asks
  <2>4. CASE SeatGoes
    <3>1. ASSUME NEW s \in Seats, NEW c \in Controllers \cup {NoOne}, Reassign(s, c)
          PROVE  /\ \A t \in Seats \ {s} : seat'[t].gen = seat[t].gen
                 /\ seat'[s].gen = seat[s].gen + 1
                 /\ op'.pc = "save"
      <4>1. op'.pc = "save"
        BY <3>1, NotCreate DEF Reassign
      <4>2. \A t \in Seats \ {s} : seat'[t] = seat[t]
        BY <1>0, <3>1 DEF Reassign
      <4>3. seat'[s].gen = seat[s].gen + 1
        BY <1>0, <3>1 DEF Reassign, SeatKind
      <4> QED  BY <4>1, <4>2, <4>3
    <3>2. PICK s \in Seats, c \in Controllers \cup {NoOne} :
              \/ op.pc = "idle" /\ requests' = requests + 1 /\ Handover(s, c)
              \/ op.pc = "stop" /\ op.action = <<s, c>> /\ requests' = requests /\ Reassign(s, c)
      BY <2>4 DEF SeatGoes
    <3>3. CASE op.pc = "idle" /\ requests' = requests + 1 /\ Handover(s, c)
      <4>1. CASE Reassign(s, c)
        BY <1>0, <3>1, <3>3, <4>1 DEF Aged
      <4>2. CASE ~Reassign(s, c)
        <5>1. seat' = seat /\ op' = [Idle EXCEPT !.pc = "stop", !.action = <<s, c>>]
          BY <3>3, <4>2 DEF Handover
        <5>2. op'.action[1] = s
          BY <5>1 DEF Idle
        <5> QED  BY <1>0, <3>3, <5>1, <5>2 DEF Aged
      <4> QED  BY <4>1, <4>2
    <3>4. CASE op.pc = "stop" /\ op.action = <<s, c>> /\ requests' = requests /\ Reassign(s, c)
      <4>1. seat[s].gen < requests
        BY <1>0, <3>4
      <4> QED  BY <1>0, <3>1, <3>4, <4>1 DEF Aged
    <3> QED  BY <3>2, <3>3, <3>4
  <2>5. ASSUME NEW s \in Seats, NEW c \in Controllers, Claim(s, c)
        PROVE  Same /\ Later /\ op'.pc = "save"
    <3>1. Same
      BY <1>0, <2>5 DEF Claim, SeatKind
    <3> QED  BY <2>5, <2>a, <3>1, NotCreate DEF Claim, Request, Asks
  <2>6. CASE Sockets
    <3>1. Same
      BY <2>6, SocketsSeat
    <3>2. op' = op /\ requests' = requests
      BY <2>6 DEF Sockets, Mint, Connect, Suspend, Resume, Disconnect, Elsewhere, disk, budget
    <3> QED  BY <1>0, <2>b, <3>1, <3>2
  <2>7. CASE NextRound
    <3>1. Same
      BY <1>0, <2>7 DEF NextRound, SeatKind
    <3> QED  BY <2>7, <2>a, <2>b, <3>1, NotCreate DEF NextRound, budget, Asks
  <2>8. CASE Restart
    <3>1. store.record.seat \in [Seats -> SeatKind] /\ Aged(store.record.seat, requests)
      BY DEF TypeInv, DiskTyped, RecordKind, AgeInv, Stored
    <3>2. \A s \in Seats : seat'[s].gen = store.record.seat[s].gen
      BY <2>8, <3>1 DEF Restart, SeatKind
    <3>3. requests' = requests /\ op'.pc = "idle"
      BY <2>8 DEF Restart, Idle
    <3> QED  BY <1>0, <3>1, <3>2, <3>3 DEF Aged
  <2> QED  BY <2>b, <2>1, <2>2, <2>3, <2>4, <2>5, <2>6, <2>7, <2>8, SeatSteps DEF SeatMoves
<1>2. ASSUME NEW rec \in Stored' PROVE Aged(rec.seat, requests')
  <2>0. \A r \in Stored : Aged(r.seat, requests) /\ r.seat \in [Seats -> SeatKind]
    BY StoredTyped DEF AgeInv, RecordKind
  <2>1. CASE rec \in Stored
    BY <1>0, <1>1, <2>0, <2>1, AgedLonger
  <2>2. CASE rec = TakenOver
    <3>1. TakenOver.seat = store.record.seat /\ store.record \in Stored
      BY DEF TakenOver, TypeInv, DiskTyped, RecordKind, Stored
    <3> QED  BY <1>0, <1>1, <2>0, <2>2, <3>1, AgedLonger
  <2>3. CASE rec = Record'
    BY <1>1, <2>3 DEF Record
  <2> QED  BY <2>1, <2>2, <2>3, StoredAfter
<1> QED  BY <1>1, <1>2 DEF AgeInv
(***************************************************************************)
(* A live session holds its seat, and plays the round that runs; a ticket  *)
(* may be stale.                                                           *)
(***************************************************************************)
Ticket(i) == session[i].state \in {"minted", "connected", "suspended"}
Holds(i) == /\ seat[session[i].seat].who = session[i].who
            /\ seat[session[i].seat].gen = session[i].gen
            /\ session[i].epoch = runtime.epoch
SessionInv ==
    \A i \in Sessions :
        /\ Ticket(i) => session[i].seat \in Seats /\ session[i].who \in Controllers
        /\ Live(i) => Holds(i)

LEMMA SessionInit == Init => SessionInv
BY DEF Init, SessionInv, NoSession, Ticket, Live

LEMMA SessionsStay ==
    ASSUME SessionInv, session' = session, runtime'.epoch = runtime.epoch,
           \A s \in Seats : seat'[s].who = seat[s].who /\ seat'[s].gen = seat[s].gen
    PROVE  SessionInv'
BY DEF SessionInv, Ticket, Live, Holds

LEMMA LiveHasTicket == \A i : Live(i) => Ticket(i)
BY DEF Live, Ticket

\* The sockets of a seat: one session changes at a time.
LEMMA SocketsHold == TypeInv /\ SessionInv /\ Sockets => SessionInv'
<1> SUFFICES ASSUME TypeInv, SessionInv, Sockets PROVE SessionInv'
  OBVIOUS
<1>0. seat \in [Seats -> SeatKind] /\ session \in [Sessions -> SessionKind]
  BY DEF TypeInv, MatchTyped, RestTyped
<1>e. runtime' = runtime
  BY DEF Sockets, Mint, Connect, Suspend, Resume, Disconnect, Elsewhere
<1>s. ASSUME NEW i \in Sessions, NEW t,
             session' = [session EXCEPT ![i] = t],
             \A s \in Seats : seat'[s].who = seat[s].who /\ seat'[s].gen = seat[s].gen,
             /\ t.state \in {"minted", "connected", "suspended"}
                => t.seat \in Seats /\ t.who \in Controllers,
             /\ t.state \in {"connected", "suspended"}
                => /\ seat[t.seat].who = t.who /\ seat[t.seat].gen = t.gen
                   /\ t.epoch = runtime.epoch
      PROVE  SessionInv'
  <2> SUFFICES ASSUME NEW j \in Sessions
               PROVE  /\ Ticket(j)' => session'[j].seat \in Seats /\ session'[j].who \in Controllers
                      /\ Live(j)' => Holds(j)'
    BY DEF SessionInv
  <2>1. CASE j = i
    BY <1>0, <1>e, <1>s, <2>1 DEF Ticket, Live, Holds
  <2>2. CASE j # i
    BY <1>0, <1>e, <1>s, <2>2 DEF Ticket, Live, Holds, SessionInv
  <2> QED  BY <2>1, <2>2
<1>g. [NoSession EXCEPT !.state = "gone"].state = "gone"
  BY DEF NoSession
<1>k. ASSUME seat' = seat \/ \E s, status : seat' = [seat EXCEPT ![s].status = status]
      PROVE  \A s \in Seats : seat'[s].who = seat[s].who /\ seat'[s].gen = seat[s].gen
  BY <1>0, <1>k DEF SeatKind
<1>1. ASSUME NEW i \in Sessions, NEW s \in Seats, Mint(i, s) PROVE SessionInv'
  <2>1. seat[s].who \in Controllers
    BY <1>0, <1>1 DEF Mint, SeatKind
  <2> DEFINE t == [state |-> "minted", seat |-> s, who |-> seat[s].who, gen |-> seat[s].gen,
                   epoch |-> 0]
  <2>2. session' = [session EXCEPT ![i] = t] /\ seat' = seat
    BY <1>1 DEF Mint
  <2>3. t.state = "minted" /\ t.seat \in Seats /\ t.who \in Controllers
    BY <2>1
  <2> HIDE DEF t
  <2> QED  BY <1>s, <2>2, <2>3
<1>2. ASSUME NEW i \in Sessions, Connect(i) PROVE SessionInv'
  <2>1. CASE Bound(i)
    <3> DEFINE t == [session[i] EXCEPT !.state = "connected", !.epoch = runtime.epoch]
    <3>1. /\ session' = [session EXCEPT ![i] = t]
          /\ seat' = [seat EXCEPT ![session[i].seat].status = "connected"]
      BY <1>2, <2>1 DEF Connect
    <3>2. /\ t.seat = session[i].seat /\ t.who = session[i].who /\ t.gen = session[i].gen
          /\ t.epoch = runtime.epoch
      BY <1>0 DEF SessionKind
    <3>3. session[i].seat \in Seats /\ session[i].who \in Controllers
      BY <1>2 DEF Connect, SessionInv, Ticket
    <3>4. seat[t.seat].who = t.who /\ seat[t.seat].gen = t.gen
      BY <2>1, <3>2 DEF Bound
    <3>5. \A s \in Seats : seat'[s].who = seat[s].who /\ seat'[s].gen = seat[s].gen
      BY <1>k, <3>1
    <3> HIDE DEF t
    <3> QED  BY <1>s, <3>1, <3>2, <3>3, <3>4, <3>5
  <2>2. CASE ~Bound(i)
    <3>1. session' = [session EXCEPT ![i] = [NoSession EXCEPT !.state = "gone"]] /\ seat' = seat
      BY <1>2, <2>2 DEF Connect
    <3> QED  BY <1>g, <1>s, <3>1
  <2> QED  BY <2>1, <2>2
<1>3. ASSUME NEW i \in Sessions, NEW state \in {"connected", "suspended"}, Live(i),
             session' = [session EXCEPT ![i].state = state],
             \A s \in Seats : seat'[s].who = seat[s].who /\ seat'[s].gen = seat[s].gen
      PROVE  SessionInv'
  <2> DEFINE t == [session[i] EXCEPT !.state = state]
  <2>1. session' = [session EXCEPT ![i] = t]
    BY <1>3
  <2>2. /\ t.seat = session[i].seat /\ t.who = session[i].who /\ t.gen = session[i].gen
        /\ t.epoch = session[i].epoch
    BY <1>0 DEF SessionKind
  <2>3. Holds(i) /\ session[i].seat \in Seats /\ session[i].who \in Controllers
    BY <1>3, LiveHasTicket DEF SessionInv
  <2> HIDE DEF t
  <2> QED  BY <1>3, <1>s, <2>1, <2>2, <2>3 DEF Holds
<1>4. ASSUME NEW i \in Sessions, Suspend(i) PROVE SessionInv'
  <2>1. \A s \in Seats : seat'[s].who = seat[s].who /\ seat'[s].gen = seat[s].gen
    BY <1>4, <1>k DEF Suspend
  <2> QED  BY <1>3, <1>4, <2>1 DEF Suspend, Live
<1>5. ASSUME NEW i \in Sessions, Resume(i) PROVE SessionInv'
  <2>1. \A s \in Seats : seat'[s].who = seat[s].who /\ seat'[s].gen = seat[s].gen
    BY <1>5, <1>k DEF Resume
  <2> QED  BY <1>3, <1>5, <2>1 DEF Resume, Live
<1>6. ASSUME NEW i \in Sessions, Disconnect(i) PROVE SessionInv'
  <2> DEFINE s == session[i].seat
  <2>1. session' = [session EXCEPT ![i] = [NoSession EXCEPT !.state = "gone"]]
    BY <1>6 DEF Disconnect
  <2>2. CASE LateJoin /\ At(s, {"connected", "suspended"}) = {i}
    <3>1. seat' = [seat EXCEPT ![s].who = NoOne, ![s].status = "open"]
      BY <1>6, <2>2 DEF Disconnect
    <3>2. \A t \in Seats \ {s} : seat'[t] = seat[t]
      BY <1>0, <3>1
    <3> SUFFICES ASSUME NEW j \in Sessions
                 PROVE  /\ Ticket(j)' => session'[j].seat \in Seats /\ session'[j].who \in Controllers
                        /\ Live(j)' => Holds(j)'
      BY DEF SessionInv
    <3>3. CASE j = i
      BY <1>0, <1>g, <2>1, <3>3 DEF Ticket, Live
    <3>4. CASE j # i
      <4>1. session'[j] = session[j]
        BY <1>0, <2>1, <3>4
      <4>2. Live(j) => session[j].seat # s
        BY <2>2, <3>4 DEF At, Live
      <4>3. Live(j) => session[j].seat \in Seats /\ Holds(j)
        BY LiveHasTicket DEF SessionInv
      <4> QED  BY <1>e, <3>2, <4>1, <4>2, <4>3 DEF SessionInv, Ticket, Live, Holds
    <3> QED  BY <3>3, <3>4
  <2>3. CASE ~(LateJoin /\ At(s, {"connected", "suspended"}) = {i})
    <3>1. seat' = seat \/ seat' = [seat EXCEPT ![s].status = "disconnected"]
      BY <1>6, <2>3 DEF Disconnect
    <3>2. \A t \in Seats : seat'[t].who = seat[t].who /\ seat'[t].gen = seat[t].gen
      BY <1>k, <3>1
    <3> QED  BY <1>g, <1>s, <2>1, <3>2
  <2> QED  BY <2>2, <2>3
<1> QED  BY <1>1, <1>2, <1>4, <1>5, <1>6 DEF Sockets

LEMMA ReassignHolds ==
    ASSUME TypeInv, SessionInv, NEW s \in Seats, NEW c, Reassign(s, c)
    PROVE  SessionInv'
<1>0. seat \in [Seats -> SeatKind] /\ session \in [Sessions -> SessionKind]
  BY DEF TypeInv, MatchTyped, RestTyped
<1>1. \A t \in Seats \ {s} : seat'[t] = seat[t]
  BY <1>0 DEF Reassign
<1>2. runtime' = runtime
  BY DEF Reassign
<1> SUFFICES ASSUME NEW j \in Sessions
             PROVE  /\ Ticket(j)' => session'[j].seat \in Seats /\ session'[j].who \in Controllers
                    /\ Live(j)' => Holds(j)'
  BY DEF SessionInv
<1>3. CASE Live(j) /\ session[j].seat = s
  <2>1. session'[j].state = "gone"
    BY <1>3 DEF Reassign, SessionsRevoked, NoSession
  <2> QED  BY <2>1 DEF Ticket, Live
<1>4. CASE ~(Live(j) /\ session[j].seat = s)
  <2>1. session'[j] = session[j]
    BY <1>4 DEF Reassign, SessionsRevoked
  <2> QED  BY <1>1, <1>2, <1>4, <2>1, LiveHasTicket DEF SessionInv, Ticket, Live, Holds
<1> QED  BY <1>3, <1>4

LEMMA SessionNext == TypeInv /\ OpenInv /\ SessionInv /\ [Next]_vars => SessionInv'
<1> SUFFICES ASSUME TypeInv, OpenInv, SessionInv, [Next]_vars PROVE SessionInv'
  OBVIOUS
<1>0. /\ seat \in [Seats -> SeatKind] /\ session \in [Sessions -> SessionKind]
      /\ OpenIsFree(seat) /\ runtime \in RuntimeOf
  BY DEF TypeInv, MatchTyped, RestTyped, OpenInv
<1>1. CASE SeatsStay
  BY <1>1, SessionsStay DEF SeatsStay
<1>2. CASE SeatsForget
  <2>1. \A s \in Seats : seat'[s].who = seat[s].who /\ seat'[s].gen = seat[s].gen
    BY <1>0, <1>2 DEF SeatsForget, HoldsForgotten, SeatKind
  <2> QED  BY <1>2, <2>1, SessionsStay DEF SeatsForget
<1>3. CASE SeatPlays
  <2>1. \A s \in Seats : seat'[s].who = seat[s].who /\ seat'[s].gen = seat[s].gen
    BY <1>0, <1>3 DEF SeatPlays, Remembered, SeatKind
  <2>2. runtime'.epoch = runtime.epoch
    BY <1>0, <1>3 DEF SeatPlays, Played, RuntimeOf
  <2> QED  BY <1>3, <2>1, <2>2, SessionsStay DEF SeatPlays
<1>4. CASE SeatGoes
  <2>1. ASSUME NEW s \in Seats, NEW c \in Controllers \cup {NoOne}, Handover(s, c)
        PROVE  SessionInv'
    <3>1. CASE Reassign(s, c)
      BY <3>1, ReassignHolds
    <3>2. CASE ~Reassign(s, c)
      <4>1. UNCHANGED <<seat, session>> /\ runtime' = [runtime EXCEPT !.held[s] = NoOne]
        BY <2>1, <3>2 DEF Handover
      <4>2. runtime'.epoch = runtime.epoch
        BY <1>0, <4>1 DEF RuntimeOf
      <4> QED  BY <4>1, <4>2, SessionsStay
    <3> QED  BY <3>1, <3>2
  <2> QED  BY <1>4, <2>1, ReassignHolds DEF SeatGoes
<1>5. ASSUME NEW s \in Seats, NEW c \in Controllers, Claim(s, c) PROVE SessionInv'
  <2>1. seat[s].who = NoOne
    BY <1>0, <1>5 DEF Claim, OpenIsFree
  <2>2. \A t \in Seats \ {s} : seat'[t] = seat[t]
    BY <1>0, <1>5 DEF Claim
  <2>3. session' = session /\ runtime'.epoch = runtime.epoch
    BY <1>0, <1>5 DEF Claim, RuntimeOf
  <2> SUFFICES ASSUME NEW j \in Sessions
               PROVE  /\ Ticket(j)' => session'[j].seat \in Seats /\ session'[j].who \in Controllers
                      /\ Live(j)' => Holds(j)'
    BY DEF SessionInv
  <2>4. Live(j) => session[j].seat \in Seats \ {s}
    BY <2>1, LiveHasTicket, NobodyAssumption DEF SessionInv, Holds
  <2> QED  BY <2>2, <2>3, <2>4 DEF SessionInv, Ticket, Live, Holds
<1>6. CASE NextRound
  <2>1. \A s \in Seats : seat'[s].who = seat[s].who /\ seat'[s].gen = seat[s].gen
    BY <1>0, <1>6 DEF NextRound, SeatKind
  <2>2. runtime'.epoch = runtime.epoch + 1
    BY <1>6 DEF NextRound, NewGame
  <2> SUFFICES ASSUME NEW j \in Sessions
               PROVE  /\ Ticket(j)' => session'[j].seat \in Seats /\ session'[j].who \in Controllers
                      /\ Live(j)' => Holds(j)'
    BY DEF SessionInv
  <2>3. CASE Live(j)
    <3>1. session'[j] = [session[j] EXCEPT !.epoch = runtime.epoch + 1]
      BY <1>6, <2>3 DEF NextRound
    <3>2. /\ session'[j].seat = session[j].seat /\ session'[j].who = session[j].who
          /\ session'[j].gen = session[j].gen /\ session'[j].epoch = runtime.epoch + 1
      BY <1>0, <3>1 DEF SessionKind
    <3>3. session[j].seat \in Seats /\ session[j].who \in Controllers /\ Holds(j)
      BY <2>3, LiveHasTicket DEF SessionInv
    <3> QED  BY <2>1, <2>2, <3>2, <3>3 DEF Holds
  <2>4. CASE ~Live(j)
    <3>1. session'[j] = session[j]
      BY <1>6, <2>4 DEF NextRound
    <3> QED  BY <2>4, <3>1 DEF SessionInv, Ticket, Live
  <2> QED  BY <2>3, <2>4
<1>7. CASE Restart
  <2>1. \A j \in Sessions : session'[j].state \in {"none", "gone"}
    BY <1>7 DEF Restart, NoSession
  <2> QED  BY <2>1 DEF SessionInv, Ticket, Live
<1> QED  BY <1>1, <1>2, <1>3, <1>4, <1>5, <1>6, <1>7, SocketsHold, SeatSteps DEF SeatMoves
(***************************************************************************)
(* A remembered release belongs to its seat's controller and to an input   *)
(* that is on.  While an operation waits for an input to stop, its seat    *)
(* still remembers it; while a round is made, no seat remembers anything.  *)
(***************************************************************************)
HoldIsOn(seats, held, s) ==
    seats[s].hold => held[s] = seats[s].who /\ seats[s].who # NoOne
Stopping(s) == op.pc = "stop" /\ op.action[1] = s
HoldInv ==
    ~LateJoin =>
        /\ \A s \in Seats : Stopping(s) \/ HoldIsOn(seat, runtime.held, s)
        /\ op.pc = "create" => \A s \in Seats : ~seat[s].hold
        /\ \A rec \in Stored : \A s \in Seats : HoldIsOn(rec.seat, rec.runtime.held, s)

LEMMA HoldInit == Init => HoldInv
BY DEF Init, HoldInv, HoldIsOn, OpenSeat, Stored, Record, Idle

LEMMA HoldNext == TypeInv /\ OpenInv /\ SessionInv /\ HoldInv /\ [Next]_vars => HoldInv'
<1> SUFFICES ASSUME TypeInv, OpenInv, SessionInv, HoldInv, [Next]_vars, ~LateJoin
             PROVE  HoldInv'
  BY DEF HoldInv
<1>0. /\ seat \in [Seats -> SeatKind] /\ runtime \in RuntimeOf /\ OpenIsFree(seat)
      /\ runtime.held \in [Seats -> Controllers \cup {NoOne}]
  BY DEF TypeInv, MatchTyped, OpenInv, RuntimeOf
<1>m. /\ \A s \in Seats : Stopping(s) \/ HoldIsOn(seat, runtime.held, s)
      /\ op.pc = "create" => \A s \in Seats : ~seat[s].hold
  BY DEF HoldInv
<1> DEFINE Memory == /\ \A s \in Seats : Stopping(s)' \/ HoldIsOn(seat', runtime'.held, s)
                     /\ op'.pc = "create" => \A s \in Seats : ~seat'[s].hold
<1>1. ASSUME SeatsStay PROVE Memory
  <2>1. Memory
    BY <1>m, <1>1 DEF SeatsStay, Stopping
  <2> QED  BY <2>1
<1>2. ASSUME SeatsForget PROVE Memory
  <2>1. \A s \in Seats : ~seat'[s].hold
    BY <1>0, <1>2 DEF SeatsForget, HoldsForgotten, SeatKind
  <2> QED  BY <2>1 DEF HoldIsOn
<1>3. ASSUME SeatPlays PROVE Memory
  <2>1. PICK i \in Sessions, a \in Actions, k \in Kinds, w \in Seats \cup {NoOne} :
            /\ seat' = Remembered(a[1], k) /\ runtime' = Played(a, a[1], k, w)
            /\ session[i].state = "connected" /\ session[i].seat = a[1] /\ a[1] \in Seats
            /\ op.pc = "idle" /\ op'.pc = "save"
    BY <1>3 DEF SeatPlays
  <2>2. seat[a[1]].who # NoOne
    BY <2>1, NobodyAssumption DEF SessionInv, Ticket, Live, Holds
  <2>3. \A s \in Seats \ {a[1]} : seat'[s] = seat[s] /\ runtime'.held[s] = runtime.held[s]
    BY <1>0, <2>1 DEF Remembered, Played, RuntimeOf
  <2>4. seat'[a[1]].hold = (k = "hold") /\ seat'[a[1]].who = seat[a[1]].who
    BY <1>0, <2>1 DEF Remembered, SeatKind
  <2>5. k = "hold" => runtime'.held[a[1]] = seat[a[1]].who
    BY <1>0, <2>1 DEF Played, RuntimeOf
  <2>6. \A s \in Seats : HoldIsOn(seat, runtime.held, s)
    BY <1>m, <2>1 DEF Stopping
  <2>7. HoldIsOn(seat', runtime'.held, a[1])
    BY <2>2, <2>4, <2>5 DEF HoldIsOn
  <2>8. \A s \in Seats \ {a[1]} : HoldIsOn(seat', runtime'.held, s)
    BY <2>3, <2>6 DEF HoldIsOn
  <2> QED  BY <2>1, <2>7, <2>8
<1>r. ASSUME NEW s \in Seats, NEW c \in Controllers \cup {NoOne}, Reassign(s, c),
             Stopping(s) \/ op.pc # "stop"
      PROVE  Memory
  <2>1. \A t \in Seats \ {s} : seat'[t] = seat[t]
    BY <1>0, <1>r DEF Reassign
  <2>2. ~seat'[s].hold
    BY <1>0, <1>r DEF Reassign, SeatKind
  <2>3. op'.pc = "save" /\ runtime' = runtime
    BY <1>r, NotCreate DEF Reassign
  <2>4. \A t \in Seats \ {s} : HoldIsOn(seat, runtime.held, t)
    BY <1>m, <1>r DEF Stopping
  <2> QED  BY <2>1, <2>2, <2>3, <2>4 DEF HoldIsOn
<1>4. ASSUME SeatGoes PROVE Memory
  <2>1. PICK s \in Seats, c \in Controllers \cup {NoOne} :
              \/ op.pc = "idle" /\ Handover(s, c)
              \/ op.pc = "stop" /\ op.action = <<s, c>> /\ Reassign(s, c)
    BY <1>4 DEF SeatGoes
  <2>2. CASE Reassign(s, c)
    BY <1>r, <2>1, <2>2 DEF Stopping
  <2>3. CASE ~Reassign(s, c)
    <3>1. /\ seat' = seat /\ runtime' = [runtime EXCEPT !.held[s] = NoOne] /\ op.pc = "idle"
          /\ op' = [Idle EXCEPT !.pc = "stop", !.action = <<s, c>>]
      BY <2>1, <2>3 DEF Handover
    <3>2. op'.pc = "stop" /\ op'.action[1] = s
      BY <3>1 DEF Idle
    <3>3. \A t \in Seats \ {s} : runtime'.held[t] = runtime.held[t]
      BY <1>0, <3>1 DEF RuntimeOf
    <3>4. \A t \in Seats : HoldIsOn(seat, runtime.held, t)
      BY <1>m, <3>1 DEF Stopping
    <3> QED  BY <3>1, <3>2, <3>3, <3>4 DEF HoldIsOn, Stopping
  <2> QED  BY <2>2, <2>3
<1>5. ASSUME NEW s \in Seats, NEW c \in Controllers, Claim(s, c) PROVE Memory
  <2>1. seat[s].who = NoOne /\ op.pc = "idle"
    BY <1>0, <1>5 DEF Claim, OpenIsFree
  <2>2. \A t \in Seats \ {s} : seat'[t] = seat[t]
    BY <1>0, <1>5 DEF Claim
  <2>3. seat'[s].hold = seat[s].hold
    BY <1>0, <1>5 DEF Claim, SeatKind
  <2>4. runtime'.held = runtime.held
    BY <1>0, <1>5 DEF Claim, RuntimeOf
  <2>5. op'.pc = "save"
    BY <1>5, NotCreate DEF Claim
  <2>6. \A t \in Seats : HoldIsOn(seat, runtime.held, t)
    BY <1>m, <2>1 DEF Stopping
  <2>7. ~seat'[s].hold
    BY <2>1, <2>3, <2>6 DEF HoldIsOn
  <2> QED  BY <2>2, <2>4, <2>5, <2>6, <2>7 DEF HoldIsOn
<1>6. ASSUME Sockets PROVE Memory
  <2>1. op' = op /\ runtime' = runtime
    BY <1>6 DEF Sockets, Mint, Connect, Suspend, Resume, Disconnect, Elsewhere, disk
  <2>2. \A s \in Seats : seat'[s].who = seat[s].who /\ seat'[s].hold = seat[s].hold
    BY <1>6, SocketsSeat
  <2> QED  BY <1>m, <2>1, <2>2 DEF HoldIsOn, Stopping
<1>7. ASSUME NextRound PROVE Memory
  <2>1. op.pc = "create" /\ op'.pc = "save"
    BY <1>7, NotCreate DEF NextRound
  <2>2. \A s \in Seats : seat'[s].hold = seat[s].hold
    BY <1>0, <1>7 DEF NextRound, SeatKind
  <2> QED  BY <1>m, <2>1, <2>2 DEF HoldIsOn
<1>8. ASSUME Restart PROVE Memory
  <2>0. /\ store.record.seat \in [Seats -> SeatKind] /\ store.record.runtime \in RuntimeOf
        /\ \A s \in Seats : HoldIsOn(store.record.seat, store.record.runtime.held, s)
    BY DEF TypeInv, DiskTyped, RecordKind, HoldInv, Stored
  <2>1. \A s \in Seats : /\ seat'[s].who = store.record.seat[s].who
                         /\ seat'[s].hold = store.record.seat[s].hold
    BY <1>8, <2>0 DEF Restart, SeatKind
  <2>2. runtime'.held = store.record.runtime.held
    BY <1>8, <2>0 DEF Restart, RuntimeOf
  <2>3. op'.pc = "idle"
    BY <1>8 DEF Restart, Idle
  <2> QED  BY <2>0, <2>1, <2>2, <2>3 DEF HoldIsOn
<1>9. Memory
  BY <1>1, <1>2, <1>3, <1>4, <1>5, <1>6, <1>7, <1>8, SeatSteps DEF SeatMoves
<1>10. ASSUME NEW rec \in Stored', NEW s \in Seats
       PROVE  HoldIsOn(rec.seat, rec.runtime.held, s)
  <2>1. CASE rec \in Stored
    BY <2>1 DEF HoldInv
  <2>2. CASE rec = TakenOver
    <3>1. /\ TakenOver.seat = store.record.seat
          /\ TakenOver.runtime.held = store.record.runtime.held
      BY DEF TakenOver, TypeInv, DiskTyped, RecordKind, RuntimeOf
    <3> QED  BY <2>2, <3>1 DEF HoldInv, Stored
  <2>3. CASE rec = Record' /\ op'.pc \in {"idle", "save"}
    <3>1. runtime' \in RuntimeOf
      BY TypeNext DEF TypeInv, MatchTyped
    <3>2. rec.seat = seat' /\ rec.runtime.held = runtime'.held
      BY <2>3, <3>1 DEF Record, RuntimeOf
    <3> QED  BY <1>9, <2>3, <3>2 DEF Stopping
  <2> QED  BY <2>1, <2>2, <2>3, StoredAfter
<1> HIDE DEF Memory
<1> QED  BY <1>9, <1>10 DEF HoldInv, Memory

LEMMA AlwaysHeld == Spec => [](TypeInv /\ OpenInv /\ SessionInv /\ HoldInv)
<1>1. TypeInv /\ OpenInv /\ SessionInv /\ HoldInv /\ [Next]_vars
      => (TypeInv /\ OpenInv /\ SessionInv /\ HoldInv)'
  BY TypeNext, OpenNext, SessionNext, HoldNext
<1> QED  BY <1>1, TypeInit, OpenInit, SessionInit, HoldInit, PTL DEF Spec

(***************************************************************************)
(* The release that a seat remembers belongs to its present controller and *)
(* to an input that is still on, across handoffs, rounds, disconnections,  *)
(* crashes and failed writes (heldReleaseAction in submitActionInternal,   *)
(* stopSeatInput, advanceRound).                                           *)
(***************************************************************************)
THEOREM HoldsAreCurrent == Spec => []HoldIsCurrent
<1>1. HoldInv => HoldIsCurrent
  BY DEF HoldInv, HoldIsOn, Stopping, HoldIsCurrent
<1> QED  BY <1>1, AlwaysHeld, PTL

(***************************************************************************)
(* Whoever can act through a session holds its seat and plays the round    *)
(* that runs: no live session belongs to a former controller or to a       *)
(* former generation of its seat (revokeSeatSessions, assertTicketBinding, *)
(* disconnectSession, advanceRound).                                       *)
(***************************************************************************)
THEOREM LiveSessionsHoldSeats == Spec => []SessionsHoldSeats
<1>1. SessionInv => SessionsHoldSeats
  BY DEF SessionInv, Holds, SessionsHoldSeats
<1> QED  BY <1>1, AlwaysHeld, PTL

(***************************************************************************)
(* What a lobby shows of its seats.  With late joins a seat may lose its   *)
(* player while an operation waits for an input to stop; then the game has *)
(* no inputs that are held.                                                *)
(***************************************************************************)
SeatsOrInputs == LateJoin => "hold" \notin Kinds

FreeIsOpen(seats) == \A s \in Seats : seats[s].who = NoOne => seats[s].status = "open"
NoneHeld(seats) == "hold" \notin Kinds => \A s \in Seats : ~seats[s].hold
Shown(seats) == FreeIsOpen(seats) /\ NoneHeld(seats)

\* Sessions are numbered as they come.
Numbered(n) == \A i \in Sessions : session[i].state # "none" <=> i <= n
\* Connected is the seat of which a session is.
Connections(s) == seat[s].status = "connected" <=> At(s, {"connected"}) # {}

StatusInv ==
    /\ Shown(seat) /\ \A rec \in Stored : Shown(rec.seat)
    /\ op.pc = "stop" => "hold" \in Kinds /\ seat[op.action[1]].who # NoOne
    /\ \E n \in 0..MaxSessions : Numbered(n)
    /\ \A s \in Seats : Connections(s)

LEMMA StatusInit == Init => StatusInv
<1> SUFFICES ASSUME Init PROVE StatusInv
  OBVIOUS
<1>1. \A s \in Seats : ~seat[s].hold /\ seat[s].status = "open"
  BY DEF Init, OpenSeat
<1>2. \A rec \in Stored : rec.seat = seat
  BY DEF Init, Stored, Record, Idle
<1>3. Numbered(0) /\ 0 \in 0..MaxSessions
  BY Bounds DEF Init, Numbered, NoSession, Sessions
<1>4. \A s \in Seats : At(s, {"connected"}) = {}
  BY DEF Init, At, NoSession
<1>5. op.pc # "stop"
  BY DEF Init, Idle
<1> QED  BY <1>1, <1>2, <1>3, <1>4, <1>5 DEF StatusInv, Shown, FreeIsOpen, NoneHeld, Connections

\* A session that is minted had not been used.
LEMMA MintedAnew ==
    ASSUME NEW n \in 0..MaxSessions, Numbered(n), NEW i \in Sessions, NEW s, Mint(i, s)
    PROVE  i = n + 1 /\ session[i].state = "none"
<1>1. MaxSessions \in Nat
  BY Bounds
<1>2. {j \in Sessions : session[j].state # "none"} = 1..n
  BY <1>1 DEF Numbered, Sessions
<1>3. Cardinality(1..n) = n
  BY <1>1, FS_Interval
<1>4. i = Cardinality({j \in Sessions : session[j].state # "none"}) + 1
  BY DEF Mint
<1>5. i = n + 1
  BY <1>2, <1>3, <1>4
<1> QED  BY <1>1, <1>5 DEF Numbered

LEMMA SocketsNumbered ==
    ASSUME TypeInv, NEW n \in 0..MaxSessions, Numbered(n), Sockets
    PROVE  \E m \in 0..MaxSessions : Numbered(m)'
<1>0. session \in [Sessions -> SessionKind] /\ MaxSessions \in Nat
  BY Bounds DEF TypeInv, RestTyped
<1>1. ASSUME NEW i \in Sessions, NEW s \in Seats, Mint(i, s)
      PROVE  n + 1 \in 0..MaxSessions /\ Numbered(n + 1)'
  <2>1. i = n + 1
    BY <1>1, MintedAnew
  <2>2. \A j \in Sessions : session'[j].state = IF j = i THEN "minted" ELSE session[j].state
    BY <1>0, <1>1 DEF Mint
  <2> QED  BY <1>0, <2>1, <2>2 DEF Numbered, Sessions
<1>2. ASSUME NEW i \in Sessions, Connect(i) \/ Suspend(i) \/ Resume(i) \/ Disconnect(i)
      PROVE  Numbered(n)'
  <2>1. session[i].state # "none"
    BY <1>2 DEF Connect, Suspend, Resume, Disconnect
  <2>2. PICK t : session' = [session EXCEPT ![i] = t] /\ t.state # "none"
    <3> DEFINE gone == [NoSession EXCEPT !.state = "gone"]
               here == [session[i] EXCEPT !.state = "connected", !.epoch = runtime.epoch]
               away == [session[i] EXCEPT !.state = "suspended"]
               back == [session[i] EXCEPT !.state = "connected"]
    <3>1. /\ gone.state = "gone" /\ here.state = "connected" /\ away.state = "suspended"
          /\ back.state = "connected"
      BY <1>0 DEF NoSession, SessionKind
    <3>2. \/ session' = [session EXCEPT ![i] = gone] \/ session' = [session EXCEPT ![i] = here]
          \/ session' = [session EXCEPT ![i] = away] \/ session' = [session EXCEPT ![i] = back]
      BY <1>2 DEF Connect, Suspend, Resume, Disconnect
    <3> HIDE DEF gone, here, away, back
    <3> QED  BY <3>1, <3>2
  <2>3. \A j \in Sessions : session'[j].state # "none" <=> session[j].state # "none"
    BY <1>0, <2>1, <2>2
  <2> QED  BY <2>3 DEF Numbered
<1> QED  BY <1>1, <1>2 DEF Sockets

\* A session that comes, drops or ends keeps its seat's status true.
LEMMA SocketsShow ==
    ASSUME TypeInv, SessionInv, StatusInv, SeatsOrInputs, Sockets
    PROVE  /\ Shown(seat') /\ \A s \in Seats : Connections(s)'
           /\ op'.pc = "stop" => seat'[op'.action[1]].who # NoOne
<1> DEFINE Live2 == {"connected", "suspended"}
           In == {"connected"}
           Gone == [NoSession EXCEPT !.state = "gone"]
<1>0. /\ seat \in [Seats -> SeatKind] /\ session \in [Sessions -> SessionKind]
      /\ Shown(seat) /\ \A s \in Seats : Connections(s)
      /\ op.pc = "stop" => "hold" \in Kinds /\ seat[op.action[1]].who # NoOne /\ op.action[1] \in Seats
  BY DEF TypeInv, MatchTyped, RestTyped, DiskTyped, Typed, StatusInv
<1>a. op' = op
  BY DEF Sockets, Mint, Connect, Suspend, Resume, Disconnect, Elsewhere, disk
<1>g. Gone.state = "gone"
  BY DEF NoSession
\* Who has a seat to act on.
<1>b. ASSUME NEW i \in Sessions, Live(i)
      PROVE  session[i].seat \in Seats /\ seat[session[i].seat].who # NoOne
  BY <1>b, LiveHasTicket, NobodyAssumption DEF SessionInv, Holds
\* The status of one seat that somebody has.
<1>c. ASSUME NEW S \in Seats, seat[S].who # NoOne,
             NEW st \in {"connected", "disconnected"},
             seat' = [seat EXCEPT ![S].status = st]
      PROVE  /\ Shown(seat') /\ seat'[S].status = st
             /\ \A s \in Seats : seat'[s].who = seat[s].who
             /\ \A s \in Seats \ {S} : seat'[s] = seat[s]
  <2>1. seat'[S].status = st /\ \A s \in Seats \ {S} : seat'[s] = seat[s]
    BY <1>0, <1>c
  <2>2. \A s \in Seats : seat'[s].who = seat[s].who /\ seat'[s].hold = seat[s].hold
    BY <1>0, <1>c DEF SeatKind
  <2> QED  BY <1>0, <1>c, <2>1, <2>2 DEF Shown, FreeIsOpen, NoneHeld
\* The sessions of other seats.
<1>d. ASSUME NEW i \in Sessions, NEW t, session' = [session EXCEPT ![i] = t],
             t.state = "connected" => t.seat = session[i].seat
      PROVE  /\ \A s : s # session[i].seat => At(s, In)' = At(s, In)
             /\ \A s : session[i].state # "connected" /\ t.state # "connected"
                       => At(s, In)' = At(s, In)
  <2>1. session'[i] = t /\ \A j \in Sessions \ {i} : session'[j] = session[j]
    BY <1>0, <1>d
  <2>2. ASSUME NEW s, s # session[i].seat PROVE At(s, In)' = At(s, In)
    BY <1>d, <2>1, <2>2 DEF At
  <2>3. ASSUME NEW s, session[i].state # "connected", t.state # "connected"
        PROVE  At(s, In)' = At(s, In)
    BY <2>1, <2>3 DEF At
  <2> QED  BY <2>2, <2>3
<1>e. ASSUME seat' = seat, \A s \in Seats : At(s, In)' = At(s, In)
      PROVE  Shown(seat') /\ \A s \in Seats : Connections(s)'
  BY <1>0, <1>e DEF Connections
<1>1. ASSUME NEW i \in Sessions, NEW s \in Seats, Mint(i, s)
      PROVE  seat' = seat /\ Shown(seat') /\ \A r \in Seats : Connections(r)'
  <2>1. session[i].state = "none"
    BY <1>1, MintedAnew DEF StatusInv
  <2> DEFINE t == [state |-> "minted", seat |-> s, who |-> seat[s].who, gen |-> seat[s].gen,
                   epoch |-> 0]
  <2>2. session' = [session EXCEPT ![i] = t] /\ seat' = seat /\ t.state = "minted"
    BY <1>1 DEF Mint
  <2> HIDE DEF t
  <2>3. \A r : At(r, In)' = At(r, In)
    BY <1>d, <2>1, <2>2
  <2> QED  BY <1>e, <2>2, <2>3
\* A session that is connected makes its seat so.
<1>2. ASSUME NEW i \in Sessions, NEW t, session' = [session EXCEPT ![i] = t],
             t.state = "connected", t.seat = session[i].seat, t.seat \in Seats,
             seat[t.seat].who # NoOne,
             seat' = [seat EXCEPT ![session[i].seat].status = "connected"]
      PROVE  /\ Shown(seat') /\ \A s \in Seats : Connections(s)'
             /\ \A s \in Seats : seat'[s].who = seat[s].who
  <2>1. /\ Shown(seat') /\ seat'[t.seat].status = "connected"
        /\ \A s \in Seats : seat'[s].who = seat[s].who
        /\ \A s \in Seats \ {t.seat} : seat'[s] = seat[s]
    BY <1>2, <1>c
  <2>2. i \in At(t.seat, In)'
    BY <1>0, <1>2 DEF At
  <2>3. \A s \in Seats \ {t.seat} : At(s, In)' = At(s, In)
    BY <1>2, <1>d
  <2> QED  BY <1>0, <2>1, <2>2, <2>3 DEF Connections
<1>3. ASSUME NEW i \in Sessions, Connect(i)
      PROVE  /\ Shown(seat') /\ \A s \in Seats : Connections(s)'
             /\ \A s \in Seats : seat'[s].who = seat[s].who
  <2>1. CASE Bound(i)
    <3> DEFINE t == [session[i] EXCEPT !.state = "connected", !.epoch = runtime.epoch]
    <3>1. /\ session' = [session EXCEPT ![i] = t]
          /\ seat' = [seat EXCEPT ![session[i].seat].status = "connected"]
      BY <1>3, <2>1 DEF Connect
    <3>2. t.state = "connected" /\ t.seat = session[i].seat
      BY <1>0 DEF SessionKind
    <3>3. session[i].seat \in Seats /\ seat[session[i].seat].who # NoOne
      BY <1>3, <2>1, NobodyAssumption DEF Connect, Bound, SessionInv, Ticket
    <3> HIDE DEF t
    <3> QED  BY <1>2, <3>1, <3>2, <3>3
  <2>2. CASE ~Bound(i)
    <3>1. session' = [session EXCEPT ![i] = Gone] /\ seat' = seat /\ session[i].state = "minted"
      BY <1>3, <2>2 DEF Connect
    <3>2. \A s : At(s, In)' = At(s, In)
      BY <1>d, <1>g, <3>1
    <3> QED  BY <1>e, <3>1, <3>2
  <2> QED  BY <2>1, <2>2
<1>4. ASSUME NEW i \in Sessions, Resume(i)
      PROVE  /\ Shown(seat') /\ \A s \in Seats : Connections(s)'
             /\ \A s \in Seats : seat'[s].who = seat[s].who
  <2> DEFINE t == [session[i] EXCEPT !.state = "connected"]
  <2>1. /\ session' = [session EXCEPT ![i] = t]
        /\ seat' = [seat EXCEPT ![session[i].seat].status = "connected"]
    BY <1>4 DEF Resume
  <2>2. t.state = "connected" /\ t.seat = session[i].seat
    BY <1>0 DEF SessionKind
  <2>3. session[i].seat \in Seats /\ seat[session[i].seat].who # NoOne
    BY <1>4, <1>b DEF Resume, Live
  <2> HIDE DEF t
  <2> QED  BY <1>2, <2>1, <2>2, <2>3
<1>5. ASSUME NEW i \in Sessions, Suspend(i)
      PROVE  /\ Shown(seat') /\ \A s \in Seats : Connections(s)'
             /\ \A s \in Seats : seat'[s].who = seat[s].who
  <2> DEFINE t == [session[i] EXCEPT !.state = "suspended"]
  <2>1. session' = [session EXCEPT ![i] = t] /\ session[i].state = "connected"
    BY <1>5 DEF Suspend
  <2>2. t.state = "suspended"
    BY <1>0 DEF SessionKind
  <2>3. PICK S \in Seats : S = session[i].seat /\ seat[S].who # NoOne
    BY <1>b, <2>1 DEF Live
  <2> HIDE DEF t
  <2>4. \A s \in Seats \ {S} : At(s, In)' = At(s, In)
    BY <1>d, <2>1, <2>2, <2>3
  <2>5. At(S, In)' = At(S, In) \ {i} /\ i \in At(S, In)
    BY <1>0, <2>1, <2>2, <2>3 DEF At
  <2>6. CASE At(S, In) = {i}
    <3>1. seat' = [seat EXCEPT ![S].status = "disconnected"]
      BY <1>5, <2>3, <2>6 DEF Suspend
    <3>2. /\ Shown(seat') /\ seat'[S].status = "disconnected"
          /\ \A s \in Seats : seat'[s].who = seat[s].who
          /\ \A s \in Seats \ {S} : seat'[s] = seat[s]
      BY <1>c, <2>3, <3>1
    <3> QED  BY <1>0, <2>4, <2>5, <2>6, <3>2 DEF Connections
  <2>7. CASE At(S, In) # {i}
    <3>1. seat' = seat
      BY <1>5, <2>3, <2>7 DEF Suspend
    <3>2. At(S, In)' # {}
      BY <2>5, <2>7
    <3> QED  BY <1>0, <2>4, <2>5, <3>1, <3>2 DEF Connections
  <2> QED  BY <2>6, <2>7
<1>6. ASSUME NEW i \in Sessions, Disconnect(i)
      PROVE  /\ Shown(seat') /\ \A s \in Seats : Connections(s)'
             /\ LateJoin \/ \A s \in Seats : seat'[s].who = seat[s].who
  <2>1. session' = [session EXCEPT ![i] = Gone] /\ session[i].state = "suspended"
    BY <1>6 DEF Disconnect
  <2>2. PICK S \in Seats : S = session[i].seat /\ seat[S].who # NoOne
    BY <1>b, <2>1 DEF Live
  <2>3. \A s : At(s, In)' = At(s, In)
    BY <1>d, <1>g, <2>1
  <2>4. CASE At(S, Live2) # {i}
    <3>1. seat' = seat
      BY <1>6, <2>2, <2>4 DEF Disconnect
    <3> QED  BY <1>e, <2>3, <3>1
  <2>5. ASSUME At(S, Live2) = {i} PROVE At(S, In)' = {}
    <3>1. At(S, In) \subseteq At(S, Live2)
      BY DEF At
    <3>2. i \notin At(S, In)
      BY <2>1 DEF At
    <3> QED  BY <2>3, <2>5, <3>1, <3>2
  <2>6. CASE At(S, Live2) = {i} /\ ~LateJoin
    <3>1. seat' = [seat EXCEPT ![S].status = "disconnected"]
      BY <1>6, <2>2, <2>6 DEF Disconnect
    <3>2. /\ Shown(seat') /\ seat'[S].status = "disconnected"
          /\ \A s \in Seats : seat'[s].who = seat[s].who
          /\ \A s \in Seats \ {S} : seat'[s] = seat[s]
      BY <1>c, <2>2, <3>1
    <3> QED  BY <1>0, <2>3, <2>5, <2>6, <3>2 DEF Connections
  <2>7. CASE At(S, Live2) = {i} /\ LateJoin
    <3>1. seat' = [seat EXCEPT ![S].who = NoOne, ![S].status = "open"]
      BY <1>6, <2>2, <2>7 DEF Disconnect
    <3>2. /\ seat'[S].status = "open" /\ seat'[S].hold = seat[S].hold
          /\ \A s \in Seats \ {S} : seat'[s] = seat[s]
      BY <1>0, <2>2, <3>1 DEF SeatKind
    <3>3. Shown(seat')
      BY <1>0, <2>2, <3>2 DEF Shown, FreeIsOpen, NoneHeld
    <3> QED  BY <1>0, <2>3, <2>5, <2>7, <3>2, <3>3 DEF Connections
  <2> QED  BY <2>4, <2>6, <2>7
<1>7. /\ Shown(seat') /\ \A s \in Seats : Connections(s)'
      /\ LateJoin \/ \A s \in Seats : seat'[s].who = seat[s].who
  BY <1>1, <1>3, <1>4, <1>5, <1>6 DEF Sockets
<1> QED  BY <1>0, <1>7, <1>a DEF SeatsOrInputs

\* Every other step.
LEMMA StatusNext ==
    SeatsOrInputs => (TypeInv /\ OpenInv /\ SessionInv /\ StatusInv /\ [Next]_vars => StatusInv')
<1> SUFFICES ASSUME SeatsOrInputs, TypeInv, OpenInv, SessionInv, StatusInv, [Next]_vars
             PROVE  StatusInv'
  OBVIOUS
<1> DEFINE In == {"connected"}
           Seen == Shown(seat') /\ \A s \in Seats : Connections(s)'
           Stops == op'.pc = "stop" => "hold" \in Kinds /\ seat'[op'.action[1]].who # NoOne
           Numbers == \E n \in 0..MaxSessions : Numbered(n)'
<1>0. /\ seat \in [Seats -> SeatKind] /\ session \in [Sessions -> SessionKind]
      /\ Shown(seat) /\ (\A s \in Seats : Connections(s)) /\ OpenIsFree(seat)
      /\ op.pc = "stop" => "hold" \in Kinds /\ seat[op.action[1]].who # NoOne /\ op.action[1] \in Seats
  BY DEF TypeInv, MatchTyped, RestTyped, DiskTyped, Typed, StatusInv, OpenInv
<1>k. \A s : s \in Seats /\ At(s, In)' = At(s, In) /\ seat'[s].status = seat[s].status => Connections(s)'
  BY <1>0 DEF Connections
\* Sessions that stay as they are, up to their round.
<1>a. ASSUME \A i \in Sessions : session'[i].state = session[i].state /\ session'[i].seat = session[i].seat
      PROVE  Numbers /\ \A s : At(s, In)' = At(s, In)
  <2>1. \A n : Numbered(n) => Numbered(n)'
    BY <1>a DEF Numbered
  <2>2. \A s : At(s, In)' = At(s, In)
    BY <1>a DEF At
  <2> QED  BY <2>1, <2>2 DEF StatusInv
<1>b. ASSUME session' = session PROVE Numbers /\ \A s : At(s, In)' = At(s, In)
  BY <1>a, <1>b
<1>1. ASSUME SeatsStay PROVE Seen /\ Stops /\ Numbers
  <2>1. seat' = seat /\ session' = session /\ (op'.pc = "stop" => op' = op)
    BY <1>1 DEF SeatsStay
  <2> QED  BY <1>0, <1>b, <1>k, <2>1
<1>2. ASSUME SeatsForget PROVE Seen /\ Stops /\ Numbers
  <2>1. \A s \in Seats : /\ seat'[s].who = seat[s].who /\ seat'[s].status = seat[s].status
                         /\ ~seat'[s].hold
    BY <1>0, <1>2 DEF SeatsForget, HoldsForgotten, SeatKind
  <2>2. session' = session /\ op'.pc # "stop"
    BY <1>2 DEF SeatsForget
  <2>3. Shown(seat')
    BY <1>0, <2>1 DEF Shown, FreeIsOpen, NoneHeld
  <2> QED  BY <1>b, <1>k, <2>1, <2>2, <2>3
<1>3. ASSUME SeatPlays PROVE Seen /\ Stops /\ Numbers
  <2>1. PICK i \in Sessions, a \in Actions, k \in Kinds :
            /\ seat' = Remembered(a[1], k) /\ a[1] \in Seats /\ session' = session /\ op'.pc # "stop"
    BY <1>3 DEF SeatPlays
  <2>2. \A s \in Seats : seat'[s].who = seat[s].who /\ seat'[s].status = seat[s].status
    BY <1>0, <2>1 DEF Remembered, SeatKind
  <2>3. \A s \in Seats : seat'[s].hold => seat[s].hold \/ "hold" \in Kinds
    BY <1>0, <2>1 DEF Remembered, SeatKind
  <2>4. Shown(seat')
    BY <1>0, <2>2, <2>3 DEF Shown, FreeIsOpen, NoneHeld
  <2> QED  BY <1>b, <1>k, <2>1, <2>2, <2>4
<1>r. ASSUME NEW s \in Seats, NEW c \in Controllers \cup {NoOne}, seat[s].who # NoOne, Reassign(s, c)
      PROVE  Seen /\ Stops /\ Numbers
  <2>1. /\ seat'[s].who = c /\ ~seat'[s].hold
        /\ seat'[s].status = IF c = NoOne THEN "open" ELSE "claimed"
    BY <1>0, <1>r DEF Reassign, SeatKind
  <2>2. \A t \in Seats \ {s} : seat'[t] = seat[t]
    BY <1>0, <1>r DEF Reassign
  <2>3. Shown(seat')
    BY <1>0, <2>1, <2>2 DEF Shown, FreeIsOpen, NoneHeld
  <2>4. session' = SessionsRevoked(s) /\ op'.pc = "save"
    BY <1>r, NotCreate DEF Reassign
  <2>5. \A j \in Sessions :
            /\ session'[j].state # "none" <=> session[j].state # "none"
            /\ session[j].seat = s => session'[j].state # "connected"
            /\ session[j].seat # s => session'[j] = session[j]
    BY <2>4 DEF SessionsRevoked, NoSession, Live
  <2>6. \A j \in Sessions : session[j].seat = s => session'[j] = session[j] \/ session'[j].state = "gone"
    BY <2>4 DEF SessionsRevoked, NoSession
  <2>7. At(s, In)' = {}
    BY <2>5 DEF At
  <2>8. \A t \in Seats \ {s} : At(t, In)' = At(t, In)
    BY <2>5, <2>6 DEF At
  <2>9. \A t \in Seats \ {s} : Connections(t)'
    BY <1>k, <2>2, <2>8
  <2>10. Connections(s)'
    BY <2>1, <2>7 DEF Connections
  <2>11. \A n : Numbered(n) => Numbered(n)'
    BY <2>5 DEF Numbered
  <2> QED  BY <2>3, <2>4, <2>9, <2>10, <2>11 DEF StatusInv
<1>4. ASSUME SeatGoes PROVE Seen /\ Stops /\ Numbers
  <2>1. PICK s \in Seats, c \in Controllers \cup {NoOne} :
            \/ op.pc = "idle" /\ seat[s].who # NoOne /\ Handover(s, c)
            \/ op.pc = "stop" /\ op.action = <<s, c>> /\ Reassign(s, c)
    BY <1>4 DEF SeatGoes
  <2>2. seat[s].who # NoOne
    BY <1>0, <2>1
  <2>3. CASE Reassign(s, c)
    BY <1>r, <2>2, <2>3
  <2>4. CASE ~Reassign(s, c)
    <3>1. /\ seat' = seat /\ session' = session /\ seat[s].hold
          /\ op' = [Idle EXCEPT !.pc = "stop", !.action = <<s, c>>]
      BY <2>1, <2>4 DEF Handover
    <3>2. op'.action[1] = s /\ "hold" \in Kinds
      BY <1>0, <3>1 DEF Idle, Shown, NoneHeld
    <3> QED  BY <1>0, <1>b, <1>k, <2>2, <3>1, <3>2
  <2> QED  BY <2>3, <2>4
<1>5. ASSUME NEW s \in Seats, NEW c \in Controllers, Claim(s, c) PROVE Seen /\ Stops /\ Numbers
  <2>1. seat[s].status = "open" /\ session' = session /\ op'.pc # "stop"
    BY <1>5, NotCreate DEF Claim
  <2>2. \A t \in Seats \ {s} : seat'[t] = seat[t]
    BY <1>0, <1>5 DEF Claim
  <2>3. seat'[s].who = c /\ seat'[s].status = "claimed" /\ seat'[s].hold = seat[s].hold
    BY <1>0, <1>5 DEF Claim, SeatKind
  <2>4. Shown(seat')
    BY <1>0, <2>2, <2>3, NobodyAssumption DEF Shown, FreeIsOpen, NoneHeld
  <2>5. Connections(s)'
    BY <1>0, <1>b, <2>1, <2>3 DEF Connections
  <2> QED  BY <1>b, <1>k, <2>1, <2>2, <2>4, <2>5
<1>6. ASSUME Sockets PROVE Seen /\ Stops /\ Numbers
  <2>1. Seen /\ (op'.pc = "stop" => seat'[op'.action[1]].who # NoOne) /\ op' = op
    BY <1>6, SocketsShow DEF Sockets, Mint, Connect, Suspend, Resume, Disconnect, Elsewhere, disk
  <2>2. Numbers
    BY <1>6, SocketsNumbered DEF StatusInv
  <2> QED  BY <1>0, <2>1, <2>2
<1>7. ASSUME NextRound PROVE Seen /\ Stops /\ Numbers
  <2>1. seat' = [s \in Seats |->
                   [seat[s] EXCEPT !.status =
                      IF seat[s].who = NoOne THEN "open"
                      ELSE IF At(s, In) # {} THEN "connected" ELSE "claimed"]]
    BY <1>7 DEF NextRound
  <2>2. \A s \in Seats :
           /\ seat'[s].who = seat[s].who /\ seat'[s].hold = seat[s].hold
           /\ seat'[s].status = IF seat[s].who = NoOne THEN "open"
                                ELSE IF At(s, In) # {} THEN "connected" ELSE "claimed"
    BY <1>0, <2>1 DEF SeatKind
  <2>3. \A i \in Sessions : session'[i].state = session[i].state /\ session'[i].seat = session[i].seat
    BY <1>0, <1>7 DEF NextRound, SessionKind
  <2>4. Shown(seat') /\ op'.pc # "stop"
    BY <1>0, <1>7, <2>2, NotCreate DEF Shown, FreeIsOpen, NoneHeld, NextRound
  <2>5. \A s \in Seats : seat[s].who = NoOne => At(s, In) = {}
    BY LiveHasTicket, NobodyAssumption DEF At, Live, SessionInv, Holds
  <2>6. \A s \in Seats : Connections(s)'
    BY <1>a, <2>2, <2>3, <2>5 DEF Connections
  <2> QED  BY <1>a, <2>3, <2>4, <2>6
<1>8. ASSUME Restart PROVE Seen /\ Stops /\ Numbers
  <2>1. Shown(store.record.seat) /\ store.record.seat \in [Seats -> SeatKind]
    BY DEF StatusInv, Stored, TypeInv, DiskTyped, RecordKind
  <2>2. \A s \in Seats :
           /\ seat'[s].who = store.record.seat[s].who /\ seat'[s].hold = store.record.seat[s].hold
           /\ store.record.seat[s].status = "open" => seat'[s].status = "open"
           /\ seat'[s].status \in {"open", "disconnected"}
    BY <1>8, <2>1 DEF Restart, SeatKind
  <2>3. Shown(seat')
    BY <2>1, <2>2 DEF Shown, FreeIsOpen, NoneHeld
  <2>4. \A i \in Sessions : /\ session'[i].state \in {"none", "gone"}
                            /\ session'[i].state # "none" <=> session[i].state # "none"
    BY <1>8 DEF Restart, NoSession
  <2>5. \A s \in Seats : At(s, In)' = {}
    BY <2>4 DEF At
  <2>6. \A n : Numbered(n) => Numbered(n)'
    BY <2>4 DEF Numbered
  <2>7. op'.pc # "stop"
    BY <1>8 DEF Restart, Idle
  <2> QED  BY <2>2, <2>3, <2>5, <2>6, <2>7 DEF StatusInv, Connections
<1>9. Seen /\ Stops /\ Numbers
  BY <1>1, <1>2, <1>3, <1>4, <1>5, <1>6, <1>7, <1>8, SeatSteps DEF SeatMoves
<1>10. ASSUME NEW rec \in Stored' PROVE Shown(rec.seat)
  <2>1. CASE rec \in Stored
    BY <2>1 DEF StatusInv
  <2>2. CASE rec = TakenOver
    <3>1. TakenOver.seat = store.record.seat
      BY DEF TakenOver, TypeInv, DiskTyped, RecordKind
    <3> QED  BY <2>2, <3>1 DEF StatusInv, Stored
  <2>3. CASE rec = Record'
    BY <1>9, <2>3 DEF Record
  <2> QED  BY <2>1, <2>2, <2>3, StoredAfter
<1> QED  BY <1>9, <1>10 DEF StatusInv

(***************************************************************************)
(* What a lobby shows is so, in a game without late joins or without held  *)
(* inputs: a seat is open exactly when nobody has it, and connected        *)
(* exactly when a session of it is, through claims, handoffs, drops,       *)
(* resumptions, rounds and restarts (claimSeat, revokeSeatSessions,        *)
(* suspendSession, disconnectSession, advanceRound).                       *)
(***************************************************************************)
THEOREM LobbyIsTrue == SeatsOrInputs => (Spec => []SeatStatusIsTrue)
<1> SUFFICES ASSUME SeatsOrInputs PROVE Spec => []SeatStatusIsTrue
  OBVIOUS
<1> DEFINE Inv == TypeInv /\ OpenInv /\ SessionInv /\ StatusInv
<1>1. Init => Inv
  BY TypeInit, OpenInit, SessionInit, StatusInit
<1>2. Inv /\ [Next]_vars => Inv'
  BY TypeNext, OpenNext, SessionNext, StatusNext
<1>3. Inv => SeatStatusIsTrue
  BY DEF OpenInv, OpenIsFree, StatusInv, Shown, FreeIsOpen, Connections, SeatStatusIsTrue
<1> HIDE DEF Inv
<1> QED  BY <1>1, <1>2, <1>3, PTL DEF Spec
(***************************************************************************)
(* Rounds that are over and won, and what the archive of one more adds.    *)
(***************************************************************************)
Won(arch, s) == {r \in 1..Len(arch) : arch[r].winner = s}
Wins(arch, s) == Cardinality(Won(arch, s))

LEMMA WonIsFinite ==
    ASSUME NEW S, NEW q \in Seq(S), NEW s
    PROVE  IsFiniteSet(Won(q, s)) /\ Wins(q, s) \in Nat
<1>1. IsFiniteSet(1..Len(q))
  BY FS_Interval
<1>2. IsFiniteSet(Won(q, s))
  BY <1>1, FS_Subset DEF Won
<1> QED  BY <1>2, FS_CardinalityType DEF Wins

LEMMA WinsAppended ==
    ASSUME NEW S, NEW q \in Seq(S), NEW x, NEW s
    PROVE  Wins(Append(q, x), s) = Wins(q, s) + IF x.winner = s THEN 1 ELSE 0
<1> DEFINE n == Len(q) + 1
           p == Append(q, x)
<1>1. /\ n \in Nat /\ Len(p) = n /\ p[n] = x
      /\ \A r \in 1..Len(q) : p[r] = q[r]
  OBVIOUS
<1>2. n \notin Won(q, s)
  BY DEF Won
<1>3. 1..n = (1..Len(q)) \cup {n}
  OBVIOUS
<1>4. CASE x.winner = s
  <2>1. Won(p, s) = Won(q, s) \cup {n}
    BY <1>1, <1>3, <1>4 DEF Won
  <2>2. Cardinality(Won(q, s) \cup {n}) = Cardinality(Won(q, s)) + 1
    BY <1>2, WonIsFinite, FS_AddElement
  <2> QED  BY <1>4, <2>1, <2>2 DEF Wins
<1>5. CASE x.winner # s
  <2>1. Won(p, s) = Won(q, s)
    BY <1>1, <1>3, <1>5 DEF Won
  <2> QED  BY <1>5, <2>1, WonIsFinite DEF Wins
<1> QED  BY <1>4, <1>5

(***************************************************************************)
(* A series adds up: r is a runtime, ser a series and arch the archive.    *)
(***************************************************************************)
Rounds(r, ser, arch) ==
    /\ Len(arch) = ser.round - 1 /\ ser.round <= MaxRounds
    /\ ser.status # "active" => r.status \notin Active
    /\ ser.status = "awaiting-restart" => ser.round < MaxRounds /\ r.status = "completed"
    /\ \A s \in Seats :
          ser.scores[s] <= IF ser.status = "active" THEN ser.round - 1 ELSE ser.round

Extra(r, ser, s) ==
    IF ser.status # "active" /\ r.status = "completed" /\ r.winner = s THEN 1 ELSE 0
Tally(r, ser, arch) ==
    \A s \in Seats : ser.scores[s] = Wins(arch, s) + Extra(r, ser, s)
Found(r, ser) == r.status = "completed" => ser.status # "active"

LEMMA AddsIsTally ==
    ASSUME NEW rec \in RecordKind
    PROVE  Adds(rec) <=> /\ Len(rec.archive) = rec.series.round - 1
                         /\ Tally(rec.runtime, rec.series, rec.archive)
<1> DEFINE ends == rec.series.status # "active" /\ rec.runtime.status = "completed"
           q == rec.archive
           x == [winner |-> rec.runtime.winner]
           counted == IF ends THEN Append(q, x) ELSE q
<1>1. q \in Seq(ArchiveKind)
  BY DEF RecordKind
<1>2. ASSUME NEW s \in Seats
      PROVE  Wins(counted, s) = Wins(q, s) + Extra(rec.runtime, rec.series, s)
  <2>0. Wins(q, s) \in Nat
    BY <1>1, WonIsFinite
  <2>1. CASE ends
    <3>1. Wins(counted, s) = Wins(q, s) + IF x.winner = s THEN 1 ELSE 0
      BY <1>1, <2>1, WinsAppended
    <3> QED  BY <2>1, <3>1 DEF Extra
  <2>2. CASE ~ends
    BY <2>0, <2>2 DEF Extra
  <2> QED  BY <2>1, <2>2
<1>3. Adds(rec) <=> /\ Len(q) = rec.series.round - 1
                    /\ \A s \in Seats : rec.series.scores[s] = Wins(counted, s)
  BY DEF Adds, Wins, Won
<1> HIDE DEF counted
<1> QED  BY <1>2, <1>3 DEF Tally

LEMMA FinishRounds ==
    ASSUME NEW r \in RuntimeOf, NEW old \in RuntimeOf, NEW ser \in SeriesKind,
           NEW arch \in Seq(ArchiveKind), Rounds(old, ser, arch),
           r.status = "completed", old.status = "running" \/ r = old
    PROVE  /\ Rounds(r, Finished(ser, r), arch)
           /\ Finished(ser, r).status # "active"
           /\ Tally(old, ser, arch) => Tally(r, Finished(ser, r), arch)
<1>0. MaxRounds \in Nat
  BY Bounds
<1>1. CASE ser.status # "active"
  <2>1. Finished(ser, r) = ser
    BY <1>1 DEF Finished
  <2>2. r = old
    BY <1>1 DEF Rounds, Active
  <2> QED  BY <1>1, <2>1, <2>2
<1>2. CASE ser.status = "active"
  <2> DEFINE new == Finished(ser, r)
  <2>1. /\ new.round = ser.round
        /\ new.status = IF ser.round >= MaxRounds THEN "complete" ELSE "awaiting-restart"
        /\ new.scores = Scored(ser.scores, r.winner)
    BY <1>2 DEF Finished, SeriesKind
  <2>2. \A s \in Seats : new.scores[s] = ser.scores[s] + IF r.winner = s THEN 1 ELSE 0
    BY <2>1 DEF Scored, SeriesKind
  <2>3. ser.round \in Nat /\ \A s \in Seats : ser.scores[s] \in Nat
    BY DEF SeriesKind
  <2> HIDE DEF new
  <2>4. Rounds(r, new, arch)
    <3>1. \A s \in Seats : new.scores[s] <= new.round
      BY <1>2, <2>1, <2>2, <2>3 DEF Rounds
    <3>2. r.status \notin Active
      BY DEF Active
    <3> QED  BY <1>0, <2>1, <2>3, <3>1, <3>2 DEF Rounds
  <2>5. Tally(old, ser, arch) => Tally(r, new, arch)
    <3>1. ASSUME Tally(old, ser, arch), NEW s \in Seats
          PROVE  new.scores[s] = Wins(arch, s) + Extra(r, new, s)
      <4>1. ser.scores[s] = Wins(arch, s) /\ Wins(arch, s) \in Nat
        BY <1>2, <3>1, WonIsFinite DEF Tally, Extra
      <4> QED  BY <2>1, <2>2, <4>1 DEF Extra
    <3> QED  BY <3>1 DEF Tally
  <2> QED  BY <2>1, <2>4, <2>5 DEF new
<1> QED  BY <1>1, <1>2

LEMMA AdvanceRounds ==
    ASSUME NEW r \in RuntimeOf, NEW ser \in SeriesKind, NEW arch \in Seq(ArchiveKind),
           Rounds(r, ser, arch), ser.status = "awaiting-restart",
           NEW next, next.round = ser.round + 1, next.status = "active",
           next.scores = ser.scores,
           NEW longer, Len(longer) = Len(arch) + 1,
           \A s \in Seats : Wins(longer, s) = Wins(arch, s) + IF r.winner = s THEN 1 ELSE 0
    PROVE  /\ Rounds(r, next, longer)
           /\ Tally(r, ser, arch) => Tally(r, next, longer)
<1>0. MaxRounds \in Nat /\ ser.round \in Nat /\ \A s \in Seats : ser.scores[s] \in Nat
  BY Bounds DEF SeriesKind
<1>1. next.round = ser.round + 1 /\ next.status = "active" /\ next.scores = ser.scores
  OBVIOUS
<1>2. Len(longer) = Len(arch) + 1 /\ Len(arch) \in Nat
  OBVIOUS
<1>3. r.status = "completed" /\ ser.round < MaxRounds
  BY DEF Rounds
<1>4. Rounds(r, next, longer)
  <2>1. \A s \in Seats : next.scores[s] <= next.round - 1
    BY <1>0, <1>1 DEF Rounds
  <2>2. Len(longer) = next.round - 1 /\ next.round <= MaxRounds
    BY <1>0, <1>1, <1>2, <1>3 DEF Rounds
  <2> QED  BY <1>1, <2>1, <2>2 DEF Rounds
<1>5. ASSUME Tally(r, ser, arch), NEW s \in Seats
      PROVE  next.scores[s] = Wins(longer, s) + Extra(r, next, s)
  <2>1. Wins(longer, s) = Wins(arch, s) + IF r.winner = s THEN 1 ELSE 0
    OBVIOUS
  <2>2. Wins(arch, s) \in Nat
    BY WonIsFinite
  <2>3. Extra(r, ser, s) = IF r.winner = s THEN 1 ELSE 0
    BY <1>3 DEF Extra
  <2>4. ser.scores[s] = Wins(arch, s) + Extra(r, ser, s)
    BY <1>5 DEF Tally
  <2> QED  BY <1>1, <2>1, <2>2, <2>3, <2>4 DEF Extra
<1> QED  BY <1>1, <1>3, <1>4, <1>5 DEF Tally
(***************************************************************************)
(* The rounds of the match in memory and of every record that is stored.   *)
(***************************************************************************)
RoundsInv ==
    /\ Rounds(runtime, series, archive)
    /\ \A rec \in Stored : Rounds(rec.runtime, rec.series, rec.archive)
    /\ op.pc = "create" => runtime.status = "completed" /\ series.status = "active"

CountInv ==
    ~faults.create =>
        /\ Tally(runtime, series, archive) /\ (op.pc # "create" => Found(runtime, series))
        /\ \A rec \in Stored : /\ Tally(rec.runtime, rec.series, rec.archive)
                               /\ Found(rec.runtime, rec.series)

LEMMA EmptyTally ==
    ASSUME NEW r, NEW ser, ser.status = "active", ser.scores = [s \in Seats |-> 0]
    PROVE  Tally(r, ser, <<>>)
<1>1. \A s \in Seats : Won(<<>>, s) = {}
  BY DEF Won
<1>2. \A s \in Seats : Wins(<<>>, s) = 0
  BY <1>1, FS_EmptySet DEF Wins
<1> QED  BY <1>2 DEF Tally, Extra

LEMMA RoundsInit == Init => RoundsInv /\ CountInv
<1> SUFFICES ASSUME Init PROVE RoundsInv /\ CountInv
  OBVIOUS
<1>1. /\ archive = <<>> /\ series.round = 1 /\ series.status = "active"
      /\ series.scores = [s \in Seats |-> 0] /\ runtime.status = "lobby"
  BY DEF Init, NewGame
<1>2. Rounds(runtime, series, archive)
  BY <1>1, Bounds DEF Rounds
<1>3. Tally(runtime, series, archive)
  BY <1>1, EmptyTally
<1>4. Found(runtime, series)
  BY <1>1 DEF Found
<1>5. \A rec \in Stored : /\ rec.series = series /\ rec.archive = archive
                          /\ rec.runtime.status = runtime.status
                          /\ rec.runtime.winner = runtime.winner
  <2>1. Stored = {Record}
    BY DEF Init, Stored, Idle
  <2>2. /\ Record.series = series /\ Record.archive = archive
        /\ Record.runtime.status = runtime.status
        /\ Record.runtime.winner = runtime.winner
    BY DEF Record, Init, NewGame
  <2> QED  BY <2>1, <2>2
<1>6. op.pc # "create"
  BY DEF Init, Idle
<1>7. \A rec \in Stored : Rounds(rec.runtime, rec.series, rec.archive)
  BY <1>2, <1>5 DEF Rounds
<1>8. \A rec \in Stored : Tally(rec.runtime, rec.series, rec.archive) /\ Found(rec.runtime, rec.series)
  BY <1>3, <1>4, <1>5 DEF Tally, Extra, Found
<1> QED  BY <1>2, <1>3, <1>4, <1>6, <1>7, <1>8 DEF RoundsInv, CountInv

\* Of the runtime, these facts depend on its status and its winner only.
LEMMA SameRounds ==
    ASSUME NEW r, NEW s, NEW ser, NEW arch, s.status = r.status, s.winner = r.winner
    PROVE  /\ Rounds(r, ser, arch) => Rounds(s, ser, arch)
           /\ Tally(r, ser, arch) => Tally(s, ser, arch)
           /\ Found(r, ser) => Found(s, ser)
BY DEF Rounds, Tally, Extra, Found

LEMMA QuietRounds ==
    ASSUME TypeInv, Quiet, Rounds(runtime, series, archive)
    PROVE  /\ Rounds(runtime', series', archive')
           /\ Tally(runtime, series, archive) => Tally(runtime', series', archive')
           /\ Found(runtime, series) => Found(runtime', series')
<1>1. Rounds(runtime', series', archive')
  BY DEF Quiet, Rounds
<1>2. Tally(runtime, series, archive) => Tally(runtime', series', archive')
  BY DEF Quiet, Tally, Extra
<1>3. Found(runtime, series) => Found(runtime', series')
  BY DEF Quiet, Found
<1> QED  BY <1>1, <1>2, <1>3

LEMMA EndRounds ==
    ASSUME TypeInv, NEW status \in {"canceled", "expired"}, End(status),
           Rounds(runtime, series, archive)
    PROVE  /\ Rounds(runtime', series', archive')
           /\ Found(runtime', series')
           /\ Found(runtime, series) /\ Tally(runtime, series, archive)
              => Tally(runtime', series', archive')
<1>0. /\ runtime \in RuntimeOf /\ series \in SeriesKind /\ archive \in Seq(ArchiveKind)
      /\ series.round \in Nat /\ \A s \in Seats : series.scores[s] \in Nat
  BY DEF TypeInv, MatchTyped, SeriesKind
<1>1. /\ runtime' = Ended(runtime, status) /\ archive' = archive
      /\ series'.round = series.round /\ series'.scores = series.scores
      /\ series'.status = "complete"
  BY <1>0 DEF End, SeriesKind
<1>2. /\ runtime'.status \notin Active /\ runtime'.winner = runtime.winner
      /\ runtime'.status = "completed" <=> runtime.status = "completed"
  BY <1>0, <1>1 DEF Ended, RuntimeOf, Active
<1>3. \A s \in Seats : series.scores[s] <= series.round
  BY <1>0 DEF Rounds
<1>4. Rounds(runtime', series', archive')
  BY <1>1, <1>2, <1>3 DEF Rounds
<1>5. ASSUME Found(runtime, series), Tally(runtime, series, archive)
      PROVE  Tally(runtime', series', archive')
  <2>1. ASSUME NEW s \in Seats PROVE Extra(runtime', series', s) = Extra(runtime, series, s)
    BY <1>1, <1>2, <1>5 DEF Extra, Found
  <2> QED  BY <1>1, <1>5, <2>1 DEF Tally
<1> QED  BY <1>1, <1>4, <1>5 DEF Found

LEMMA AdvancedRounds ==
    ASSUME NEW kind, NEW action, NEW r \in RuntimeOf, NEW ser \in SeriesKind,
           archive \in Seq(ArchiveKind), Advance(kind, action, r, ser),
           Rounds(r, ser, archive), ser.status = "awaiting-restart"
    PROVE  /\ Rounds(runtime', series', archive')
           /\ op'.pc = "create" /\ runtime'.status = "completed" /\ series'.status = "active"
           /\ Tally(r, ser, archive) => Tally(runtime', series', archive')
<1> DEFINE x == [log |-> r.log, winner |-> r.winner]
<1>1. /\ archive' = Append(archive, x) /\ x.winner = r.winner
      /\ series'.round = ser.round + 1 /\ series'.status = "active"
      /\ series'.scores = ser.scores
      /\ runtime' = r /\ op'.pc = "create"
  BY DEF Advance, Idle, SeriesKind
<1> HIDE DEF x
<1>3. Len(archive') = Len(archive) + 1
  BY <1>1
<1>4. \A s \in Seats : Wins(archive', s) = Wins(archive, s) + IF r.winner = s THEN 1 ELSE 0
  BY <1>1, WinsAppended
<1>2. Rounds(r, series', archive')
  BY <1>1, <1>3, <1>4, AdvanceRounds
<1>5. Tally(r, ser, archive) => Tally(r, series', archive')
  BY <1>1, <1>3, <1>4, AdvanceRounds
<1>6. r.status = "completed"
  BY DEF Rounds
<1> QED  BY <1>1, <1>2, <1>5, <1>6

LEMMA SettleRounds ==
    ASSUME TypeInv, NEW kind, NEW action, NEW r, Settles(kind, action, r),
           Rounds(runtime, series, archive)
    PROVE  /\ Rounds(runtime', series', archive')
           /\ Tally(runtime, series, archive) => Tally(runtime', series', archive')
           /\ op'.pc # "create" => Found(runtime', series')
           /\ op'.pc = "create" => runtime'.status = "completed" /\ series'.status = "active"
<1> DEFINE ser == Finished(series, r)
<1>0. /\ runtime \in RuntimeOf /\ series \in SeriesKind /\ archive \in Seq(ArchiveKind)
      /\ r \in RuntimeOf /\ r.status = "completed" /\ (runtime.status = "running" \/ r = runtime)
  BY DEF TypeInv, MatchTyped, Settles
<1>1. /\ Rounds(r, ser, archive) /\ ser.status # "active"
      /\ Tally(runtime, series, archive) => Tally(r, ser, archive)
  BY <1>0, FinishRounds
<1>2. ser \in SeriesKind
  BY <1>0, FinishedTyped
<1>3. PICK seats \in [Seats -> SeatKind] : Settle(kind, action, r, seats)
  BY DEF Settles
<1>4. CASE GoesOn(ser)
  <2>1. Advance(kind, action, r, ser)
    BY <1>0, <1>3, <1>4 DEF Settle
  <2>2. ser.status = "awaiting-restart"
    BY <1>4 DEF GoesOn
  <2> QED  BY <1>0, <1>1, <1>2, <2>1, <2>2, AdvancedRounds
<1>5. CASE ~GoesOn(ser)
  <2>1. runtime' = r /\ series' = ser /\ archive' = archive /\ Save(kind, action)
    BY <1>0, <1>3, <1>5 DEF Settle
  <2>2. op'.pc = "save"
    BY <2>1, NotCreate
  <2> HIDE DEF ser
  <2> QED  BY <1>1, <2>1, <2>2 DEF Found
<1> QED  BY <1>4, <1>5

LEMMA MemoryRounds ==
    ASSUME TypeInv, [Next]_vars, Rounds(runtime, series, archive),
           \A rec \in Stored : Rounds(rec.runtime, rec.series, rec.archive),
           op.pc = "create" => runtime.status = "completed" /\ series.status = "active"
    PROVE  /\ Rounds(runtime', series', archive')
           /\ op'.pc = "create" => runtime'.status = "completed" /\ series'.status = "active"
<1>0. /\ runtime \in RuntimeOf /\ series \in SeriesKind /\ archive \in Seq(ArchiveKind)
  BY DEF TypeInv, MatchTyped
<1>1. CASE Quiet
  BY <1>1, QuietRounds DEF Quiet
<1>2. CASE Ends
  BY <1>2, EndRounds DEF Ends
<1>3. CASE Advances
  BY <1>0, <1>3, AdvancedRounds DEF Advances
<1>4. CASE NextRound
  <2>1. op.pc = "create" /\ op'.pc = "save" /\ UNCHANGED <<series, archive>>
    BY <1>4, NotCreate DEF NextRound
  <2> QED  BY <2>1 DEF Rounds
<1>5. CASE Restart
  <2>1. store.record \in RecordKind /\ store.record \in Stored
    BY DEF TypeInv, DiskTyped, Stored
  <2>2. /\ runtime'.status = store.record.runtime.status
        /\ runtime'.winner = store.record.runtime.winner
        /\ series' = store.record.series /\ archive' = store.record.archive
        /\ op'.pc = "idle"
    BY <1>5, <2>1 DEF Restart, RecordKind, RuntimeOf, Idle
  <2> QED  BY <2>1, <2>2, SameRounds
<1>6. ASSUME NEW kind \in {"action", "tick"}, NEW action, NEW r, Settles(kind, action, r)
      PROVE  /\ Rounds(runtime', series', archive')
             /\ op'.pc = "create" => runtime'.status = "completed" /\ series'.status = "active"
  BY <1>6, SettleRounds
<1> QED  BY <1>1, <1>2, <1>3, <1>4, <1>5, <1>6, Steps DEF Moves

LEMMA RecordParts ==
    ASSUME TypeInv', NEW rec, rec = Record'
    PROVE  /\ rec.series = series' /\ rec.archive = archive'
           /\ rec.runtime.status = runtime'.status /\ rec.runtime.winner = runtime'.winner
           /\ rec.runtime.log = runtime'.log /\ rec.runtime.epoch = runtime'.epoch
<1>1. runtime' \in RuntimeOf
  BY DEF TypeInv, MatchTyped
<1> QED  BY <1>1 DEF Record, RuntimeOf

LEMMA TakenOverParts ==
    ASSUME TypeInv
    PROVE  /\ TakenOver.series = store.record.series /\ TakenOver.archive = store.record.archive
           /\ TakenOver.runtime.status = store.record.runtime.status
           /\ TakenOver.runtime.winner = store.record.runtime.winner
           /\ TakenOver.runtime.log = store.record.runtime.log
           /\ TakenOver.runtime.epoch = store.record.runtime.epoch + 1
           /\ store.record \in Stored
BY DEF TakenOver, TypeInv, DiskTyped, RecordKind, RuntimeOf, Stored

LEMMA RoundsNext == TypeInv /\ RoundsInv /\ [Next]_vars => RoundsInv'
<1> SUFFICES ASSUME TypeInv, RoundsInv, [Next]_vars PROVE RoundsInv'
  OBVIOUS
<1>1. /\ Rounds(runtime', series', archive')
      /\ op'.pc = "create" => runtime'.status = "completed" /\ series'.status = "active"
  BY MemoryRounds DEF RoundsInv
<1>2. ASSUME NEW rec \in Stored' PROVE Rounds(rec.runtime, rec.series, rec.archive)
  <2>1. CASE rec \in Stored
    BY <2>1 DEF RoundsInv
  <2>2. CASE rec = TakenOver
    BY <2>2, TakenOverParts, SameRounds DEF RoundsInv
  <2>3. CASE rec = Record'
    BY <1>1, <2>3, RecordParts, TypeNext, SameRounds
  <2> QED  BY <2>1, <2>2, <2>3, StoredAfter
<1> QED  BY <1>1, <1>2 DEF RoundsInv
\* A round under way becomes the next one, unless the game refuses it.
LEMMA CreateLeaves ==
    ASSUME [Next]_vars, op.pc = "create"
    PROVE  op'.pc = "create" \/ NextRound \/ Restart \/ faults'.create
<1>1. ~Requests /\ ~Play /\ ~Maintenance /\ ~Overruns
  BY DEF Requests, Claim, ChangeController, Release, RestartRound, Abandon, Play, Submit,
         Refuse, Maintenance, MaintainKeeps, MaintainExpires, Overruns
<1>2. Sockets \/ Wait \/ TakeOver \/ UNCHANGED vars => op' = op
  BY DEF Sockets, Mint, Connect, Suspend, Resume, Disconnect, Elsewhere, Wait, TakeOver,
         disk, vars
<1>3. Clock => op' = op
  BY DEF Clock, TimerFires, TickGoesOn, TickFindsEnd, TickThrows, TickFinishes, TickEnd, disk
<1>4. Continue => op' = op \/ NextRound
  BY DEF Continue, InputHasStopped, Saved, WriteLands, SaveFails, WriteFails, LateSaved,
         LateSaveFails
<1>5. NextRoundFails => faults'.create
  <2> SUFFICES ASSUME Fault("create") PROVE faults'.create
    BY DEF NextRoundFails
  <2>1. PICK n : faults' = [count |-> n, create |-> faults.create \/ "create" = "create"]
    BY DEF Fault
  <2>2. (faults.create \/ "create" = "create") = TRUE
    OBVIOUS
  <2> QED  BY <2>1, <2>2
<1> QED  BY <1>1, <1>2, <1>3, <1>4, <1>5 DEF Next

LEMMA FaultsStay ==
    ASSUME TypeInv, NEW f, Fault(f) PROVE faults.create => faults'.create
BY DEF Fault, TypeInv, RestTyped

LEMMA FaultsGrow == TypeInv /\ [Next]_vars => (faults.create => faults'.create)
<1> SUFFICES ASSUME TypeInv, [Next]_vars PROVE UNCHANGED faults \/ \E f : Fault(f)
  BY FaultsStay
<1>1. Requests => UNCHANGED faults
  <2>1. \A s, c : Handover(s, c) => UNCHANGED faults
    BY DEF Handover, Reassign
  <2>2. \A s, c : Claim(s, c) => UNCHANGED faults
    BY DEF Claim
  <2>3. \A a : RestartRound(a) => UNCHANGED faults
    BY DEF RestartRound
  <2> QED  BY <2>1, <2>2, <2>3 DEF Requests, ChangeController, Release, Abandon
<1>2. Sockets \/ Play \/ Wait \/ UNCHANGED vars => UNCHANGED faults
  BY DEF Sockets, Mint, Connect, Suspend, Resume, Disconnect, Elsewhere, Play, Submit,
         Refuse, Wait, budget, vars
<1>3. Clock => UNCHANGED faults \/ \E f : Fault(f)
  BY DEF Clock, TimerFires, TickGoesOn, TickFindsEnd, TickThrows, TickFinishes, budget
<1>4. Continue => UNCHANGED faults \/ \E f : Fault(f)
  BY DEF Continue, InputHasStopped, Reassign, NextRound, Saved, WriteLands, SaveFails,
         WriteFails, LateSaved, LateSaveFails, budget
<1>5. Maintenance => UNCHANGED faults
  BY DEF Maintenance, MaintainKeeps, MaintainExpires, budget
<1>6. NextRoundFails \/ Overruns \/ TakeOver \/ Restart => \E f : Fault(f)
  BY DEF NextRoundFails, Overruns, TakeOver, Restart
<1> QED  BY <1>1, <1>2, <1>3, <1>4, <1>5, <1>6 DEF Next

LEMMA CountNext == TypeInv /\ RoundsInv /\ CountInv /\ [Next]_vars => CountInv'
<1> SUFFICES ASSUME TypeInv, RoundsInv, CountInv, [Next]_vars, ~faults'.create
             PROVE  CountInv'
  BY DEF CountInv
<1>0. /\ runtime \in RuntimeOf /\ series \in SeriesKind /\ archive \in Seq(ArchiveKind)
  BY DEF TypeInv, MatchTyped
<1>a. /\ Tally(runtime, series, archive) /\ (op.pc # "create" => Found(runtime, series))
      /\ \A rec \in Stored : /\ Tally(rec.runtime, rec.series, rec.archive)
                             /\ Found(rec.runtime, rec.series)
      /\ Rounds(runtime, series, archive)
  BY FaultsGrow DEF CountInv, RoundsInv
<1> DEFINE Counted == /\ Tally(runtime', series', archive')
                      /\ op'.pc # "create" => Found(runtime', series')
<1>1. ASSUME Quiet PROVE Counted
  <2>1. Tally(runtime', series', archive')
    BY <1>a, <1>1, QuietRounds
  <2>2. CASE op.pc = "create"
    <3>1. op'.pc = "create" \/ NextRound \/ Restart
      BY <2>2, CreateLeaves
    <3>2. CASE NextRound
      <4>1. runtime'.epoch = runtime.epoch + 1
        BY <3>2 DEF NextRound, NewGame
      <4>2. runtime'.epoch = runtime.epoch /\ runtime.epoch \in Nat
        BY <1>0, <1>1 DEF Quiet, RuntimeOf
      <4> QED  BY <4>1, <4>2
    <3>3. CASE Restart
      <4>1. runtime' = [store.record.runtime EXCEPT !.epoch = @ + 1] /\ series' = store.record.series
        BY <3>3 DEF Restart
      <4>2. runtime'.status = store.record.runtime.status
        BY <4>1 DEF TypeInv, DiskTyped, RecordKind, RuntimeOf
      <4>3. Found(store.record.runtime, store.record.series)
        BY <1>a DEF Stored
      <4> QED  BY <2>1, <4>1, <4>2, <4>3 DEF Found
    <3> QED  BY <2>1, <3>1, <3>2, <3>3
  <2>3. CASE op.pc # "create"
    BY <1>a, <1>1, <2>1, <2>3, QuietRounds
  <2> QED  BY <2>2, <2>3
<1>2. ASSUME Ends PROVE Counted
  <2>1. PICK status \in {"canceled", "expired"} : End(status)
    BY <1>2 DEF Ends
  <2>2. op.pc = "idle"
    BY <1>2 DEF Ends
  <2> QED  BY <1>a, <2>1, <2>2, EndRounds
<1>3. ASSUME Advances PROVE Counted
  <2>1. /\ Advance("request", NoOne, runtime, series)
        /\ series.status = "awaiting-restart"
    BY <1>3 DEF Advances
  <2>2. /\ Tally(runtime, series, archive) => Tally(runtime', series', archive')
        /\ op'.pc = "create"
    BY <1>0, <1>a, <2>1, AdvancedRounds
  <2> QED  BY <1>a, <2>2
<1>4. ASSUME NextRound PROVE Counted
  <2>1. op.pc = "create" /\ UNCHANGED <<series, archive>> /\ runtime'.status \in {"running", "lobby"}
    BY <1>4 DEF NextRound, NewGame
  <2>2. series.status = "active"
    BY <2>1 DEF RoundsInv
  <2>3. Tally(runtime', series', archive')
    BY <1>a, <2>1, <2>2 DEF Tally, Extra
  <2> QED  BY <2>1, <2>3 DEF Found
<1>5. ASSUME Restart PROVE Counted
  <2>1. store.record \in RecordKind /\ store.record \in Stored
    BY DEF TypeInv, DiskTyped, Stored
  <2>2. /\ runtime'.status = store.record.runtime.status
        /\ runtime'.winner = store.record.runtime.winner
        /\ series' = store.record.series /\ archive' = store.record.archive
    BY <1>5, <2>1 DEF Restart, RecordKind, RuntimeOf
  <2>3. /\ Tally(store.record.runtime, store.record.series, store.record.archive)
        /\ Found(store.record.runtime, store.record.series)
    BY <1>a, <2>1
  <2> QED  BY <2>2, <2>3, SameRounds
<1>6. ASSUME NEW kind, NEW action, NEW r, Settles(kind, action, r) PROVE Counted
  BY <1>a, <1>6, SettleRounds
<1>7. Counted
  BY <1>1, <1>2, <1>3, <1>4, <1>5, <1>6, Steps DEF Moves
<1>8. ASSUME NEW rec \in Stored'
      PROVE  Tally(rec.runtime, rec.series, rec.archive) /\ Found(rec.runtime, rec.series)
  <2>1. CASE rec \in Stored
    BY <1>a, <2>1
  <2>2. CASE rec = TakenOver
    BY <1>a, <2>2, TakenOverParts, SameRounds
  <2>3. CASE rec = Record' /\ op'.pc \in {"idle", "save"}
    <3>1. /\ rec.series = series' /\ rec.archive = archive'
          /\ rec.runtime.status = runtime'.status /\ rec.runtime.winner = runtime'.winner
      BY <2>3, RecordParts, TypeNext
    <3> QED  BY <1>7, <2>3, <3>1, SameRounds
  <2> QED  BY <2>1, <2>2, <2>3, StoredAfter
<1> QED  BY <1>7, <1>8 DEF CountInv

(***************************************************************************)
(* A running match of a game with a clock has a timer.                     *)
(***************************************************************************)
ClockInv == Realtime /\ runtime.status = "running" => clock

LEMMA ClockInit == Init => ClockInv
BY DEF Init, NewGame, ClockInv
LEMMA ClockStays ==
    ASSUME ClockInv, clock' = clock, runtime'.status = "running" => runtime.status = "running"
    PROVE  ClockInv'
BY DEF ClockInv

LEMMA ClockStarts == ASSUME StartClock PROVE ClockInv'
BY DEF StartClock, ClockInv

LEMMA ClockUnneeded == ASSUME runtime'.status # "running" PROVE ClockInv'
BY DEF ClockInv

LEMMA EndStops ==
    ASSUME TypeInv, NEW status, status # "running",
           \/ runtime' = Ended(runtime, status)
           \/ runtime' = Ended(Halted(runtime), status)
           \/ runtime' = Halted(runtime)
    PROVE  runtime'.status # "running"
<1>1. runtime \in RuntimeOf
  BY DEF TypeInv, MatchTyped
<1> QED  BY <1>1 DEF Ended, Halted, RuntimeOf, Active

LEMMA SettleClock ==
    ASSUME TypeInv, ClockInv, NEW kind, NEW action, NEW r, NEW seats,
           Settle(kind, action, r, seats), r.status = "running" => runtime.status = "running",
           kind = "tick" => r.status # "running"
    PROVE  ClockInv'
<1>1. \/ \E ser : Advance(kind, action, r, ser) /\ r.status = "completed"
      \/ /\ runtime' = r
         /\ clock' = (clock /\ (kind = "tick" => r.status = "running"))
  BY DEF Settle
<1>2. CASE \E ser : Advance(kind, action, r, ser) /\ r.status = "completed"
  BY <1>2, ClockUnneeded DEF Advance
<1>3. CASE /\ runtime' = r
           /\ clock' = (clock /\ (kind = "tick" => r.status = "running"))
  <2>1. CASE kind = "tick"
    BY <1>3, <2>1, ClockUnneeded
  <2>2. CASE kind # "tick"
    <3>1. clock' = clock
      BY <1>3, <2>2 DEF TypeInv, RestTyped
    <3> QED  BY <1>3, <3>1, ClockStays
  <2> QED  BY <2>1, <2>2
<1> QED  BY <1>1, <1>2, <1>3

LEMMA HandoverClock ==
    ASSUME TypeInv, ClockInv, NEW s, NEW c, Handover(s, c) PROVE ClockInv'
<1>1. \/ runtime' = runtime /\ clock' = clock
      \/ runtime' = [runtime EXCEPT !.held[s] = NoOne] /\ clock' = clock
  BY DEF Handover, Reassign
<1>2. runtime'.status = runtime.status
  BY <1>1 DEF TypeInv, MatchTyped, RuntimeOf
<1> QED  BY <1>1, <1>2, ClockStays

LEMMA ClockNext == TypeInv /\ RoundsInv /\ ClockInv /\ [Next]_vars => ClockInv'
<1> SUFFICES ASSUME TypeInv, RoundsInv, ClockInv, [Next]_vars PROVE ClockInv'
  OBVIOUS
<1>0. runtime \in RuntimeOf
  BY DEF TypeInv, MatchTyped
<1>e. ASSUME NEW status, status # "running", End(status) PROVE ClockInv'
  BY <1>e, EndStops, ClockUnneeded DEF End
<1>f. ASSUME NEW r, r = runtime \/ r = Halted(runtime), TickFails(r) PROVE ClockInv'
  <2>1. runtime'.status # "running"
    BY <1>f, EndStops DEF TickFails
  <2> QED  BY <2>1, ClockUnneeded
<1>h. ASSUME runtime' = Halted(runtime) PROVE ClockInv'
  <2>1. runtime'.status # "running"
    BY <1>h DEF Halted, TypeInv, MatchTyped, RuntimeOf
  <2> QED  BY <2>1, ClockUnneeded
<1>u. ASSUME UNCHANGED <<runtime, clock>> PROVE ClockInv'
  BY <1>u, ClockStays
<1>1. ASSUME Requests PROVE ClockInv'
  <2>1. ASSUME NEW s, NEW c, Claim(s, c) PROVE ClockInv'
    <3>1. StartClock \/ UNCHANGED <<runtime, clock>>
      BY <2>1 DEF Claim
    <3> QED  BY <1>u, <3>1, ClockStarts
  <2>2. ASSUME NEW a, RestartRound(a) PROVE ClockInv'
    <3>1. CASE Advance("request", NoOne, runtime, series)
      <4>1. runtime' = runtime /\ series.status = "awaiting-restart"
        BY <2>2, <3>1 DEF RestartRound, Advance
      <4>2. runtime.status = "completed"
        BY <4>1 DEF RoundsInv, Rounds
      <4> QED  BY <4>1, <4>2, ClockUnneeded
    <3>2. CASE ~Advance("request", NoOne, runtime, series)
      BY <1>u, <2>2, <3>2 DEF RestartRound
    <3> QED  BY <3>1, <3>2
  <2>3. ASSUME Abandon PROVE ClockInv'
    BY <1>e, <2>3 DEF Abandon
  <2> QED  BY <1>1, <2>1, <2>2, <2>3, HandoverClock DEF Requests, ChangeController, Release
<1>2. ASSUME Sockets \/ UNCHANGED vars PROVE ClockInv'
  <2>1. UNCHANGED <<runtime, clock>>
    BY <1>2 DEF Sockets, Mint, Connect, Suspend, Resume, Disconnect, Elsewhere, vars, match
  <2> QED  BY <1>u, <2>1
<1>3. ASSUME Play PROVE ClockInv'
  <2>1. ASSUME NEW i, NEW a, NEW k, NEW w, Submit(i, a, k, w) PROVE ClockInv'
    <3>1. runtime.status = "running"
      BY <2>1 DEF Submit
    <3> QED  BY <2>1, <3>1, SettleClock DEF Submit
  <2>2. ASSUME NEW i, NEW a, Refuse(i, a) PROVE ClockInv'
    <3>1. runtime'.status = runtime.status /\ clock' = clock
      BY <1>0, <2>2 DEF Refuse, RuntimeOf
    <3> QED  BY <3>1, ClockStays
  <2> QED  BY <1>3, <2>1, <2>2 DEF Play
<1>4. ASSUME Clock PROVE ClockInv'
  <2>1. ASSUME TimerFires PROVE ClockInv'
    BY <1>u, <2>1 DEF TimerFires, match
  <2>2. ASSUME TickGoesOn PROVE ClockInv'
    <3>1. runtime' = runtime /\ clock' = (clock /\ runtime.status = "running")
      BY <2>2 DEF TickGoesOn, match
    <3> QED  BY <3>1 DEF ClockInv
  <2>3. ASSUME NEW w, TickFinishes(w) PROVE ClockInv'
    <3> DEFINE r == [runtime EXCEPT !.status = "completed", !.winner = w]
    <3>1. r.status = "completed"
      BY <1>0 DEF RuntimeOf
    <3>2. Settle("tick", NoOne, r, seat)
      BY <2>3 DEF TickFinishes
    <3> HIDE DEF r
    <3> QED  BY <3>1, <3>2, SettleClock
  <2>4. ASSUME TickFindsEnd PROVE ClockInv'
    BY <2>4, SettleClock DEF TickFindsEnd
  <2>5. ASSUME TickThrows PROVE ClockInv'
    BY <1>f, <2>5 DEF TickThrows
  <2> QED  BY <1>4, <2>1, <2>2, <2>3, <2>4, <2>5 DEF Clock
<1>5. ASSUME Continue PROVE ClockInv'
  <2>1. ASSUME InputHasStopped PROVE ClockInv'
    BY <1>u, <2>1 DEF InputHasStopped, Reassign
  <2>2. ASSUME NextRound PROVE ClockInv'
    BY <2>2, ClockStarts DEF NextRound
  <2>3. ASSUME Saved \/ LateSaved PROVE ClockInv'
    BY <1>u, <2>3 DEF Saved, LateSaved, match
  <2>4. ASSUME SaveFails PROVE ClockInv'
    BY <1>f, <1>h, <2>4 DEF SaveFails
  <2>5. ASSUME LateSaveFails PROVE ClockInv'
    BY <1>h, <2>5 DEF LateSaveFails
  <2> QED  BY <1>5, <2>1, <2>2, <2>3, <2>4, <2>5 DEF Continue
<1>6. ASSUME Maintenance \/ Overruns PROVE ClockInv'
  BY <1>e, <1>u, <1>6 DEF Maintenance, MaintainKeeps, MaintainExpires, Overruns, match
<1>7. ASSUME NextRoundFails PROVE ClockInv'
  BY <1>f, <1>u, <1>7 DEF NextRoundFails, match
<1>8. ASSUME Wait \/ TakeOver PROVE ClockInv'
  BY <1>u, <1>8 DEF Wait, TakeOver, match
<1>9. ASSUME Restart PROVE ClockInv'
  BY <1>9, ClockStarts DEF Restart
<1> QED  BY <1>1, <1>2, <1>3, <1>4, <1>5, <1>6, <1>7, <1>8, <1>9 DEF Next
(***************************************************************************)
(* How far a record has come: its epoch, its round, and what was done in   *)
(* this round and before.                                                  *)
(***************************************************************************)
Past(arch) == UNION {arch[r].log : r \in 1..Len(arch)}
Done(rec) == rec.runtime.log \cup Past(rec.archive)

Further(old, new) ==
    /\ new.runtime.epoch >= old.runtime.epoch
    /\ \/ new.series.round > old.series.round
       \/ /\ new.series.round = old.series.round
          /\ old.runtime.log \subseteq new.runtime.log
    /\ Done(old) \subseteq Done(new)

LEMMA PastAppended ==
    ASSUME NEW S, NEW q \in Seq(S), NEW x
    PROVE  Past(Append(q, x)) = Past(q) \cup x.log
<1> DEFINE n == Len(q) + 1
           p == Append(q, x)
<1>1. /\ n \in Nat /\ Len(p) = n /\ p[n] = x
      /\ \A r \in 1..Len(q) : p[r] = q[r]
      /\ 1..n = (1..Len(q)) \cup {n}
  OBVIOUS
<1> HIDE DEF n, p
<1>2. {p[r].log : r \in 1..n} = {q[r].log : r \in 1..Len(q)} \cup {x.log}
  <2>1. ASSUME NEW r \in 1..n PROVE p[r].log \in {q[t].log : t \in 1..Len(q)} \cup {x.log}
    <3>1. CASE r = n
      BY <1>1, <3>1
    <3>2. CASE r \in 1..Len(q)
      BY <1>1, <3>2
    <3> QED  BY <1>1, <3>1, <3>2
  <2>2. ASSUME NEW r \in 1..Len(q) PROVE q[r].log \in {p[t].log : t \in 1..n}
    BY <1>1
  <2>3. x.log \in {p[t].log : t \in 1..n}
    BY <1>1
  <2> QED  BY <2>1, <2>2, <2>3
<1> QED  BY <1>1, <1>2 DEF Past, p

LEMMA RecordNumbers ==
    ASSUME NEW rec \in RecordKind
    PROVE  rec.runtime.epoch \in Nat /\ rec.series.round \in Nat
BY DEF RecordKind, RuntimeOf, SeriesKind

LEMMA FurtherSame == ASSUME NEW rec \in RecordKind PROVE Further(rec, rec)
BY RecordNumbers DEF Further

LEMMA FurtherStill ==
    ASSUME NEW a \in RecordKind, NEW b \in RecordKind, NEW c \in RecordKind,
           Further(a, b), Further(b, c)
    PROVE  Further(a, c)
<1>1. c.runtime.epoch >= a.runtime.epoch
  BY RecordNumbers DEF Further
<1>2. Done(a) \subseteq Done(c)
  BY DEF Further
<1>3. \/ c.series.round > a.series.round
      \/ /\ c.series.round = a.series.round
         /\ a.runtime.log \subseteq c.runtime.log
  <2>1. CASE b.series.round > a.series.round
    <3>1. c.series.round >= b.series.round
      BY RecordNumbers DEF Further
    <3> QED  BY <2>1, <3>1, RecordNumbers
  <2>2. CASE c.series.round > b.series.round
    <3>1. b.series.round >= a.series.round
      BY RecordNumbers DEF Further
    <3> QED  BY <2>2, <3>1, RecordNumbers
  <2>3. CASE ~(b.series.round > a.series.round) /\ ~(c.series.round > b.series.round)
    BY <2>3 DEF Further
  <2> QED  BY <2>1, <2>2, <2>3
<1> QED  BY <1>1, <1>2, <1>3 DEF Further

(***************************************************************************)
(* What was saved on top of what: the memory is ahead of what it has sent  *)
(* to the store, and of the store itself unless another worker has written *)
(* it.                                                                     *)
(***************************************************************************)
Behind(rec) == Further(rec, Record) /\ (op.pc = "create" => rec.series.round < series.round)
Pending(o) ==
    o.pc = "save" =>
        /\ Behind(o.saved) /\ o.version <= store.version
        /\ o.version = store.version => Further(store.record, o.saved)
OrderInv ==
    /\ version <= store.version
    /\ version = store.version => Behind(store.record)
    /\ Pending(op) /\ Pending(late)
    /\ op.pc = "create" => runtime.log \subseteq Past(archive)

LEMMA OrderInit == Init => OrderInv
<1> SUFFICES ASSUME Init PROVE OrderInv
  OBVIOUS
<1>1. Record \in RecordKind
  BY TypeInit, RecordTyped DEF TypeInv, RecordOK
<1>2. store.record = Record /\ op.pc = "idle" /\ late.pc = "idle" /\ version = 1 /\ store.version = 1
  BY DEF Init, Idle
<1> QED  BY <1>1, <1>2, FurtherSame DEF OrderInv, Pending, Behind

\* In terms of the memory.
LEMMA FurtherMemory ==
    ASSUME TypeInv, TypeInv',
           runtime'.epoch >= runtime.epoch,
           \/ series'.round > series.round
           \/ series'.round = series.round /\ runtime.log \subseteq runtime'.log,
           runtime.log \cup Past(archive) \subseteq runtime'.log \cup Past(archive')
    PROVE  Further(Record, Record')
<1>1. Record.runtime.epoch = runtime.epoch /\ Record.runtime.log = runtime.log
      /\ Record.series = series /\ Record.archive = archive
  BY DEF Record, TypeInv, MatchTyped, RuntimeOf
<1>2. PICK new : new = Record'
  OBVIOUS
<1>3. new.runtime.epoch = runtime'.epoch /\ new.runtime.log = runtime'.log
      /\ new.series = series' /\ new.archive = archive'
  BY <1>2, RecordParts
<1>4. Further(Record, new)
  BY <1>1, <1>3 DEF Further, Done
<1> QED  BY <1>2, <1>4

LEMMA RecordsTyped == ASSUME TypeInv, TypeInv' PROVE Record \in RecordKind /\ Record' \in RecordKind
BY RecordTyped, RecordTypedNext DEF TypeInv, RecordOK
LEMMA AdvanceFurther ==
    ASSUME TypeInv, TypeInv', NEW kind, NEW action, NEW r \in RuntimeOf, NEW ser,
           Advance(kind, action, r, ser), ser.round = series.round,
           r.epoch = runtime.epoch, runtime.log \subseteq r.log
    PROVE  /\ Further(Record, Record') /\ series'.round = series.round + 1
           /\ runtime'.log = r.log /\ r.log \subseteq Past(archive')
<1>0. archive \in Seq(ArchiveKind) /\ runtime.epoch \in Nat /\ series.round \in Nat
  BY DEF TypeInv, MatchTyped, RuntimeOf, SeriesKind
<1> DEFINE x == [log |-> r.log, winner |-> r.winner]
<1>1. /\ archive' = Append(archive, x) /\ x.log = r.log /\ runtime' = r
      /\ series' = [ser EXCEPT !.round = @ + 1, !.status = "active", !.votes = {}]
  BY DEF Advance
<1>2. series'.round = series.round + 1
  <2>1. series' \in SeriesKind
    BY DEF TypeInv, MatchTyped
  <2> QED  BY <1>1, <2>1 DEF SeriesKind
<1> HIDE DEF x
<1>3. Past(archive') = Past(archive) \cup r.log
  BY <1>0, <1>1, PastAppended
<1>4. runtime'.epoch >= runtime.epoch /\ series'.round > series.round
  BY <1>0, <1>1, <1>2
<1>5. runtime.log \cup Past(archive) \subseteq runtime'.log \cup Past(archive')
  BY <1>1, <1>3
<1>6. Further(Record, Record')
  BY <1>4, <1>5, FurtherMemory
<1> QED  BY <1>1, <1>2, <1>3, <1>6

\* Unless a round begins or the worker does, the memory goes forward.
LEMMA MemoryFurther ==
    ASSUME TypeInv, TypeInv', Quiet \/ Ends \/ Advances
              \/ (\E kind \in {"action", "tick"}, action \in Actions \cup {NoOne}, r \in RuntimeOf :
                    Settles(kind, action, r)),
           op.pc = "create" => runtime.log \subseteq Past(archive)
    PROVE  /\ Further(Record, Record')
           /\ op'.pc = "create" => \/ op.pc = "create" /\ series'.round = series.round
                                   \/ series'.round = series.round + 1
           /\ op'.pc = "create" => runtime'.log \subseteq Past(archive')
<1>0. runtime \in RuntimeOf /\ series \in SeriesKind /\ runtime.epoch \in Nat
  BY DEF TypeInv, MatchTyped, RuntimeOf
<1>1. CASE Quiet
  <2>1. Further(Record, Record')
    BY <1>0, <1>1, FurtherMemory DEF Quiet
  <2> QED  BY <1>1, <2>1 DEF Quiet
<1>2. CASE Ends
  <2>1. PICK status : End(status)
    BY <1>2 DEF Ends
  <2>2. /\ runtime'.epoch = runtime.epoch /\ runtime'.log = runtime.log
        /\ series'.round = series.round /\ archive' = archive
    BY <1>0, <2>1 DEF End, Ended, RuntimeOf, SeriesKind
  <2>3. Further(Record, Record')
    BY <1>0, <2>2, FurtherMemory
  <2> QED  BY <1>2, <2>3 DEF Ends
<1>3. CASE Advances
  BY <1>0, <1>3, AdvanceFurther DEF Advances
<1>4. ASSUME NEW kind, NEW action, NEW r \in RuntimeOf, Settles(kind, action, r)
      PROVE  /\ Further(Record, Record')
             /\ op'.pc = "create" => series'.round = series.round + 1
             /\ op'.pc = "create" => runtime'.log \subseteq Past(archive')
  <2> DEFINE ser == Finished(series, r)
  <2>1. r.epoch = runtime.epoch /\ runtime.log \subseteq r.log /\ r.status = "completed"
    BY <1>4 DEF Settles
  <2>2. ser.round = series.round
    BY <1>0 DEF Finished, SeriesKind
  <2>3. PICK seats : Settle(kind, action, r, seats)
    BY <1>4 DEF Settles
  <2>4. CASE GoesOn(ser)
    <3>1. Advance(kind, action, r, ser)
      BY <2>1, <2>3, <2>4 DEF Settle
    <3> HIDE DEF ser
    <3> QED  BY <2>1, <2>2, <3>1, AdvanceFurther
  <2>5. CASE ~GoesOn(ser)
    <3>1. runtime' = r /\ series' = ser /\ archive' = archive /\ Save(kind, action)
      BY <2>1, <2>3, <2>5 DEF Settle
    <3>2. op'.pc = "save"
      BY <3>1, NotCreate
    <3> HIDE DEF ser
    <3>3. Further(Record, Record')
      BY <1>0, <2>1, <2>2, <3>1, FurtherMemory
    <3> QED  BY <3>2, <3>3
  <2> QED  BY <2>4, <2>5
<1> QED  BY <1>1, <1>2, <1>3, <1>4

LEMMA BehindNext ==
    ASSUME TypeInv, TypeInv', [Next]_vars, ~Restart, NEW rec \in RecordKind, Behind(rec),
           op.pc = "create" => runtime.log \subseteq Past(archive)
    PROVE  Further(rec, Record') /\ (op'.pc = "create" => rec.series.round < series'.round)
<1>0. /\ Record \in RecordKind /\ Record' \in RecordKind /\ Record.series = series
      /\ rec.series.round \in Nat /\ series.round \in Nat
      /\ Further(rec, Record)
  BY RecordsTyped, RecordNumbers DEF Behind, Record
<1>1. CASE NextRound
  <2>1. /\ op.pc = "create" /\ op'.pc = "save" /\ archive' = archive /\ series' = series
        /\ runtime'.epoch = runtime.epoch + 1
    BY <1>1, NotCreate DEF NextRound, NewGame
  <2>2. rec.series.round < series.round /\ runtime.log \subseteq Past(archive)
    BY <2>1 DEF Behind
  <2>3. PICK new \in RecordKind : new = Record'
    BY <1>0
  <2>4. /\ new.series = series /\ new.archive = archive
        /\ new.runtime.epoch = runtime.epoch + 1
    BY <2>1, <2>3, RecordParts
  <2>5. Record.runtime.epoch = runtime.epoch /\ runtime.epoch \in Nat
    BY DEF Record, TypeInv, MatchTyped, RuntimeOf
  <2>6. new.runtime.epoch >= rec.runtime.epoch
    BY <1>0, <2>4, <2>5, RecordNumbers DEF Further
  <2>7. Done(Record) \subseteq Done(new)
    <3>1. Record.runtime.log = runtime.log /\ Record.archive = archive
      BY DEF Record, TypeInv, MatchTyped, RuntimeOf
    <3> QED  BY <2>2, <2>4, <3>1 DEF Done
  <2>8. Further(rec, new)
    BY <1>0, <2>2, <2>4, <2>6, <2>7 DEF Further
  <2> QED  BY <2>1, <2>3, <2>8
<1>2. CASE ~NextRound
  <2>1. Quiet \/ Ends \/ Advances
              \/ (\E kind \in {"action", "tick"}, action \in Actions \cup {NoOne}, r \in RuntimeOf :
                    Settles(kind, action, r))
    BY <1>2, Steps DEF Moves
  <2>2. /\ Further(Record, Record')
        /\ op'.pc = "create" => \/ op.pc = "create" /\ series'.round = series.round
                                \/ series'.round = series.round + 1
    BY <2>1, MemoryFurther
  <2>3. Further(rec, Record')
    BY <1>0, <2>2, FurtherStill
  <2>4. rec.series.round <= series.round
    BY <1>0 DEF Further
  <2> QED  BY <1>0, <2>2, <2>3, <2>4 DEF Behind
<1> QED  BY <1>1, <1>2

LEMMA OrderRestart == TypeInv /\ TypeInv' /\ Restart => OrderInv'
<1> SUFFICES ASSUME TypeInv, TypeInv', Restart PROVE OrderInv'
  OBVIOUS
<1>1. /\ version' = store.version + 1 /\ store'.version = store.version + 1
      /\ store'.record = Record' /\ op'.pc = "idle" /\ late'.pc = "idle"
      /\ store.version \in Nat
  BY DEF Restart, Idle, TypeInv, DiskTyped
<1>2. Further(Record', Record')
  BY RecordsTyped, FurtherSame
<1> QED  BY <1>1, <1>2 DEF OrderInv, Pending, Behind

BehindAfter(rec) ==
    Further(rec, Record') /\ (op'.pc = "create" => rec.series.round < series'.round)

LEMMA OrderNext == TypeInv /\ OrderInv /\ [Next]_vars => OrderInv'
<1> SUFFICES ASSUME TypeInv, TypeInv', OrderInv, [Next]_vars, ~Restart PROVE OrderInv'
  BY TypeNext, OrderRestart
<1>0. /\ version \in Nat /\ store.version \in Nat /\ store.record \in RecordKind
      /\ Record' \in RecordKind
      /\ Stores
      /\ op.pc = "create" => runtime.log \subseteq Past(archive)
      /\ version <= store.version
  BY RecordsTyped, StoreSteps DEF TypeInv, DiskTyped, OrderInv
<1>1. ASSUME NEW rec \in RecordKind, Behind(rec) PROVE BehindAfter(rec)
  BY <1>0, <1>1, BehindNext DEF BehindAfter
<1>2. ASSUME op'.pc \in {"idle", "save"} PROVE BehindAfter(Record')
  BY <1>0, <1>2, FurtherSame DEF BehindAfter
<1>3. \A o \in {op, late} : o.pc = "save" =>
          /\ BehindAfter(o.saved) /\ o.version \in Nat /\ o.version <= store.version
          /\ o.version = store.version => Further(store.record, o.saved)
  BY <1>1 DEF OrderInv, Pending, TypeInv, DiskTyped, Typed
<1>4. version = store.version => BehindAfter(store.record)
  BY <1>0, <1>1 DEF OrderInv
<1>5. \/ store' = store /\ version' = version
      \/ /\ store'.version = store.version + 1 /\ version' <= store'.version
         /\ version' = store'.version =>
               \E o \in {op, late} : o.pc = "save" /\ store'.record = o.saved
  <2>1. CASE StoreWritten
    <3>1. PICK o \in {op, late} :
            /\ o.pc = "save" /\ o.version = store.version /\ Written(o)
            /\ version' = version \/ version' = o.version + 1
      BY <2>1 DEF StoreWritten
    <3>2. store'.version = store.version + 1 /\ store'.record = o.saved
      BY <3>1 DEF Written
    <3> QED  BY <1>0, <3>1, <3>2
  <2>2. CASE TakeOver
    <3>1. store'.version = store.version + 1 /\ version' = version
      BY <2>2 DEF TakeOver
    <3> QED  BY <1>0, <3>1
  <2> QED  BY <1>0, <2>1, <2>2 DEF Stores
<1>6. store'.version \in Nat /\ version' <= store'.version
  BY <1>0, <1>5
<1>7. version' = store'.version => BehindAfter(store'.record)
  <2>1. CASE store' = store /\ version' = version
    BY <1>4, <2>1
  <2>2. CASE /\ store'.version = store.version + 1 /\ version' <= store'.version
             /\ version' = store'.version =>
                   \E o \in {op, late} : o.pc = "save" /\ store'.record = o.saved
    BY <1>3, <2>2
  <2> QED  BY <1>5, <2>1, <2>2
<1> DEFINE Sent(o) == /\ BehindAfter(o.saved) /\ o.version <= store'.version
                      /\ o.version = store'.version => Further(store'.record, o.saved)
<1>8. \A o \in {op, late} : o.pc = "save" => Sent(o)
  <2> SUFFICES ASSUME NEW o \in {op, late}, o.pc = "save" PROVE Sent(o)
    OBVIOUS
  <2>1. CASE store' = store
    BY <1>3, <2>1
  <2>2. CASE store'.version = store.version + 1
    BY <1>0, <1>3, <2>2
  <2> QED  BY <1>5, <2>1, <2>2
<1>9. ASSUME NEW o, Fresh(o), op'.pc \in {"idle", "save"} PROVE Sent(o)
  <2>1. o.version = version /\ o.saved = Record' /\ BehindAfter(o.saved)
    BY <1>2, <1>9 DEF Fresh
  <2>2. CASE store' = store
    <3>1. version = store.version => Further(store.record, Record')
      BY <1>4 DEF BehindAfter
    <3> QED  BY <1>0, <2>1, <2>2, <3>1
  <2>3. CASE store'.version = store.version + 1
    BY <1>0, <2>1, <2>3
  <2> QED  BY <1>5, <2>2, <2>3
<1> HIDE DEF Sent
<1>10. op'.pc = "save" => Sent(op')
  BY <1>0, <1>8, <1>9 DEF Stores, Fresh
<1>11. late'.pc = "save" => Sent(late')
  BY <1>0, <1>8, <1>9 DEF Stores
<1>12. op'.pc = "create" => runtime'.log \subseteq Past(archive')
  <2>1. CASE NextRound
    BY <2>1, NotCreate DEF NextRound
  <2>2. CASE ~NextRound
    BY <1>0, <2>2, Steps, MemoryFurther DEF Moves
  <2> QED  BY <2>1, <2>2
<1>13. Pending(op)' /\ Pending(late)'
  BY <1>10, <1>11 DEF Sent, Pending, Behind, BehindAfter
<1>14. version' = store'.version => Behind(store.record)'
  BY <1>7 DEF Behind, BehindAfter
<1> QED  BY <1>6, <1>12, <1>13, <1>14 DEF OrderInv
(***************************************************************************)
(* The record in the store comes to be behind itself: whatever is written  *)
(* was made from it, and a restart goes on with it.                        *)
(***************************************************************************)
LEMMA EpochRaised ==
    ASSUME NEW old \in RecordKind, NEW new,
           new.runtime.epoch = old.runtime.epoch + 1, new.runtime.log = old.runtime.log,
           new.series = old.series, new.archive = old.archive
    PROVE  Further(old, new)
<1>1. new.runtime.epoch >= old.runtime.epoch
  BY RecordNumbers
<1>2. Done(old) \subseteq Done(new)
  BY DEF Done
<1> QED  BY <1>1, <1>2 DEF Further

LEMMA StoreFurther ==
    ASSUME TypeInv, TypeInv', OrderInv, [Next]_vars
    PROVE  store' = store \/ Further(store.record, store'.record)
<1>0. store.record \in RecordKind
  BY DEF TypeInv, DiskTyped
<1>1. CASE Restart
  <2>1. /\ runtime' = [store.record.runtime EXCEPT !.epoch = @ + 1]
        /\ series' = store.record.series /\ archive' = store.record.archive
        /\ store'.record = Record'
    BY <1>1 DEF Restart
  <2>2. PICK new : new = Record'
    OBVIOUS
  <2>3. new.runtime.epoch = runtime'.epoch /\ new.runtime.log = runtime'.log
        /\ new.series = series' /\ new.archive = archive'
    BY <2>2, RecordParts
  <2>4. store.record.runtime \in RuntimeOf
    BY <1>0 DEF RecordKind
  <2>5. /\ runtime'.epoch = store.record.runtime.epoch + 1
        /\ runtime'.log = store.record.runtime.log
    BY <2>1, <2>4 DEF RuntimeOf
  <2>6. Further(store.record, new)
    BY <1>0, <2>1, <2>3, <2>5, EpochRaised
  <2> QED  BY <2>1, <2>2, <2>6
<1>2. CASE StoreWritten
  <2>1. PICK o \in {op, late} : o.pc = "save" /\ o.version = store.version /\ Written(o)
    BY <1>2 DEF StoreWritten
  <2>2. store'.record = o.saved
    BY <2>1 DEF Written
  <2> QED  BY <2>1, <2>2 DEF OrderInv, Pending
<1>3. CASE TakeOver
  <2>1. store'.record = TakenOver
    BY <1>3 DEF TakeOver, TakenOver
  <2>2. /\ TakenOver.runtime.epoch = store.record.runtime.epoch + 1
        /\ TakenOver.runtime.log = store.record.runtime.log
        /\ TakenOver.series = store.record.series
        /\ TakenOver.archive = store.record.archive
    BY <1>0 DEF TakenOver, RecordKind, RuntimeOf
  <2> QED  BY <1>0, <2>1, <2>2, EpochRaised
<1> QED  BY <1>1, <1>2, <1>3, StoreSteps DEF Stores

(***************************************************************************)
(* What has been answered, or is about to be, is in the record that the    *)
(* answer waits for.                                                       *)
(***************************************************************************)
AnswerInv ==
    /\ answered \subseteq Done(store.record)
    /\ op.kind = "action" /\ op.pc = "save" => op.action \in Done(op.saved)
    /\ op.kind = "action" /\ op.pc = "create" => op.action \in Past(archive)

Answers ==
    \/ op' = op \/ op'.kind # "action" \/ NextRound
    \/ op'.action \in runtime'.log /\ (op'.pc = "save" => op'.saved = Record')

LEMMA AnswerInit == Init => AnswerInv
BY DEF Init, Idle, AnswerInv

LEMMA SaveAnswers ==
    ASSUME NEW kind, NEW action, Save(kind, action)
    PROVE  /\ op'.kind = kind /\ op'.action = action /\ op'.pc = "save"
           /\ op'.saved = Record'
<1>1. Saving(kind, action).kind = kind /\ Saving(kind, action).action = action
  BY DEF Saving
<1>2. Saving(kind, action).pc = "save" /\ Saving(kind, action).saved = Record'
  BY DEF Saving
<1> QED  BY <1>1, <1>2 DEF Save

LEMMA SettleAnswers ==
    ASSUME NEW kind, NEW action, NEW r, NEW seats, Settle(kind, action, r, seats),
           kind = "action" => action \in r.log
    PROVE  Answers
<1>1. runtime' = r /\ (Save(kind, action) \/ \E ser : Advance(kind, action, r, ser))
  BY DEF Settle, Advance
<1>2. CASE Save(kind, action)
  BY <1>1, <1>2, SaveAnswers DEF Answers
<1>3. CASE \E ser : Advance(kind, action, r, ser)
  <2>1. op'.kind = kind /\ op'.action = action /\ op'.pc = "create"
    BY <1>3 DEF Advance, Idle
  <2> QED  BY <1>1, <2>1 DEF Answers
<1> QED  BY <1>1, <1>2, <1>3

LEMMA IdleAnswers == op' = Idle => Answers
BY DEF Idle, Answers

LEMMA AskedAnswers ==
    ASSUME NEW kind, kind # "action", NEW action, Save(kind, action) PROVE Answers
BY SaveAnswers DEF Answers

LEMMA HandoverAnswers == ASSUME NEW s, NEW c, Handover(s, c) PROVE Answers
<1>1. CASE Reassign(s, c)
  BY <1>1, AskedAnswers DEF Reassign
<1>2. CASE ~Reassign(s, c)
  <2>1. op' = [Idle EXCEPT !.pc = "stop", !.action = <<s, c>>]
    BY <1>2 DEF Handover
  <2>2. op'.kind = "none"
    BY <2>1 DEF Idle
  <2> QED  BY <2>2 DEF Answers
<1> QED  BY <1>1, <1>2

LEMMA AdvanceAnswers ==
    ASSUME NEW r, NEW ser, Advance("request", NoOne, r, ser) PROVE Answers
BY DEF Advance, Idle, Answers

LEMMA AnswerSteps == TypeInv /\ [Next]_vars => Answers
<1> SUFFICES ASSUME TypeInv, [Next]_vars PROVE Answers
  OBVIOUS
<1>1. ASSUME Requests PROVE Answers
  <2>1. ASSUME NEW s, NEW c, Claim(s, c) PROVE Answers
    BY <2>1, AskedAnswers DEF Claim
  <2>2. ASSUME NEW a, RestartRound(a) PROVE Answers
    BY <2>2, AskedAnswers, AdvanceAnswers DEF RestartRound
  <2>3. ASSUME Abandon PROVE Answers
    BY <2>3, AskedAnswers DEF Abandon, End
  <2> QED  BY <1>1, <2>1, <2>2, <2>3, HandoverAnswers
           DEF Requests, ChangeController, Release
<1>2. ASSUME Play PROVE Answers
  <2>1. ASSUME NEW i, NEW a, NEW k, NEW w, Submit(i, a, k, w) PROVE Answers
    <3>1. a \in Played(a, session[i].seat, k, w).log
      BY DEF Played, TypeInv, MatchTyped, RuntimeOf
    <3> QED  BY <2>1, <3>1, SettleAnswers DEF Submit
  <2>2. ASSUME NEW i, NEW a, Refuse(i, a) PROVE Answers
    BY <2>2 DEF Refuse, disk, Answers
  <2> QED  BY <1>2, <2>1, <2>2 DEF Play
<1>3. ASSUME Clock PROVE Answers
  <2>1. ASSUME TimerFires PROVE Answers
    BY <2>1 DEF TimerFires, disk, Answers
  <2>2. ASSUME TickGoesOn PROVE Answers
    <3>1. op' = op \/ Save("tick", NoOne)
      BY <2>2 DEF TickGoesOn, disk
    <3> QED  BY <3>1, AskedAnswers DEF Answers
  <2>3. ASSUME NEW w, TickFinishes(w) PROVE Answers
    BY <2>3, SettleAnswers DEF TickFinishes
  <2>4. ASSUME TickFindsEnd PROVE Answers
    BY <2>4, SettleAnswers DEF TickFindsEnd
  <2>5. ASSUME TickThrows PROVE Answers
    BY <2>5, IdleAnswers DEF TickThrows, TickFails
  <2> QED  BY <1>3, <2>1, <2>2, <2>3, <2>4, <2>5 DEF Clock
<1>4. ASSUME Continue PROVE Answers
  <2>1. ASSUME InputHasStopped PROVE Answers
    BY <2>1, AskedAnswers DEF InputHasStopped, Reassign
  <2>2. ASSUME SaveFails \/ Saved PROVE Answers
    BY <2>2, IdleAnswers DEF SaveFails, Saved, TickFails
  <2>3. ASSUME LateSaved \/ LateSaveFails PROVE Answers
    BY <2>3 DEF LateSaved, LateSaveFails, Answers
  <2> QED  BY <1>4, <2>1, <2>2, <2>3 DEF Continue, Answers
<1>5. ASSUME Maintenance \/ Overruns PROVE Answers
  <2>1. ASSUME NEW status, End(status) PROVE Answers
    BY <2>1, AskedAnswers DEF End
  <2>2. ASSUME MaintainKeeps PROVE Answers
    BY <2>2 DEF MaintainKeeps, disk, Answers
  <2> QED  BY <1>5, <2>1, <2>2 DEF Maintenance, MaintainExpires, Overruns
<1>6. ASSUME NextRoundFails \/ Restart PROVE Answers
  BY <1>6, IdleAnswers DEF NextRoundFails, Restart, TickFails
<1>7. ASSUME Sockets \/ Wait \/ TakeOver \/ UNCHANGED vars PROVE Answers
  <2>1. op' = op
    BY <1>7 DEF Sockets, Mint, Connect, Suspend, Resume, Disconnect, Elsewhere, Wait,
                TakeOver, disk, vars
  <2> QED  BY <2>1 DEF Answers
<1> QED  BY <1>1, <1>2, <1>3, <1>4, <1>5, <1>6, <1>7 DEF Next

LEMMA AnswersGiven ==
    [Next]_vars => answered' = answered
                   \/ /\ Saved /\ answered' \subseteq answered \cup {op.action}
                      /\ op.kind = "action" \/ answered' = answered
<1>1. Requests => answered' = answered
  <2>1. \A s, c : Handover(s, c) \/ Claim(s, c) => answered' = answered
    BY DEF Handover, Reassign, Claim
  <2>2. \A a : RestartRound(a) => answered' = answered
    BY DEF RestartRound
  <2> QED  BY <2>1, <2>2 DEF Requests, ChangeController, Release, Abandon, End
<1>2. Sockets \/ Play \/ Clock \/ Wait \/ UNCHANGED vars => answered' = answered
  BY DEF Sockets, Mint, Connect, Suspend, Resume, Disconnect, Elsewhere, Play, Submit,
         Refuse, Wait, vars, Clock, TimerFires, TickGoesOn, TickFindsEnd, TickThrows,
         TickFinishes, TickFrame
<1>3. InputHasStopped \/ NextRound \/ SaveFails \/ LateSaved \/ LateSaveFails
      => answered' = answered
  BY DEF InputHasStopped, Reassign, NextRound, SaveFails, LateSaved, LateSaveFails
<1>4. Maintenance \/ NextRoundFails \/ Overruns \/ TakeOver \/ Restart
      => answered' = answered
  BY DEF Maintenance, MaintainKeeps, MaintainExpires, NextRoundFails, Overruns, TakeOver,
         Restart, End
<1>5. Saved => /\ answered' \subseteq answered \cup {op.action}
               /\ op.kind = "action" \/ answered' = answered
  BY DEF Saved
<1> QED  BY <1>1, <1>2, <1>3, <1>4, <1>5 DEF Next, Continue

LEMMA AnswerNext == TypeInv /\ OrderInv /\ AnswerInv /\ [Next]_vars => AnswerInv'
<1> SUFFICES ASSUME TypeInv, TypeInv', OrderInv, OrderInv', AnswerInv, [Next]_vars
             PROVE  AnswerInv'
  BY TypeNext, OrderNext
<1>1. Done(store.record) \subseteq Done(store'.record)
  BY StoreFurther DEF Further
<1>2. answered' \subseteq Done(store'.record)
  <2>1. CASE answered' = answered
    BY <1>1, <2>1 DEF AnswerInv
  <2>2. ASSUME Saved, answered' \subseteq answered \cup {op.action}, op.kind = "action"
        PROVE  answered' \subseteq Done(store'.record)
    <3>1. op.pc = "save" /\ store'.record = op.saved
      BY <2>2 DEF Saved, WriteLands, Written
    <3> QED  BY <1>1, <2>2, <3>1 DEF AnswerInv
  <2> QED  BY <2>1, <2>2, AnswersGiven
<1>3. op'.pc = "save" /\ op'.action \in runtime'.log /\ op'.saved = Record'
      => op'.action \in Done(op'.saved)
  <2>1. PICK new : new = Record'
    OBVIOUS
  <2>2. new.runtime.log = runtime'.log
    BY <2>1, RecordParts
  <2>3. runtime'.log \subseteq Done(new)
    BY <2>2 DEF Done
  <2> QED  BY <2>1, <2>3
<1>4. op'.pc = "create" /\ op'.action \in runtime'.log => op'.action \in Past(archive')
  BY DEF OrderInv
<1>5. CASE op' = op
  <2>1. op.pc = "create" => archive' = archive
    <3>1. op.pc = "create" => ~NextRound /\ ~Restart
      <4>1. NextRound => op'.pc = "save"
        BY NotCreate DEF NextRound
      <4>2. Restart => op'.pc = "idle"
        BY DEF Restart, Idle
      <4> QED  BY <1>5, <4>1, <4>2
    <3> QED  BY <3>1, Steps DEF Moves, Quiet, Ends, Advances, Settles
  <2> QED  BY <1>2, <1>5, <2>1 DEF AnswerInv
<1>6. CASE NextRound
  <2>1. /\ op.pc = "create" /\ op'.pc = "save" /\ op'.kind = op.kind
        /\ op'.action = op.action /\ op'.saved = Record' /\ archive' = archive
    BY <1>6, SaveAnswers DEF NextRound
  <2>2. PICK new : new = Record'
    OBVIOUS
  <2>3. new.archive = archive'
    BY <2>2, RecordParts
  <2>4. Past(archive) \subseteq Done(new)
    BY <2>1, <2>3 DEF Done
  <2> QED  BY <1>2, <2>1, <2>2, <2>4 DEF AnswerInv
<1> QED  BY <1>2, <1>3, <1>4, <1>5, <1>6, AnswerSteps DEF AnswerInv, Answers
(***************************************************************************)
(* All of it together.                                                     *)
(***************************************************************************)
MatchInv ==
    /\ TypeInv /\ OpenInv /\ AgeInv /\ SessionInv
    /\ RoundsInv /\ CountInv /\ ClockInv
    /\ OrderInv /\ AnswerInv

LEMMA AlwaysMatch == Spec => []MatchInv
<1>1. Init => MatchInv
  BY TypeInit, OpenInit, AgeInit, SessionInit, RoundsInit, ClockInit, OrderInit, AnswerInit
  DEF MatchInv
<1>2. MatchInv /\ [Next]_vars => MatchInv'
  BY TypeNext, OpenNext, AgeNext, SessionNext, RoundsNext, CountNext, ClockNext, OrderNext,
     AnswerNext
  DEF MatchInv
<1> QED  BY <1>1, <1>2, PTL DEF Spec

LEMMA TypesHold == MatchInv => TypeOK
<1> SUFFICES ASSUME MatchInv PROVE TypeOK
  OBVIOUS
<1>0. /\ TypeInv /\ AgeInv /\ SessionInv /\ RoundsInv /\ OrderInv
      /\ MaxRounds \in Nat /\ MaxRequests \in Nat
  BY Bounds DEF MatchInv
<1>1. seat \in [Seats -> SeatOf]
  <2>1. seat \in [Seats -> SeatKind] /\ requests \in 0..MaxRequests /\ Aged(seat, requests)
    BY <1>0 DEF TypeInv, MatchTyped, RestTyped, AgeInv
  <2>2. ASSUME NEW s \in Seats PROVE seat[s] \in SeatOf
    <3>1. seat[s] \in SeatKind
      BY <2>1
    <3>2. seat[s].gen \in 0..MaxRequests
      BY <1>0, <2>1, <3>1 DEF Aged, SeatKind
    <3> QED  BY <3>1, <3>2 DEF SeatKind, SeatOf
  <2> QED  BY <2>1, <2>2
<1>2. \A i \in Sessions :
         /\ session[i].state \in {"none", "minted", "connected", "suspended", "gone"}
         /\ Live(i) => session[i].seat \in Seats /\ session[i].who \in Controllers
  BY <1>0, LiveHasTicket DEF TypeInv, RestTyped, SessionKind, SessionInv
<1>3. series \in SeriesKind /\ archive \in Seq(ArchiveKind) /\ runtime \in RuntimeOf
  BY <1>0 DEF TypeInv, MatchTyped
<1>4. /\ series.round \in Nat \ {0} /\ series.votes \subseteq Actors
      /\ series.status \in {"active", "awaiting-restart", "complete"}
      /\ series.scores \in [Seats -> Nat]
  BY <1>3 DEF SeriesKind
<1>5. Rounds(runtime, series, archive)
  BY <1>0 DEF RoundsInv
<1>6. series.round \in 1..MaxRounds /\ Len(archive) < MaxRounds
  BY <1>0, <1>4, <1>5 DEF Rounds
<1>7. series.scores \in [Seats -> 0..MaxRounds]
  <2>1. ASSUME NEW s \in Seats PROVE series.scores[s] \in 0..MaxRounds
    <3>1. series.scores[s] \in Nat
      BY <1>4
    <3>2. series.scores[s] <= series.round
      BY <1>4, <1>5, <3>1 DEF Rounds
    <3> QED  BY <1>0, <1>6, <3>1, <3>2
  <2> QED  BY <1>4, <2>1
<1>8. /\ op.pc \in {"idle", "stop", "create", "save"} /\ late.pc \in {"idle", "save"}
      /\ version <= store.version /\ answered \subseteq Actions
  BY <1>0 DEF TypeInv, DiskTyped, RestTyped, OrderInv
<1> QED  BY <1>1, <1>2, <1>3, <1>4, <1>6, <1>7, <1>8 DEF TypeOK

(***************************************************************************)
(* The record of a match makes sense whatever fails: the state has its     *)
(* types, each finished round is counted once and archived once, in memory *)
(* and in the store, a running realtime match has its clock when the queue *)
(* is empty, and an action that was answered "accepted" stays in the saved *)
(* record (finishRound, advanceRound, startClock, persist,                 *)
(* submitActionInternal, LocalArcadePlatform.create).                      *)
(***************************************************************************)
THEOREM RecordsMakeSense == Spec => []RecordMakesSense
<1>1. ASSUME MatchInv, ~faults.create PROVE Adds(Record) /\ Adds(store.record)
  <2>1. Record \in RecordKind /\ store.record \in RecordKind /\ store.record \in Stored
    BY <1>1, RecordTyped DEF MatchInv, TypeInv, DiskTyped, RecordOK, Stored
  <2>2. /\ Rounds(runtime, series, archive) /\ Tally(runtime, series, archive)
        /\ Rounds(store.record.runtime, store.record.series, store.record.archive)
        /\ Tally(store.record.runtime, store.record.series, store.record.archive)
    BY <1>1, <2>1 DEF MatchInv, RoundsInv, CountInv
  <2>3. /\ Record.series = series /\ Record.archive = archive
        /\ Record.runtime.status = runtime.status
        /\ Record.runtime.winner = runtime.winner
    BY <1>1 DEF Record, MatchInv, TypeInv, MatchTyped, RuntimeOf
  <2>4. Tally(Record.runtime, Record.series, Record.archive)
    BY <2>2, <2>3, SameRounds
  <2>5. Adds(Record)
    BY <2>1, <2>2, <2>3, <2>4, AddsIsTally DEF Rounds
  <2>6. Adds(store.record)
    BY <2>1, <2>2, AddsIsTally DEF Rounds
  <2> QED  BY <2>5, <2>6
<1>2. MatchInv => RoundsAddUp
  BY <1>1 DEF RoundsAddUp
<1>3. MatchInv => ClockRuns
  BY DEF MatchInv, ClockInv, ClockRuns
<1>4. MatchInv => AnsweredIsSaved
  BY DEF MatchInv, AnswerInv, AnsweredIsSaved, SavedActions, Done, Past
<1>5. MatchInv => RecordMakesSense
  BY <1>2, <1>3, <1>4, TypesHold DEF RecordMakesSense
<1> QED  BY <1>5, AlwaysMatch, PTL

(***************************************************************************)
(* The saved match only goes forward: no write of a worker that was        *)
(* replaced, of a failed tick or after a restart drops a round or an       *)
(* action of the current one (persist, recordVersion).                     *)
(***************************************************************************)
THEOREM SavedOnlyGoesForward == Spec => SavedGoesForward
<1> DEFINE Onward == LET old == store.record
                         new == store'.record
                     IN  /\ new.runtime.epoch >= old.runtime.epoch
                         /\ \/ new.series.round > old.series.round
                            \/ /\ new.series.round = old.series.round
                               /\ old.runtime.log \subseteq new.runtime.log
<1>1. MatchInv /\ [Next]_vars => [Onward]_store
  <2> SUFFICES ASSUME MatchInv, [Next]_vars, store' # store PROVE Onward
    OBVIOUS
  <2>1. TypeInv /\ TypeInv' /\ OrderInv
    BY TypeNext DEF MatchInv
  <2> QED  BY <2>1, StoreFurther DEF Further
<1> QED  BY <1>1, AlwaysMatch, PTL DEF Spec, SavedGoesForward
=============================================================================
