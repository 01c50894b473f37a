-------------------------- MODULE StrategyLoopProofs --------------------------
(***************************************************************************)
(* Theorems about the strategies of one seat: which update comes into      *)
(* force, what plays and for how long, what is held on and let go, when a  *)
(* turn is played, and that no session and no note is lost, for any number *)
(* of reviews, moves, handoffs, failures and notes and any lease.          *)
(***************************************************************************)
EXTENDS StrategyLoop, TLAPS

AgentRecords ==
    [who : AgentControllers \cup {NoOne}, session : 0..MaxReviews, left : -1..Lease,
     age : 0..(2 * Lease + 1), planned : Int, seen : Int, since : 0..Planning, held : BOOLEAN]
GameRecords ==
    [mode : {"discrete", "realtime"}, status : {"lobby", "running", "paused", "over"},
     seq : Nat, mine : BOOLEAN, input : BOOLEAN, astray : BOOLEAN]
SeatRecords == [who : AgentControllers \cup {Human}, hold : BOOLEAN]
ReviewRecords ==
    [pc : {"none", "waits", "plans", "skips", "applies", "done"} \cup Answers,
     kind : {"loop", "external", "coach"}, note : 0..MaxNotes,
     who : AgentControllers \cup {NoOne}, seq : Int, outdated : BOOLEAN]
OpRecords == [pc : {"idle", "connect", "check", "install", "run"}, by : 0..MaxReviews]
PageRecords ==
    [loop : {"on", "off", "paused"}, agent : AgentControllers, review : 0..MaxReviews,
     failures : 0..Patience, note : 0..MaxNotes]
BudgetRecords == [handoffs : 0..MaxHandoffs, upsets : 0..MaxUpsets, notes : 0..MaxNotes]

GameTyped == game \in GameRecords /\ seat \in SeatRecords /\ agent \in AgentRecords
ReviewsTyped ==
    /\ review \in [Reviews -> ReviewRecords] /\ request \in 0..MaxReviews
    /\ op \in OpRecords /\ sessions \subseteq Reviews
PageTyped ==
    /\ page \in PageRecords /\ heard \subseteq 1..MaxNotes /\ budget \in BudgetRecords
    /\ kept \in 0..(Planning + 2) /\ timer \in BOOLEAN /\ ran \in BOOLEAN

\* A strategy belongs to the seat's controller; how far its lease can be prolonged.
AgentInv ==
    /\ agent.who = NoOne => agent.session = 0 /\ agent.left = -1 /\ ~agent.held
    /\ agent.who # NoOne => agent.who = seat.who /\ agent.session \in Reviews
    /\ agent.left >= 0 => agent.left + agent.age <= 2 * Lease

\* What runs in exclusive, and what it has opened so far.
Opening == {"connect", "check", "install"}
OpInv ==
    /\ op.pc # "idle" => op.by \in Reviews /\ review[op.by].pc = "applies"
    /\ op.pc \in Opening => agent.who = NoOne
    /\ op.pc = "install" => (game.input => game.astray)
    /\ sessions = IF op.pc \in {"check", "install"} THEN {op.by} ELSE {agent.session} \ {0}

\* An input that is on: a strategy holds it or it has gone astray.
HeldInv ==
    /\ InputIsRemembered
    /\ agent.who # NoOne => (game.input => agent.held \/ game.astray)
InputInv == HeldInv /\ (game.status = "lobby" => ~game.input)

\* A seat that keeps its move: what its timer has seen of it.
KeptInv ==
    kept > 0 => /\ Discrete /\ game.status = "running" /\ game.mine /\ timer /\ agent.who # NoOne
                /\ agent.seen = game.seq => kept <= agent.since + 1
                /\ agent.seen # game.seq => kept <= 1
                /\ ran => agent.seen = game.seq /\ agent.since < Planning

\* A review is overtaken only when it may not be applied any more; a note is
\* answered by the review that carries it.
ReviewFits(v, open, answered) ==
    /\ open \/ v.pc = "waits" => ~v.outdated
    /\ v.pc \in {"skips", "waited"} => v.note = 0
    /\ v.pc = "applied" => v.note \in answered \cup {0}
    /\ v.kind = "coach" => v.who \in AgentControllers
ReviewInv ==
    /\ \A r \in Reviews : ReviewFits(review[r], request = r, heard)
    /\ op.pc = "run" => review[op.by].note \in heard \cup {0}

PageInv ==
    /\ page.loop # "paused" => page.failures < Patience
    /\ page.review # 0 => page.loop = "on"

LoopInv ==
    /\ GameTyped /\ ReviewsTyped /\ PageTyped
    /\ AgentInv /\ OpInv /\ InputInv /\ LapsedLetsGo /\ KeptInv /\ ReviewInv /\ PageInv
-----------------------------------------------------------------------------
(* Constants.                                                              *)
LEMMA Numbers ==
    ASSUME LoopAssumption
    PROVE  /\ Lease \in Nat /\ Lease >= 1 /\ Planning \in Nat /\ Planning >= 1
           /\ Patience \in Nat /\ Patience >= 1
           /\ MaxReviews \in Nat /\ MaxMoves \in Nat /\ MaxHandoffs \in Nat /\ MaxUpsets \in Nat
           /\ MaxNotes \in Nat /\ NoOne \notin AgentControllers /\ NoOne # Human
           /\ 0 \notin Reviews /\ Reviews \subseteq 0..MaxReviews
  BY DEF LoopAssumption, Reviews

LEMMA NoReviewTyped ==
    ASSUME LoopAssumption
    PROVE  NoReview \in ReviewRecords /\ NoAgent \in AgentRecords /\ NoOp \in OpRecords
  BY Numbers DEF NoReview, ReviewRecords, NoAgent, AgentRecords, NoOp, OpRecords

LEMMA InitLoop ==
    ASSUME LoopAssumption, Init
    PROVE  LoopInv
<1>1. PICK mode \in {"discrete", "realtime"} :
          game = [mode |-> mode, status |-> "lobby", seq |-> 0, mine |-> TRUE,
                  input |-> FALSE, astray |-> FALSE]
  BY DEF Init
<1>2. PICK c \in AgentControllers : seat = [who |-> c, hold |-> FALSE]
  BY DEF Init
<1>3. GameTyped
  BY <1>1, <1>2, NoReviewTyped DEF Init, GameTyped, GameRecords, SeatRecords
<1>4. ReviewsTyped
  BY Numbers, NoReviewTyped DEF Init, ReviewsTyped
<1>5. PageTyped
  <2>1. seat.who \in AgentControllers
    BY <1>2
  <2>2. page \in PageRecords
    BY <2>1, Numbers DEF Init, PageRecords
  <2>3. budget \in BudgetRecords
    BY Numbers DEF Init, BudgetRecords
  <2>4. kept \in 0..(Planning + 2)
    BY Numbers DEF Init
  <2> QED  BY <2>2, <2>3, <2>4 DEF Init, PageTyped
<1>6. AgentInv /\ OpInv
  BY Numbers DEF Init, AgentInv, OpInv, NoAgent, NoOp, Opening
<1>7. InputInv /\ LapsedLetsGo /\ KeptInv
  BY <1>1, Numbers DEF Init, InputInv, HeldInv, InputIsRemembered, LapsedLetsGo, KeptInv, NoAgent
<1>8. ReviewInv /\ PageInv
  BY <1>2, Numbers DEF Init, ReviewInv, ReviewFits, PageInv, NoReview, NoOp
<1> QED  BY <1>3, <1>4, <1>5, <1>6, <1>7, <1>8 DEF LoopInv

-----------------------------------------------------------------------------
(* The strategy plays.                                                     *)
LEMMA SeenFacts ==
    ASSUME LoopAssumption, GameTyped
    PROVE  /\ Seen \in AgentRecords /\ Seen.seen = game.seq
           /\ Seen.who = agent.who /\ Seen.session = agent.session /\ Seen.left = agent.left
           /\ Seen.age = agent.age /\ Seen.planned = agent.planned /\ (Seen.held <=> agent.held)
           /\ Seen.since = IF agent.seen = game.seq THEN agent.since ELSE 0
<1>1. agent \in AgentRecords /\ game.seq \in Int /\ 0 \in 0..Planning
  BY Numbers DEF GameTyped, GameRecords
<1>2. CASE agent.seen = game.seq
  BY <1>1, <1>2 DEF Seen, AgentRecords
<1>3. CASE agent.seen # game.seq
  <2>1. Seen = [agent EXCEPT !.seen = game.seq, !.since = 0]
    BY <1>3 DEF Seen
  <2>2. Seen \in AgentRecords
    BY <1>1, <2>1 DEF AgentRecords
  <2>3. /\ Seen.seen = game.seq
        /\ Seen.who = agent.who /\ Seen.session = agent.session /\ Seen.left = agent.left
        /\ Seen.age = agent.age /\ Seen.planned = agent.planned /\ (Seen.held <=> agent.held)
        /\ Seen.since = 0
    BY <1>1, <2>1 DEF AgentRecords
  <2> QED  BY <1>3, <2>2, <2>3
<1> QED  BY <1>2, <1>3

\* What every way of running leaves as it was.
SameAgent ==
    /\ agent'.who = agent.who /\ agent'.session = agent.session
    /\ agent'.left = agent.left /\ agent'.age = agent.age /\ seat'.who = seat.who

LEMMA RoundFacts ==
    ASSUME LoopAssumption, GameTyped, game' = NewRound(game), agent' = AgentOfNewRound,
           seat' = [seat EXCEPT !.hold = FALSE]
    PROVE  /\ GameTyped' /\ SameAgent /\ ~game'.input /\ ~game'.astray /\ ~agent'.held /\ ~seat'.hold
           /\ game'.status = "running" /\ game'.mode = game.mode
           /\ game'.mine
<1>1. game \in GameRecords /\ agent \in AgentRecords /\ seat \in SeatRecords
  BY DEF GameTyped
<1>2. /\ game' \in GameRecords /\ ~game'.input /\ ~game'.astray
      /\ game'.status = "running" /\ game'.mode = game.mode /\ game'.mine
  <2>1. game' = [game EXCEPT !.seq = game.seq + 1, !.mine = TRUE, !.status = "running",
                             !.input = FALSE, !.astray = FALSE]
    BY DEF NewRound
  <2>2. game.seq + 1 \in Nat
    BY <1>1 DEF GameRecords
  <2>3. game' \in GameRecords
    BY <1>1, <2>1, <2>2 DEF GameRecords
  <2>4. game'.input = FALSE /\ game'.astray = FALSE /\ game'.status = "running" /\ game'.mode = game.mode /\ game'.mine = TRUE
    BY <1>1, <2>1 DEF GameRecords
  <2> QED  BY <2>3, <2>4
<1>3. agent' \in AgentRecords /\ ~agent'.held
  <2>1. agent' = [agent EXCEPT !.held = FALSE, !.planned = -1, !.seen = -1] /\ -1 \in Int
    BY DEF AgentOfNewRound
  <2>2. agent' \in AgentRecords
    BY <1>1, <2>1 DEF AgentRecords
  <2>3. agent'.held = FALSE
    BY <1>1, <2>1 DEF AgentRecords
  <2> QED  BY <2>2, <2>3
<1>4. /\ agent'.who = agent.who /\ agent'.session = agent.session
      /\ agent'.left = agent.left /\ agent'.age = agent.age
  BY <1>1 DEF AgentOfNewRound, AgentRecords
<1>5. seat' \in SeatRecords /\ seat'.who = seat.who /\ seat'.hold = FALSE
  BY <1>1 DEF SeatRecords
<1> QED  BY <1>2, <1>3, <1>4, <1>5 DEF GameTyped, SameAgent

LEMMA ControlFacts ==
    ASSUME LoopAssumption, GameTyped, NEW g \in GameRecords, NEW on \in BOOLEAN, NEW hold \in BOOLEAN,
           NEW held \in BOOLEAN, NEW cause \in BOOLEAN, Control(g, on, hold, held, cause)
    PROVE  /\ GameTyped' /\ SameAgent
           /\ (game'.input <=> on) /\ (game'.astray <=> on /\ (g.astray \/ cause))
           /\ (seat'.hold <=> hold) /\ (agent'.held <=> held)
           /\ game'.status = g.status /\ game'.mode = g.mode /\ game'.mine = g.mine
<1> DEFINE astray == on /\ (g.astray \/ cause)
<1>1. agent \in AgentRecords /\ seat \in SeatRecords /\ astray \in BOOLEAN
  BY DEF GameTyped
<1>2. /\ game' = [g EXCEPT !.input = on, !.astray = astray]
      /\ seat' = [seat EXCEPT !.hold = hold] /\ agent' = [agent EXCEPT !.held = held]
  BY DEF Control
<1> HIDE DEF astray
<1>3. /\ game' \in GameRecords /\ (game'.input <=> on) /\ (game'.astray <=> astray)
      /\ game'.status = g.status /\ game'.mode = g.mode /\ game'.mine = g.mine
  BY <1>1, <1>2 DEF GameRecords
<1>4. seat' \in SeatRecords /\ (seat'.hold <=> hold) /\ seat'.who = seat.who
  BY <1>1, <1>2 DEF SeatRecords
<1>5. agent' \in AgentRecords /\ (agent'.held <=> held)
  BY <1>1, <1>2 DEF AgentRecords
<1>6. /\ agent'.who = agent.who /\ agent'.session = agent.session
      /\ agent'.left = agent.left /\ agent'.age = agent.age
  BY <1>1, <1>2 DEF AgentRecords
<1> QED  BY <1>3, <1>4, <1>5, <1>6 DEF GameTyped, SameAgent, astray

\* The game as it is, but for its status.
AsItIs(g) == /\ g \in GameRecords /\ (g.input <=> game.input) /\ (g.astray <=> game.astray)
             /\ g.mode = game.mode /\ g.mine = game.mine

\* What is on afterwards has gone astray.
LetsGo(g) ==
    /\ GameTyped' /\ SameAgent /\ HeldInv'
    /\ game'.status = g.status /\ game'.mode = g.mode /\ game'.mine = g.mine
    /\ game'.input => game.input
    /\ agent.who # NoOne => (game'.input => game'.astray)

LEMMA LetGoFacts ==
    ASSUME LoopAssumption, GameTyped, AgentInv, HeldInv, NEW g, AsItIs(g),
           NEW offered \in BOOLEAN, LetGo(g, offered)
    PROVE  LetsGo(g) /\ ~agent'.held
<1>1. g \in GameRecords /\ g.input \in BOOLEAN /\ agent.held \in BOOLEAN /\ seat.hold \in BOOLEAN
  BY DEF AsItIs, GameRecords, GameTyped, AgentRecords, SeatRecords
<1>2. CASE agent.held /\ offered
  <2>1. Control(g, FALSE, FALSE, FALSE, FALSE)
    BY <1>2 DEF LetGo
  <2> QED  BY <1>1, <2>1, ControlFacts DEF LetsGo, HeldInv, InputIsRemembered
<1>3. CASE ~(agent.held /\ offered)
  <2> DEFINE cause == agent.held /\ ~offered
  <2>1. Control(g, g.input, seat.hold, FALSE, cause) /\ cause \in BOOLEAN
    BY <1>3 DEF LetGo
  <2>2. cause <=> agent.held
    BY <1>1, <1>3
  <2> HIDE DEF cause
  <2>3. /\ GameTyped' /\ SameAgent
        /\ (game'.input <=> g.input) /\ (game'.astray <=> g.input /\ (g.astray \/ cause))
        /\ (seat'.hold <=> seat.hold) /\ ~agent'.held
        /\ game'.status = g.status /\ game'.mode = g.mode /\ game'.mine = g.mine
    BY <1>1, <2>1, ControlFacts
  <2>4. HeldInv'
    BY <2>2, <2>3 DEF HeldInv, InputIsRemembered, AsItIs, AgentInv, SameAgent
  <2> QED  BY <2>2, <2>3, <2>4 DEF LetsGo, HeldInv, AsItIs
<1> QED  BY <1>2, <1>3

LEMMA OtherwiseFacts ==
    ASSUME LoopAssumption, GameTyped, AgentInv, HeldInv, agent.who # NoOne, NEW g, AsItIs(g),
           ActsOtherwise(g)
    PROVE  LetsGo(g)
<1>1. /\ g \in GameRecords /\ g.input \in BOOLEAN /\ g.astray \in BOOLEAN
      /\ agent.held \in BOOLEAN /\ seat.hold \in BOOLEAN
  BY DEF AsItIs, GameRecords, GameTyped, AgentRecords, SeatRecords
<1>2. PICK offered \in BOOLEAN, on \in BOOLEAN, hold \in BOOLEAN :
        /\ on => g.input /\ ~(agent.held /\ offered)
        /\ hold => on /\ seat.hold
        /\ Control(g, on, hold, FALSE, agent.held /\ ~offered)
  BY <1>1 DEF ActsOtherwise, Offers
<1> DEFINE cause == agent.held /\ ~offered
<1>3. cause \in BOOLEAN /\ Control(g, on, hold, FALSE, cause) /\ (on /\ agent.held => cause)
  BY <1>2
<1> HIDE DEF cause
<1>4. /\ GameTyped' /\ SameAgent
      /\ (game'.input <=> on) /\ (game'.astray <=> on /\ (g.astray \/ cause))
      /\ (seat'.hold <=> hold) /\ ~agent'.held
      /\ game'.status = g.status /\ game'.mode = g.mode /\ game'.mine = g.mine
  BY <1>1, <1>3, ControlFacts
<1>5. on => game'.astray
  BY <1>2, <1>3, <1>4 DEF HeldInv, AsItIs
<1>6. HeldInv'
  BY <1>2, <1>4, <1>5 DEF HeldInv, InputIsRemembered
<1> QED  BY <1>2, <1>4, <1>5, <1>6 DEF LetsGo, AsItIs

LEMMA PressFacts ==
    ASSUME LoopAssumption, GameTyped, HeldInv, Press
    PROVE  /\ GameTyped' /\ SameAgent /\ HeldInv'
           /\ game'.status = game.status /\ game'.mode = game.mode
<1>1. CASE agent.held
  <2>1. UNCHANGED <<game, seat, agent>>
    BY <1>1 DEF Press
  <2> QED  BY <2>1 DEF GameTyped, SameAgent, HeldInv, InputIsRemembered
<1>2. CASE ~agent.held
  <2> DEFINE g == [game EXCEPT !.astray = FALSE]
  <2>1. PICK offered \in BOOLEAN : Control(g, TRUE, offered, TRUE, FALSE)
    BY <1>2 DEF Press
  <2>2. g \in GameRecords /\ g.status = game.status /\ g.mode = game.mode
    BY DEF GameTyped, GameRecords
  <2> HIDE DEF g
  <2>3. /\ GameTyped' /\ SameAgent /\ game'.input /\ agent'.held
        /\ game'.status = g.status /\ game'.mode = g.mode
    BY <2>1, <2>2, ControlFacts
  <2> QED  BY <2>2, <2>3 DEF HeldInv, InputIsRemembered
<1> QED  BY <1>1, <1>2

\* The release that a seat remembers is submitted, or nothing is.
LEMMA StopFacts ==
    ASSUME LoopAssumption, GameTyped, InputIsRemembered, NEW accepted \in BOOLEAN, StopInput(accepted)
    PROVE  /\ game' \in GameRecords
           /\ game'.status = game.status /\ game'.mode = game.mode /\ game'.mine = game.mine
           /\ game'.input => game.input
           /\ game'.astray => game'.input
           /\ game.status # "running" => (game'.input <=> game.input)
           /\ game'.input /\ game.status = "running" => game'.astray
<1> DEFINE on == game.input /\ ~(seat.hold /\ game.status = "running" /\ accepted)
           astray == on /\ (game.astray \/ ~seat.hold \/ ~accepted)
<1>1. game \in GameRecords /\ on \in BOOLEAN /\ astray \in BOOLEAN
  BY DEF GameTyped, GameRecords
<1>2. game' = [game EXCEPT !.input = on, !.astray = astray]
  BY DEF StopInput
<1>3. /\ on => game.input
      /\ astray => on
      /\ game.status # "running" => (on <=> game.input)
      /\ on /\ game.status = "running" => astray
  BY <1>1
<1> HIDE DEF on, astray
<1>4. /\ game' \in GameRecords /\ (game'.input <=> on) /\ (game'.astray <=> astray)
      /\ game'.status = game.status /\ game'.mode = game.mode /\ game'.mine = game.mine
  BY <1>1, <1>2 DEF GameRecords
<1> QED  BY <1>3, <1>4

LEMMA MoveFacts ==
    ASSUME LoopAssumption, GameTyped, Discrete, Plays
    PROVE  /\ GameTyped' /\ SameAgent
           /\ (agent'.held <=> agent.held) /\ (game'.input <=> game.input)
           /\ (game'.astray <=> game.astray) /\ UNCHANGED seat
           /\ game'.status = game.status /\ game'.mode = game.mode
           /\ game'.mine = FALSE
<1>1. game \in GameRecords /\ agent \in AgentRecords /\ seat \in SeatRecords
  BY DEF GameTyped
<1>2. game' = [game EXCEPT !.seq = game.seq + 1, !.mine = FALSE] /\ agent' = Seen /\ UNCHANGED seat
  BY DEF Plays
<1>3. game.seq + 1 \in Nat
  BY <1>1 DEF GameRecords
<1>4. game' \in GameRecords
  BY <1>1, <1>2, <1>3 DEF GameRecords
<1>5. /\ (game'.input <=> game.input) /\ (game'.astray <=> game.astray)
      /\ game'.status = game.status /\ game'.mode = game.mode /\ game'.mine = FALSE
  BY <1>1, <1>2 DEF GameRecords
<1> QED  BY <1>1, <1>2, <1>4, <1>5, SeenFacts DEF GameTyped, SameAgent

(***************************************************************************)
(* Running a strategy, for a seat that nothing happens to otherwise.       *)
(***************************************************************************)
RunIsFaithful ==
    /\ GameTyped' /\ SameAgent /\ kept' \in 0..(Planning + 2)
    /\ game'.mode = game.mode /\ game'.status \in {game.status, "running"}
    /\ HeldInv'
    /\ game.status # "running" \/ agent.who = NoOne => UNCHANGED <<game, agent, seat, kept>>
    /\ game.status = "running" /\ agent.who # NoOne /\ agent.left < 0 => (game'.input => game'.astray)
    /\ kept' > 0 =>
          /\ UNCHANGED <<game, seat, kept>>
          /\ game.status = "running" /\ game.mine /\ agent.who # NoOne /\ Discrete =>
               agent'.seen = game.seq /\ agent'.since < Planning /\ kept' <= agent'.since + 1

LEMMA RunFacts ==
    ASSUME LoopAssumption, GameTyped, kept \in 0..(Planning + 2), AgentInv, HeldInv, KeptInv, Run
    PROVE  RunIsFaithful
<1>1. AsItIs(game)
  BY DEF GameTyped, AsItIs
<1>2. CASE game.status # "running" \/ agent.who = NoOne
  <2>1. UNCHANGED <<game, agent, seat, kept>>
    BY <1>2 DEF Run, Stays
  <2>2. kept' > 0 => game.status = "running" /\ agent.who # NoOne
    BY <2>1 DEF KeptInv
  <2>3. agent.who # NoOne => game.status # "running"
    BY <1>2
  <2> QED  BY <1>2, <2>1, <2>2, <2>3 DEF RunIsFaithful, SameAgent, HeldInv, InputIsRemembered, GameTyped
<1>3. CASE game.status = "running" /\ agent.who # NoOne /\ ~Engaged
  <2>1. PICK offered \in BOOLEAN : LetGo(game, offered) /\ kept' = 0
    BY <1>3 DEF Run, Offers
  <2>2. LetsGo(game)
    BY <1>1, <2>1, LetGoFacts
  <2> QED  BY <1>3, <2>1, <2>2, Numbers DEF RunIsFaithful, LetsGo
<1>4. CASE game.status = "running" /\ agent.who # NoOne /\ Engaged /\ ~game.mine
  <2>1. UNCHANGED <<game, agent, seat, kept>>
    BY <1>4 DEF Run, Stays
  <2>2. agent.left >= 0
    BY <1>4 DEF Engaged
  <2>3. kept' > 0 => game.mine
    BY <2>1 DEF KeptInv
  <2>4. ~(agent.left < 0)
    BY <2>2 DEF GameTyped, AgentRecords
  <2> QED  BY <1>4, <2>1, <2>3, <2>4 DEF RunIsFaithful, SameAgent, HeldInv, InputIsRemembered, GameTyped
<1>5. CASE game.status = "running" /\ agent.who # NoOne /\ Engaged /\ game.mine /\ HoldsMove
  <2>1. agent' = Seen /\ UNCHANGED <<game, seat, kept>>
    BY <1>5 DEF Run
  <2>2. ~(agent.left < 0)
    BY <1>5 DEF Engaged, GameTyped, AgentRecords
  <2>3. Seen.since < Planning
    BY <1>5 DEF HoldsMove
  <2>4. kept' > 0 => kept' <= Seen.since + 1
    <3>1. agent.seen = game.seq => Seen.since = agent.since
      BY SeenFacts
    <3>2. agent.seen # game.seq => Seen.since = 0
      BY SeenFacts
    <3> QED  BY <2>1, <3>1, <3>2 DEF KeptInv
  <2>5. GameTyped' /\ SameAgent
    BY <2>1, SeenFacts DEF GameTyped, SameAgent
  <2>6. HeldInv'
    BY <2>1, SeenFacts DEF HeldInv, InputIsRemembered
  <2> QED  BY <1>5, <2>1, <2>2, <2>3, <2>4, <2>5, <2>6, SeenFacts DEF RunIsFaithful
<1>6. CASE game.status = "running" /\ agent.who # NoOne /\ Engaged /\ game.mine /\ ~HoldsMove
  <2>1. Plays /\ kept' = 0
    BY <1>6 DEF Run
  <2>2. ~(agent.left < 0)
    BY <1>6 DEF Engaged, GameTyped, AgentRecords
  <2>3. kept' \in 0..(Planning + 2) /\ ~(kept' > 0)
    BY <2>1, Numbers
  <2>4. CASE Discrete
    <3>1. HeldInv'
      BY <2>1, <2>4, MoveFacts DEF HeldInv, InputIsRemembered, SameAgent
    <3> QED  BY <1>6, <2>1, <2>2, <2>3, <2>4, <3>1, MoveFacts DEF RunIsFaithful
  <2>5. CASE Press
    BY <1>6, <2>2, <2>3, <2>5, PressFacts DEF RunIsFaithful
  <2>6. CASE ActsOtherwise(game)
    <3>1. LetsGo(game)
      BY <1>1, <1>6, <2>6, OtherwiseFacts
    <3> QED  BY <1>6, <2>2, <2>3, <3>1 DEF RunIsFaithful, LetsGo
  <2>7. CASE EndsRound
    <3>1. game' = NewRound(game) /\ agent' = AgentOfNewRound /\ seat' = [seat EXCEPT !.hold = FALSE]
      BY <2>7 DEF EndsRound, AfterRound
    <3>2. HeldInv'
      BY <3>1, RoundFacts DEF HeldInv, InputIsRemembered
    <3> QED  BY <1>6, <2>2, <2>3, <3>1, <3>2, RoundFacts DEF RunIsFaithful
  <2>8. CASE LetGo(game, FALSE)
    <3>1. LetsGo(game)
      BY <1>1, <2>8, LetGoFacts
    <3> QED  BY <1>6, <2>2, <2>3, <3>1 DEF RunIsFaithful, LetsGo
  <2> QED  BY <2>1, <2>4, <2>5, <2>6, <2>7, <2>8 DEF Plays
<1> QED  BY <1>2, <1>3, <1>4, <1>5, <1>6

-----------------------------------------------------------------------------
(* Reviews and the page, while the seat stays as it is.                    *)
Rest == <<game, seat, agent, sessions, op, timer, ran, heard, kept>>

LEMMA SeatStays ==
    ASSUME LoopAssumption, LoopInv, UNCHANGED Rest, budget' \in BudgetRecords,
           review' \in [Reviews -> ReviewRecords],
           request' \in 0..MaxReviews, page' \in PageRecords,
           op.pc # "idle" => review'[op.by].pc = "applies",
           ReviewInv', PageInv'
    PROVE  LoopInv'
<1>1. GameTyped' /\ ReviewsTyped' /\ PageTyped'
  BY DEF LoopInv, GameTyped, ReviewsTyped, PageTyped, Rest
<1>2. AgentInv' /\ OpInv'
  BY DEF LoopInv, AgentInv, OpInv, Opening, Rest
<1>3. InputInv'
  BY DEF LoopInv, InputInv, HeldInv, InputIsRemembered, Rest
<1>4. LapsedLetsGo' /\ KeptInv'
  BY DEF LoopInv, LapsedLetsGo, Engaged, KeptInv, Discrete, Rest
<1> QED  BY <1>1, <1>2, <1>3, <1>4 DEF LoopInv

\* One review changes, and it is not the one that is applied.
LEMMA ReviewChanges ==
    ASSUME LoopAssumption, LoopInv, NEW r \in Reviews, NEW new \in ReviewRecords,
           review' = [review EXCEPT ![r] = new], UNCHANGED <<op, heard>>,
           request' \in {request, 0}, review[r].pc # "applies",
           ReviewFits(new, request' = r, heard)
    PROVE  /\ review' \in [Reviews -> ReviewRecords] /\ request' \in 0..MaxReviews
           /\ op.pc # "idle" => review'[op.by].pc = "applies"
           /\ ReviewInv'
<1>1. review \in [Reviews -> ReviewRecords] /\ request \in 0..MaxReviews
  BY DEF LoopInv, ReviewsTyped
<1>2. review' \in [Reviews -> ReviewRecords] /\ request' \in 0..MaxReviews
  BY <1>1, Numbers
<1>3. review'[r] = new /\ \A q \in Reviews : q # r => review'[q] = review[q]
  BY <1>1
<1>4. op.pc # "idle" => op.by \in Reviews /\ op.by # r /\ review'[op.by] = review[op.by]
  BY <1>3 DEF LoopInv, OpInv
<1>5. ASSUME NEW q \in Reviews
      PROVE  ReviewFits(review'[q], request' = q, heard')
  <2>1. CASE q = r
    BY <1>3, <2>1
  <2>2. CASE q # r
    <3>1. ReviewFits(review[q], request = q, heard) /\ q # 0
      BY Numbers DEF LoopInv, ReviewInv
    <3>2. request' = q => request = q
      BY <3>1
    <3> QED  BY <1>3, <2>2, <3>1, <3>2 DEF ReviewFits
  <2> QED  BY <2>1, <2>2
<1>6. op'.pc = "run" => review'[op'.by].note \in heard' \cup {0}
  BY <1>4 DEF LoopInv, ReviewInv
<1> QED  BY <1>2, <1>4, <1>5, <1>6 DEF ReviewInv, LoopInv, OpInv

LEMMA AnsweredFits ==
    ASSUME LoopAssumption, LoopInv, NEW r \in Reviews, NEW pc \in Answers, NEW open
    PROVE  /\ Answered(r, pc) \in ReviewRecords
           /\ /\ pc = "waited" => review[r].note = 0
              /\ pc = "applied" => review[r].note \in heard \cup {0}
              => ReviewFits(Answered(r, pc), open, heard)
<1>1. review[r] \in ReviewRecords
  BY DEF LoopInv, ReviewsTyped
<1>2. review[r].kind = "coach" => review[r].who \in AgentControllers
  BY DEF LoopInv, ReviewInv, ReviewFits
<1>3. CASE Heard(r)
  <2> DEFINE new == [review[r] EXCEPT !.pc = pc, !.outdated = FALSE]
  <2>1. Answered(r, pc) = new
    BY <1>3 DEF Answered
  <2>2. new \in ReviewRecords
    BY <1>1 DEF ReviewRecords
  <2>3. /\ new.pc = pc /\ new.outdated = FALSE /\ new.note = review[r].note
        /\ new.kind = review[r].kind /\ new.who = review[r].who
    BY <1>1 DEF ReviewRecords
  <2>4. pc # "waits" /\ pc # "skips"
    BY DEF Answers
  <2> HIDE DEF new
  <2> QED  BY <1>2, <2>1, <2>2, <2>3, <2>4 DEF ReviewFits
<1>4. CASE ~Heard(r)
  <2> DEFINE new == [NoReview EXCEPT !.pc = "done"]
  <2>1. Answered(r, pc) = new
    BY <1>4 DEF Answered
  <2>2. NoReview \in ReviewRecords
    BY NoReviewTyped
  <2>3. new \in ReviewRecords
    BY <2>2 DEF ReviewRecords
  <2>4. new.pc = "done" /\ new.outdated = FALSE /\ new.kind = "loop"
    BY DEF NoReview
  <2> HIDE DEF new
  <2> QED  BY <2>1, <2>3, <2>4 DEF ReviewFits
<1> QED  BY <1>3, <1>4

LEMMA DoneFits ==
    ASSUME LoopAssumption, NEW open
    PROVE  [NoReview EXCEPT !.pc = "done"] \in ReviewRecords
           /\ ReviewFits([NoReview EXCEPT !.pc = "done"], open, heard)
<1> DEFINE new == [NoReview EXCEPT !.pc = "done"]
<1>1. NoReview \in ReviewRecords
  BY NoReviewTyped
<1>2. new \in ReviewRecords
  BY <1>1 DEF ReviewRecords
<1>3. new.pc = "done" /\ new.outdated = FALSE /\ new.kind = "loop"
  BY DEF NoReview
<1> HIDE DEF new
<1>4. ReviewFits(new, open, heard)
  BY <1>3 DEF ReviewFits
<1> QED  BY <1>2, <1>4 DEF new

\* An answer that neither applies nor keeps anything.
LEMMA RefusalKeeps ==
    ASSUME LoopAssumption, LoopInv, NEW r \in Reviews, NEW pc \in Answers \ {"applied"},
           review[r].pc # "applies", pc = "waited" => review[r].note = 0,
           Answer(r, pc), UNCHANGED Rest, UNCHANGED page, request' \in {request, 0},
           budget' \in BudgetRecords
    PROVE  LoopInv'
<1>1. review' = [review EXCEPT ![r] = Answered(r, pc)]
  BY DEF Answer
<1>2. Answered(r, pc) \in ReviewRecords /\ ReviewFits(Answered(r, pc), request' = r, heard)
  BY AnsweredFits
<1>3. UNCHANGED <<op, heard>>
  BY DEF Rest
<1>4. /\ review' \in [Reviews -> ReviewRecords] /\ request' \in 0..MaxReviews
      /\ op.pc # "idle" => review'[op.by].pc = "applies"
      /\ ReviewInv'
  BY <1>1, <1>2, <1>3, ReviewChanges
<1>5. page' \in PageRecords /\ PageInv'
  BY DEF LoopInv, PageTyped, PageInv
<1> QED  BY <1>4, <1>5, SeatStays

LEMMA SameBudget ==
    ASSUME LoopAssumption, LoopInv, UNCHANGED budget
    PROVE  budget' \in BudgetRecords
  BY Numbers DEF LoopInv, PageTyped, BudgetRecords

LEMMA Spent ==
    ASSUME LoopAssumption, LoopInv
    PROVE  /\ budget.upsets < MaxUpsets /\ Spend("upsets") =>
                budget' \in BudgetRecords
           /\ budget.notes < MaxNotes /\ Spend("notes") =>
                budget' \in BudgetRecords
           /\ budget.handoffs < MaxHandoffs /\ Spend("handoffs") =>
                budget' \in BudgetRecords
<1>1. budget \in BudgetRecords
  BY DEF LoopInv, PageTyped
<1>2. budget.upsets \in Nat /\ budget.notes \in Nat /\ budget.handoffs \in Nat
  BY <1>1, Numbers DEF BudgetRecords
<1>3. ASSUME budget.upsets < MaxUpsets, Spend("upsets")
      PROVE  budget' \in BudgetRecords
  <2>1. budget.upsets + 1 \in 0..MaxUpsets
    BY <1>2, <1>3, Numbers
  <2>2. budget' \in BudgetRecords
    BY <1>1, <1>3, <2>1 DEF BudgetRecords, Spend
  <2> QED  BY <2>2
<1>4. ASSUME budget.notes < MaxNotes, Spend("notes")
      PROVE  budget' \in BudgetRecords
  <2>1. budget.notes + 1 \in 0..MaxNotes
    BY <1>2, <1>4, Numbers
  <2>2. budget' \in BudgetRecords
    BY <1>1, <1>4, <2>1 DEF BudgetRecords, Spend
  <2> QED  BY <2>2
<1>5. ASSUME budget.handoffs < MaxHandoffs, Spend("handoffs")
      PROVE  budget' \in BudgetRecords
  <2>1. budget.handoffs + 1 \in 0..MaxHandoffs
    BY <1>2, <1>5, Numbers
  <2>2. budget' \in BudgetRecords
    BY <1>1, <1>5, <2>1 DEF BudgetRecords, Spend
  <2> QED  BY <2>2
<1> QED  BY <1>3, <1>4, <1>5

LEMMA FreshFits ==
    ASSUME LoopAssumption, LoopInv, NEW r \in Reviews, NEW kind \in {"loop", "external", "coach"},
           NEW who \in AgentControllers, NEW note \in 0..MaxNotes, Fresh(r, kind, who, note),
           UNCHANGED <<op, heard, request>>
    PROVE  /\ review' \in [Reviews -> ReviewRecords] /\ request' \in 0..MaxReviews
           /\ op.pc # "idle" => review'[op.by].pc = "applies"
           /\ ReviewInv'
<1> DEFINE new == [NoReview EXCEPT !.pc = "waits", !.kind = kind, !.who = who, !.note = note]
<1>1. NoReview \in ReviewRecords
  BY NoReviewTyped
<1>2. new \in ReviewRecords
  BY <1>1 DEF ReviewRecords
<1>3. new.pc = "waits" /\ new.outdated = FALSE /\ new.kind = kind /\ new.who = who
  BY DEF NoReview
<1>4. review[r].pc = "none" /\ review' = [review EXCEPT ![r] = new]
  BY DEF Fresh
<1> HIDE DEF new
<1>5. ReviewFits(new, request' = r, heard)
  BY <1>3 DEF ReviewFits
<1> QED  BY <1>2, <1>4, <1>5, ReviewChanges

LEMMA ExternalKeeps ==
    ASSUME LoopAssumption, LoopInv, NEW r \in Reviews, External(r)
    PROVE  LoopInv'
<1>1. seat.who \in AgentControllers /\ 0 \in 0..MaxNotes /\ Fresh(r, "external", seat.who, 0)
  BY Numbers DEF External
<1>2. UNCHANGED Rest /\ UNCHANGED <<request, page, budget>>
  BY DEF External, Rest
<1>3. /\ review' \in [Reviews -> ReviewRecords] /\ request' \in 0..MaxReviews
      /\ op.pc # "idle" => review'[op.by].pc = "applies"
      /\ ReviewInv'
  BY <1>1, <1>2, FreshFits DEF Rest
<1>4. page' \in PageRecords /\ PageInv'
  BY <1>2 DEF LoopInv, PageTyped, PageInv
<1> QED  BY <1>2, <1>3, <1>4, SameBudget, SeatStays

LEMMA BeginFailsKeeps ==
    ASSUME LoopAssumption, LoopInv, NEW r \in Reviews, BeginFails(r)
    PROVE  LoopInv'
<1> DEFINE pc == IF Owned(review[r].who) THEN "inactive" ELSE "foreign"
<1>1. pc \in Answers \ {"applied"} /\ pc # "waited"
  BY DEF Answers
<1>2. UNCHANGED Rest /\ UNCHANGED <<request, page, budget>> /\ review[r].pc = "waits" /\ Answer(r, pc)
  BY DEF BeginFails, Rest
<1> HIDE DEF pc
<1> QED  BY <1>1, <1>2, SameBudget, RefusalKeeps

LEMMA SkipKeeps ==
    ASSUME LoopAssumption, LoopInv, NEW r \in Reviews, Skip(r)
    PROVE  LoopInv'
<1>1. UNCHANGED Rest /\ UNCHANGED <<page, budget>> /\ review[r].pc = "skips" /\ Answer(r, "waited")
  BY DEF Skip, Rest
<1>2. request' \in {request, 0}
  BY DEF Skip, Canceled
<1>3. review[r].note = 0
  BY <1>1 DEF LoopInv, ReviewInv, ReviewFits
<1>4. "waited" \in Answers \ {"applied"}
  BY DEF Answers
<1> QED  BY <1>1, <1>2, <1>3, <1>4, SameBudget, RefusalKeeps

LEMMA FailsKeeps ==
    ASSUME LoopAssumption, LoopInv, NEW r \in Reviews, Fails(r)
    PROVE  LoopInv'
<1>1. UNCHANGED Rest /\ UNCHANGED page /\ review[r].pc = "plans" /\ Answer(r, "failed")
  BY DEF Fails, Rest
<1>2. request' \in {request, 0}
  BY DEF Fails, Canceled
<1>3. "failed" \in Answers \ {"applied"}
  BY DEF Answers
<1>4. budget' \in BudgetRecords
  BY Spent DEF Fails
<1> QED  BY <1>1, <1>2, <1>3, <1>4, RefusalKeeps

LEMMA RefusedKeeps ==
    ASSUME LoopAssumption, LoopInv, NEW r \in Reviews, Refused(r)
    PROVE  LoopInv'
<1>1. /\ UNCHANGED Rest /\ UNCHANGED <<page, budget>> /\ review[r].pc = "plans"
      /\ Answer(r, Refusal(r))
  BY DEF Refused, Rest
<1>2. request' \in {request, 0}
  BY DEF Refused, Canceled
<1>3. Refusal(r) \in Answers \ {"applied"} /\ Refusal(r) # "waited"
  BY DEF Refusal, Answers
<1> QED  BY <1>1, <1>2, <1>3, SameBudget, RefusalKeeps

LEMMA PageAsksKeeps ==
    ASSUME LoopAssumption, LoopInv, NEW r \in Reviews, PageAsks(r)
    PROVE  LoopInv'
<1>1. page \in PageRecords
  BY DEF LoopInv, PageTyped
<1>2. page.agent \in AgentControllers /\ page.note \in 0..MaxNotes /\ r \in 0..MaxReviews
  BY <1>1, Numbers DEF PageRecords
<1>3. UNCHANGED Rest /\ UNCHANGED <<request, budget>> /\ Fresh(r, "loop", page.agent, page.note)
  BY DEF PageAsks, Elsewhere, Rest
<1>4. /\ review' \in [Reviews -> ReviewRecords] /\ request' \in 0..MaxReviews
      /\ op.pc # "idle" => review'[op.by].pc = "applies"
      /\ ReviewInv'
  BY <1>2, <1>3, FreshFits DEF Rest
<1>5. page' = [page EXCEPT !.review = r] /\ page.loop = "on"
  BY DEF PageAsks
<1>6. page' \in PageRecords
  BY <1>1, <1>2, <1>5 DEF PageRecords
<1>7. page'.loop = "on" /\ page'.failures = page.failures
  BY <1>1, <1>5 DEF PageRecords
<1>8. PageInv'
  BY <1>5, <1>7 DEF LoopInv, PageInv
<1> QED  BY <1>3, <1>4, <1>6, <1>8, SameBudget, SeatStays

LEMMA CoachesDirectlyKeeps ==
    ASSUME LoopAssumption, LoopInv, NEW r \in Reviews, CoachesDirectly(r)
    PROVE  LoopInv'
<1>1. budget.notes < MaxNotes /\ budget.notes \in Nat
  BY Numbers DEF CoachesDirectly, LoopInv, PageTyped, BudgetRecords
<1>2. seat.who \in AgentControllers /\ budget.notes + 1 \in 0..MaxNotes
  BY <1>1, Numbers DEF CoachesDirectly
<1>3. /\ UNCHANGED Rest /\ UNCHANGED <<request, page>>
      /\ Fresh(r, "coach", seat.who, budget.notes + 1)
  BY DEF CoachesDirectly, Elsewhere, Rest
<1>4. /\ review' \in [Reviews -> ReviewRecords] /\ request' \in 0..MaxReviews
      /\ op.pc # "idle" => review'[op.by].pc = "applies"
      /\ ReviewInv'
  BY <1>2, <1>3, FreshFits DEF Rest
<1>5. page' \in PageRecords /\ PageInv'
  BY <1>3 DEF LoopInv, PageTyped, PageInv
<1>6. budget' \in BudgetRecords
  BY Spent DEF CoachesDirectly
<1> QED  BY <1>3, <1>4, <1>5, <1>6, SeatStays

LEMMA PageHearsKeeps ==
    ASSUME LoopAssumption, LoopInv, PageHears
    PROVE  LoopInv'
<1> DEFINE r == page.review
           pc == review[r].pc
           ok == pc \in {"applied", "waited"}
           failures == IF ok THEN 0 ELSE IF pc = "failed" THEN page.failures + 1 ELSE page.failures
           loop == IF pc = "foreign" THEN "off" ELSE IF failures = Patience THEN "paused" ELSE "on"
           note == NoteAfter(r, ok)
<1>1. page \in PageRecords
  BY DEF LoopInv, PageTyped
<1>2. r \in Reviews /\ pc \in Answers /\ pc # "applies"
  BY <1>1, Numbers DEF PageHears, PageRecords, Reviews, Answers
<1>3. UNCHANGED Rest /\ UNCHANGED <<request, budget>>
  BY DEF PageHears, Elsewhere, Rest
<1>4. review' = [review EXCEPT ![r] = [NoReview EXCEPT !.pc = "done"]]
  BY DEF PageHears
<1>5. page' = [page EXCEPT !.loop = loop, !.review = 0, !.failures = failures, !.note = note]
  BY DEF PageHears
<1>6. page.loop = "on" /\ page.failures < Patience /\ page.failures \in Nat
  BY <1>1, <1>2, Numbers DEF LoopInv, PageInv, PageRecords
<1>7. failures \in 0..Patience /\ (pc = "foreign" => failures < Patience)
  BY <1>6, Numbers
<1>8. note \in 0..MaxNotes
  BY <1>1, Numbers DEF NoteAfter, PageRecords
<1>9. loop \in {"on", "off", "paused"} /\ (loop # "paused" => failures < Patience)
  BY <1>7, Numbers
<1>10. [NoReview EXCEPT !.pc = "done"] \in ReviewRecords
       /\ ReviewFits([NoReview EXCEPT !.pc = "done"], request' = r, heard)
  BY DoneFits
<1>11. /\ review' \in [Reviews -> ReviewRecords] /\ request' \in 0..MaxReviews
       /\ op.pc # "idle" => review'[op.by].pc = "applies"
       /\ ReviewInv'
  BY <1>2, <1>3, <1>4, <1>10, ReviewChanges DEF Rest
<1> HIDE DEF failures, loop, note, r, pc, ok
<1>12. page' \in PageRecords
  <2>1. 0 \in 0..MaxReviews
    BY Numbers
  <2> QED  BY <1>1, <1>5, <1>7, <1>8, <1>9, <2>1 DEF PageRecords
<1>13. page'.loop = loop /\ page'.review = 0 /\ page'.failures = failures
  BY <1>1, <1>5 DEF PageRecords
<1>14. PageInv'
  BY <1>9, <1>13 DEF PageInv
<1> QED  BY <1>3, <1>11, <1>12, <1>14, SameBudget, SeatStays

LEMMA CoachedDirectlyKeeps ==
    ASSUME LoopAssumption, LoopInv, NEW r \in Reviews, CoachedDirectly(r)
    PROVE  LoopInv'
<1>1. page \in PageRecords
  BY DEF LoopInv, PageTyped
<1>2. review[r].kind = "coach" /\ review[r].pc \in Answers
  BY DEF CoachedDirectly
<1>3. UNCHANGED Rest /\ UNCHANGED <<request, budget>>
  BY DEF CoachedDirectly, Elsewhere, Rest
<1>4. review' = [review EXCEPT ![r] = [NoReview EXCEPT !.pc = "done"]] /\ review[r].pc # "applies"
  BY <1>2 DEF CoachedDirectly, Answers
<1>5. review[r].who \in AgentControllers
  BY <1>2 DEF LoopInv, ReviewInv, ReviewFits
<1>6. /\ review' \in [Reviews -> ReviewRecords] /\ request' \in 0..MaxReviews
      /\ op.pc # "idle" => review'[op.by].pc = "applies"
      /\ ReviewInv'
  BY <1>3, <1>4, DoneFits, ReviewChanges DEF Rest
<1>7. CASE review[r].pc = "applied" /\ page.loop = "off"
  <2>1. page' = [page EXCEPT !.loop = "on", !.agent = review[r].who]
    BY <1>7 DEF CoachedDirectly
  <2>2. page' \in PageRecords
    BY <1>1, <1>5, <2>1 DEF PageRecords
  <2>3. page'.loop = "on" /\ page'.failures = page.failures
    BY <1>1, <2>1 DEF PageRecords
  <2>4. PageInv'
    BY <1>7, <2>3 DEF LoopInv, PageInv
  <2> QED  BY <1>3, <1>6, <2>2, <2>4, SameBudget, SeatStays
<1>8. CASE ~(review[r].pc = "applied" /\ page.loop = "off")
  <2>1. page' = page
    BY <1>8 DEF CoachedDirectly
  <2>2. page' \in PageRecords /\ PageInv'
    BY <1>1, <2>1 DEF LoopInv, PageInv
  <2> QED  BY <1>3, <1>6, <2>2, SameBudget, SeatStays
<1> QED  BY <1>7, <1>8

\* Only the page changes.
LEMMA PageChanges ==
    ASSUME LoopAssumption, LoopInv, UNCHANGED Rest, UNCHANGED <<review, request>>,
           page' \in PageRecords, PageInv', budget' \in BudgetRecords
    PROVE  LoopInv'
<1>1. ReviewInv' /\ (op.pc # "idle" => review'[op.by].pc = "applies")
  BY DEF LoopInv, ReviewInv, OpInv, Rest
<1>2. review' \in [Reviews -> ReviewRecords] /\ request' \in 0..MaxReviews
  BY DEF LoopInv, ReviewsTyped
<1> QED  BY <1>1, <1>2, SeatStays

LEMMA CoachesKeeps ==
    ASSUME LoopAssumption, LoopInv, Coaches
    PROVE  LoopInv'
<1>1. page \in PageRecords
  BY DEF LoopInv, PageTyped
<1>2. budget.notes < MaxNotes /\ budget.notes \in Nat
  BY Numbers DEF Coaches, LoopInv, PageTyped, BudgetRecords
<1>3. budget.notes + 1 \in 0..MaxNotes
  BY <1>2, Numbers
<1>4. page' = [page EXCEPT !.note = budget.notes + 1]
  BY DEF Coaches
<1>5. page' \in PageRecords
  BY <1>1, <1>3, <1>4 DEF PageRecords
<1>6. page'.loop = page.loop /\ page'.failures = page.failures /\ page'.review = page.review
  BY <1>1, <1>4 DEF PageRecords
<1>7. PageInv'
  BY <1>6 DEF LoopInv, PageInv
<1>8. UNCHANGED Rest /\ UNCHANGED <<review, request>>
  BY DEF Coaches, Elsewhere, Rest
<1>9. budget' \in BudgetRecords
  BY Spent DEF Coaches
<1> QED  BY <1>5, <1>7, <1>8, <1>9, PageChanges

LEMMA PagePausesKeeps ==
    ASSUME LoopAssumption, LoopInv, PagePauses
    PROVE  LoopInv'
<1>1. page \in PageRecords
  BY DEF LoopInv, PageTyped
<1>2. page' = [page EXCEPT !.loop = "paused", !.review = 0, !.failures = 0]
  BY DEF PagePauses
<1>3. page' \in PageRecords
  <2>1. 0 \in 0..MaxReviews /\ 0 \in 0..Patience
    BY Numbers
  <2> QED  BY <1>1, <1>2, <2>1 DEF PageRecords
<1>4. page'.loop = "paused" /\ page'.review = 0
  BY <1>1, <1>2 DEF PageRecords
<1>5. PageInv'
  BY <1>4 DEF PageInv
<1>6. UNCHANGED Rest /\ UNCHANGED <<review, request, budget>>
  BY DEF PagePauses, Elsewhere, Rest
<1> QED  BY <1>3, <1>5, <1>6, SameBudget, PageChanges

LEMMA PageGoesOnKeeps ==
    ASSUME LoopAssumption, LoopInv, PageGoesOn
    PROVE  LoopInv'
<1>1. page \in PageRecords
  BY DEF LoopInv, PageTyped
<1>2. page' = [page EXCEPT !.loop = "on", !.failures = 0]
  BY DEF PageGoesOn, GoesOn
<1>3. page' \in PageRecords
  <2>1. 0 \in 0..MaxReviews /\ 0 \in 0..Patience
    BY Numbers
  <2> QED  BY <1>1, <1>2, <2>1 DEF PageRecords
<1>4. page'.loop = "on" /\ page'.failures = 0
  BY <1>1, <1>2 DEF PageRecords
<1>5. PageInv'
  BY <1>4, Numbers DEF PageInv
<1>6. UNCHANGED Rest /\ UNCHANGED <<review, request, budget>>
  BY DEF PageGoesOn, Elsewhere, Rest
<1> QED  BY <1>3, <1>5, <1>6, SameBudget, PageChanges

LEMMA ProlongedFacts ==
    ASSUME LoopAssumption, LoopInv
    PROVE  /\ Prolonged \in AgentRecords
           /\ Prolonged.who = agent.who /\ Prolonged.session = agent.session
           /\ Prolonged.seen = agent.seen /\ Prolonged.since = agent.since
           /\ (Prolonged.held <=> agent.held) /\ Prolonged.left >= agent.left
           /\ Prolonged.left >= 0 => Prolonged.left + Prolonged.age <= 2 * Lease
           /\ agent.who = NoOne => Prolonged = agent
<1>1. agent \in AgentRecords
  BY DEF LoopInv, GameTyped
<1>2. CASE agent.who = NoOne
  BY <1>1, <1>2 DEF Prolonged, LoopInv, AgentInv, AgentRecords
<1>3. CASE agent.who # NoOne
  <2> DEFINE left == Most(agent.left, Least(Lease, 2 * Lease - agent.age))
  <2>1. Prolonged = [agent EXCEPT !.left = left]
    BY <1>3 DEF Prolonged
  <2>2. agent.left \in -1..Lease /\ agent.age \in 0..(2 * Lease + 1)
    BY <1>1 DEF AgentRecords
  <2>3. left \in -1..Lease /\ left >= agent.left
    BY <2>2, Numbers DEF Most, Least
  <2>4. left >= 0 => left + agent.age <= 2 * Lease
    BY <2>2, Numbers DEF Most, Least, LoopInv, AgentInv
  <2> HIDE DEF left
  <2>5. Prolonged \in AgentRecords
    BY <1>1, <2>1, <2>3 DEF AgentRecords
  <2>6. /\ Prolonged.who = agent.who /\ Prolonged.session = agent.session
        /\ Prolonged.seen = agent.seen /\ Prolonged.since = agent.since /\ Prolonged.age = agent.age
        /\ (Prolonged.held <=> agent.held) /\ Prolonged.left = left
    BY <1>1, <2>1 DEF AgentRecords
  <2> QED  BY <1>3, <2>3, <2>4, <2>5, <2>6
<1> QED  BY <1>2, <1>3

LEMMA BeginKeeps ==
    ASSUME LoopAssumption, LoopInv, NEW r \in Reviews, Begin(r)
    PROVE  LoopInv'
<1> DEFINE pc == IF NothingToDo(r) THEN "skips" ELSE "plans"
           mine == [review[r] EXCEPT !.pc = pc, !.seq = game.seq]
           Other(q) == [review[q] EXCEPT !.outdated = @ \/ review[q].pc \in {"plans", "applies"}]
<1>1. review \in [Reviews -> ReviewRecords] /\ review[r] \in ReviewRecords /\ game.seq \in Int
  BY DEF LoopInv, ReviewsTyped, GameTyped, GameRecords
<1>2. review[r].pc = "waits" /\ request' = r /\ agent' = Prolonged
  BY DEF Begin
<1>3. review' = [q \in Reviews |-> IF q = r THEN mine ELSE Other(q)]
  BY DEF Begin
<1>4. UNCHANGED <<game, seat, sessions, op, timer, ran, page, heard, kept, budget>>
  BY DEF Begin
<1>5. mine \in ReviewRecords
  BY <1>1 DEF ReviewRecords
<1>6. /\ mine.pc = pc /\ mine.note = review[r].note /\ mine.kind = review[r].kind /\ mine.who = review[r].who
      /\ mine.outdated <=> review[r].outdated
  BY <1>1 DEF ReviewRecords
<1>7. pc = "skips" => review[r].note = 0
  BY DEF NothingToDo
<1>8. ReviewFits(review[r], request = r, heard)
  BY DEF LoopInv, ReviewInv
<1>9. ReviewFits(mine, TRUE, heard)
  BY <1>2, <1>6, <1>7, <1>8 DEF ReviewFits
<1>10. ASSUME NEW q \in Reviews
       PROVE  /\ Other(q) \in ReviewRecords
              /\ Other(q).pc = review[q].pc /\ Other(q).note = review[q].note
              /\ Other(q).kind = review[q].kind /\ Other(q).who = review[q].who
              /\ review[q].pc = "waits" => (Other(q).outdated <=> review[q].outdated)
  <2>1. review[q] \in ReviewRecords
    BY <1>1
  <2>2. (review[q].outdated \/ review[q].pc \in {"plans", "applies"}) \in BOOLEAN
    BY <2>1 DEF ReviewRecords
  <2> DEFINE flag == review[q].outdated \/ review[q].pc \in {"plans", "applies"}
  <2>3. Other(q) = [review[q] EXCEPT !.outdated = flag] /\ flag \in BOOLEAN
    BY <2>2
  <2>4. review[q].pc = "waits" => (flag <=> review[q].outdated)
    OBVIOUS
  <2> HIDE DEF flag, Other
  <2>5. Other(q) \in ReviewRecords
    BY <2>1, <2>3 DEF ReviewRecords
  <2>6. /\ Other(q).pc = review[q].pc /\ Other(q).note = review[q].note
        /\ Other(q).kind = review[q].kind /\ Other(q).who = review[q].who
        /\ (Other(q).outdated <=> flag)
    BY <2>1, <2>3 DEF ReviewRecords
  <2> QED  BY <2>4, <2>5, <2>6
<1> HIDE DEF mine, Other
<1>11. ReviewsTyped'
  BY <1>2, <1>3, <1>4, <1>5, <1>10, Numbers DEF LoopInv, ReviewsTyped
<1>12. ASSUME NEW q \in Reviews
       PROVE  ReviewFits(review'[q], request' = q, heard')
  <2>1. CASE q = r
    BY <1>2, <1>3, <1>4, <1>9, <2>1 DEF ReviewFits
  <2>2. CASE q # r
    <3>1. ReviewFits(review[q], request = q, heard) /\ review'[q] = Other(q)
      BY <1>3, <2>2 DEF LoopInv, ReviewInv
    <3> QED  BY <1>2, <1>4, <1>10, <2>2, <3>1 DEF ReviewFits
  <2> QED  BY <2>1, <2>2
<1>13. op.pc # "idle" => op.by \in Reviews /\ op.by # r /\ review'[op.by] = Other(op.by)
  BY <1>2, <1>3 DEF LoopInv, OpInv
<1>14. ReviewInv'
  BY <1>4, <1>10, <1>12, <1>13 DEF LoopInv, ReviewInv
<1>15. GameTyped' /\ PageTyped' /\ PageInv'
  BY <1>2, <1>4, ProlongedFacts DEF LoopInv, GameTyped, PageTyped, PageInv
<1>16. AgentInv'
  BY <1>2, <1>4, ProlongedFacts DEF LoopInv, AgentInv
<1>17. OpInv'
  BY <1>2, <1>4, <1>10, <1>13, ProlongedFacts DEF LoopInv, OpInv, Opening
<1>18. InputInv'
  BY <1>2, <1>4, ProlongedFacts DEF LoopInv, InputInv, HeldInv, InputIsRemembered
<1>19. LapsedLetsGo'
  <2>1. agent.left \in Int /\ agent'.left \in Int /\ agent'.left >= agent.left /\ agent'.who = agent.who
    BY <1>2, <1>15, ProlongedFacts DEF LoopInv, GameTyped, AgentRecords
  <2>2. agent.left >= 0 => agent'.left >= 0
    BY <2>1
  <2> QED  BY <1>4, <2>1, <2>2 DEF LoopInv, LapsedLetsGo, Engaged
<1>20. KeptInv'
  BY <1>2, <1>4, ProlongedFacts DEF LoopInv, KeptInv, Discrete
<1> QED  BY <1>11, <1>14, <1>15, <1>16, <1>17, <1>18, <1>19, <1>20 DEF LoopInv

-----------------------------------------------------------------------------
(* The timer, and what is applied.                                         *)
LEMMA RunKeeps ==
    ASSUME LoopAssumption, LoopInv, Run, op.pc \in {"idle", "run"}, op' \in OpRecords, op'.pc = "idle",
           UNCHANGED <<sessions, heard>>, budget' \in BudgetRecords,
           timer' \in BOOLEAN, game.status = "running" /\ timer => timer', ran' \in BOOLEAN,
           review' \in [Reviews -> ReviewRecords], request' \in 0..MaxReviews,
           page' \in PageRecords, ReviewInv', PageInv'
    PROVE  LoopInv'
<1>1. RunIsFaithful
  BY RunFacts DEF LoopInv, InputInv, PageTyped
<1>2. GameTyped' /\ ReviewsTyped' /\ PageTyped'
  BY <1>1 DEF RunIsFaithful, LoopInv, ReviewsTyped, PageTyped
<1>3. op.pc \notin Opening /\ op.pc \notin {"check", "install"}
  BY DEF Opening
<1>4. OpInv'
  BY <1>1, <1>3 DEF LoopInv, OpInv, RunIsFaithful, SameAgent, Opening
<1>5. AgentInv'
  <2>1. CASE agent.who = NoOne
    <3>1. agent' = agent /\ seat' = seat
      BY <1>1, <2>1 DEF RunIsFaithful
    <3> QED  BY <3>1 DEF LoopInv, AgentInv
  <2>2. CASE agent.who # NoOne
    BY <1>1, <2>2 DEF LoopInv, AgentInv, RunIsFaithful, SameAgent
  <2> QED  BY <2>1, <2>2
<1>6. CASE game.status # "running"
  <2>1. UNCHANGED <<game, agent, seat, kept>>
    BY <1>1, <1>6 DEF RunIsFaithful
  <2>2. InputInv'
    BY <2>1 DEF LoopInv, InputInv, HeldInv, InputIsRemembered
  <2>3. LapsedLetsGo' /\ KeptInv'
    BY <1>6, <2>1 DEF LoopInv, LapsedLetsGo, KeptInv
  <2> QED  BY <1>2, <1>4, <1>5, <2>2, <2>3 DEF LoopInv
<1>7. CASE game.status = "running"
  <2>1. game'.status = "running"
    BY <1>1, <1>7 DEF RunIsFaithful
  <2>3. InputInv'
    BY <1>1, <2>1 DEF RunIsFaithful, InputInv
  <2>4. agent.left \in Int /\ agent'.left = agent.left /\ agent'.who = agent.who
    BY <1>1 DEF LoopInv, GameTyped, AgentRecords, RunIsFaithful, SameAgent
  <2>5. LapsedLetsGo'
    BY <1>1, <1>7, <2>1, <2>4 DEF RunIsFaithful, LapsedLetsGo, Engaged
  <2>6. KeptInv'
    <3>1. ASSUME kept' > 0
          PROVE  /\ UNCHANGED <<game, seat, kept>> /\ agent'.who = agent.who
                 /\ game.mine /\ agent.who # NoOne /\ Discrete /\ timer'
                 /\ agent'.seen = game.seq /\ agent'.since < Planning /\ kept' <= agent'.since + 1
      <4>1. UNCHANGED <<game, seat, kept>> /\ kept > 0 /\ agent'.who = agent.who
        BY <1>1, <3>1 DEF RunIsFaithful, SameAgent
      <4>2. game.mine /\ agent.who # NoOne /\ Discrete /\ timer'
        BY <1>7, <4>1 DEF LoopInv, KeptInv
      <4> QED  BY <1>1, <1>7, <3>1, <4>1, <4>2 DEF RunIsFaithful
    <3> QED  BY <2>1, <3>1 DEF KeptInv, Discrete
  <2> QED  BY <1>2, <1>4, <1>5, <2>3, <2>5, <2>6 DEF LoopInv
<1> QED  BY <1>6, <1>7

LEMMA TimerRunsKeeps ==
    ASSUME LoopAssumption, LoopInv, TimerRuns
    PROVE  LoopInv'
<1>1. Run /\ op.pc = "idle" /\ timer' \in BOOLEAN /\ ran' \in BOOLEAN
  BY DEF TimerRuns
<1>2. game.status = "running" /\ timer => timer'
  BY DEF TimerRuns
<1>3. UNCHANGED <<request, review, sessions, op, page, heard, budget>>
  BY DEF TimerRuns
<1>4. ReviewInv' /\ PageInv' /\ op' \in OpRecords
      /\ review' \in [Reviews -> ReviewRecords] /\ request' \in 0..MaxReviews /\ page' \in PageRecords
  BY <1>3 DEF LoopInv, ReviewInv, PageInv, ReviewsTyped, PageTyped
<1> QED  BY <1>1, <1>2, <1>3, <1>4, SameBudget, RunKeeps

\* The save after an action fails, and the match is paused.
LEMMA RunFailsKeeps ==
    ASSUME LoopAssumption, LoopInv, RunFails, op.pc \in {"idle", "run"}, op' \in OpRecords, op'.pc = "idle",
           UNCHANGED <<sessions, heard, ran>>, timer' \in BOOLEAN,
           review' \in [Reviews -> ReviewRecords], request' \in 0..MaxReviews,
           page' \in PageRecords, ReviewInv', PageInv'
    PROVE  LoopInv'
<1> DEFINE paused == [game EXCEPT !.status = "paused"]
<1>1. /\ game.status = "running" /\ agent.who # NoOne /\ ~Discrete /\ UNCHANGED kept
      /\ \/ ~agent.held /\ \E offered \in BOOLEAN : Control(paused, TRUE, offered, FALSE, TRUE)
         \/ ActsOtherwise(paused)
         \/ LetGo(paused, TRUE)
  BY DEF RunFails
<1>2. AsItIs(paused) /\ paused.status = "paused"
  BY DEF LoopInv, GameTyped, GameRecords, AsItIs
<1> HIDE DEF paused
<1>3. agent.who # NoOne
  BY <1>1
<1>4. GameTyped' /\ SameAgent /\ HeldInv' /\ game'.status = "paused" /\ game'.mode = game.mode
  <2>1. CASE ~agent.held /\ \E offered \in BOOLEAN : Control(paused, TRUE, offered, FALSE, TRUE)
    <3>1. PICK offered \in BOOLEAN : Control(paused, TRUE, offered, FALSE, TRUE)
      BY <2>1
    <3>2. /\ GameTyped' /\ SameAgent /\ game'.input /\ game'.astray
          /\ game'.status = paused.status /\ game'.mode = paused.mode
      BY <1>2, <3>1, ControlFacts DEF LoopInv, AsItIs
    <3> QED  BY <1>2, <3>2 DEF HeldInv, InputIsRemembered, AsItIs
  <2>2. CASE ActsOtherwise(paused)
    <3>1. LetsGo(paused)
      BY <1>2, <1>3, <2>2, OtherwiseFacts DEF LoopInv, InputInv
    <3> QED  BY <1>2, <3>1 DEF LetsGo, AsItIs
  <2>3. CASE LetGo(paused, TRUE)
    <3>1. LetsGo(paused)
      BY <1>2, <2>3, LetGoFacts DEF LoopInv, InputInv
    <3> QED  BY <1>2, <3>1 DEF LetsGo, AsItIs
  <2> QED  BY <1>1, <2>1, <2>2, <2>3
<1>5. budget' \in BudgetRecords
  BY Spent DEF RunFails
<1>6. ReviewsTyped' /\ PageTyped'
  BY <1>1, <1>5 DEF LoopInv, ReviewsTyped, PageTyped
<1>7. AgentInv'
  BY <1>3, <1>4 DEF LoopInv, AgentInv, SameAgent
<1>8. OpInv'
  BY <1>3, <1>4 DEF LoopInv, OpInv, Opening, SameAgent
<1>9. InputInv' /\ LapsedLetsGo'
  BY <1>4 DEF InputInv, LapsedLetsGo
<1>10. KeptInv'
  BY <1>1 DEF LoopInv, KeptInv
<1> QED  BY <1>4, <1>6, <1>7, <1>8, <1>9, <1>10 DEF LoopInv

LEMMA TimerFailsKeeps ==
    ASSUME LoopAssumption, LoopInv, TimerFails
    PROVE  LoopInv'
<1>1. RunFails /\ op.pc = "idle" /\ timer' \in BOOLEAN
      /\ UNCHANGED <<request, review, sessions, op, ran, page, heard>>
  BY DEF TimerFails
<1>2. ReviewInv' /\ PageInv' /\ op' \in OpRecords
      /\ review' \in [Reviews -> ReviewRecords] /\ request' \in 0..MaxReviews /\ page' \in PageRecords
  BY <1>1 DEF LoopInv, ReviewInv, PageInv, ReviewsTyped, PageTyped
<1> QED  BY <1>1, <1>2, RunFailsKeeps

LEMMA AppliedKeeps ==
    ASSUME LoopAssumption, LoopInv, Applied
    PROVE  LoopInv'
<1> DEFINE r == op.by
<1>1. op.pc = "run" /\ op' = NoOp /\ UNCHANGED <<request, sessions, timer, ran, page, heard>>
  BY DEF Applied
<1>2. r \in Reviews /\ review[r].note \in heard \cup {0}
  BY <1>1 DEF LoopInv, OpInv, ReviewInv
<1>3. PICK pc \in {"applied", "failed"} :
         /\ Answer(r, pc)
         /\ \/ Run /\ UNCHANGED budget
            \/ RunFails
            \/ Run /\ budget.upsets < MaxUpsets /\ Spend("upsets")
  BY DEF Applied
<1>4. pc \in Answers /\ pc # "waited"
  BY DEF Answers
<1>5. review' = [review EXCEPT ![r] = Answered(r, pc)]
  BY <1>3 DEF Answer
<1>6. /\ \A open : ReviewFits(Answered(r, pc), open, heard)
      /\ Answered(r, pc) \in ReviewRecords
  BY <1>2, <1>4, AnsweredFits
<1> HIDE DEF r
<1>7. op' \in OpRecords /\ op'.pc = "idle"
  BY <1>1, NoReviewTyped DEF NoOp
<1>8. review' \in [Reviews -> ReviewRecords] /\ request' \in 0..MaxReviews /\ page' \in PageRecords /\ PageInv'
  BY <1>1, <1>5, <1>6 DEF LoopInv, ReviewsTyped, PageTyped, PageInv
<1>9. ASSUME NEW q \in Reviews
      PROVE  ReviewFits(review'[q], request' = q, heard')
  <2>1. CASE q = r
    BY <1>1, <1>2, <1>5, <1>6, <2>1 DEF LoopInv, ReviewsTyped
  <2>2. CASE q # r
    <3>1. review'[q] = review[q]
      BY <1>5, <2>2 DEF LoopInv, ReviewsTyped
    <3> QED  BY <1>1, <3>1 DEF LoopInv, ReviewInv
  <2> QED  BY <2>1, <2>2
<1>10. ReviewInv'
  BY <1>7, <1>9 DEF ReviewInv
<1>11. timer' \in BOOLEAN /\ ran' \in BOOLEAN /\ (game.status = "running" /\ timer => timer')
  BY <1>1 DEF LoopInv, PageTyped
<1>12. CASE Run /\ UNCHANGED budget
  BY <1>1, <1>7, <1>8, <1>10, <1>11, <1>12, SameBudget, RunKeeps
<1>13. CASE RunFails
  BY <1>1, <1>7, <1>8, <1>10, <1>11, <1>13, RunFailsKeeps
<1>14. CASE Run /\ budget.upsets < MaxUpsets /\ Spend("upsets")
  BY <1>1, <1>7, <1>8, <1>10, <1>11, <1>14, Spent, RunKeeps
<1> QED  BY <1>3, <1>12, <1>13, <1>14

-----------------------------------------------------------------------------
(* Updates.                                                                *)
\* A review that goes on to be applied, or already is.
GoesOnTo(r) ==
    /\ review' \in [Reviews -> ReviewRecords] /\ review'[r].pc = "applies"
    /\ review'[r].note = review[r].note
    /\ review'[r].kind = "coach" => review'[r].who \in AgentControllers
    /\ request = r => ~review'[r].outdated
    /\ \A q \in Reviews : q # r => review'[q] = review[q]

LEMMA AppliesFacts ==
    ASSUME LoopAssumption, LoopInv, NEW r \in Reviews, review' = [review EXCEPT ![r].pc = "applies"]
    PROVE  GoesOnTo(r)
<1>1. review \in [Reviews -> ReviewRecords] /\ review[r] \in ReviewRecords
  BY DEF LoopInv, ReviewsTyped
<1> DEFINE new == [review[r] EXCEPT !.pc = "applies"]
<1>2. review' = [review EXCEPT ![r] = new]
  OBVIOUS
<1>3. new \in ReviewRecords
  BY <1>1 DEF ReviewRecords
<1>4. /\ new.pc = "applies" /\ new.note = review[r].note /\ new.kind = review[r].kind
      /\ new.who = review[r].who /\ (new.outdated <=> review[r].outdated)
  BY <1>1 DEF ReviewRecords
<1>5. ReviewFits(review[r], request = r, heard)
  BY DEF LoopInv, ReviewInv
<1> HIDE DEF new
<1>6. /\ review' \in [Reviews -> ReviewRecords] /\ review'[r] = new
      /\ \A q \in Reviews : q # r => review'[q] = review[q]
  BY <1>1, <1>2, <1>3
<1> QED  BY <1>4, <1>5, <1>6 DEF GoesOnTo, ReviewFits

LEMMA InstalledKeeps ==
    ASSUME LoopAssumption, LoopInv, NEW r \in Reviews, NEW a \in AgentRecords,
           Current(r), GoesOnTo(r), Installed(r, a), sessions' = {a.session},
           a.who = seat.who, a.session \in Reviews,
           agent.who # NoOne => a.seen = agent.seen /\ a.since = agent.since /\ (a.held <=> agent.held),
           agent.who = NoOne => (game.input => game.astray) /\ ~a.held,
           UNCHANGED <<game, seat, ran, page, kept, budget>>
    PROVE  LoopInv'
<1>1. review[r] \in ReviewRecords /\ review[r].seq \in Int /\ review[r].note \in 0..MaxNotes
  BY DEF LoopInv, ReviewsTyped, ReviewRecords
<1>2. /\ agent' = [a EXCEPT !.left = Lease, !.age = 0, !.planned = review[r].seq]
      /\ request' = 0 /\ timer' = TRUE /\ op' = [pc |-> "run", by |-> r]
      /\ heard' = IF review[r].note = 0 THEN heard ELSE heard \cup {review[r].note}
  BY DEF Installed, Renewed
<1>3. agent' \in AgentRecords
  <2>1. 0 \in 0..(2 * Lease + 1) /\ Lease \in -1..Lease
    BY Numbers
  <2> QED  BY <1>1, <1>2, <2>1 DEF AgentRecords
<1>4. /\ agent'.who = seat.who /\ agent'.session = a.session /\ agent'.left = Lease /\ agent'.age = 0
      /\ agent'.seen = a.seen /\ agent'.since = a.since /\ (agent'.held <=> a.held)
  BY <1>2 DEF AgentRecords
<1>5. seat.who \in AgentControllers /\ seat.who # NoOne /\ Open
  BY Numbers DEF Current, Owned
<1>6. heard \subseteq heard' /\ heard' \subseteq 1..MaxNotes /\ review[r].note \in heard' \cup {0}
  BY <1>1, <1>2 DEF LoopInv, PageTyped
<1>7. op' \in OpRecords /\ op'.pc = "run" /\ op'.by = r
  BY <1>2, Numbers DEF OpRecords
<1>8. GameTyped' /\ PageTyped' /\ PageInv'
  BY <1>2, <1>3, <1>6 DEF LoopInv, GameTyped, PageTyped, PageInv
<1>9. ReviewsTyped'
  BY <1>2, <1>7, Numbers DEF LoopInv, ReviewsTyped, GoesOnTo, Reviews
<1>10. AgentInv'
  BY <1>4, <1>5, Numbers DEF AgentInv
<1>11. OpInv'
  <2>1. sessions' = {agent'.session} \ {0}
    BY <1>4, Numbers
  <2> QED  BY <1>7, <2>1 DEF OpInv, Opening, GoesOnTo
<1>12. InputInv' /\ LapsedLetsGo'
  <2>1. agent.who = NoOne => ~agent.held
    BY DEF LoopInv, AgentInv
  <2> QED  BY <1>4, <1>7, <2>1 DEF LoopInv, InputInv, HeldInv, InputIsRemembered, LapsedLetsGo
<1>13. KeptInv'
  BY <1>2, <1>4, <1>5 DEF LoopInv, KeptInv, Discrete
<1>14. ASSUME NEW q \in Reviews
       PROVE  ReviewFits(review'[q], request' = q, heard')
  <2>1. CASE q = r
    BY <1>2, <2>1, Numbers DEF GoesOnTo, ReviewFits
  <2>2. CASE q # r
    <3>1. ReviewFits(review[q], request = q, heard) /\ review'[q] = review[q] /\ request' # q
      BY <1>2, <2>2, Numbers DEF LoopInv, ReviewInv, GoesOnTo
    <3> QED  BY <1>6, <3>1 DEF ReviewFits
  <2> QED  BY <2>1, <2>2
<1>15. ReviewInv'
  BY <1>6, <1>7, <1>14 DEF ReviewInv, GoesOnTo
<1> QED  BY <1>8, <1>9, <1>10, <1>11, <1>12, <1>13, <1>15 DEF LoopInv

LEMMA KeepKeeps ==
    ASSUME LoopAssumption, LoopInv, NEW r \in Reviews, Keep(r)
    PROVE  LoopInv'
<1>1. op.pc = "idle" /\ review[r].pc = "plans" /\ Current(r) /\ UNCHANGED <<game, seat, sessions, ran, page, kept, budget>>
  BY DEF Keep
<1>2. CASE agent.who = NoOne
  <2>1. UNCHANGED Rest /\ Answer(r, "failed") /\ request' \in {request, 0}
    BY <1>1, <1>2 DEF Keep, Rest, Canceled
  <2>2. "failed" \in Answers \ {"applied"}
    BY DEF Answers
  <2> QED  BY <1>1, <2>1, <2>2, SameBudget, RefusalKeeps
<1>3. CASE agent.who # NoOne
  <2>1. Installed(r, agent) /\ review' = [review EXCEPT ![r].pc = "applies"]
    BY <1>3 DEF Keep
  <2>2. agent \in AgentRecords /\ agent.who = seat.who /\ agent.session \in Reviews
    BY <1>3 DEF LoopInv, GameTyped, AgentInv
  <2>3. sessions' = {agent.session}
    BY <1>1, <2>2, Numbers DEF LoopInv, OpInv
  <2> QED  BY <1>1, <1>3, <2>1, <2>2, <2>3, AppliesFacts, InstalledKeeps
<1> QED  BY <1>2, <1>3

\* A strategy's connection is opened step by step, and nothing is played yet.
LEMMA OpeningKeeps ==
    ASSUME LoopAssumption, LoopInv, op'.pc \in Opening, OpInv', op' \in OpRecords, sessions' \subseteq Reviews,
           GameTyped', AgentInv', InputInv', KeptInv', review' \in [Reviews -> ReviewRecords],
           \A q \in Reviews : ReviewFits(review'[q], request = q, heard),
           UNCHANGED <<request, timer, ran, page, heard, kept, budget>>
    PROVE  LoopInv'
<1>1. op'.pc # "idle" /\ op'.pc # "run"
  BY DEF Opening
<1>2. ReviewsTyped' /\ PageTyped' /\ PageInv'
  BY DEF LoopInv, ReviewsTyped, PageTyped, PageInv
<1>3. ReviewInv' /\ LapsedLetsGo'
  BY <1>1 DEF ReviewInv, LapsedLetsGo
<1> QED  BY <1>2, <1>3 DEF LoopInv

LEMMA ReplaceKeeps ==
    ASSUME LoopAssumption, LoopInv, NEW r \in Reviews, Replace(r)
    PROVE  LoopInv'
<1>1. op.pc = "idle" /\ Current(r) /\ UNCHANGED <<game, seat, sessions, ran, page, kept, budget>>
  BY DEF Replace
<1>2. review' = [review EXCEPT ![r].pc = "applies"] /\ GoesOnTo(r)
  BY AppliesFacts DEF Replace
<1>3. seat.who \in AgentControllers /\ seat.who # NoOne
  BY <1>1, Numbers DEF Current, Owned
<1>4. agent \in AgentRecords
  BY DEF LoopInv, GameTyped
<1>5. CASE Reusable
  <2> DEFINE a == Strategy(r, agent.session)
  <2>1. Installed(r, a) /\ agent.who = seat.who /\ agent.who # NoOne
    BY <1>3, <1>5 DEF Replace, Reusable
  <2>2. a = [agent EXCEPT !.who = seat.who, !.session = agent.session]
    BY <1>5 DEF Strategy
  <2>3. agent.session \in Reviews /\ sessions' = {agent.session}
    BY <1>1, <2>1, Numbers DEF LoopInv, AgentInv, OpInv
  <2>4. a \in AgentRecords
    BY <1>3, <1>4, <2>2 DEF AgentRecords
  <2>5. /\ a.who = seat.who /\ a.session = agent.session /\ a.seen = agent.seen
        /\ a.since = agent.since /\ (a.held <=> agent.held)
    BY <1>4, <2>2 DEF AgentRecords
  <2> HIDE DEF a
  <2> QED  BY <1>1, <1>2, <2>1, <2>3, <2>4, <2>5, InstalledKeeps
<1>6. CASE ~Reusable
  <2>1. op' = [pc |-> "connect", by |-> r] /\ UNCHANGED <<agent, request, timer, heard>>
    BY <1>6 DEF Replace
  <2>2. op' \in OpRecords /\ op'.pc = "connect" /\ op'.by = r
    BY <2>1, Numbers DEF OpRecords
  <2>3. agent.who = NoOne
    BY <1>1, <1>6, Numbers DEF LoopInv, AgentInv, OpInv, Reusable
  <2>4. OpInv'
    BY <1>1, <1>2, <2>1, <2>2, <2>3 DEF LoopInv, OpInv, Opening, GoesOnTo
  <2>5. GameTyped' /\ AgentInv' /\ InputInv' /\ KeptInv' /\ sessions' \subseteq Reviews
    BY <1>1, <2>1, <2>3 DEF LoopInv, GameTyped, ReviewsTyped, AgentInv, InputInv, HeldInv, InputIsRemembered, KeptInv
  <2>6. ASSUME NEW q \in Reviews
        PROVE  ReviewFits(review'[q], request = q, heard)
    <3>1. ReviewFits(review[q], request = q, heard)
      BY DEF LoopInv, ReviewInv
    <3> QED  BY <1>2, <3>1 DEF GoesOnTo, ReviewFits
  <2> QED  BY <1>1, <1>2, <2>1, <2>2, <2>4, <2>5, <2>6, OpeningKeeps DEF GoesOnTo, Opening
<1> QED  BY <1>5, <1>6

LEMMA ConnectedKeeps ==
    ASSUME LoopAssumption, LoopInv, Connected
    PROVE  LoopInv'
<1>1. /\ op.pc = "connect" /\ sessions' = sessions \cup {op.by} /\ op' = [op EXCEPT !.pc = "check"]
      /\ UNCHANGED <<game, seat, agent, request, review, timer, ran, page, heard, kept, budget>>
  BY DEF Connected
<1>2. op \in OpRecords /\ op.by \in Reviews /\ review[op.by].pc = "applies"
  BY <1>1 DEF LoopInv, ReviewsTyped, OpInv
<1>3. op' \in OpRecords /\ op'.pc = "check" /\ op'.by = op.by
  BY <1>1, <1>2 DEF OpRecords
<1>4. agent.who = NoOne /\ sessions = {}
  <2>1. agent.who = NoOne /\ sessions = {agent.session} \ {0}
    BY <1>1 DEF LoopInv, OpInv, Opening
  <2> QED  BY <2>1 DEF LoopInv, AgentInv
<1>5. OpInv' /\ sessions' \subseteq Reviews
  BY <1>1, <1>2, <1>3, <1>4 DEF OpInv, Opening
<1>6. GameTyped' /\ AgentInv' /\ InputInv' /\ KeptInv' /\ review' \in [Reviews -> ReviewRecords]
  BY <1>1 DEF LoopInv, GameTyped, ReviewsTyped, AgentInv, InputInv, HeldInv, InputIsRemembered, KeptInv, Discrete
<1>7. \A q \in Reviews : ReviewFits(review'[q], request = q, heard)
  BY <1>1 DEF LoopInv, ReviewInv
<1> QED  BY <1>1, <1>3, <1>5, <1>6, <1>7, OpeningKeeps DEF Opening

\* An update that was overtaken ends the session it had opened.
LEMMA GivenUpKeeps ==
    ASSUME LoopAssumption, LoopInv, op.pc \in {"check", "install"}, GivenUp(op.by),
           UNCHANGED <<ran, page, kept, budget>>
    PROVE  LoopInv'
<1> DEFINE r == op.by
           pc == Refusal(r)
<1>1. /\ sessions' = sessions \ {r} /\ request' = Canceled(r) /\ Answer(r, pc) /\ op' = NoOp
      /\ UNCHANGED <<game, seat, agent, timer, heard>>
  BY DEF GivenUp, EndSession
<1>2. r \in Reviews /\ review[r].pc = "applies" /\ sessions = {r} /\ agent.who = NoOne
  BY DEF LoopInv, OpInv, Opening
<1>3. pc \in Answers /\ pc # "applied" /\ pc # "waited"
  BY DEF Refusal, Answers
<1> HIDE DEF pc
<1>4. op' \in OpRecords /\ op'.pc = "idle"
  BY <1>1, NoReviewTyped DEF NoOp
<1>5. /\ \A open : ReviewFits(Answered(r, pc), open, heard)
      /\ Answered(r, pc) \in ReviewRecords
  BY <1>2, <1>3, AnsweredFits
<1> HIDE DEF r
<1>6. review' = [review EXCEPT ![r] = Answered(r, pc)]
  BY <1>1 DEF Answer
<1>7. request' \in {request, 0}
  BY <1>1 DEF Canceled
<1>8. ASSUME NEW q \in Reviews
      PROVE  ReviewFits(review'[q], request' = q, heard')
  <2>1. CASE q = r
    BY <1>1, <1>2, <1>5, <1>6, <2>1 DEF LoopInv, ReviewsTyped
  <2>2. CASE q # r
    <3>1. review'[q] = review[q] /\ (request' = q => request = q)
      BY <1>6, <1>7, <2>2, Numbers DEF LoopInv, ReviewsTyped
    <3>2. ReviewFits(review[q], request = q, heard)
      BY DEF LoopInv, ReviewInv
    <3> QED  BY <1>1, <3>1, <3>2 DEF ReviewFits
  <2> QED  BY <2>1, <2>2
<1>9. ReviewInv'
  BY <1>4, <1>8 DEF ReviewInv
<1>10. ReviewsTyped' /\ PageTyped' /\ PageInv' /\ GameTyped'
  <2>1. review' \in [Reviews -> ReviewRecords]
    BY <1>2, <1>5, <1>6 DEF LoopInv, ReviewsTyped
  <2>2. request' \in 0..MaxReviews
    BY <1>7, Numbers DEF LoopInv, ReviewsTyped
  <2> QED  BY <1>1, <1>4, <2>1, <2>2 DEF LoopInv, ReviewsTyped, PageTyped, PageInv, GameTyped
<1>11. AgentInv' /\ InputInv' /\ KeptInv'
  BY <1>1 DEF LoopInv, AgentInv, InputInv, HeldInv, InputIsRemembered, KeptInv, Discrete
<1>12. OpInv'
  BY <1>1, <1>2, <1>4 DEF LoopInv, AgentInv, OpInv, Opening
<1>13. LapsedLetsGo'
  BY <1>1, <1>2 DEF LapsedLetsGo
<1> QED  BY <1>9, <1>10, <1>11, <1>12, <1>13 DEF LoopInv

LEMMA CheckedKeeps ==
    ASSUME LoopAssumption, LoopInv, Checked
    PROVE  LoopInv'
<1> DEFINE r == op.by
<1>1. op.pc = "check" /\ UNCHANGED <<ran, page, kept, budget>>
  BY DEF Checked
<1>2. CASE ~Current(r)
  <2>1. GivenUp(r)
    BY <1>2 DEF Checked
  <2> QED  BY <1>1, <2>1, GivenUpKeeps
<1>3. CASE Current(r)
  <2>1. /\ op' = [op EXCEPT !.pc = "install"] /\ seat' = [seat EXCEPT !.hold = FALSE]
        /\ UNCHANGED <<agent, request, review, sessions, timer, heard>>
    BY <1>3 DEF Checked
  <2>2. op \in OpRecords /\ r \in Reviews /\ review[r].pc = "applies" /\ agent.who = NoOne /\ sessions = {r}
    BY <1>1 DEF LoopInv, ReviewsTyped, OpInv, Opening
  <2>3. op' \in OpRecords /\ op'.pc = "install" /\ op'.by = r
    BY <2>1, <2>2 DEF OpRecords
  <2>4. seat \in SeatRecords /\ agent \in AgentRecords
    BY DEF LoopInv, GameTyped
  <2>5. game.status \in {"lobby", "running"}
    BY <1>3 DEF Current, Open
  <2>6. PICK accepted \in BOOLEAN : StopInput(accepted)
    BY <1>3 DEF Checked
  <2>7. seat' \in SeatRecords /\ seat'.who = seat.who /\ seat'.hold = FALSE
    BY <2>1, <2>4 DEF SeatRecords
  <2>8. /\ game' \in GameRecords /\ game'.status = game.status /\ game'.mode = game.mode
        /\ game'.mine = game.mine /\ (game'.input => game.input)
        /\ (game'.input <=> game'.astray)
    BY <2>5, <2>6, StopFacts DEF LoopInv, InputInv, HeldInv
  <2>9. GameTyped' /\ AgentInv' /\ OpInv'
    BY <2>1, <2>2, <2>3, <2>4, <2>7, <2>8 DEF LoopInv, GameTyped, AgentInv, OpInv, Opening
  <2>10. InputInv'
    <3>1. ~agent.held
      BY <2>2 DEF LoopInv, AgentInv
    <3> QED  BY <2>1, <2>2, <2>7, <2>8, <3>1 DEF LoopInv, InputInv, HeldInv, InputIsRemembered
  <2>11. KeptInv'
    BY <1>1, <2>2 DEF LoopInv, KeptInv
  <2>12. sessions' \subseteq Reviews /\ review' \in [Reviews -> ReviewRecords]
         /\ \A q \in Reviews : ReviewFits(review'[q], request = q, heard)
    BY <2>1 DEF LoopInv, ReviewsTyped, ReviewInv
  <2> QED  BY <1>1, <2>1, <2>3, <2>9, <2>10, <2>11, <2>12, OpeningKeeps DEF Opening
<1> QED  BY <1>2, <1>3

LEMMA InstallKeeps ==
    ASSUME LoopAssumption, LoopInv, Install
    PROVE  LoopInv'
<1> DEFINE r == op.by
<1>1. op.pc = "install" /\ UNCHANGED <<ran, page, kept, budget>>
  BY DEF Install
<1>2. CASE ~Current(r)
  <2>1. GivenUp(r)
    BY <1>2 DEF Install, StillCurrent
  <2> QED  BY <1>1, <2>1, GivenUpKeeps
<1>3. CASE Current(r)
  <2> DEFINE a == Strategy(r, r)
  <2>1. Installed(r, a) /\ sessions' = sessions \ {agent.session} /\ UNCHANGED <<game, seat, review>>
    BY <1>3 DEF Install, StillCurrent
  <2>2. /\ r \in Reviews /\ review[r].pc = "applies" /\ agent.who = NoOne /\ sessions = {r}
        /\ (game.input => game.astray)
    BY <1>1 DEF LoopInv, OpInv, Opening
  <2>3. seat.who \in AgentControllers /\ seat.who # NoOne
    BY <1>3, Numbers DEF Current, Owned
  <2>4. a = [NoAgent EXCEPT !.who = seat.who, !.session = r]
    BY <2>2, <2>3 DEF Strategy, Reusable
  <2>5. NoAgent \in AgentRecords
    BY NoReviewTyped
  <2>6. a \in AgentRecords
    BY <2>2, <2>3, <2>4, <2>5, Numbers DEF AgentRecords
  <2>7. a.who = seat.who /\ a.session = r /\ a.held = FALSE
    BY <2>4 DEF NoAgent
  <2> HIDE DEF a
  <2>8. agent.session = 0
    BY <2>2 DEF LoopInv, AgentInv
  <2>9. sessions' = {a.session}
    BY <2>1, <2>2, <2>7, <2>8, Numbers
  <2>10. ReviewFits(review[r], request = r, heard)
    BY <2>2 DEF LoopInv, ReviewInv
  <2>11. GoesOnTo(r)
    BY <2>1, <2>2, <2>10 DEF LoopInv, ReviewsTyped, GoesOnTo, ReviewFits
  <2> HIDE DEF r
  <2> QED  BY <1>1, <1>3, <2>1, <2>2, <2>6, <2>7, <2>9, <2>11, InstalledKeeps
<1> QED  BY <1>2, <1>3

-----------------------------------------------------------------------------
(* The match and the seat.                                                 *)
LEMMA MatchChanges ==
    ASSUME LoopAssumption, LoopInv, op.pc = "idle", UNCHANGED <<request, review, sessions, op, page, heard>>,
           GameTyped', AgentInv', InputInv', LapsedLetsGo', KeptInv', agent'.session = agent.session,
           budget' \in BudgetRecords, kept' \in 0..(Planning + 2), timer' \in BOOLEAN, ran' \in BOOLEAN
    PROVE  LoopInv'
<1>1. ReviewsTyped' /\ PageTyped' /\ PageInv' /\ ReviewInv'
  BY DEF LoopInv, ReviewsTyped, PageTyped, PageInv, ReviewInv
<1>2. OpInv'
  BY DEF LoopInv, OpInv, Opening
<1> QED  BY <1>1, <1>2 DEF LoopInv

LEMMA StartsKeeps ==
    ASSUME LoopAssumption, LoopInv, Starts
    PROVE  LoopInv'
<1>1. /\ op.pc = "idle" /\ game.status = "lobby" /\ game' = [game EXCEPT !.status = "running"]
      /\ UNCHANGED <<seat, agent, request, review, sessions, op, timer, ran, page, heard, kept, budget>>
  BY DEF Starts
<1>2. game \in GameRecords /\ ~game.input
  BY <1>1 DEF LoopInv, GameTyped, InputInv
<1>3. game' \in GameRecords
  BY <1>1, <1>2 DEF GameRecords
<1>4. game'.status = "running" /\ ~game'.input /\ (game'.astray <=> game.astray)
  BY <1>1, <1>2 DEF GameRecords
<1>5. GameTyped' /\ AgentInv' /\ InputInv' /\ LapsedLetsGo'
  BY <1>1, <1>3, <1>4 DEF LoopInv, GameTyped, AgentInv, InputInv, HeldInv, InputIsRemembered, LapsedLetsGo
<1>6. KeptInv'
  BY <1>1 DEF LoopInv, KeptInv
<1> QED  BY <1>1, <1>5, <1>6, MatchChanges DEF LoopInv, PageTyped

LEMMA OtherMovesKeeps ==
    ASSUME LoopAssumption, LoopInv, OtherMoves
    PROVE  LoopInv'
<1>1. /\ op.pc = "idle" /\ game.status = "running" /\ game' = [game EXCEPT !.seq = @ + 1, !.mine = TRUE]
      /\ kept' = 0
      /\ UNCHANGED <<seat, agent, request, review, sessions, op, timer, ran, page, heard, budget>>
  BY DEF OtherMoves
<1>2. game \in GameRecords /\ game.seq + 1 \in Nat
  BY DEF LoopInv, GameTyped, GameRecords
<1>3. game' \in GameRecords
  BY <1>1, <1>2 DEF GameRecords
<1>4. game'.status = game.status /\ (game'.input <=> game.input) /\ (game'.astray <=> game.astray)
  BY <1>1, <1>2 DEF GameRecords
<1>5. GameTyped' /\ AgentInv' /\ InputInv' /\ LapsedLetsGo'
  BY <1>1, <1>3, <1>4 DEF LoopInv, GameTyped, AgentInv, InputInv, HeldInv, InputIsRemembered, LapsedLetsGo, Engaged
<1>6. KeptInv' /\ kept' \in 0..(Planning + 2)
  BY <1>1, Numbers DEF KeptInv
<1> QED  BY <1>1, <1>5, <1>6, MatchChanges DEF LoopInv, PageTyped

LEMMA RoundEndsKeeps ==
    ASSUME LoopAssumption, LoopInv, RoundEnds
    PROVE  LoopInv'
<1>1. /\ op.pc = "idle" /\ game' = [game EXCEPT !.status = "over"] /\ kept' = 0
      /\ UNCHANGED <<seat, agent, request, review, sessions, op, timer, ran, page, heard, budget>>
  BY DEF RoundEnds
<1>2. game \in GameRecords
  BY DEF LoopInv, GameTyped
<1>3. game' \in GameRecords
  BY <1>1, <1>2 DEF GameRecords
<1>4. game'.status = "over" /\ (game'.input <=> game.input) /\ (game'.astray <=> game.astray)
  BY <1>1, <1>2 DEF GameRecords
<1>5. GameTyped' /\ AgentInv' /\ InputInv' /\ LapsedLetsGo'
  BY <1>1, <1>3, <1>4 DEF LoopInv, GameTyped, AgentInv, InputInv, HeldInv, InputIsRemembered, LapsedLetsGo, Engaged
<1>6. KeptInv' /\ kept' \in 0..(Planning + 2)
  BY <1>1, Numbers DEF KeptInv
<1> QED  BY <1>1, <1>5, <1>6, MatchChanges DEF LoopInv, PageTyped

LEMMA NextRoundKeeps ==
    ASSUME LoopAssumption, LoopInv, NextRound
    PROVE  LoopInv'
<1>1. /\ op.pc = "idle" /\ kept' = 0 /\ game' = NewRound(game) /\ agent' = AgentOfNewRound
      /\ seat' = [seat EXCEPT !.hold = FALSE] /\ timer' = (timer \/ agent.who # NoOne)
      /\ UNCHANGED <<request, review, sessions, op, ran, page, heard, budget>>
  BY DEF NextRound
<1>2. /\ GameTyped' /\ SameAgent /\ ~game'.input /\ ~game'.astray /\ ~agent'.held /\ ~seat'.hold
      /\ game'.status = "running"
  BY <1>1, RoundFacts DEF LoopInv
<1>3. AgentInv' /\ InputInv' /\ LapsedLetsGo'
  BY <1>1, <1>2 DEF LoopInv, AgentInv, SameAgent, InputInv, HeldInv, InputIsRemembered, LapsedLetsGo
<1>4. KeptInv' /\ kept' \in 0..(Planning + 2)
  BY <1>1, Numbers DEF KeptInv
<1>5. timer' \in BOOLEAN
  BY <1>1
<1> QED  BY <1>1, <1>2, <1>3, <1>4, <1>5, MatchChanges DEF LoopInv, PageTyped, SameAgent

LEMMA PausesKeeps ==
    ASSUME LoopAssumption, LoopInv, Pauses
    PROVE  LoopInv'
<1> DEFINE paused == [game EXCEPT !.status = "paused"]
<1>1. /\ op.pc = "idle" /\ kept' = 0
      /\ \/ \E offered \in Offers : LetGo(paused, offered)
         \/ game' = paused /\ UNCHANGED <<agent, seat>>
      /\ UNCHANGED <<request, review, sessions, op, timer, ran, page, heard>>
  BY DEF Pauses
<1>2. AsItIs(paused) /\ paused.status = "paused"
  BY DEF LoopInv, GameTyped, GameRecords, AsItIs
<1> HIDE DEF paused
<1>3. GameTyped' /\ AgentInv' /\ HeldInv' /\ game'.status = "paused" /\ agent'.session = agent.session
  <2>1. CASE \E offered \in Offers : LetGo(paused, offered)
    <3>1. PICK offered \in BOOLEAN : LetGo(paused, offered)
      BY <2>1 DEF Offers
    <3>2. LetsGo(paused) /\ ~agent'.held
      BY <1>2, <3>1, LetGoFacts DEF LoopInv, InputInv
    <3> QED  BY <1>2, <3>2 DEF LoopInv, LetsGo, AgentInv, SameAgent
  <2>2. CASE game' = paused /\ UNCHANGED <<agent, seat>>
    BY <1>2, <2>2 DEF LoopInv, AsItIs, GameTyped, AgentInv, InputInv, HeldInv, InputIsRemembered
  <2> QED  BY <1>1, <2>1, <2>2
<1>4. budget' \in BudgetRecords
  BY Spent DEF Pauses
<1>5. InputInv' /\ LapsedLetsGo'
  BY <1>3 DEF InputInv, LapsedLetsGo
<1>6. KeptInv' /\ kept' \in 0..(Planning + 2)
  BY <1>1, Numbers DEF KeptInv
<1> QED  BY <1>1, <1>3, <1>4, <1>5, <1>6, MatchChanges DEF LoopInv, PageTyped

LEMMA ResumesKeeps ==
    ASSUME LoopAssumption, LoopInv, Resumes
    PROVE  LoopInv'
<1>1. /\ op.pc = "idle" /\ game' = [game EXCEPT !.status = "running"] /\ kept' = 0 /\ ran' = FALSE
      /\ UNCHANGED <<seat, agent, request, review, sessions, op, timer, page, heard, budget>>
  BY DEF Resumes
<1>2. game \in GameRecords
  BY DEF LoopInv, GameTyped
<1>3. game' \in GameRecords
  BY <1>1, <1>2 DEF GameRecords
<1>4. game'.status = "running" /\ (game'.input <=> game.input) /\ (game'.astray <=> game.astray)
  BY <1>1, <1>2 DEF GameRecords
<1>5. GameTyped' /\ AgentInv' /\ InputInv' /\ LapsedLetsGo'
  BY <1>1, <1>3, <1>4 DEF LoopInv, GameTyped, AgentInv, InputInv, HeldInv, InputIsRemembered, LapsedLetsGo
<1>6. KeptInv' /\ kept' \in 0..(Planning + 2)
  BY <1>1, Numbers DEF KeptInv
<1> QED  BY <1>1, <1>5, <1>6, MatchChanges DEF LoopInv, PageTyped

LEMMA ActsItselfKeeps ==
    ASSUME LoopAssumption, LoopInv, ActsItself
    PROVE  LoopInv'
<1> DEFINE fresh == [game EXCEPT !.astray = FALSE]
<1>1. /\ op.pc = "idle" /\ game.status = "running" /\ agent.who = NoOne
      /\ \/ \E offered \in BOOLEAN : Control(fresh, TRUE, offered, FALSE, ~offered)
         \/ Control(game, game.input, FALSE, FALSE, TRUE)
         \/ Control(game, FALSE, FALSE, FALSE, FALSE)
      /\ UNCHANGED <<request, review, sessions, op, timer, ran, page, heard, kept, budget>>
  BY DEF ActsItself
<1>2. game \in GameRecords /\ game.input \in BOOLEAN /\ GameTyped
  BY DEF LoopInv, GameTyped, GameRecords
<1>3. fresh \in GameRecords /\ fresh.status = game.status
  BY <1>2 DEF GameRecords
<1> HIDE DEF fresh
<1>4. /\ GameTyped' /\ SameAgent /\ ~agent'.held /\ game'.status = game.status
      /\ game'.input <=> seat'.hold \/ game'.astray
  <2>1. CASE \E offered \in BOOLEAN : Control(fresh, TRUE, offered, FALSE, ~offered)
    <3>1. PICK offered \in BOOLEAN : Control(fresh, TRUE, offered, FALSE, ~offered)
      BY <2>1
    <3> DEFINE cause == ~offered
    <3>2. Control(fresh, TRUE, offered, FALSE, cause) /\ cause \in BOOLEAN
      BY <3>1
    <3> HIDE DEF cause
    <3>3. /\ GameTyped' /\ SameAgent /\ ~agent'.held /\ game'.status = fresh.status /\ game'.input
          /\ (seat'.hold <=> offered) /\ (game'.astray <=> fresh.astray \/ cause)
      BY <1>2, <1>3, <3>2, ControlFacts
    <3> QED  BY <1>3, <3>3 DEF cause
  <2>2. CASE Control(game, game.input, FALSE, FALSE, TRUE)
    BY <1>2, <2>2, ControlFacts
  <2>3. CASE Control(game, FALSE, FALSE, FALSE, FALSE)
    BY <1>2, <2>3, ControlFacts
  <2> QED  BY <1>1, <2>1, <2>2, <2>3
<1>5. AgentInv' /\ agent'.who = NoOne
  BY <1>1, <1>4 DEF LoopInv, AgentInv, SameAgent
<1>6. InputInv' /\ LapsedLetsGo'
  BY <1>1, <1>4, <1>5 DEF InputInv, HeldInv, InputIsRemembered, LapsedLetsGo
<1>7. KeptInv'
  BY <1>1 DEF LoopInv, KeptInv
<1> QED  BY <1>1, <1>4, <1>5, <1>6, <1>7, MatchChanges DEF LoopInv, PageTyped, SameAgent

LEMMA HandsOverKeeps ==
    ASSUME LoopAssumption, LoopInv, NEW c \in AgentControllers \cup {Human}, HandsOver(c)
    PROVE  LoopInv'
<1>1. /\ op.pc = "idle" /\ Open /\ c # seat.who /\ UNCHANGED <<review, op, timer, ran, heard>>
      /\ seat' = [who |-> c, hold |-> FALSE]
      /\ agent' = NoAgent /\ request' = 0 /\ sessions' = {} /\ kept' = 0
  BY DEF HandsOver, Revoked
<1>2. budget' \in BudgetRecords
  BY Spent DEF HandsOver
<1>3. game \in GameRecords /\ seat \in SeatRecords /\ page \in PageRecords
  BY DEF LoopInv, GameTyped, PageTyped
<1>4. /\ game' \in GameRecords /\ game'.status = game.status
      /\ (game'.input <=> game'.astray) /\ (game'.input => game.input)
  <2>1. PICK accepted \in BOOLEAN : StopInput(accepted)
    BY DEF HandsOver, Revoked
  <2> QED  BY <1>1, <2>1, StopFacts DEF LoopInv, InputInv, HeldInv, Open
<1>5. game.status = "lobby" => ~game.input
  BY DEF LoopInv, InputInv
<1>6. GameTyped' /\ agent'.who = NoOne /\ agent'.session = 0 /\ agent'.left = -1 /\ agent'.held = FALSE
  BY <1>1, <1>4, NoReviewTyped DEF GameTyped, SeatRecords, NoAgent
<1>7. AgentInv' /\ InputInv' /\ LapsedLetsGo' /\ KeptInv'
  BY <1>1, <1>4, <1>5, <1>6 DEF AgentInv, InputInv, HeldInv, InputIsRemembered, LapsedLetsGo, KeptInv
<1>8. ReviewsTyped' /\ OpInv'
  BY <1>1, <1>6, Numbers DEF LoopInv, ReviewsTyped, OpInv, Opening
<1>9. page' \in PageRecords /\ PageInv'
  <2>1. CASE UNCHANGED page
    BY <1>3, <2>1 DEF LoopInv, PageInv
  <2>2. CASE page' = [loop |-> IF c \in AgentControllers THEN "on" ELSE "off",
                      agent |-> IF c \in AgentControllers THEN c ELSE page.agent,
                      review |-> 0, failures |-> 0, note |-> page.note]
    <3>1. 0 \in 0..MaxReviews /\ 0 \in 0..Patience /\ 0 < Patience
      BY Numbers
    <3>2. page.agent \in AgentControllers /\ page.note \in 0..MaxNotes
      BY <1>3 DEF PageRecords
    <3>3. page' \in PageRecords
      BY <2>2, <3>1, <3>2 DEF PageRecords
    <3>4. page'.review = 0 /\ page'.failures = 0
      BY <2>2
    <3> QED  BY <3>1, <3>3, <3>4 DEF PageInv
  <2> QED  BY <2>1, <2>2 DEF HandsOver
<1>10. PageTyped'
  BY <1>1, <1>2, <1>9, Numbers DEF LoopInv, PageTyped
<1>11. ASSUME NEW q \in Reviews
       PROVE  ReviewFits(review'[q], request' = q, heard')
  <2>1. ReviewFits(review[q], request = q, heard) /\ request' # q
    BY <1>1, Numbers DEF LoopInv, ReviewInv
  <2> QED  BY <1>1, <2>1 DEF ReviewFits
<1>12. ReviewInv'
  BY <1>1, <1>11 DEF ReviewInv
<1> QED  BY <1>6, <1>7, <1>8, <1>9, <1>10, <1>12 DEF LoopInv

\* Time passes only when the timer has run, so a turn that is kept has been
\* seen in the first unit of it.
LEMMA AgesFacts ==
    ASSUME LoopAssumption, LoopInv, Tick
    PROVE  /\ agent' \in AgentRecords /\ agent'.who = agent.who /\ agent'.session = agent.session
           /\ agent'.seen = agent.seen /\ (agent'.held <=> agent.held)
           /\ agent'.left >= 0 => agent'.left + agent'.age <= 2 * Lease
           /\ agent.who = NoOne => agent' = agent
           /\ agent.who # NoOne => agent'.since = Least(agent.since + 1, Planning)
<1>1. agent \in AgentRecords
  BY DEF LoopInv, GameTyped
<1>2. CASE agent.who = NoOne
  BY <1>1, <1>2 DEF Tick, LoopInv, AgentInv
<1>3. CASE agent.who # NoOne
  <2> DEFINE left == Most(agent.left - 1, -1)
             age == Least(agent.age + 1, 2 * Lease + 1)
             since == Least(agent.since + 1, Planning)
  <2>1. agent' = [agent EXCEPT !.left = left, !.age = age, !.since = since]
    BY <1>3 DEF Tick
  <2>2. agent.left \in -1..Lease /\ agent.age \in 0..(2 * Lease + 1) /\ agent.since \in 0..Planning
    BY <1>1 DEF AgentRecords
  <2>3. left \in -1..Lease /\ age \in 0..(2 * Lease + 1) /\ since \in 0..Planning
    BY <2>2, Numbers DEF Most, Least
  <2>4. left >= 0 => left + age <= 2 * Lease
    BY <2>2, Numbers DEF Most, Least, LoopInv, AgentInv
  <2> HIDE DEF left, age, since
  <2>5. agent' \in AgentRecords
    BY <1>1, <2>1, <2>3 DEF AgentRecords
  <2>6. /\ agent'.who = agent.who /\ agent'.session = agent.session /\ agent'.seen = agent.seen
        /\ (agent'.held <=> agent.held) /\ agent'.left = left /\ agent'.age = age /\ agent'.since = since
    BY <1>1, <2>1 DEF AgentRecords
  <2> QED  BY <1>3, <2>4, <2>5, <2>6 DEF since
<1> QED  BY <1>2, <1>3

LEMMA TickKeeps ==
    ASSUME LoopAssumption, LoopInv, Tick
    PROVE  LoopInv'
<1>1. /\ op.pc = "idle" /\ (timer => ran) /\ ran' = FALSE
      /\ kept' = (IF Waited THEN Least(kept + 1, Planning + 2) ELSE 0)
      /\ UNCHANGED <<game, seat, request, review, sessions, op, timer, page, heard, budget>>
  BY DEF Tick
<1>2. kept \in 0..(Planning + 2) /\ kept' \in 0..(Planning + 2)
  BY <1>1, Numbers DEF LoopInv, PageTyped, Least
<1>3. GameTyped'
  BY <1>1, AgesFacts DEF LoopInv, GameTyped
<1>4. AgentInv'
  <2>1. CASE agent.who = NoOne
    BY <1>1, <2>1, AgesFacts DEF LoopInv, AgentInv
  <2>2. CASE agent.who # NoOne
    BY <1>1, <2>2, AgesFacts DEF LoopInv, AgentInv
  <2> QED  BY <2>1, <2>2
<1>5. InputInv' /\ LapsedLetsGo'
  BY <1>1, AgesFacts DEF LoopInv, InputInv, HeldInv, InputIsRemembered, LapsedLetsGo
<1>6. KeptInv'
  <2>1. ASSUME kept' > 0
        PROVE  /\ Discrete /\ game.status = "running" /\ game.mine /\ timer /\ agent.who # NoOne
               /\ agent.seen = game.seq => kept' <= agent'.since + 1
               /\ agent.seen # game.seq => kept' <= 1
    <3>1. Waited /\ kept' = Least(kept + 1, Planning + 2)
      BY <1>1, <2>1
    <3>2. /\ Discrete /\ game.status = "running" /\ game.mine /\ timer /\ agent.who # NoOne
      BY <3>1 DEF Waited, Engaged
    <3>3. agent'.since = Least(agent.since + 1, Planning) /\ agent.since \in 0..Planning
      BY <3>2, AgesFacts DEF LoopInv, GameTyped, AgentRecords
    <3>4. CASE kept = 0
      BY <3>1, <3>2, <3>3, <3>4, Numbers DEF Least
    <3>5. CASE kept > 0
      <4>1. agent.seen = game.seq /\ agent.since < Planning /\ kept <= agent.since + 1
        BY <1>1, <3>2, <3>5 DEF LoopInv, KeptInv
      <4> QED  BY <1>2, <3>1, <3>2, <3>3, <4>1, Numbers DEF Least
    <3> QED  BY <1>2, <3>4, <3>5
  <2> QED  BY <1>1, <2>1, AgesFacts DEF KeptInv, Discrete
<1>7. timer' \in BOOLEAN /\ ran' \in BOOLEAN
  BY <1>1 DEF LoopInv, PageTyped
<1> QED  BY <1>1, <1>2, <1>3, <1>4, <1>5, <1>6, <1>7, AgesFacts, SameBudget, MatchChanges
-----------------------------------------------------------------------------
(* Every step.                                                             *)
LEMMA LoopStep ==
    ASSUME LoopAssumption, LoopInv, Next
    PROVE  LoopInv'
<1>1. ASSUME NEW r \in Reviews,
             \/ External(r) \/ Begin(r) \/ BeginFails(r) \/ Skip(r) \/ Fails(r)
             \/ Refused(r) \/ Keep(r) \/ Replace(r)
             \/ PageAsks(r) \/ CoachesDirectly(r) \/ CoachedDirectly(r)
      PROVE  LoopInv'
  BY <1>1, ExternalKeeps, BeginKeeps, BeginFailsKeeps, SkipKeeps, FailsKeeps, RefusedKeeps, KeepKeeps,
     ReplaceKeeps, PageAsksKeeps, CoachesDirectlyKeeps, CoachedDirectlyKeeps
<1>2. ASSUME Connected \/ Checked \/ Install \/ Applied \/ TimerRuns \/ TimerFails
      PROVE  LoopInv'
  BY <1>2, ConnectedKeeps, CheckedKeeps, InstallKeeps, AppliedKeeps, TimerRunsKeeps, TimerFailsKeeps
<1>3. ASSUME Starts \/ OtherMoves \/ RoundEnds \/ NextRound \/ Pauses \/ Resumes \/ ActsItself
      PROVE  LoopInv'
  BY <1>3, StartsKeeps, OtherMovesKeeps, RoundEndsKeeps, NextRoundKeeps, PausesKeeps, ResumesKeeps,
     ActsItselfKeeps
<1>4. ASSUME NEW c \in AgentControllers \cup {Human}, HandsOver(c)
      PROVE  LoopInv'
  BY <1>4, HandsOverKeeps
<1>5. ASSUME PageHears \/ Coaches \/ PagePauses \/ PageGoesOn \/ Tick
      PROVE  LoopInv'
  BY <1>5, PageHearsKeeps, CoachesKeeps, PagePausesKeeps, PageGoesOnKeeps, TickKeeps
<1> QED  BY <1>1, <1>2, <1>3, <1>4, <1>5 DEF Next

LEMMA LoopStutters ==
    ASSUME LoopInv, UNCHANGED vars
    PROVE  LoopInv'
<1>1. UNCHANGED <<game, seat, agent, request, review, sessions, op, timer, ran, page, heard, kept, budget>>
  BY DEF vars
<1>2. GameTyped' /\ ReviewsTyped' /\ PageTyped'
  BY <1>1 DEF LoopInv, GameTyped, ReviewsTyped, PageTyped
<1>3. AgentInv' /\ OpInv' /\ InputInv'
  BY <1>1 DEF LoopInv, AgentInv, OpInv, Opening, InputInv, HeldInv, InputIsRemembered
<1>4. LapsedLetsGo' /\ KeptInv'
  BY <1>1 DEF LoopInv, LapsedLetsGo, Engaged, KeptInv, Discrete
<1>5. ReviewInv' /\ PageInv'
  BY <1>1 DEF LoopInv, ReviewInv, PageInv
<1> QED  BY <1>2, <1>3, <1>4, <1>5 DEF LoopInv

LEMMA LoopIsInvariant == LoopAssumption => (Spec => []LoopInv)
<1> SUFFICES ASSUME LoopAssumption PROVE Spec => []LoopInv
  OBVIOUS
<1>1. Init => LoopInv
  BY InitLoop
<1>2. LoopInv /\ [Next]_vars => LoopInv'
  BY LoopStep, LoopStutters
<1> QED  BY <1>1, <1>2, PTL DEF Spec

-----------------------------------------------------------------------------
(* What the invariant says.                                                *)
LEMMA LoopMeans ==
    ASSUME LoopAssumption, LoopInv
    PROVE  LeasesAreKept
<1>1. TypeOK
  BY DEF LoopInv, GameTyped, ReviewsTyped, PageTyped, GameRecords, SeatRecords, AgentRecords,
         OpRecords, PageRecords, TypeOK
<1>2. LapsedLetsGo /\ InputIsRemembered
  BY DEF LoopInv, InputInv, HeldInv
<1>3. TurnIsPlayed
  <2>1. agent.since \in 0..Planning /\ kept \in 0..(Planning + 2)
    BY DEF LoopInv, GameTyped, PageTyped, AgentRecords
  <2>2. kept > 0 => kept <= agent.since + 1 \/ kept <= 1
    BY DEF LoopInv, KeptInv
  <2> QED  BY <2>1, <2>2, Numbers DEF TurnIsPlayed
<1>4. NoSessionLeft
  BY DEF LoopInv, OpInv, NoSessionLeft
<1> QED  BY <1>1, <1>2, <1>3, <1>4 DEF LeasesAreKept

\* What a step of the exclusive operation, of the match or of the page may do to an update.
LEMMA UpdateIsCurrent ==
    ASSUME LoopAssumption, LoopInv, Next, op'.pc = "run", op.pc # "run"
    PROVE  op'.by \in Reviews /\ Current(op'.by) /\ UNCHANGED seat
<1>1. ASSUME NEW r \in Reviews, Keep(r) \/ Replace(r)
      PROVE  op'.by \in Reviews /\ Current(op'.by) /\ UNCHANGED seat
  <2>1. Current(r) /\ UNCHANGED seat
    BY <1>1 DEF Keep, Replace
  <2>2. op' = op \/ op' = [pc |-> "run", by |-> r] \/ op' = [pc |-> "connect", by |-> r]
    BY <1>1 DEF Keep, Replace, Installed
  <2>3. op'.by = r
    BY <2>2
  <2> QED  BY <2>1, <2>3
<1>2. ASSUME Install
      PROVE  op'.by \in Reviews /\ Current(op'.by) /\ UNCHANGED seat
  <2>1. op.pc = "install" /\ op.by \in Reviews
    BY <1>2 DEF Install, LoopInv, OpInv
  <2>2. CASE Current(op.by)
    BY <1>2, <2>1, <2>2 DEF Install, StillCurrent, Installed
  <2>3. CASE ~Current(op.by)
    <3>1. op' = NoOp
      BY <1>2, <2>3 DEF Install, StillCurrent, GivenUp
    <3> QED  BY <3>1 DEF NoOp
  <2> QED  BY <2>2, <2>3
<1>3. ASSUME Connected \/ Checked \/ Applied
      PROVE  FALSE
  <2>1. op \in OpRecords
    BY DEF LoopInv, ReviewsTyped
  <2>2. op' = [op EXCEPT !.pc = "check"] \/ op' = [op EXCEPT !.pc = "install"] \/ op' = NoOp
    BY <1>3 DEF Connected, Checked, Applied, GivenUp
  <2>3. op'.pc \in {"check", "install", "idle"}
    BY <2>1, <2>2 DEF OpRecords, NoOp
  <2> QED  BY <2>3
<1>4. ASSUME NEW r \in Reviews,
             \/ External(r) \/ Begin(r) \/ BeginFails(r) \/ Skip(r) \/ Fails(r) \/ Refused(r)
             \/ PageAsks(r) \/ CoachesDirectly(r) \/ CoachedDirectly(r)
      PROVE  UNCHANGED op
  BY <1>4 DEF External, Begin, BeginFails, Skip, Fails, Refused, PageAsks, CoachesDirectly,
              CoachedDirectly, Elsewhere
<1>5. ASSUME \/ TimerRuns \/ TimerFails
             \/ Starts \/ OtherMoves \/ RoundEnds \/ NextRound \/ Pauses \/ Resumes \/ ActsItself
             \/ PageHears \/ Coaches \/ PagePauses \/ PageGoesOn \/ Tick
      PROVE  UNCHANGED op
  BY <1>5 DEF TimerRuns, TimerFails, Starts, OtherMoves, RoundEnds, NextRound, Pauses, Resumes,
              ActsItself, PageHears, Coaches, PagePauses, PageGoesOn, Tick, Elsewhere
<1>6. ASSUME NEW c \in AgentControllers \cup {Human}, HandsOver(c)
      PROVE  UNCHANGED op
  BY <1>6 DEF HandsOver
<1> QED  BY <1>1, <1>2, <1>3, <1>4, <1>5, <1>6 DEF Next

\* A script plays only on a lease.
PlaysNow == (game'.input /\ ~game.input) \/ (game.mine /\ ~game'.mine)

LEMMA RunsOnLease ==
    ASSUME LoopAssumption, LoopInv, Run \/ RunFails, PlaysNow
    PROVE  Engaged
<1> DEFINE paused == [game EXCEPT !.status = "paused"]
<1>1. game \in GameRecords /\ AsItIs(game) /\ AsItIs(paused)
  BY DEF LoopInv, GameTyped, GameRecords, AsItIs
<1> HIDE DEF paused
<1>2. ASSUME NEW g, AsItIs(g), NEW offered \in BOOLEAN, LetGo(g, offered)
      PROVE  FALSE
  <2>1. (game'.input => game.input) /\ game'.mine = game.mine
    BY <1>2, LetGoFacts DEF LoopInv, InputInv, LetsGo, AsItIs
  <2> QED  BY <2>1 DEF PlaysNow
<1>3. CASE RunFails /\ ~Engaged
  <2>1. LetGo(paused, TRUE)
    BY <1>3 DEF RunFails, paused
  <2> QED  BY <1>1, <1>2, <2>1
<1>4. CASE Run /\ ~Engaged
  <2>1. CASE game.status # "running" \/ agent.who = NoOne
    <3>1. game' = game
      BY <1>4, <2>1 DEF Run, Stays
    <3> QED  BY <3>1 DEF PlaysNow
  <2>2. CASE ~(game.status # "running" \/ agent.who = NoOne)
    <3>1. PICK offered \in BOOLEAN : LetGo(game, offered)
      BY <1>4, <2>2 DEF Run, Offers
    <3> QED  BY <1>1, <1>2, <3>1
  <2> QED  BY <2>1, <2>2
<1> QED  BY <1>3, <1>4

LEMMA PlaysOnLease ==
    ASSUME LoopAssumption, LoopInv, Next, PlaysNow, agent.who # NoOne \/ (game.mine /\ ~game'.mine)
    PROVE  Engaged
<1>1. game \in GameRecords
  BY DEF LoopInv, GameTyped
<1>2. CASE TimerRuns \/ TimerFails \/ Applied
  BY <1>2, RunsOnLease DEF TimerRuns, TimerFails, Applied
<1>3. CASE ActsItself
  <2>1. agent.who = NoOne /\ GameTyped
    BY <1>3 DEF ActsItself, LoopInv
  <2>2. game'.mine = game.mine
    BY <1>1, <1>3 DEF ActsItself, Control, GameRecords
  <2> QED  BY <2>1, <2>2
<1>4. ASSUME NEW r \in Reviews,
             \/ External(r) \/ Begin(r) \/ BeginFails(r) \/ Skip(r) \/ Fails(r) \/ Refused(r)
             \/ Keep(r) \/ Replace(r)
             \/ PageAsks(r) \/ CoachesDirectly(r) \/ CoachedDirectly(r)
      PROVE  FALSE
  <2>1. game' = game
    BY <1>4 DEF External, Begin, BeginFails, Skip, Fails, Refused, Keep, Replace, PageAsks,
                CoachesDirectly, CoachedDirectly, Elsewhere
  <2> QED  BY <2>1 DEF PlaysNow
<1>5. ASSUME \/ Connected \/ Install \/ PageHears \/ Coaches \/ PagePauses \/ PageGoesOn \/ Tick
      PROVE  FALSE
  <2>1. game' = game
    BY <1>5 DEF Connected, Install, GivenUp, PageHears, Coaches, PagePauses, PageGoesOn, Tick, Elsewhere
  <2> QED  BY <2>1 DEF PlaysNow
<1>6. ASSUME Checked \/ \E c \in AgentControllers \cup {Human} : HandsOver(c)
      PROVE  FALSE
  <2>1. game' = game \/ \E accepted \in BOOLEAN : StopInput(accepted)
    BY <1>6 DEF Checked, GivenUp, HandsOver, Revoked
  <2>2. (game'.input => game.input) /\ game'.mine = game.mine
    BY <2>1, StopFacts DEF LoopInv, InputInv, HeldInv
  <2> QED  BY <2>2 DEF PlaysNow
<1>7. ASSUME Starts \/ RoundEnds \/ Pauses \/ Resumes
      PROVE  FALSE
  <2>1. \/ \E s \in {"running", "over", "paused"} : game' = [game EXCEPT !.status = s]
        \/ \E offered \in BOOLEAN : LetGo([game EXCEPT !.status = "paused"], offered)
    BY <1>7 DEF Starts, RoundEnds, Pauses, Resumes, Offers
  <2>2. AsItIs([game EXCEPT !.status = "paused"])
    BY <1>1 DEF GameRecords, AsItIs
  <2>3. CASE \E s \in {"running", "over", "paused"} : game' = [game EXCEPT !.status = s]
    <3>1. (game'.input => game.input) /\ game'.mine = game.mine
      BY <1>1, <2>3 DEF GameRecords
    <3> QED  BY <3>1 DEF PlaysNow
  <2>4. CASE \E offered \in BOOLEAN : LetGo([game EXCEPT !.status = "paused"], offered)
    <3>1. LetsGo([game EXCEPT !.status = "paused"])
      BY <2>2, <2>4, LetGoFacts DEF LoopInv, InputInv
    <3> QED  BY <2>2, <3>1 DEF LetsGo, AsItIs, PlaysNow
  <2> QED  BY <2>1, <2>3, <2>4
<1>8. ASSUME OtherMoves
      PROVE  FALSE
  <2>1. game' = [game EXCEPT !.seq = @ + 1, !.mine = TRUE]
    BY <1>8 DEF OtherMoves
  <2>2. (game'.input <=> game.input) /\ game'.mine
    BY <1>1, <2>1 DEF GameRecords
  <2> QED  BY <2>2 DEF PlaysNow
<1>9. ASSUME NextRound
      PROVE  FALSE
  <2>1. game' = [game EXCEPT !.seq = @ + 1, !.mine = TRUE, !.status = "running",
                             !.input = FALSE, !.astray = FALSE]
    BY <1>9 DEF NextRound, NewRound
  <2>2. ~game'.input /\ game'.mine
    BY <1>1, <2>1 DEF GameRecords
  <2> QED  BY <2>2 DEF PlaysNow
<1> QED  BY <1>2, <1>3, <1>4, <1>5, <1>6, <1>7, <1>8, <1>9 DEF Next

\* The page lets go of a note only when it hears an answer.
LEMMA NoteIsAnswered ==
    ASSUME LoopAssumption, LoopInv, Next, page.note # 0, page'.note = 0
    PROVE  page.note \in heard
<1>1. page \in PageRecords
  BY DEF LoopInv, PageTyped
<1>2. CASE PageHears
  <2> DEFINE r == page.review
             ok == review[r].pc \in {"applied", "waited"}
  <2>1. r \in Reviews
    BY <1>1, <1>2, Numbers DEF PageHears, PageRecords, Reviews
  <2>2. ReviewFits(review[r], request = r, heard)
    BY <2>1 DEF LoopInv, ReviewInv
  <2>3. page'.note = NoteAfter(r, ok)
    BY <1>1, <1>2 DEF PageHears, PageRecords
  <2>4. ok /\ page.note = review[r].note
    BY <2>3 DEF NoteAfter
  <2> QED  BY <2>2, <2>4 DEF ReviewFits
<1>3. CASE Coaches
  <2>1. page' = [page EXCEPT !.note = budget.notes + 1] /\ budget.notes \in Nat
    BY <1>3, Numbers DEF Coaches, LoopInv, PageTyped, BudgetRecords
  <2>2. page'.note = budget.notes + 1
    BY <1>1, <2>1 DEF PageRecords
  <2> QED  BY <2>1, <2>2
<1>4. ASSUME NEW r \in Reviews,
             \/ External(r) \/ Begin(r) \/ BeginFails(r) \/ Skip(r) \/ Fails(r) \/ Refused(r)
             \/ Keep(r) \/ Replace(r) \/ CoachesDirectly(r)
      PROVE  FALSE
  BY <1>4 DEF External, Begin, BeginFails, Skip, Fails, Refused, Keep, Replace, CoachesDirectly, Elsewhere
<1>5. ASSUME NEW r \in Reviews, PageAsks(r) \/ CoachedDirectly(r)
      PROVE  FALSE
  <2>1. \/ page' = page \/ page' = [page EXCEPT !.review = r]
        \/ page' = [page EXCEPT !.loop = "on", !.agent = review[r].who]
    BY <1>5 DEF PageAsks, CoachedDirectly
  <2>2. page'.note = page.note
    BY <1>1, <2>1 DEF PageRecords
  <2> QED  BY <2>2
<1>6. ASSUME PagePauses \/ PageGoesOn
      PROVE  FALSE
  <2>1. \/ page' = [page EXCEPT !.loop = "paused", !.review = 0, !.failures = 0]
        \/ page' = [page EXCEPT !.loop = "on", !.failures = 0]
    BY <1>6 DEF PagePauses, PageGoesOn, GoesOn
  <2>2. page'.note = page.note
    BY <1>1, <2>1 DEF PageRecords
  <2> QED  BY <2>2
<1>7. ASSUME \E c \in AgentControllers \cup {Human} : HandsOver(c)
      PROVE  FALSE
  <2>1. page'.note = page.note
    BY <1>7 DEF HandsOver
  <2> QED  BY <2>1
<1>8. ASSUME \/ Connected \/ Checked \/ Install \/ Applied \/ TimerRuns \/ TimerFails
             \/ Starts \/ OtherMoves \/ RoundEnds \/ NextRound \/ Pauses \/ Resumes \/ ActsItself \/ Tick
      PROVE  FALSE
  BY <1>8 DEF Connected, Checked, Install, Applied, TimerRuns, TimerFails, Starts, OtherMoves, RoundEnds,
              NextRound, Pauses, Resumes, ActsItself, Tick
<1> QED  BY <1>2, <1>3, <1>4, <1>5, <1>6, <1>7, <1>8 DEF Next

-----------------------------------------------------------------------------
(* Theorems.                                                               *)
LEMMA LeasesStay == LoopAssumption => (Spec => []LeasesAreKept)
<1> SUFFICES ASSUME LoopAssumption PROVE Spec => []LeasesAreKept
  OBVIOUS
<1>1. LoopInv => LeasesAreKept
  BY LoopMeans
<1> QED  BY <1>1, LoopIsInvariant, PTL

(* The state of a seat, its strategy, its reviews and its page is always of  *)
(* the shape that the code gives it; above all a lease is never longer than  *)
(* leaseMs and its age is counted to two of them.                            *)
THEOREM LoopTyped == LoopAssumption => (Spec => []TypeOK)
<1>1. LeasesAreKept => TypeOK
  BY DEF LeasesAreKept
<1> QED  BY <1>1, LeasesStay, PTL

(* What is on can be let go: while a control of the seat is on, the seat or  *)
(* the strategy remembers its release (releaseSeatInput, heldInput), unless  *)
(* the game has not let them use it, a save has failed or another action had *)
(* the seat forget it; and neither believes that something is on which is    *)
(* not.                                                                      *)
THEOREM InputCanBeStopped == LoopAssumption => (Spec => []InputIsRemembered)
<1>1. LeasesAreKept => InputIsRemembered
  BY DEF LeasesAreKept
<1> QED  BY <1>1, LeasesStay, PTL

(* Within a unit of time after its lease has lapsed a strategy holds nothing *)
(* on, unless the game had not let it act or release what it held, a save    *)
(* had failed or the control was on before it (releaseAgentInput).           *)
THEOREM LeaseLapses == LoopAssumption => (Spec => []LapsedLetsGo)
<1>1. LeasesAreKept => LapsedLetsGo
  BY DEF LeasesAreKept
<1> QED  BY <1>1, LeasesStay, PTL

(* However slow the reviews are and however often they are asked for again,  *)
(* an engaged seat whose turn it is acts within the planning time (turnSeen).*)
THEOREM TurnIsNotForfeit == LoopAssumption => (Spec => []TurnIsPlayed)
<1>1. LeasesAreKept => TurnIsPlayed
  BY DEF LeasesAreKept
<1> QED  BY <1>1, LeasesStay, PTL

(* Between the exclusive operations exactly the session of the strategy in   *)
(* force is open: an update that came too late after any of its awaits has   *)
(* ended the session it had opened (applyStrategyUpdate).                    *)
THEOREM NoSessionLeaks == LoopAssumption => (Spec => []NoSessionLeft)
<1>1. LeasesAreKept => NoSessionLeft
  BY DEF LeasesAreKept
<1> QED  BY <1>1, LeasesStay, PTL

(* All of that at once, as the run checks it on a small instance.            *)
THEOREM AStrategyKeepsItsLease == LoopAssumption => (Spec => []LeasesAreKept)
  BY LeasesStay

(* A strategy comes into force, or is kept, only by a review that has not    *)
(* been overtaken by a newer one, made for the controller that has the seat  *)
(* when its last await is over (applyStrategyUpdate compares both again).    *)
THEOREM OnlyCurrentUpdates == LoopAssumption => (Spec => UpdatesAreCurrent)
<1> SUFFICES ASSUME LoopAssumption PROVE Spec => UpdatesAreCurrent
  OBVIOUS
<1>1. LoopInv /\ [Next]_vars
      => [\A r \in Reviews : Updates(r) => ~review[r].outdated /\ review[r].who = seat'.who]_vars
  <2> SUFFICES ASSUME LoopInv, Next, NEW r \in Reviews, Updates(r)
               PROVE  ~review[r].outdated /\ review[r].who = seat'.who
    OBVIOUS
  <2>1. Current(r) /\ UNCHANGED seat
    BY UpdateIsCurrent DEF Updates
  <2>2. ReviewFits(review[r], request = r, heard)
    BY DEF LoopInv, ReviewInv
  <2> QED  BY <2>1, <2>2 DEF Current, Owned, ReviewFits
<1> QED  BY <1>1, LoopIsInvariant, PTL DEF Spec, UpdatesAreCurrent

(* No autoplay: while a seat has a strategy, only that strategy presses or   *)
(* moves for it; it is its controller's own, and its last completed update   *)
(* is at most two leases old, whatever planning has prolonged.               *)
THEOREM NobodyElsePlays == LoopAssumption => (Spec => NoAutoplay)
<1> SUFFICES ASSUME LoopAssumption PROVE Spec => NoAutoplay
  OBVIOUS
<1>1. LoopInv /\ [Next]_vars
      => [(game'.input /\ ~game.input /\ agent.who # NoOne) \/ (game.mine /\ ~game'.mine)
          => agent.who = seat.who /\ agent.age <= 2 * Lease]_vars
  <2> SUFFICES ASSUME LoopInv, Next,
                      (game'.input /\ ~game.input /\ agent.who # NoOne) \/ (game.mine /\ ~game'.mine)
               PROVE  agent.who = seat.who /\ agent.age <= 2 * Lease
    OBVIOUS
  <2>1. PlaysNow
    BY DEF PlaysNow
  <2>2. agent.who # NoOne \/ (game.mine /\ ~game'.mine)
    OBVIOUS
  <2>3. Engaged
    BY <2>1, <2>2, PlaysOnLease
  <2>4. agent.left \in Int /\ agent.age \in Int
    BY DEF LoopInv, GameTyped, AgentRecords
  <2> QED  BY <2>3, <2>4, Numbers DEF Engaged, LoopInv, AgentInv
<1> QED  BY <1>1, LoopIsInvariant, PTL DEF Spec, NoAutoplay

(* A note of the owner's leaves the page only when an update that carried it *)
(* has come into force, or for a newer note (play-match.tsx).                *)
THEOREM NotesStayUntilHeard == LoopAssumption => (Spec => NotesAreHeard)
<1> SUFFICES ASSUME LoopAssumption PROVE Spec => NotesAreHeard
  OBVIOUS
<1>1. LoopInv /\ [Next]_vars => [page.note # 0 /\ page'.note = 0 => page.note \in heard]_vars
  BY NoteIsAnswered
<1> QED  BY <1>1, LoopIsInvariant, PTL DEF Spec, NotesAreHeard

(* All three, as the run checks them on a small instance.                    *)
THEOREM StrategiesStayCurrent == LoopAssumption => (Spec => StrategiesAreCurrent)
  BY OnlyCurrentUpdates, NobodyElsePlays, NotesStayUntilHeard DEF StrategiesAreCurrent
=============================================================================
