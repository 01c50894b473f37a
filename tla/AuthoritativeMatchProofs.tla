---------------------- MODULE AuthoritativeMatchProofs ----------------------
(***************************************************************************)
(* Theorems about the saved history of a match: for any actions, any       *)
(* length of a game, any chunks, saves and faults, what is saved can be    *)
(* read, verified and recovered with every acknowledged action in it, an   *)
(* action is applied once, and no save undoes a step.                      *)
(*                                                                         *)
(* The invariant says of each match, the running one and every one that is *)
(* saved, being saved or whose late put may still arrive, that its history *)
(* repeats its state (Repeats, TrueCheckpoints), and that a save whose     *)
(* version would be accepted continues what it would replace.              *)
(***************************************************************************)
EXTENDS AuthoritativeMatch, SequenceTheorems, WellFoundedInduction, TLAPS

Step == Actions \cup {"tick"}
Call == {Tick} \cup {Action(a, based) : a \in Actions, based \in Nat}
Statuses == {"running", "paused"} \cup Over
Point == [at : Nat, state : Seq(Step), hash : Seq(Step)]
Game ==
    [status : Statuses, state : Seq(Step), hash : Seq(Step), checkpoints : Seq(Point),
     commands : Seq(Actions), timeline : Seq(Nat),
     results : [Actions -> {"none", "accepted", "rejected"}], last : {"completed", "other"}]
Replay ==
    [commands : Seq(Actions), timeline : Seq(Nat), last : {"completed", "other"},
     checkpoints : Seq(Point), final : Seq(Step)]
Match == [version : Nat, replay : Replay, status : Statuses]
Save ==
    [pc : {"chunks", "pointer"}, written : Nat, expected : Nat, match : Match,
     recovers : BOOLEAN]

Typed ==
    /\ kind \in [ticks : BOOLEAN, restores : BOOLEAN]
    /\ game \in Game \cup {NoGame}
    /\ queue \in Seq(Call) /\ pending \in Call \cup {NoCall}
    /\ version \in Nat /\ faults \in Nat /\ acked \subseteq Actions
    /\ saving \in Save \cup {NoSave} /\ flying \in Save \cup {NoSave}
    /\ pointer \in [version : Nat, written : Nat, match : Match]

\* The timeline repeats the state: each tick, and each command at its place.
Repeats(timeline, commands, state) ==
    \A i \in 1..Len(timeline) :
        IF timeline[i] = 0 THEN state[i] = "tick"
        ELSE timeline[i] \in 1..Len(commands) /\ state[i] = commands[timeline[i]]

\* Each checkpoint is of the state as it was then.
TrueCheckpoints(checkpoints, state) ==
    /\ checkpoints # <<>>
    /\ \A i \in 1..Len(checkpoints) :
          /\ checkpoints[i].at <= Len(state)
          /\ checkpoints[i].state = SubSeq(state, 1, checkpoints[i].at)
          /\ checkpoints[i].hash = checkpoints[i].state

Once(state) ==
    \A i, j \in 1..Len(state) : state[i] = state[j] /\ i # j => state[i] = "tick"

\* A game is over by its rules when it has had its steps.
Ends(status, length, last) ==
    /\ status \in {"running", "paused"} => length < MaxSteps
    /\ length <= MaxSteps
    /\ status = "completed" => last = "completed"

StateOf(match) == match.replay.final

WholeMatch(match) ==
    LET r == match.replay IN
    /\ Len(r.timeline) = Len(r.final) /\ Repeats(r.timeline, r.commands, r.final)
    /\ TrueCheckpoints(r.checkpoints, r.final) /\ Last(r.checkpoints).at = Len(r.final)
    /\ Once(r.final) /\ Ends(match.status, Len(r.final), r.last)

\* Of a step that awaits its hash: a tick is on the timeline, an action is not yet.
Acting == pending # NoCall /\ pending # Tick
GameInv ==
    game # NoGame =>
    /\ Len(game.state) = Len(game.timeline) + (IF Acting THEN 1 ELSE 0)
    /\ Acting => Last(game.state) = pending.id /\ game.results[pending.id] = "none"
    /\ Repeats(game.timeline, game.commands, game.state)
    /\ pending # NoCall => game.state # <<>>
    /\ game.hash = IF pending = NoCall THEN game.state
                   ELSE SubSeq(game.state, 1, Len(game.state) - 1)
    /\ TrueCheckpoints(game.checkpoints, game.hash)
    /\ Once(game.state) /\ Ends(game.status, Len(game.state), game.last)
    /\ \A i \in 1..Len(game.timeline) :
          game.state[i] # "tick" => game.results[game.state[i]] = "accepted"

NoGameInv == game = NoGame => queue = <<>> /\ pending = NoCall /\ saving = NoSave

\* What goes on from a saved match has its steps and its commands.
Continues(match, state, commands) ==
    IsPrefix(StateOf(match), state) /\ IsPrefix(match.replay.commands, commands)
ContinuedBy(match, save) ==
    Continues(match, StateOf(save.match), save.match.replay.commands)

SaveOK(save) ==
    /\ WholeMatch(save.match) /\ save.match.version = save.expected + 1
    /\ save.pc = "pointer" => save.written = Chunks
    /\ save.expected <= pointer.version
    /\ save.expected = pointer.version => ContinuedBy(pointer.match, save)
    /\ save.expected \in 1..MaxSaves

SavesInv ==
    /\ saving # NoSave =>
          /\ SaveOK(saving) /\ Quiet /\ saving.expected = version
          /\ Continues(saving.match, game.state, game.commands)
    /\ flying # NoSave => SaveOK(flying) /\ flying.pc = "pointer"

PointerInv ==
    /\ Whole(pointer) /\ WholeMatch(pointer.match) /\ pointer.match.version = pointer.version
    /\ pointer.version \in 1..MaxSaves + 1 /\ version \in 1..MaxSaves + 1
    /\ version <= pointer.version
    /\ game # NoGame /\ version = pointer.version =>
          Continues(pointer.match, game.state, game.commands)
    /\ AcknowledgedSurvive

QueueInv == Len(queue) <= MaxQueue

MatchInv == Typed /\ GameInv /\ NoGameInv /\ SavesInv /\ PointerInv /\ QueueInv

(***************************************************************************)
(* Sequences.                                                              *)
(***************************************************************************)
\* What holds of some natural number holds of a first one.
LEMMA HasFirst ==
    ASSUME NEW T, T \subseteq Nat, T # {}
    PROVE  \E n \in T : \A m \in T : n <= m
<1> DEFINE R == {pair \in Nat \X Nat : pair[1] < pair[2]}
<1>1. IsWellFoundedOn(R, Nat)
  BY NatLessThanWellFounded DEF OpToRel
<1>2. PICK n \in T : \A m \in T : <<m, n>> \notin R
  <2> HIDE DEF R
  <2> QED  BY <1>1, WFMin
<1>3. ASSUME NEW m \in T PROVE n <= m
  <2>1. m \in Nat /\ n \in Nat /\ <<m, n>> \notin R
    BY <1>2
  <2>2. <<m, n>> \in Nat \X Nat
    BY <2>1
  <2>3. ~(m < n)
    BY <2>1, <2>2
  <2> QED  BY <2>1, <2>3
<1> QED  BY <1>3

LEMMA PrefixByPoint ==
    ASSUME NEW S, NEW s \in Seq(S), NEW t \in Seq(S)
    PROVE  IsPrefix(s, t) <=> Len(s) <= Len(t) /\ \A i \in 1..Len(s) : s[i] = t[i]
<1>1. SubSeq(s, 1, Len(s)) = s
  BY SubSeqFull
<1>2. CASE Len(s) <= Len(t)
  <2>1. \A i \in 1..Len(s) : t[i] \in S
    BY <1>2, ElementOfSeq
  <2>2. /\ SubSeq(t, 1, Len(s)) \in Seq(S) /\ Len(SubSeq(t, 1, Len(s))) = Len(s)
        /\ \A i \in 1..Len(s) : SubSeq(t, 1, Len(s))[i] = t[i]
    BY <2>1, SubSeqProperties, LenProperties
  <2>3. (\A i \in 1..Len(s) : s[i] = t[i]) => s = SubSeq(t, 1, Len(s))
    BY <2>2, SeqEqual
  <2> QED  BY <1>1, <1>2, <2>2, <2>3 DEF IsPrefix
<1>3. CASE ~(Len(s) <= Len(t))
  BY <1>3 DEF IsPrefix
<1> QED  BY <1>2, <1>3

LEMMA PrefixFacts ==
    ASSUME NEW S, NEW s \in Seq(S), NEW t \in Seq(S), NEW u \in Seq(S)
    PROVE  /\ IsPrefix(s, s)
           /\ IsPrefix(s, t) /\ IsPrefix(t, u) => IsPrefix(s, u)
           /\ IsPrefix(s, t) => ToSet(s) \subseteq ToSet(t)
<1>1. IsPrefix(s, s)
  BY PrefixByPoint
<1>2. ASSUME IsPrefix(s, t), IsPrefix(t, u) PROVE IsPrefix(s, u)
  BY <1>2, PrefixByPoint
<1>3. ASSUME IsPrefix(s, t) PROVE ToSet(s) \subseteq ToSet(t)
  BY <1>3, PrefixByPoint DEF ToSet
<1> QED  BY <1>1, <1>2, <1>3

LEMMA PrefixOfAppend ==
    ASSUME NEW S, NEW s \in Seq(S), NEW e \in S
    PROVE  /\ Append(s, e) \in Seq(S) /\ Len(Append(s, e)) = Len(s) + 1 /\ Len(s) \in Nat
           /\ \A i \in 1..Len(s) : Append(s, e)[i] = s[i]
           /\ Append(s, e)[Len(s) + 1] = e
           /\ IsPrefix(s, Append(s, e)) /\ SubSeq(Append(s, e), 1, Len(s)) = s
<1>1. /\ Append(s, e) \in Seq(S) /\ Len(Append(s, e)) = Len(s) + 1 /\ Len(s) \in Nat
      /\ \A i \in 1..Len(s) : Append(s, e)[i] = s[i]
      /\ Append(s, e)[Len(s) + 1] = e
  BY AppendProperties, LenProperties
<1>2. IsPrefix(s, Append(s, e))
  <2>1. Len(s) <= Len(Append(s, e)) /\ \A i \in 1..Len(s) : s[i] = Append(s, e)[i]
    BY <1>1
  <2> QED  BY <1>1, <2>1, PrefixByPoint
<1>3. SubSeq(Append(s, e), 1, Len(s)) = s
  BY <1>2, SubSeqFull DEF IsPrefix
<1> QED  BY <1>1, <1>2, <1>3

\* What a state had before it went on it still has.
LEMMA EarlierStays ==
    ASSUME NEW S, NEW s \in Seq(S), NEW t \in Seq(S), IsPrefix(s, t), NEW n \in 0..Len(s)
    PROVE  n <= Len(t) /\ SubSeq(t, 1, n) = SubSeq(s, 1, n) /\ SubSeq(s, 1, n) \in Seq(S)
           /\ Len(SubSeq(s, 1, n)) = n
<1>1. Len(s) <= Len(t) /\ \A i \in 1..Len(s) : s[i] = t[i]
  BY PrefixByPoint
<1>2. \A i \in 1..n : s[i] \in S /\ t[i] \in S /\ s[i] = t[i]
  BY <1>1, ElementOfSeq
<1>3. /\ SubSeq(s, 1, n) \in Seq(S) /\ Len(SubSeq(s, 1, n)) = n
      /\ \A i \in 1..n : SubSeq(s, 1, n)[i] = s[i]
  BY <1>2, SubSeqProperties
<1>4. /\ SubSeq(t, 1, n) \in Seq(S) /\ Len(SubSeq(t, 1, n)) = n
      /\ \A i \in 1..n : SubSeq(t, 1, n)[i] = t[i]
  BY <1>2, SubSeqProperties
<1>5. SubSeq(t, 1, n) = SubSeq(s, 1, n)
  BY <1>2, <1>3, <1>4, SeqEqual
<1> QED  BY <1>1, <1>3, <1>5

(***************************************************************************)
(* Checkpoints.                                                            *)
(***************************************************************************)
LEMMA PointTyped ==
    ASSUME NEW state \in Seq(Step)
    PROVE  /\ Checkpoint(state, state) \in Point
           /\ Checkpoint(state, state).at = Len(state)
           /\ Checkpoint(state, state).state = SubSeq(state, 1, Len(state))
           /\ Checkpoint(state, state).hash = Checkpoint(state, state).state
BY SubSeqFull DEF Checkpoint, Point

LEMMA OneMorePoint ==
    ASSUME NEW cs \in Seq(Point), NEW state \in Seq(Step), TrueCheckpoints(cs, state)
    PROVE  LET more == Append(cs, Checkpoint(state, state)) IN
           /\ more \in Seq(Point) /\ TrueCheckpoints(more, state)
           /\ Last(more).at = Len(state)
<1> DEFINE c == Checkpoint(state, state)
           more == Append(cs, c)
<1>1. c \in Point /\ c.at = Len(state) /\ c.state = SubSeq(state, 1, Len(state)) /\ c.hash = c.state
  BY PointTyped
<1> HIDE DEF c
<1>2. /\ more \in Seq(Point) /\ more # <<>> /\ Len(more) = Len(cs) + 1
      /\ \A i \in 1..Len(cs) : more[i] = cs[i]
      /\ more[Len(cs) + 1] = c
  BY <1>1, AppendProperties
<1> HIDE DEF more
<1>3. TrueCheckpoints(more, state)
  <2>1. ASSUME NEW i \in 1..Len(more)
        PROVE  /\ more[i].at <= Len(state)
               /\ more[i].state = SubSeq(state, 1, more[i].at)
               /\ more[i].hash = more[i].state
    <3>1. CASE i \in 1..Len(cs)
      BY <1>2, <3>1 DEF TrueCheckpoints
    <3>2. CASE i = Len(cs) + 1
      <4>1. more[i] = c /\ Len(state) \in Nat
        BY <1>2, <3>2, LenProperties
      <4>2. c.at <= Len(state)
        BY <1>1, <4>1
      <4> QED  BY <1>1, <4>1, <4>2, Zenon
    <3> QED  BY <1>2, <3>1, <3>2
  <2> QED  BY <1>2, <2>1 DEF TrueCheckpoints
<1>4. Last(more).at = Len(state)
  BY <1>1, <1>2 DEF Last
<1> QED  BY <1>2, <1>3, <1>4 DEF c, more

LEMMA PointsStay ==
    ASSUME NEW cs \in Seq(Point), NEW s \in Seq(Step), NEW t \in Seq(Step),
           IsPrefix(s, t), TrueCheckpoints(cs, s)
    PROVE  TrueCheckpoints(cs, t)
<1>1. ASSUME NEW i \in 1..Len(cs)
      PROVE  /\ cs[i].at <= Len(t)
             /\ cs[i].state = SubSeq(t, 1, cs[i].at)
             /\ cs[i].hash = cs[i].state
  <2>1. cs[i] \in Point
    BY ElementOfSeq
  <2>2. cs[i].at \in 0..Len(s)
    BY <2>1 DEF Point, TrueCheckpoints
  <2> QED  BY <2>2, EarlierStays DEF TrueCheckpoints
<1> QED  BY <1>1 DEF TrueCheckpoints

\* What a match takes over of another's checkpoints, one after the other.
Takes(taken, cs, n) ==
    taken = [i \in 0..n |-> IF i = 0 THEN <<Checkpoint(<<>>, <<>>)>>
                            ELSE IF cs[i].at # 0 THEN Append(taken[i - 1], cs[i])
                            ELSE taken[i - 1]]

LEMMA TakenSoFar ==
    ASSUME NEW cs \in Seq(Point), NEW state \in Seq(Step), TrueCheckpoints(cs, state),
           NEW n \in 0..Len(cs), NEW taken, Takes(taken, cs, n)
    PROVE  taken[n] \in Seq(Point) /\ TrueCheckpoints(taken[n], state)
<1> DEFINE Good(c) == /\ c \in Point /\ c.at <= Len(state)
                      /\ c.state = SubSeq(state, 1, c.at) /\ c.hash = c.state
           Bad == {k \in 0..n : ~(/\ taken[k] \in Seq(Point) /\ taken[k] # <<>>
                                  /\ \A i \in 1..Len(taken[k]) : Good(taken[k][i]))}
<1>1. Len(cs) \in Nat /\ Len(state) \in Nat
  BY LenProperties
<1>2. \A i \in 1..Len(cs) : Good(cs[i])
  BY ElementOfSeq DEF TrueCheckpoints
<1>3. ASSUME Bad # {} PROVE FALSE
  <2>1. Bad \subseteq Nat
    OBVIOUS
  <2>2. PICK k \in Bad : \A m \in Bad : k <= m
    <3> HIDE DEF Bad
    <3> QED  BY <1>3, <2>1, HasFirst
  <2>3. k \in 0..n
    BY <2>2
  <2>4. taken[k] = IF k = 0 THEN <<Checkpoint(<<>>, <<>>)>>
                   ELSE IF cs[k].at # 0 THEN Append(taken[k - 1], cs[k])
                   ELSE taken[k - 1]
    BY <2>3 DEF Takes
  <2>5. CASE k = 0
    <3> DEFINE first == Checkpoint(<<>>, <<>>)
    <3>1. Good(first)
      <4>1. <<>> \in Seq(Step) /\ Len(<<>>) = 0
        BY EmptySeq
      <4>2. first \in Point /\ first.at = 0 /\ first.state = <<>> /\ first.hash = first.state
        BY <4>1, PointTyped DEF Checkpoint
      <4>3. SubSeq(state, 1, 0) = <<>>
        BY SubSeqEmpty
      <4> HIDE DEF first
      <4>4. first.at <= Len(state)
        BY <1>1, <4>2
      <4>5. first.state = SubSeq(state, 1, first.at)
        BY <4>2, <4>3, Zenon
      <4> QED  BY <4>2, <4>4, <4>5, Zenon
    <3>2. taken[k] = <<first>>
      BY <2>4, <2>5
    <3> HIDE DEF first, Good
    <3>3. <<first>> \in Seq(Point) /\ <<first>> # <<>> /\ Len(<<first>>) = 1 /\ <<first>>[1] = first
      BY <3>1 DEF Good
    <3>4. \A i \in 1..Len(<<first>>) : Good(<<first>>[i])
      BY <3>1, <3>3
    <3> QED  BY <2>2, <3>2, <3>3, <3>4
  <2>6. CASE k # 0
    <3>1. k - 1 \in 0..n /\ k - 1 \in Nat /\ k \in 1..Len(cs) /\ ~(k <= k - 1)
      BY <1>1, <2>3, <2>6
    <3>2. k - 1 \notin Bad
      BY <2>2, <3>1
    <3>3. /\ taken[k - 1] \in Seq(Point) /\ taken[k - 1] # <<>>
          /\ \A i \in 1..Len(taken[k - 1]) : Good(taken[k - 1][i])
      BY <3>1, <3>2
    <3>4. Good(cs[k])
      BY <1>2, <3>1
    <3> DEFINE more == Append(taken[k - 1], cs[k])
    <3>5. /\ more \in Seq(Point) /\ more # <<>> /\ Len(more) = Len(taken[k - 1]) + 1
          /\ \A i \in 1..Len(taken[k - 1]) : more[i] = taken[k - 1][i]
          /\ more[Len(taken[k - 1]) + 1] = cs[k]
      BY <3>3, <3>4, AppendProperties
    <3> HIDE DEF more, Good
    <3>6. \A i \in 1..Len(more) : Good(more[i])
      <4>1. ASSUME NEW i \in 1..Len(more) PROVE i \in 1..Len(taken[k - 1]) \/ i = Len(taken[k - 1]) + 1
        BY <3>3, <3>5, LenProperties
      <4> QED  BY <3>3, <3>4, <3>5, <4>1
    <3>7. taken[k] = more \/ taken[k] = taken[k - 1]
      BY <2>4, <2>6 DEF more
    <3> QED  BY <2>2, <3>3, <3>5, <3>6, <3>7
  <2> QED  BY <2>5, <2>6
<1>4. n \notin Bad
  BY <1>3
<1>5. n \in 0..n
  BY <1>1
<1> QED  BY <1>4, <1>5 DEF TrueCheckpoints

LEMMA TakingGoesOn ==
    ASSUME NEW cs \in Seq(Point)
    PROVE  \E taken : Takes(taken, cs, Len(cs))
<1> DEFINE Bad == {k \in 0..Len(cs) : ~\E taken : Takes(taken, cs, k)}
<1>1. Len(cs) \in Nat
  BY LenProperties
<1>2. ASSUME Bad # {} PROVE FALSE
  <2>1. Bad \subseteq Nat
    OBVIOUS
  <2>2. PICK k \in Bad : \A m \in Bad : k <= m
    <3> HIDE DEF Bad
    <3> QED  BY <1>2, <2>1, HasFirst
  <2>3. k \in 0..Len(cs) /\ ~\E taken : Takes(taken, cs, k)
    BY <2>2
  <2>4. CASE k = 0
    <3>1. Takes([i \in 0..0 |-> <<Checkpoint(<<>>, <<>>)>>], cs, 0)
      BY DEF Takes
    <3> QED  BY <2>3, <2>4, <3>1
  <2>5. CASE k # 0
    <3>1. k - 1 \in 0..Len(cs) /\ ~(k <= k - 1)
      BY <1>1, <2>3, <2>5
    <3>2. PICK before : Takes(before, cs, k - 1)
      BY <2>2, <3>1
    <3> DEFINE more == IF cs[k].at # 0 THEN Append(before[k - 1], cs[k]) ELSE before[k - 1]
               taken == [i \in 0..k |-> IF i = k THEN more ELSE before[i]]
    <3>3. ASSUME NEW i \in 0..k
          PROVE  taken[i] = IF i = 0 THEN <<Checkpoint(<<>>, <<>>)>>
                            ELSE IF cs[i].at # 0 THEN Append(taken[i - 1], cs[i])
                            ELSE taken[i - 1]
      <4>1. CASE i = k
        <5>1. taken[i] = more /\ taken[i - 1] = before[k - 1]
          BY <2>3, <2>5, <4>1
        <5> QED  BY <2>5, <4>1, <5>1
      <4>2. CASE i # k
        <5>1. i \in 0..(k - 1)
          BY <2>3, <4>2
        <5>2. /\ taken[i] = before[i]
              /\ i # 0 => taken[i - 1] = before[i - 1]
          BY <2>3, <5>1
        <5>3. before[i] = IF i = 0 THEN <<Checkpoint(<<>>, <<>>)>>
                          ELSE IF cs[i].at # 0 THEN Append(before[i - 1], cs[i])
                          ELSE before[i - 1]
          BY <3>2, <5>1 DEF Takes
        <5> QED  BY <5>2, <5>3
      <4> QED  BY <4>1, <4>2
    <3>4. Takes(taken, cs, k)
      <4>1. taken = [i \in 0..k |-> taken[i]]
        OBVIOUS
      <4> HIDE DEF taken
      <4> QED  BY <3>3, <4>1 DEF Takes
    <3> QED  BY <2>3, <3>4
  <2> QED  BY <2>4, <2>5
<1>3. Len(cs) \in 0..Len(cs) /\ Len(cs) \notin Bad
  BY <1>1, <1>2
<1> QED  BY <1>3

LEMMA TakenOverTrue ==
    ASSUME NEW cs \in Seq(Point), NEW state \in Seq(Step), TrueCheckpoints(cs, state)
    PROVE  TakenOver(cs) \in Seq(Point) /\ TrueCheckpoints(TakenOver(cs), state)
<1> DEFINE taken == CHOOSE f : Takes(f, cs, Len(cs))
<1>1. TakenOver(cs) = taken[Len(cs)]
  BY Zenon DEF TakenOver, Takes
<1>2. Takes(taken, cs, Len(cs))
  BY TakingGoesOn, Zenon
<1>3. Len(cs) \in 0..Len(cs)
  BY LenProperties
<1> HIDE DEF taken
<1> QED  BY <1>1, <1>2, <1>3, TakenSoFar

(***************************************************************************)
(* A match that is exported is whole, and one that is whole is recovered.  *)
(***************************************************************************)
AtRest(g) ==
    /\ Len(g.state) = Len(g.timeline) /\ Repeats(g.timeline, g.commands, g.state)
    /\ g.hash = g.state /\ TrueCheckpoints(g.checkpoints, g.state)
    /\ Once(g.state) /\ Ends(g.status, Len(g.state), g.last)

LEMMA QuietIsAtRest ==
    ASSUME game \in Game, pending = NoCall, GameInv
    PROVE  AtRest(game)
<1>1. game # NoGame /\ game.timeline \in Seq(Nat)
  BY DEF Game, NoGame, Statuses, Over
<1>2. Len(game.timeline) \in Nat /\ ~Acting
  BY <1>1, LenProperties DEF Acting
<1> QED  BY <1>1, <1>2 DEF GameInv, AtRest

LEMMA ExportIsWhole ==
    ASSUME NEW g \in Game, AtRest(g), NEW v \in Nat
    PROVE  /\ Saved(g, v) \in Match /\ WholeMatch(Saved(g, v))
           /\ StateOf(Saved(g, v)) = g.state
           /\ Saved(g, v).replay.commands = g.commands
           /\ Saved(g, v).version = v /\ Saved(g, v).status = g.status
<1> DEFINE cs == g.checkpoints
           more == Append(cs, Checkpoint(g.state, g.hash))
           r == Export(g)
<1>1. /\ g.state \in Seq(Step) /\ g.hash \in Seq(Step) /\ cs \in Seq(Point)
      /\ g.commands \in Seq(Actions) /\ g.timeline \in Seq(Nat)
      /\ g.last \in {"completed", "other"} /\ g.status \in Statuses
  BY DEF Game
<1>2. /\ Len(g.state) = Len(g.timeline) /\ Repeats(g.timeline, g.commands, g.state)
      /\ g.hash = g.state /\ TrueCheckpoints(cs, g.state)
      /\ Once(g.state) /\ Ends(g.status, Len(g.state), g.last)
  BY DEF AtRest
<1>3. more \in Seq(Point) /\ TrueCheckpoints(more, g.state) /\ Last(more).at = Len(g.state)
  BY <1>1, <1>2, OneMorePoint
<1>4. /\ r.commands = g.commands /\ r.timeline = g.timeline /\ r.last = g.last
      /\ r.final = g.state
      /\ r.checkpoints \in Seq(Point) /\ TrueCheckpoints(r.checkpoints, g.state)
      /\ Last(r.checkpoints).at = Len(g.state)
  BY <1>1, <1>2, <1>3 DEF Export
<1>5. r \in Replay
  BY <1>1, <1>2, <1>4 DEF Export, Replay
<1> HIDE DEF r
<1>6. /\ Saved(g, v).replay = r /\ Saved(g, v).version = v
      /\ Saved(g, v).status = g.status /\ Saved(g, v) \in Match
  BY <1>1, <1>5 DEF Saved, Match, r
<1>7. WholeMatch(Saved(g, v))
  BY <1>1, <1>2, <1>4, <1>6 DEF WholeMatch
<1> QED  BY <1>4, <1>6, <1>7 DEF StateOf

LEMMA StepsRepeat ==
    ASSUME MatchBounds, NEW match \in Match, WholeMatch(match)
    PROVE  Steps(match.replay) = match.replay.final
<1> DEFINE r == match.replay
           step(i) == IF r.timeline[i] = 0 THEN "tick" ELSE r.commands[r.timeline[i]]
           all == [i \in DOMAIN r.timeline |-> step(i)]
<1>1. /\ r \in Replay /\ r.commands \in Seq(Actions) /\ r.timeline \in Seq(Nat)
      /\ r.final \in Seq(Step)
  BY DEF Match, Replay
<1>2. /\ Len(r.timeline) = Len(r.final) /\ Repeats(r.timeline, r.commands, r.final)
      /\ Len(r.final) <= MaxSteps
  BY DEF WholeMatch, Ends
<1>3. DOMAIN r.timeline = 1..Len(r.final) /\ Len(r.final) \in Nat
  BY <1>1, <1>2, LenProperties
<1>4. all = r.final
  <2>1. ASSUME NEW i \in 1..Len(r.final) PROVE step(i) = r.final[i]
    BY <1>2 DEF Repeats
  <2>2. r.final = [i \in 1..Len(r.final) |-> r.final[i]]
    BY <1>1, LenProperties
  <2> QED  BY <1>3, <2>1, <2>2
<1>5. Steps(r) = SubSeq(all, 1, IF Len(all) < MaxSteps THEN Len(all) ELSE MaxSteps)
  BY DEF Steps
<1> HIDE DEF all
<1>6. SubSeq(r.final, 1, Len(r.final)) = r.final
  BY <1>1, SubSeqFull
<1>7. Len(r.final) < MaxSteps \/ Len(r.final) = MaxSteps
  BY <1>2, <1>3 DEF MatchBounds
<1> QED  BY <1>4, <1>5, <1>6, <1>7

LEMMA WholeIsVerified ==
    ASSUME MatchBounds, NEW match \in Match, WholeMatch(match)
    PROVE  Verified(match.replay) /\ Trusted(match.replay)
<1> DEFINE r == match.replay
           cs == r.checkpoints
<1>1. /\ r \in Replay /\ cs \in Seq(Point) /\ r.final \in Seq(Step)
  BY DEF Match, Replay
<1>2. TrueCheckpoints(cs, r.final) /\ Last(cs).at = Len(r.final)
  BY DEF WholeMatch
<1>3. Steps(r) = r.final
  BY StepsRepeat
<1>4. \A i \in DOMAIN cs : cs[i].at <= Len(r.final) /\ cs[i].hash = SubSeq(r.final, 1, cs[i].at)
  BY <1>1, <1>2, LenProperties DEF TrueCheckpoints
<1>5. SubSeq(r.final, 1, Last(cs).at) = r.final
  BY <1>1, <1>2, SubSeqFull
<1>6. Len(cs) \in 1..Len(cs)
  BY <1>1, <1>2, EmptySeq DEF TrueCheckpoints
<1>7. Last(cs).hash = r.final /\ Last(cs).state = Last(cs).hash
  BY <1>2, <1>5, <1>6 DEF TrueCheckpoints, Last
<1> HIDE DEF cs
<1>8. Verified(r)
  BY <1>3, <1>4, <1>5 DEF Verified, cs
<1>9. Trusted(r)
  BY <1>7 DEF Trusted, cs
<1> QED  BY <1>8, <1>9

\* What is made of a match that is whole.
LEMMA RebuiltIsWhole ==
    ASSUME MatchBounds, NEW match \in Match, WholeMatch(match),
           Restored(match) = game' \/ Recovered(match) = game', pending' = NoCall
    PROVE  /\ game' \in Game /\ GameInv' /\ AtRest(game')
           /\ game'.state = StateOf(match) /\ game'.commands = match.replay.commands
<1> DEFINE r == match.replay
<1>1. /\ match.status \in Statuses /\ r \in Replay /\ r.final \in Seq(Step)
      /\ r.commands \in Seq(Actions) /\ r.timeline \in Seq(Nat)
      /\ r.last \in {"completed", "other"} /\ r.checkpoints \in Seq(Point)
  BY DEF Match, Replay
<1>2. /\ Len(r.timeline) = Len(r.final) /\ Repeats(r.timeline, r.commands, r.final)
      /\ TrueCheckpoints(r.checkpoints, r.final) /\ Last(r.checkpoints).at = Len(r.final)
      /\ Once(r.final) /\ Ends(match.status, Len(r.final), r.last)
  BY DEF WholeMatch
<1>3. \E cs \in Seq(Point) : TrueCheckpoints(cs, r.final) /\ game' = Rebuilt(match, r.final, cs)
  <2>1. CASE Recovered(match) = game'
    BY <1>1, <1>2, <2>1, StepsRepeat DEF Recovered
  <2>2. CASE Restored(match) = game'
    <3>1. Last(r.checkpoints).state = r.final
      BY WholeIsVerified DEF Trusted
    <3>2. TakenOver(r.checkpoints) \in Seq(Point) /\ TrueCheckpoints(TakenOver(r.checkpoints), r.final)
      BY <1>1, <1>2, TakenOverTrue
    <3> QED  BY <2>2, <3>1, <3>2 DEF Restored
  <2> QED  BY <2>1, <2>2
<1>4. PICK cs \in Seq(Point) : TrueCheckpoints(cs, r.final) /\ game' = Rebuilt(match, r.final, cs)
  BY <1>3
<1> DEFINE results == [a \in Actions |-> IF a \in ToSet(r.commands) THEN "accepted" ELSE "none"]
<1>5. /\ game'.state = r.final /\ game'.commands = r.commands /\ game'.timeline = r.timeline
      /\ game'.hash = r.final /\ game'.checkpoints = cs /\ game'.status = match.status
      /\ game'.last = r.last /\ game'.results = results
  BY <1>4 DEF Rebuilt
<1>6. game' \in Game
  <2>1. results \in [Actions -> {"none", "accepted", "rejected"}]
    OBVIOUS
  <2> QED  BY <1>1, <1>4, <2>1 DEF Rebuilt, Game
<1>7. ASSUME NEW i \in 1..Len(r.timeline), r.final[i] # "tick"
      PROVE  results[r.final[i]] = "accepted"
  <2>1. r.timeline[i] \in 1..Len(r.commands) /\ r.final[i] = r.commands[r.timeline[i]]
    BY <1>2, <1>7 DEF Repeats
  <2>2. r.final[i] \in Actions /\ r.final[i] \in ToSet(r.commands)
    BY <1>1, <2>1, LenProperties, ElementOfSeq DEF ToSet
  <2> QED  BY <2>2
<1>8. ~(Acting') /\ Len(r.timeline) \in Nat
  BY <1>1, LenProperties DEF Acting
<1> HIDE DEF results, r
<1>9. GameInv'
  BY <1>2, <1>4, <1>5, <1>7, <1>8 DEF GameInv
<1>10. AtRest(game')
  BY <1>2, <1>4, <1>5 DEF AtRest
<1> QED  BY <1>5, <1>6, <1>9, <1>10 DEF StateOf, r

(***************************************************************************)
(* What the calls of a match do to its history.                            *)
(***************************************************************************)
LEMMA GameTyped ==
    ASSUME Typed, game # NoGame
    PROVE  /\ game \in Game /\ game.state \in Seq(Step) /\ game.hash \in Seq(Step)
           /\ game.checkpoints \in Seq(Point) /\ game.commands \in Seq(Actions)
           /\ game.timeline \in Seq(Nat) /\ game.status \in Statuses
           /\ game.results \in [Actions -> {"none", "accepted", "rejected"}]
           /\ game.last \in {"completed", "other"}
           /\ Len(game.state) \in Nat /\ Len(game.timeline) \in Nat /\ Len(game.commands) \in Nat
BY LenProperties DEF Typed, Game

LEMMA GameIsNoNoGame ==
    ASSUME NEW g \in Game
    PROVE  g # NoGame
BY DEF Game, NoGame, Statuses, Over

LEMMA MatchTyped ==
    ASSUME NEW match \in Match
    PROVE  /\ match.replay \in Replay /\ match.replay.commands \in Seq(Actions)
           /\ match.replay.final \in Seq(Step) /\ StateOf(match) \in Seq(Step)
           /\ match.version \in Nat
BY DEF Match, Replay, StateOf

\* A match that goes on from one that continues another continues it as well.
LEMMA ContinuesFurther ==
    ASSUME NEW match \in Match, NEW s \in Seq(Step), NEW t \in Seq(Step),
           NEW c \in Seq(Actions), NEW d \in Seq(Actions),
           Continues(match, s, c), IsPrefix(s, t), IsPrefix(c, d)
    PROVE  Continues(match, t, d)
<1>1. IsPrefix(StateOf(match), t)
  BY MatchTyped, PrefixFacts DEF Continues
<1>2. IsPrefix(match.replay.commands, d)
  BY MatchTyped, PrefixFacts DEF Continues
<1> QED  BY <1>1, <1>2 DEF Continues

LEMMA PlayKeepsSaves ==
    ASSUME MatchBounds, MatchInv, UNCHANGED OfSaving, saving = NoSave, game # NoGame,
           game' \in Game, IsPrefix(game.state, game'.state),
           IsPrefix(game.commands, game'.commands)
    PROVE  SavesInv' /\ PointerInv'
<1>1. UNCHANGED <<version, saving, pointer, flying, acked, faults>>
  BY DEF OfSaving
<1>2. SavesInv'
  BY <1>1 DEF MatchInv, SavesInv, SaveOK, ContinuedBy, Continues, StateOf, WholeMatch, Quiet
<1>3. ASSUME game # NoGame, version = pointer.version
      PROVE  Continues(pointer.match, game'.state, game'.commands)
  <2>1. game'.state \in Seq(Step) /\ game'.commands \in Seq(Actions)
    BY DEF Game
  <2>2. pointer.match \in Match
    BY DEF MatchInv, Typed
  <2>3. /\ game.state \in Seq(Step) /\ game.commands \in Seq(Actions)
        /\ Continues(pointer.match, game.state, game.commands)
    BY <1>3, GameTyped DEF MatchInv, PointerInv
  <2> QED  BY <2>1, <2>2, <2>3, ContinuesFurther
<1>4. PointerInv'
  BY <1>1, <1>3 DEF MatchInv, PointerInv, Whole, WholeMatch, AcknowledgedSurvive, Continues, StateOf
<1> QED  BY <1>2, <1>4

LEMMA SubmitKeeps ==
    ASSUME MatchBounds, MatchInv, AdvanceTick \/ \E a \in Actions : Submit(a)
    PROVE  MatchInv'
<1>1. /\ game # NoGame /\ saving = NoSave /\ Len(queue) < MaxQueue
      /\ UNCHANGED <<kind, game, pending>> /\ UNCHANGED OfSaving
      /\ \E call \in Call : queue' = Append(queue, call)
  <2>1. CASE AdvanceTick
    BY <2>1 DEF AdvanceTick, Call
  <2>2. ASSUME NEW a \in Actions, Submit(a)
        PROVE  \E call \in Call : queue' = Append(queue, call)
    <3>1. PICK based \in {Len(game.state), 0} : queue' = Append(queue, Action(a, based))
      BY <2>2 DEF Submit
    <3>2. based \in Nat
      BY <2>2, GameTyped DEF MatchInv, Submit
    <3> QED  BY <3>1, <3>2 DEF Call
  <2> QED  BY <2>1, <2>2 DEF Submit
<1>2. PICK call \in Call : queue' = Append(queue, call)
  BY <1>1
<1>3. queue \in Seq(Call) /\ queue' \in Seq(Call) /\ Len(queue') = Len(queue) + 1 /\ Len(queue) \in Nat
  BY <1>2, AppendProperties, LenProperties DEF MatchInv, Typed
<1>4. Len(queue') <= MaxQueue
  BY <1>1, <1>3 DEF MatchBounds
<1>5. UNCHANGED <<version, saving, pointer, flying, acked, faults>>
  BY <1>1 DEF OfSaving
<1>6. Typed' /\ GameInv' /\ NoGameInv' /\ QueueInv'
  BY <1>1, <1>3, <1>4, <1>5 DEF MatchInv, Typed, GameInv, NoGameInv, QueueInv, Acting
<1>7. SavesInv' /\ PointerInv'
  <2>1. game' \in Game /\ IsPrefix(game.state, game'.state) /\ IsPrefix(game.commands, game'.commands)
    <3>1. /\ game' = game /\ game \in Game /\ game.state \in Seq(Step)
          /\ game.commands \in Seq(Actions)
      BY <1>1, GameTyped DEF MatchInv
    <3> QED  BY <3>1, PrefixByPoint
  <2> QED  BY <1>1, <2>1, PlayKeepsSaves
<1> QED  BY <1>6, <1>7 DEF MatchInv

LEMMA SetsKeeps ==
    ASSUME MatchBounds, MatchInv, Pause \/ Resume \/ End
    PROVE  MatchInv'
<1>1. PICK from \in SUBSET {"running", "paused"}, to \in {"running", "paused", "ended"} :
          Sets(from, to)
  BY DEF Pause, Resume, End
<1>2. /\ game.status \in {"running", "paused"} /\ saving = NoSave
      /\ game' = [game EXCEPT !.status = to, !.last = "other"]
      /\ UNCHANGED <<kind, queue, pending>> /\ UNCHANGED OfSaving
  BY <1>1 DEF Sets
<1>3. game # NoGame
  BY <1>2 DEF NoGame
<1>4. UNCHANGED <<version, saving, pointer, flying, acked, faults>>
  BY <1>2 DEF OfSaving
<1>5. /\ game' \in Game /\ game'.state = game.state /\ game'.hash = game.hash
      /\ game'.checkpoints = game.checkpoints /\ game'.commands = game.commands
      /\ game'.timeline = game.timeline /\ game'.results = game.results
      /\ game'.status = to /\ game'.last = "other"
  <2>1. game \in Game /\ to \in Statuses
    BY <1>3, GameTyped DEF MatchInv, Statuses, Over
  <2> QED  BY <1>2, <2>1 DEF Game
<1>6. Ends(to, Len(game.state), "other")
  BY <1>2, <1>3 DEF MatchInv, GameInv, Ends
<1>7. GameInv'
  BY <1>2, <1>3, <1>5, <1>6 DEF MatchInv, GameInv, Acting
<1>8. Typed' /\ NoGameInv' /\ QueueInv'
  BY <1>2, <1>4, <1>5, GameIsNoNoGame DEF MatchInv, Typed, NoGameInv, QueueInv
<1>9. SavesInv' /\ PointerInv'
  <2>1. IsPrefix(game.state, game'.state) /\ IsPrefix(game.commands, game'.commands)
    BY <1>3, <1>5, GameTyped, PrefixByPoint DEF MatchInv
  <2> QED  BY <1>2, <1>3, <1>5, <2>1, PlayKeepsSaves
<1> QED  BY <1>7, <1>8, <1>9 DEF MatchInv

\* A step of the game, whose hash is awaited.
LEMMA AppliedStep ==
    ASSUME MatchBounds, MatchInv, game # NoGame, pending = NoCall, game.status = "running",
           NEW step \in Step, step # "tick" => game.results[step] = "none"
    PROVE  LET next == Applied(game, step) IN
           /\ next \in Game /\ next.state = Append(game.state, step)
           /\ next.hash = game.state /\ next.checkpoints = game.checkpoints
           /\ next.commands = game.commands /\ next.timeline = game.timeline
           /\ next.results = game.results
           /\ Len(next.state) = Len(game.timeline) + 1 /\ Last(next.state) = step
           /\ next.hash = SubSeq(next.state, 1, Len(next.state) - 1)
           /\ Repeats(game.timeline, game.commands, next.state)
           /\ Once(next.state) /\ Ends(next.status, Len(next.state), next.last)
           /\ \A i \in 1..Len(game.timeline) :
                 next.state[i] # "tick" => game.results[next.state[i]] = "accepted"
<1> DEFINE state == Append(game.state, step)
           next == Applied(game, step)
<1>1. /\ game \in Game /\ game.state \in Seq(Step) /\ game.timeline \in Seq(Nat)
      /\ Len(game.state) \in Nat /\ Len(game.timeline) \in Nat
      /\ game.results \in [Actions -> {"none", "accepted", "rejected"}]
      /\ game.last \in {"completed", "other"} /\ game.status \in Statuses
  BY GameTyped DEF MatchInv
<1>2. /\ Len(game.state) = Len(game.timeline)
      /\ Repeats(game.timeline, game.commands, game.state) /\ game.hash = game.state
      /\ Once(game.state) /\ Len(game.state) < MaxSteps
      /\ \A i \in 1..Len(game.timeline) :
            game.state[i] # "tick" => game.results[game.state[i]] = "accepted"
  <2>1. ~Acting
    BY DEF Acting
  <2> QED  BY <1>1, <2>1 DEF MatchInv, GameInv, Ends
<1>3. /\ state \in Seq(Step) /\ Len(state) = Len(game.state) + 1
      /\ \A i \in 1..Len(game.state) : state[i] = game.state[i]
      /\ state[Len(game.state) + 1] = step /\ SubSeq(state, 1, Len(game.state)) = game.state
  BY <1>1, PrefixOfAppend
<1>4. /\ next \in Game /\ next.state = state /\ next.hash = game.hash
      /\ next.checkpoints = game.checkpoints /\ next.commands = game.commands
      /\ next.timeline = game.timeline /\ next.results = game.results
      /\ next.status = IF Len(state) >= MaxSteps THEN "completed" ELSE game.status
      /\ next.last = IF Len(state) >= MaxSteps THEN "completed" ELSE "other"
  BY <1>1, <1>3 DEF Applied, Game, Statuses, Over
<1> HIDE DEF state, next
<1>5. Repeats(game.timeline, game.commands, state)
  BY <1>2, <1>3 DEF Repeats
<1>6. Once(state)
  <2>1. ASSUME NEW i \in 1..Len(game.state), game.state[i] = step PROVE step = "tick"
    <3>1. step # "tick" => game.results[step] = "accepted"
      BY <1>2, <2>1
    <3> QED  BY <3>1
  <2>2. ASSUME NEW i \in 1..Len(state), NEW j \in 1..Len(state), state[i] = state[j], i # j
        PROVE  state[i] = "tick"
    <3>1. CASE i \in 1..Len(game.state) /\ j \in 1..Len(game.state)
      BY <1>2, <1>3, <2>2, <3>1 DEF Once
    <3>2. CASE i \in 1..Len(game.state) /\ j = Len(game.state) + 1
      BY <1>3, <2>1, <2>2, <3>2
    <3>3. CASE i = Len(game.state) + 1 /\ j \in 1..Len(game.state)
      BY <1>3, <2>1, <2>2, <3>3
    <3> QED  BY <1>1, <1>3, <2>2, <3>1, <3>2, <3>3
  <2> QED  BY <2>2 DEF Once
<1>7. Ends(next.status, Len(state), next.last)
  BY <1>1, <1>2, <1>3, <1>4 DEF Ends, MatchBounds
<1>8. /\ Len(state) = Len(game.timeline) + 1 /\ Last(state) = step
      /\ SubSeq(state, 1, Len(state) - 1) = game.state
  BY <1>1, <1>2, <1>3 DEF Last
<1>9. \A i \in 1..Len(game.timeline) :
          state[i] # "tick" => game.results[state[i]] = "accepted"
  BY <1>2, <1>3
<1> QED  BY <1>2, <1>4, <1>5, <1>6, <1>7, <1>8, <1>9 DEF state, next

LEMMA CallIs ==
    ASSUME NEW call \in Call
    PROVE  call = Tick \/ (call # Tick /\ call.id \in Actions)
BY DEF Call, Tick, Action

LEMMA RunKeeps ==
    ASSUME MatchBounds, MatchInv, Run
    PROVE  MatchInv'
<1> DEFINE call == Head(queue)
<1>1. /\ pending = NoCall /\ queue # <<>> /\ queue' = Tail(queue) /\ UNCHANGED kind
      /\ UNCHANGED OfSaving
  BY DEF Run
<1>2. UNCHANGED <<version, saving, pointer, flying, acked, faults>>
  BY <1>1 DEF OfSaving
<1>3. game # NoGame /\ saving = NoSave
  BY <1>1 DEF MatchInv, NoGameInv, SavesInv, Quiet
<1>4. /\ queue \in Seq(Call) /\ call \in Call /\ queue' \in Seq(Call) /\ Len(queue') <= MaxQueue
  <2>1. queue \in Seq(Call) /\ Len(queue) \in Nat /\ Len(queue) <= MaxQueue
    BY LenProperties DEF MatchInv, Typed, QueueInv
  <2>2. call \in Call /\ queue' \in Seq(Call) /\ Len(queue') = Len(queue) - 1
    BY <1>1, <2>1, HeadTailProperties
  <2> QED  BY <2>1, <2>2 DEF MatchBounds
<1> HIDE DEF call
<1>5. /\ game \in Game /\ game.state \in Seq(Step) /\ game.commands \in Seq(Actions)
      /\ game.timeline \in Seq(Nat) /\ Len(game.timeline) \in Nat
      /\ game.results \in [Actions -> {"none", "accepted", "rejected"}]
  BY <1>3, GameTyped DEF MatchInv
<1>6. /\ Len(game.state) = Len(game.timeline) /\ game.hash = game.state
      /\ TrueCheckpoints(game.checkpoints, game.state)
      /\ Repeats(game.timeline, game.commands, game.state)
      /\ \A i \in 1..Len(game.timeline) :
            game.state[i] # "tick" => game.results[game.state[i]] = "accepted"
      /\ Once(game.state) /\ Ends(game.status, Len(game.state), game.last)
  <2>1. ~Acting
    BY <1>1 DEF Acting
  <2> QED  BY <1>1, <1>3, <1>5, <2>1 DEF MatchInv, GameInv
<1>7. SUFFICES /\ game' \in Game /\ pending' \in Call \cup {NoCall} /\ GameInv'
               /\ IsPrefix(game.state, game'.state) /\ game'.commands = game.commands
  <2>1. IsPrefix(game.commands, game'.commands)
    BY <1>5, <1>7, PrefixFacts
  <2>2. SavesInv' /\ PointerInv'
    BY <1>1, <1>3, <1>7, <2>1, PlayKeepsSaves
  <2>3. Typed' /\ NoGameInv' /\ QueueInv'
    BY <1>1, <1>2, <1>4, <1>7, GameIsNoNoGame DEF MatchInv, Typed, NoGameInv, QueueInv
  <2> QED  BY <1>7, <2>2, <2>3 DEF MatchInv
<1>8. CASE UNCHANGED <<game, pending>>
  BY <1>1, <1>5, <1>8, PrefixFacts DEF MatchInv, GameInv, Acting
<1>9. CASE /\ call = Tick /\ game.status = "running" /\ pending' = call
           /\ game' = [Applied(game, "tick") EXCEPT !.timeline = Append(@, 0)]
  <2> DEFINE next == Applied(game, "tick")
             timeline == Append(game.timeline, 0)
  <2>1. /\ next \in Game /\ next.state = Append(game.state, "tick")
        /\ next.hash = game.state /\ next.checkpoints = game.checkpoints
        /\ next.commands = game.commands /\ next.timeline = game.timeline
        /\ next.results = game.results
        /\ Len(next.state) = Len(game.timeline) + 1 /\ Last(next.state) = "tick"
        /\ next.hash = SubSeq(next.state, 1, Len(next.state) - 1)
        /\ Repeats(game.timeline, game.commands, next.state)
        /\ Once(next.state) /\ Ends(next.status, Len(next.state), next.last)
        /\ \A i \in 1..Len(game.timeline) :
              next.state[i] # "tick" => game.results[next.state[i]] = "accepted"
    BY <1>1, <1>3, <1>9, AppliedStep DEF Step
  <2> HIDE DEF next
  <2>2. /\ timeline \in Seq(Nat) /\ Len(timeline) = Len(game.timeline) + 1
        /\ \A i \in 1..Len(game.timeline) : timeline[i] = game.timeline[i]
        /\ timeline[Len(game.timeline) + 1] = 0
    BY <1>5, PrefixOfAppend
  <2> HIDE DEF timeline
  <2>3. /\ game' \in Game /\ game'.state = next.state /\ game'.hash = next.hash
        /\ game'.checkpoints = next.checkpoints /\ game'.commands = next.commands
        /\ game'.timeline = timeline /\ game'.results = next.results
        /\ game'.status = next.status /\ game'.last = next.last
    <3>1. game' = [next EXCEPT !.timeline = timeline]
      BY <1>9, <2>1 DEF next, timeline
    <3> QED  BY <2>1, <2>2, <3>1 DEF Game
  <2>4. next.state[Len(game.timeline) + 1] = "tick"
    BY <2>1 DEF Last
  <2>5. Repeats(timeline, game.commands, next.state)
    <3>1. ASSUME NEW i \in 1..Len(timeline)
          PROVE  IF timeline[i] = 0 THEN next.state[i] = "tick"
                 ELSE timeline[i] \in 1..Len(game.commands) /\ next.state[i] = game.commands[timeline[i]]
      <4>1. CASE i \in 1..Len(game.timeline)
        BY <2>1, <2>2, <4>1 DEF Repeats
      <4>2. CASE i = Len(game.timeline) + 1
        BY <2>2, <2>4, <4>2
      <4> QED  BY <1>5, <2>2, <4>1, <4>2
    <3> QED  BY <3>1 DEF Repeats
  <2>6. ASSUME NEW i \in 1..Len(timeline), next.state[i] # "tick"
        PROVE  game.results[next.state[i]] = "accepted"
    <3>1. i \in 1..Len(game.timeline)
      <4>1. i \in 1..Len(game.timeline) \/ i = Len(game.timeline) + 1
        BY <1>5, <2>2
      <4> QED  BY <2>4, <2>6, <4>1
    <3> QED  BY <2>1, <2>6, <3>1
  <2>7. next.state # <<>> /\ pending' = Tick /\ pending' # NoCall /\ ~(Acting')
    BY <1>5, <1>9, <2>1 DEF Acting, Tick, NoCall
  <2>8. GameInv'
    <3>1. Len(timeline) \in Nat
      BY <2>2, LenProperties
    <3>2. Len(game'.state) = Len(game'.timeline) + (IF Acting' THEN 1 ELSE 0)
      <4>1. Len(game'.state) = Len(timeline) /\ Len(game'.timeline) = Len(timeline)
        BY <2>1, <2>2, <2>3
      <4> QED  BY <2>7, <3>1, <4>1
    <3>3. /\ Repeats(game'.timeline, game'.commands, game'.state) /\ game'.state # <<>>
          /\ game'.hash = IF pending' = NoCall THEN game'.state
                          ELSE SubSeq(game'.state, 1, Len(game'.state) - 1)
      BY <2>1, <2>3, <2>5, <2>7
    <3>4. /\ TrueCheckpoints(game'.checkpoints, game'.hash) /\ Once(game'.state)
          /\ Ends(game'.status, Len(game'.state), game'.last)
      BY <1>6, <2>1, <2>3
    <3>5. \A i \in 1..Len(game'.timeline) :
              game'.state[i] # "tick" => game'.results[game'.state[i]] = "accepted"
      BY <2>1, <2>3, <2>6
    <3> QED  BY <2>7, <3>2, <3>3, <3>4, <3>5 DEF GameInv
  <2>9. IsPrefix(game.state, game'.state)
    <3>1. "tick" \in Step
      BY DEF Step
    <3>2. IsPrefix(game.state, Append(game.state, "tick"))
      BY <1>5, <3>1, PrefixOfAppend
    <3> QED  BY <2>1, <2>3, <3>2
  <2> QED  BY <1>9, <2>1, <2>3, <2>8, <2>9, <1>4
<1>10. CASE call # Tick /\ ~Handled(call.id) /\ UNCHANGED pending
            /\ game' = [game EXCEPT !.results[call.id] = "rejected"]
  <2>1. call.id \in Actions /\ game.results[call.id] = "none"
    BY <1>4, <1>10, CallIs DEF Handled
  <2>2. /\ game' \in Game /\ game'.state = game.state /\ game'.hash = game.hash
        /\ game'.checkpoints = game.checkpoints /\ game'.commands = game.commands
        /\ game'.timeline = game.timeline /\ game'.status = game.status /\ game'.last = game.last
        /\ \A a \in Actions : a # call.id => game'.results[a] = game.results[a]
    BY <1>5, <1>10, <2>1 DEF Game
  <2>3. ASSUME NEW i \in 1..Len(game.timeline), game.state[i] # "tick"
        PROVE  game'.results[game.state[i]] = "accepted"
    <3>1. game.state[i] \in Step
      BY <1>5, <1>6, ElementOfSeq
    <3>2. game.state[i] \in Actions /\ game.results[game.state[i]] = "accepted"
      BY <1>6, <2>3, <3>1 DEF Step
    <3> QED  BY <2>1, <2>2, <3>2
  <2>4. ~(Acting') /\ pending' = NoCall
    BY <1>1, <1>10 DEF Acting
  <2>5. GameInv'
    BY <1>5, <1>6, <2>2, <2>3, <2>4 DEF GameInv
  <2> QED  BY <1>5, <2>2, <2>4, <2>5, PrefixFacts
<1>11. CASE /\ call # Tick /\ ~Handled(call.id) /\ game.status = "running"
            /\ game' = Applied(game, call.id) /\ pending' = call
  <2>1. call.id \in Actions /\ call.id \in Step /\ game.results[call.id] = "none"
    BY <1>4, <1>11, CallIs DEF Handled, Step
  <2>2. /\ game' \in Game /\ game'.state = Append(game.state, call.id)
        /\ game'.hash = game.state /\ game'.checkpoints = game.checkpoints
        /\ game'.commands = game.commands /\ game'.timeline = game.timeline
        /\ game'.results = game.results
        /\ Len(game'.state) = Len(game.timeline) + 1 /\ Last(game'.state) = call.id
        /\ game'.hash = SubSeq(game'.state, 1, Len(game'.state) - 1)
        /\ Repeats(game.timeline, game.commands, game'.state)
        /\ Once(game'.state) /\ Ends(game'.status, Len(game'.state), game'.last)
        /\ \A i \in 1..Len(game.timeline) :
              game'.state[i] # "tick" => game.results[game'.state[i]] = "accepted"
    BY <1>1, <1>3, <1>11, <2>1, AppliedStep
  <2>3. pending' # NoCall /\ Acting'
    BY <1>4, <1>11 DEF Acting, NoCall, Call, Action, Tick
  <2>4. game'.state # <<>>
    BY <1>5, <2>2
  <2>5. GameInv'
    BY <1>6, <1>11, <2>1, <2>2, <2>3, <2>4 DEF GameInv
  <2>6. IsPrefix(game.state, game'.state)
    <3>1. IsPrefix(game.state, Append(game.state, call.id))
      BY <1>5, <2>1, PrefixOfAppend
    <3> QED  BY <2>2, <3>1
  <2> QED  BY <1>4, <1>11, <2>2, <2>5, <2>6
<1> QED  BY <1>8, <1>9, <1>10, <1>11 DEF Run, call

\* recordCheckpoint leaves a true checkpoint.
LEMMA CheckpointedTrue ==
    ASSUME MatchInv, game # NoGame
    PROVE  LET m == Checkpointed(game) IN
           /\ m \in Game /\ m.state = game.state /\ m.hash = game.state
           /\ TrueCheckpoints(m.checkpoints, game.state)
           /\ m.commands = game.commands /\ m.timeline = game.timeline
           /\ m.results = game.results /\ m.status = game.status /\ m.last = game.last
<1> DEFINE m == Checkpointed(game)
           cs == game.checkpoints
           more == Append(cs, Checkpoint(game.state, game.state))
<1>1. /\ game \in Game /\ game.state \in Seq(Step) /\ game.hash \in Seq(Step)
      /\ cs \in Seq(Point) /\ Len(game.state) \in Nat
  BY GameTyped DEF MatchInv
<1>2. IsPrefix(game.hash, game.state)
  <2>1. CASE pending = NoCall
    BY <1>1, <2>1, PrefixFacts DEF MatchInv, GameInv
  <2>2. CASE pending # NoCall
    <3>1. game.hash = SubSeq(game.state, 1, Len(game.state) - 1) /\ Len(game.state) - 1 \in 0..Len(game.state)
      BY <1>1, <2>2, EmptySeq DEF MatchInv, GameInv
    <3>2. IsPrefix(game.state, game.state)
      BY <1>1, PrefixFacts
    <3>3. Len(game.hash) = Len(game.state) - 1
      BY <1>1, <3>1, <3>2, EarlierStays
    <3>4. SubSeq(game.hash, 1, Len(game.hash)) = game.hash
      BY <1>1, SubSeqFull
    <3> QED  BY <1>1, <3>1, <3>3, <3>4 DEF IsPrefix
  <2> QED  BY <2>1, <2>2
<1>3. TrueCheckpoints(cs, game.state)
  BY <1>1, <1>2, PointsStay DEF MatchInv, GameInv
<1>4. more \in Seq(Point) /\ TrueCheckpoints(more, game.state)
  BY <1>1, <1>3, OneMorePoint
<1> HIDE DEF more
<1>5. \E new \in Seq(Point) : /\ TrueCheckpoints(new, game.state)
                              /\ m = [game EXCEPT !.hash = game.state, !.checkpoints = new]
  <2>1. m = [game EXCEPT !.hash = game.state,
                         !.checkpoints = IF Periodic(Len(game.state), game.status) THEN more ELSE cs]
    BY <1>1 DEF Checkpointed, more, Game
  <2> QED  BY <1>1, <1>3, <1>4, <2>1
<1>6. PICK new \in Seq(Point) : /\ TrueCheckpoints(new, game.state)
                                /\ m = [game EXCEPT !.hash = game.state, !.checkpoints = new]
  BY <1>5
<1> QED  BY <1>1, <1>6 DEF Game

LEMMA GoesKeeps ==
    ASSUME MatchBounds, MatchInv, Goes
    PROVE  MatchInv'
<1> DEFINE m == Checkpointed(game)
<1>1. /\ pending # NoCall /\ pending' = NoCall /\ UNCHANGED <<kind, queue>>
      /\ UNCHANGED OfSaving
      /\ game' = IF pending = Tick THEN m ELSE Recorded(m, pending.id)
  BY DEF Goes
<1>2. UNCHANGED <<version, saving, pointer, flying, acked, faults>>
  BY <1>1 DEF OfSaving
<1>3. game # NoGame /\ saving = NoSave
  BY <1>1 DEF MatchInv, NoGameInv, SavesInv, Quiet
<1>4. /\ m \in Game /\ m.state = game.state /\ m.hash = game.state
      /\ TrueCheckpoints(m.checkpoints, game.state)
      /\ m.commands = game.commands /\ m.timeline = game.timeline
      /\ m.results = game.results /\ m.status = game.status /\ m.last = game.last
  BY <1>3, CheckpointedTrue
<1> HIDE DEF m
<1>5. /\ game \in Game /\ game.state \in Seq(Step) /\ game.commands \in Seq(Actions)
      /\ game.timeline \in Seq(Nat) /\ Len(game.timeline) \in Nat /\ Len(game.commands) \in Nat
      /\ game.results \in [Actions -> {"none", "accepted", "rejected"}]
      /\ pending \in Call
  BY <1>1, <1>3, GameTyped DEF MatchInv, Typed
<1>6. /\ Len(game.state) = Len(game.timeline) + (IF Acting THEN 1 ELSE 0)
      /\ Acting => Last(game.state) = pending.id /\ game.results[pending.id] = "none"
      /\ Repeats(game.timeline, game.commands, game.state)
      /\ Once(game.state) /\ Ends(game.status, Len(game.state), game.last)
      /\ \A i \in 1..Len(game.timeline) :
            game.state[i] # "tick" => game.results[game.state[i]] = "accepted"
  BY <1>3 DEF MatchInv, GameInv
<1>7. ~(Acting')
  BY <1>1 DEF Acting
<1>8. SUFFICES /\ game' \in Game /\ GameInv' /\ game'.state = game.state
               /\ IsPrefix(game.commands, game'.commands)
  <2>1. IsPrefix(game.state, game'.state)
    BY <1>5, <1>8, PrefixFacts
  <2>2. SavesInv' /\ PointerInv'
    BY <1>1, <1>3, <1>8, <2>1, PlayKeepsSaves
  <2>3. Typed' /\ NoGameInv' /\ QueueInv'
    BY <1>1, <1>2, <1>8, GameIsNoNoGame DEF MatchInv, Typed, NoGameInv, QueueInv
  <2> QED  BY <1>8, <2>2, <2>3 DEF MatchInv
<1>9. CASE pending = Tick
  <2>1. game' = m /\ ~Acting
    BY <1>1, <1>9 DEF Acting
  <2>2. GameInv'
    BY <1>1, <1>4, <1>5, <1>6, <1>7, <2>1 DEF GameInv
  <2> QED  BY <1>4, <1>5, <2>1, <2>2, PrefixFacts
<1>10. CASE pending # Tick
  <2> DEFINE a == pending.id
             place == Len(game.commands) + 1
             commands == Append(game.commands, a)
             timeline == Append(game.timeline, place)
  <2>1. Acting /\ a \in Actions
    BY <1>1, <1>5, <1>10, CallIs DEF Acting
  <2>2. /\ commands \in Seq(Actions) /\ Len(commands) = place
        /\ \A i \in 1..Len(game.commands) : commands[i] = game.commands[i]
        /\ commands[place] = a /\ IsPrefix(game.commands, commands)
    BY <1>5, <2>1, PrefixOfAppend
  <2>3. /\ timeline \in Seq(Nat) /\ Len(timeline) = Len(game.timeline) + 1
        /\ \A i \in 1..Len(game.timeline) : timeline[i] = game.timeline[i]
        /\ timeline[Len(game.timeline) + 1] = place
    <3>1. place \in Nat
      BY <1>5
    <3> HIDE DEF place
    <3> QED  BY <1>5, <3>1, PrefixOfAppend
  <2>4. /\ game' \in Game /\ game'.state = game.state /\ game'.hash = game.state
        /\ game'.checkpoints = m.checkpoints /\ game'.commands = commands
        /\ game'.timeline = timeline /\ game'.status = game.status /\ game'.last = game.last
        /\ game'.results = [game.results EXCEPT ![a] = "accepted"]
    <3>1. game' = [m EXCEPT !.results = [game.results EXCEPT ![a] = "accepted"],
                            !.commands = commands, !.timeline = timeline]
      BY <1>1, <1>4, <1>10 DEF Recorded, Game
    <3>2. [game.results EXCEPT ![a] = "accepted"] \in [Actions -> {"none", "accepted", "rejected"}]
      BY <1>5
    <3> HIDE DEF commands, timeline, a
    <3> QED  BY <1>4, <2>2, <2>3, <3>1, <3>2 DEF Game
  <2>5. Len(game.state) = Len(timeline) /\ game.state[Len(timeline)] = a /\ Len(timeline) \in Nat
    BY <1>5, <1>6, <2>1, <2>3 DEF Last
  <2> HIDE DEF commands, timeline, a
  <2>6. Repeats(timeline, commands, game.state)
    <3>1. ASSUME NEW i \in 1..Len(timeline)
          PROVE  IF timeline[i] = 0 THEN game.state[i] = "tick"
                 ELSE timeline[i] \in 1..Len(commands) /\ game.state[i] = commands[timeline[i]]
      <4>1. CASE i \in 1..Len(game.timeline)
        <5>1. timeline[i] = game.timeline[i]
          BY <2>3, <4>1
        <5>2. IF game.timeline[i] = 0 THEN game.state[i] = "tick"
              ELSE /\ game.timeline[i] \in 1..Len(game.commands)
                   /\ game.state[i] = game.commands[game.timeline[i]]
          BY <1>6, <4>1 DEF Repeats
        <5>3. ASSUME NEW n \in 1..Len(game.commands)
              PROVE  n \in 1..Len(commands) /\ commands[n] = game.commands[n]
          <6>1. Len(commands) = Len(game.commands) + 1
            BY <2>2
          <6> QED  BY <1>5, <2>2, <6>1
        <5> QED  BY <5>1, <5>2, <5>3
      <4>2. CASE i = Len(game.timeline) + 1
        BY <1>5, <2>2, <2>3, <2>5, <4>2
      <4> QED  BY <1>5, <2>3, <4>1, <4>2
    <3> QED  BY <3>1 DEF Repeats
  <2>7. ASSUME NEW i \in 1..Len(timeline), game.state[i] # "tick"
        PROVE  game'.results[game.state[i]] = "accepted"
    <3>1. CASE i \in 1..Len(game.timeline)
      <4>1. game.state[i] \in Step
        BY <1>5, <2>5, ElementOfSeq
      <4>2. game.state[i] \in Actions /\ game.results[game.state[i]] = "accepted"
        BY <1>6, <2>7, <3>1, <4>1 DEF Step
      <4> QED  BY <1>5, <2>1, <2>4, <4>2
    <3>2. CASE i = Len(game.timeline) + 1
      BY <1>5, <2>1, <2>3, <2>4, <2>5, <3>2
    <3> QED  BY <1>5, <2>3, <3>1, <3>2
  <2>8. GameInv'
    <3>1. Len(game'.state) = Len(game'.timeline) + (IF Acting' THEN 1 ELSE 0)
      BY <1>7, <2>4, <2>5
    <3>2. /\ Repeats(game'.timeline, game'.commands, game'.state)
          /\ TrueCheckpoints(game'.checkpoints, game'.hash) /\ Once(game'.state)
          /\ Ends(game'.status, Len(game'.state), game'.last)
      BY <1>4, <1>6, <2>4, <2>6
    <3>3. \A i \in 1..Len(game'.timeline) :
              game'.state[i] # "tick" => game'.results[game'.state[i]] = "accepted"
      BY <2>4, <2>7
    <3> QED  BY <1>1, <1>7, <2>4, <3>1, <3>2, <3>3 DEF GameInv
  <2> QED  BY <2>2, <2>4, <2>8
<1> QED  BY <1>9, <1>10

(***************************************************************************)
(* Saves.                                                                  *)
(***************************************************************************)
LEMMA SaveTyped ==
    ASSUME NEW save \in Save
    PROVE  /\ save # NoSave /\ save.match \in Match /\ save.expected \in Nat
           /\ save.written \in Nat /\ save.pc \in {"chunks", "pointer"}
BY DEF Save, NoSave

\* The save of a match that is at rest.
LEMMA SavingIsOK ==
    ASSUME MatchBounds, NEW g \in Game, AtRest(g), NEW v \in 1..MaxSaves, NEW recovers \in BOOLEAN
    PROVE  LET save == Saving(g, v, recovers) IN
           /\ save \in Save /\ save.pc = "chunks" /\ save.expected = v
           /\ save.match \in Match /\ WholeMatch(save.match) /\ save.match.version = v + 1
           /\ StateOf(save.match) = g.state /\ save.match.replay.commands = g.commands
           /\ Continues(save.match, g.state, g.commands)
<1> DEFINE save == Saving(g, v, recovers)
           match == Saved(g, v + 1)
<1>1. v \in Nat /\ v + 1 \in Nat
  BY DEF MatchBounds
<1>2. /\ match \in Match /\ WholeMatch(match) /\ StateOf(match) = g.state
      /\ match.replay.commands = g.commands /\ match.version = v + 1
  BY <1>1, ExportIsWhole
<1> HIDE DEF match
<1>3. /\ save.pc = "chunks" /\ save.match = match /\ save.expected = v /\ save \in Save
  BY <1>1, <1>2 DEF Saving, Save, match
<1> HIDE DEF save
<1>4. Continues(match, g.state, g.commands)
  BY <1>2, PrefixFacts DEF Continues, Game
<1> QED  BY <1>2, <1>3, <1>4 DEF save

LEMMA SaveBeginsKeeps ==
    ASSUME MatchBounds, MatchInv, SaveBegins
    PROVE  MatchInv'
<1>1. /\ game # NoGame /\ saving = NoSave /\ Quiet /\ version <= MaxSaves
      /\ saving' = Saving(game, version, FALSE)
      /\ UNCHANGED <<kind, queue, game, pending, version, pointer, flying, acked, faults>>
  BY DEF SaveBegins, OfCalls
<1>2. game \in Game /\ version \in 1..MaxSaves
  BY <1>1, GameTyped DEF MatchInv, PointerInv, MatchBounds
<1>3. /\ saving' \in Save /\ saving'.pc = "chunks" /\ saving'.expected = version
      /\ WholeMatch(saving'.match) /\ saving'.match.version = version + 1
      /\ StateOf(saving'.match) = game.state /\ saving'.match.replay.commands = game.commands
      /\ Continues(saving'.match, game.state, game.commands)
  <2>1. AtRest(game)
    BY <1>1, <1>2, QuietIsAtRest DEF MatchInv, Quiet
  <2> QED  BY <1>1, <1>2, <2>1, SavingIsOK
<1>4. SavesInv'
  <2>1. /\ version <= pointer.version
        /\ version = pointer.version => Continues(pointer.match, game.state, game.commands)
    BY <1>1 DEF MatchInv, PointerInv
  <2>2. SaveOK(saving)'
    BY <1>1, <1>2, <1>3, <2>1 DEF SaveOK, ContinuedBy
  <2>3. flying' # NoSave => SaveOK(flying)' /\ flying'.pc = "pointer"
    BY <1>1 DEF MatchInv, SavesInv, SaveOK, ContinuedBy, Continues, StateOf, WholeMatch
  <2> QED  BY <1>1, <1>3, <2>2, <2>3 DEF SavesInv, Quiet
<1> QED  BY <1>1, <1>3, <1>4 DEF MatchInv, Typed, GameInv, NoGameInv, PointerInv, QueueInv,
                Acting, Whole, WholeMatch, AcknowledgedSurvive, Continues, StateOf

LEMMA PutChunkKeeps ==
    ASSUME MatchBounds, MatchInv, PutChunk
    PROVE  MatchInv'
<1> DEFINE n == saving.written + 1
<1>1. /\ saving.pc = "chunks"
      /\ saving' = [saving EXCEPT !.written = n, !.pc = IF ChunksWritten(n) THEN "pointer" ELSE "chunks"]
      /\ UNCHANGED <<kind, queue, game, pending, version, pointer, flying, acked, faults>>
  BY DEF PutChunk, OfCalls
<1>2. saving \in Save /\ saving # NoSave
  BY <1>1, SaveTyped DEF MatchInv, Typed, NoSave
<1>3. /\ saving' \in Save /\ saving'.match = saving.match /\ saving'.expected = saving.expected
      /\ saving'.pc = "pointer" => saving'.written = Chunks
  <2>1. n \in Nat
    BY <1>2, SaveTyped
  <2>2. \E pc \in {"chunks", "pointer"} : /\ saving' = [saving EXCEPT !.written = n, !.pc = pc]
                                          /\ pc = "pointer" => n = Chunks
    BY <1>1 DEF ChunksWritten
  <2> HIDE DEF n
  <2> QED  BY <1>2, <2>1, <2>2 DEF Save
<1>4. SavesInv'
  BY <1>1, <1>2, <1>3, SaveTyped
     DEF MatchInv, SavesInv, SaveOK, Quiet, ContinuedBy, Continues, StateOf, WholeMatch
<1>5. NoGameInv'
  BY <1>1, <1>2 DEF MatchInv, NoGameInv
<1> QED  BY <1>1, <1>3, <1>4, <1>5 DEF MatchInv, Typed, GameInv, PointerInv, QueueInv,
                Acting, Whole, WholeMatch, AcknowledgedSurvive, Continues, StateOf

\* What a put makes of the saved match.
Forward == IsPrefix(Steps(pointer.match.replay), Steps(pointer.match.replay)')

LEMMA PutsGoForward ==
    ASSUME MatchBounds, MatchInv, NEW save \in Save, SaveOK(save), save.pc = "pointer", Puts(save)
    PROVE  /\ pointer' \in [version : Nat, written : Nat, match : Match]
           /\ pointer'.match = save.match /\ pointer.version = save.expected
           /\ pointer'.version = pointer.version + 1 /\ pointer'.version \in 1..MaxSaves + 1
           /\ Whole(pointer') /\ WholeMatch(pointer'.match)
           /\ pointer'.match.version = pointer'.version
           /\ acked \subseteq ToSet(pointer'.match.replay.commands) /\ Forward
<1>1. /\ pointer.version = save.expected
      /\ pointer' = [version |-> save.match.version, written |-> save.written, match |-> save.match]
  BY DEF Puts
<1>2. /\ save.match \in Match /\ save.match.version \in Nat /\ save.written \in Nat
      /\ save.expected \in Nat
  BY SaveTyped, MatchTyped
<1>3. /\ WholeMatch(save.match) /\ save.match.version = save.expected + 1
      /\ save.written = Chunks /\ ContinuedBy(pointer.match, save)
      /\ save.expected \in 1..MaxSaves
  BY <1>1 DEF SaveOK
<1>4. pointer.match \in Match /\ WholeMatch(pointer.match) /\ AcknowledgedSurvive
  BY DEF MatchInv, Typed, PointerInv
<1>5. acked \subseteq ToSet(save.match.replay.commands)
  <2>1. IsPrefix(pointer.match.replay.commands, save.match.replay.commands)
    BY <1>3 DEF ContinuedBy, Continues
  <2>2. ToSet(pointer.match.replay.commands) \subseteq ToSet(save.match.replay.commands)
    BY <1>2, <1>4, <2>1, MatchTyped, PrefixFacts
  <2> QED  BY <1>4, <2>2 DEF AcknowledgedSurvive
<1>6. Forward
  <2>1. Steps(pointer.match.replay) = StateOf(pointer.match)
    BY <1>4, StepsRepeat DEF StateOf
  <2>2. Steps(save.match.replay) = StateOf(save.match)
    BY <1>2, <1>3, StepsRepeat DEF StateOf
  <2>3. Steps(pointer.match.replay)' = Steps(save.match.replay)
    <3>1. pointer'.match = save.match
      BY <1>1
    <3> QED  BY <3>1 DEF Steps
  <2>4. IsPrefix(StateOf(pointer.match), StateOf(save.match))
    BY <1>3 DEF ContinuedBy, Continues
  <2> QED  BY <2>1, <2>2, <2>3, <2>4 DEF Forward
<1> QED  BY <1>1, <1>2, <1>3, <1>5, <1>6 DEF Whole, MatchBounds

\* A save that was on its way when another was put can only be refused.
LEMMA FlyingStays ==
    ASSUME MatchInv, UNCHANGED flying, pointer'.version = pointer.version + 1
    PROVE  flying' # NoSave => flying'.pc = "pointer" /\ SaveOK(flying)'
<1>1. CASE flying = NoSave
  BY <1>1
<1>2. CASE flying # NoSave
  <2>1. flying \in Save /\ SaveOK(flying) /\ flying.pc = "pointer"
    BY <1>2 DEF MatchInv, Typed, SavesInv
  <2>2. pointer.version \in Nat /\ flying.expected \in Nat /\ flying.expected <= pointer.version
    BY <2>1, SaveTyped DEF MatchInv, Typed, SaveOK
  <2>3. flying.expected <= pointer'.version /\ flying.expected # pointer'.version
    BY <2>2
  <2> QED  BY <2>1, <2>3 DEF SaveOK
<1> QED  BY <1>1, <1>2

LEMMA PutPointerKeeps ==
    ASSUME MatchBounds, MatchInv, PutPointer
    PROVE  MatchInv' /\ Forward
<1>1. /\ saving.pc = "pointer" /\ Puts(saving) /\ version' = version + 1 /\ saving' = NoSave
      /\ acked' = acked \cup ToSet(saving.match.replay.commands)
      /\ UNCHANGED <<kind, queue, game, pending, flying, faults>>
  BY DEF PutPointer, OfCalls
<1>2. /\ saving \in Save /\ saving # NoSave /\ SaveOK(saving) /\ saving.expected = version
      /\ Continues(saving.match, game.state, game.commands) /\ Quiet
  BY <1>1, SaveTyped DEF MatchInv, Typed, SavesInv, NoSave
<1>3. /\ pointer' \in [version : Nat, written : Nat, match : Match]
      /\ pointer'.match = saving.match /\ pointer.version = saving.expected
      /\ pointer'.version = pointer.version + 1 /\ pointer'.version \in 1..MaxSaves + 1
      /\ Whole(pointer') /\ WholeMatch(pointer'.match)
      /\ pointer'.match.version = pointer'.version
      /\ acked \subseteq ToSet(pointer'.match.replay.commands) /\ Forward
  BY <1>1, <1>2, PutsGoForward
<1>4. version' = pointer'.version /\ version' \in Nat
  BY <1>1, <1>2, <1>3 DEF MatchInv, Typed
<1>5. acked' \subseteq ToSet(pointer'.match.replay.commands) /\ acked' \subseteq Actions
  <2>1. saving.match.replay.commands \in Seq(Actions)
    BY <1>2, SaveTyped, MatchTyped
  <2>2. ToSet(saving.match.replay.commands) \subseteq Actions
    BY <2>1, ElementOfSeq, LenProperties DEF ToSet
  <2> QED  BY <1>1, <1>3, <2>2 DEF MatchInv, Typed
<1>6. Typed'
  BY <1>1, <1>3, <1>4, <1>5 DEF MatchInv, Typed
<1>7. SavesInv'
  BY <1>1, <1>3, FlyingStays DEF SavesInv
<1>8. PointerInv'
  BY <1>1, <1>2, <1>3, <1>4, <1>5
     DEF MatchInv, PointerInv, Whole, WholeMatch, AcknowledgedSurvive, Continues, StateOf
<1>9. GameInv' /\ NoGameInv' /\ QueueInv'
  BY <1>1 DEF MatchInv, GameInv, NoGameInv, QueueInv, Acting
<1> QED  BY <1>3, <1>6, <1>7, <1>8, <1>9 DEF MatchInv

LEMMA StaysPut ==
    ASSUME UNCHANGED pointer, MatchInv
    PROVE  Forward
<1>1. pointer.match \in Match
  BY DEF MatchInv, Typed
<1>2. Steps(pointer.match.replay)' = Steps(pointer.match.replay)
  BY DEF Steps
<1> QED  BY <1>2 DEF Forward, IsPrefix

\* What a put leaves of the pointer's invariant to a match that is not up to date.
LEMMA PointerAhead ==
    ASSUME MatchBounds, MatchInv, NEW save \in Save, SaveOK(save), save.pc = "pointer", Puts(save),
           UNCHANGED <<version, acked>>
    PROVE  PointerInv' /\ Forward
           /\ pointer' \in [version : Nat, written : Nat, match : Match]
           /\ pointer'.version = pointer.version + 1
<1>1. /\ pointer' \in [version : Nat, written : Nat, match : Match]
      /\ pointer'.version = pointer.version + 1 /\ pointer'.version \in 1..MaxSaves + 1
      /\ Whole(pointer') /\ WholeMatch(pointer'.match)
      /\ pointer'.match.version = pointer'.version
      /\ acked \subseteq ToSet(pointer'.match.replay.commands) /\ Forward
  BY PutsGoForward
<1>2. /\ version \in Nat /\ pointer.version \in Nat /\ version <= pointer.version
      /\ version \in 1..MaxSaves + 1
  BY DEF MatchInv, Typed, PointerInv
<1>3. version' <= pointer'.version /\ version' # pointer'.version
  BY <1>1, <1>2
<1>4. PointerInv'
  BY <1>1, <1>2, <1>3 DEF PointerInv, Whole, WholeMatch, AcknowledgedSurvive
<1> QED  BY <1>1, <1>4

LEMMA SaveFailsKeeps ==
    ASSUME MatchBounds, MatchInv, SaveFails
    PROVE  MatchInv' /\ Forward
<1>1. /\ saving # NoSave /\ saving' = NoSave /\ UNCHANGED <<kind, queue, pending, version, flying, acked>>
      /\ faults' \in {faults, faults + 1}
      /\ UNCHANGED pointer \/ (saving.pc = "pointer" /\ Puts(saving))
      /\ game' = IF saving.recovers THEN NoGame
                 ELSE IF game.status = "running" THEN [game EXCEPT !.status = "paused", !.last = "other"]
                 ELSE game
  BY DEF SaveFails, OfCalls, NoSave
<1>2. saving \in Save /\ SaveOK(saving) /\ Quiet /\ game # NoGame
  BY <1>1 DEF MatchInv, Typed, SavesInv, NoGameInv
<1>3. game \in Game
  BY <1>2, GameTyped DEF MatchInv
<1>4. /\ game' \in Game \cup {NoGame}
      /\ GameInv'
      /\ game' # NoGame => game'.state = game.state /\ game'.commands = game.commands
  <2>1. CASE game' = NoGame
    BY <2>1 DEF GameInv
  <2>2. CASE game' = game
    BY <1>1, <1>3, <2>2 DEF MatchInv, GameInv, Acting
  <2>3. CASE game.status = "running" /\ game' = [game EXCEPT !.status = "paused", !.last = "other"]
    <3>1. /\ game' \in Game /\ game'.state = game.state /\ game'.hash = game.hash
          /\ game'.checkpoints = game.checkpoints /\ game'.commands = game.commands
          /\ game'.timeline = game.timeline /\ game'.results = game.results
          /\ game'.status = "paused" /\ game'.last = "other"
      BY <1>3, <2>3 DEF Game, Statuses, Over
    <3>2. Ends("paused", Len(game.state), "other")
      BY <1>2, <2>3 DEF MatchInv, GameInv, Ends
    <3> QED  BY <1>1, <1>2, <3>1, <3>2 DEF MatchInv, GameInv, Acting
  <2> QED  BY <1>1, <2>1, <2>2, <2>3
<1>5. NoGameInv' /\ QueueInv'
  BY <1>1, <1>2 DEF MatchInv, NoGameInv, QueueInv, Quiet
<1>6. CASE UNCHANGED pointer
  <2>1. SavesInv'
    BY <1>1, <1>6
       DEF MatchInv, SavesInv, SaveOK, ContinuedBy, Continues, StateOf, WholeMatch, Quiet
  <2>2. PointerInv'
    BY <1>1, <1>2, <1>4, <1>6
       DEF MatchInv, PointerInv, Whole, WholeMatch, AcknowledgedSurvive, Continues, StateOf
  <2>3. Typed'
    BY <1>1, <1>4, <1>6 DEF MatchInv, Typed
  <2> QED  BY <1>4, <1>5, <1>6, <2>1, <2>2, <2>3, StaysPut DEF MatchInv
<1>7. CASE saving.pc = "pointer" /\ Puts(saving)
  <2>1. /\ PointerInv' /\ Forward
        /\ pointer' \in [version : Nat, written : Nat, match : Match]
        /\ pointer'.version = pointer.version + 1
    BY <1>1, <1>2, <1>7, PointerAhead
  <2>2. SavesInv'
    BY <1>1, <2>1, FlyingStays DEF SavesInv
  <2>3. Typed'
    BY <1>1, <1>4, <2>1 DEF MatchInv, Typed
  <2> QED  BY <1>4, <1>5, <2>1, <2>2, <2>3 DEF MatchInv
<1> QED  BY <1>1, <1>6, <1>7

LEMMA CrashKeeps ==
    ASSUME MatchBounds, MatchInv, Crash
    PROVE  MatchInv' /\ Forward
<1>1. /\ game' = NoGame /\ queue' = <<>> /\ pending' = NoCall /\ saving' = NoSave
      /\ flying' = IF saving.pc = "pointer" THEN saving ELSE flying
      /\ faults' = faults + 1 /\ UNCHANGED <<kind, version, pointer, acked>>
  BY DEF Crash
<1>2. flying' \in Save \cup {NoSave}
  BY <1>1 DEF MatchInv, Typed, NoSave
<1>3. Typed'
  <2>1. <<>> \in Seq(Call)
    BY EmptySeq
  <2> QED  BY <1>1, <1>2, <2>1 DEF MatchInv, Typed
<1>4. GameInv' /\ NoGameInv' /\ QueueInv'
  BY <1>1, EmptySeq DEF GameInv, NoGameInv, QueueInv, MatchBounds
<1>5. SavesInv'
  <2>1. CASE saving.pc = "pointer"
    <3>1. SaveOK(saving)
      BY <2>1 DEF MatchInv, SavesInv, NoSave
    <3> QED  BY <1>1, <2>1, <3>1
             DEF SavesInv, SaveOK, ContinuedBy, Continues, StateOf, WholeMatch
  <2>2. CASE saving.pc # "pointer"
    BY <1>1, <2>2
       DEF MatchInv, SavesInv, SaveOK, ContinuedBy, Continues, StateOf, WholeMatch
  <2> QED  BY <2>1, <2>2
<1>6. PointerInv'
  BY <1>1 DEF MatchInv, PointerInv, Whole, WholeMatch, AcknowledgedSurvive
<1> QED  BY <1>1, <1>3, <1>4, <1>5, <1>6, StaysPut DEF MatchInv

LEMMA ArrivesKeeps ==
    ASSUME MatchBounds, MatchInv, Arrives
    PROVE  MatchInv' /\ Forward
<1>1. /\ flying # NoSave /\ flying' = NoSave
      /\ Puts(flying) \/ UNCHANGED pointer
      /\ UNCHANGED <<kind, queue, game, pending, version, saving, acked, faults>>
  BY DEF Arrives, OfCalls
<1>2. flying \in Save /\ SaveOK(flying) /\ flying.pc = "pointer"
  BY <1>1 DEF MatchInv, Typed, SavesInv
<1>3. GameInv' /\ NoGameInv' /\ QueueInv'
  BY <1>1 DEF MatchInv, GameInv, NoGameInv, QueueInv, Acting
<1>4. CASE UNCHANGED pointer
  <2>1. Typed' /\ SavesInv' /\ PointerInv'
    BY <1>1, <1>4 DEF MatchInv, Typed, SavesInv, SaveOK, PointerInv, Whole, WholeMatch, Quiet,
                      AcknowledgedSurvive, ContinuedBy, Continues, StateOf
  <2> QED  BY <1>3, <1>4, <2>1, StaysPut DEF MatchInv
<1>5. CASE Puts(flying)
  <2>1. /\ PointerInv' /\ Forward
        /\ pointer' \in [version : Nat, written : Nat, match : Match]
        /\ pointer'.version = pointer.version + 1
    BY <1>1, <1>2, <1>5, PointerAhead
  <2>2. Typed'
    BY <1>1, <2>1 DEF MatchInv, Typed
  <2>3. SavesInv'
    <3>1. CASE saving = NoSave
      BY <1>1, <3>1 DEF SavesInv
    <3>2. CASE saving # NoSave
      <4>1. /\ saving \in Save /\ SaveOK(saving) /\ Quiet /\ saving.expected = version
            /\ Continues(saving.match, game.state, game.commands)
        BY <3>2 DEF MatchInv, Typed, SavesInv
      <4>2. pointer.version \in Nat /\ saving.expected \in Nat /\ saving.expected <= pointer.version
        BY <4>1, SaveTyped DEF MatchInv, Typed, SaveOK
      <4>3. saving.expected <= pointer'.version /\ saving.expected # pointer'.version
        BY <2>1, <4>2
      <4>4. SaveOK(saving)'
        BY <1>1, <4>1, <4>3 DEF SaveOK
      <4> QED  BY <1>1, <4>1, <4>4 DEF SavesInv, Quiet
    <3> QED  BY <3>1, <3>2
  <2> QED  BY <1>3, <2>1, <2>2, <2>3 DEF MatchInv
<1> QED  BY <1>1, <1>4, <1>5

LEMMA LoadKeeps ==
    ASSUME MatchBounds, MatchInv, Load
    PROVE  MatchInv' /\ Forward
<1> DEFINE match == pointer.match
<1>1. /\ game = NoGame /\ pointer.version <= MaxSaves
      /\ Restored(match) = game' \/ Recovered(match) = game'
      /\ version' = match.version /\ saving' = Saving(game', match.version, TRUE)
      /\ UNCHANGED <<kind, queue, pending, pointer, flying, acked, faults>>
  BY DEF Load, OfCalls
<1>2. /\ match \in Match /\ WholeMatch(match) /\ match.version = pointer.version
      /\ pointer.version \in 1..MaxSaves /\ queue = <<>> /\ pending' = NoCall
  BY <1>1 DEF MatchInv, Typed, PointerInv, NoGameInv, MatchBounds
<1>3. /\ game' \in Game /\ GameInv' /\ AtRest(game')
      /\ game'.state = StateOf(match) /\ game'.commands = match.replay.commands
  BY <1>1, <1>2, RebuiltIsWhole
<1>4. Continues(match, game'.state, game'.commands)
  BY <1>2, <1>3, MatchTyped, PrefixFacts DEF Continues
<1>5. version' = pointer.version /\ version' \in 1..MaxSaves
  BY <1>1, <1>2
<1>6. /\ saving' \in Save /\ saving'.pc = "chunks" /\ saving'.expected = version'
      /\ WholeMatch(saving'.match) /\ saving'.match.version = version' + 1
      /\ StateOf(saving'.match) = game'.state /\ saving'.match.replay.commands = game'.commands
      /\ Continues(saving'.match, game'.state, game'.commands)
  BY <1>1, <1>3, <1>5, SavingIsOK
<1>7. SavesInv'
  <2>1. SaveOK(saving)'
    <3>1. pointer' = pointer /\ version' <= pointer'.version
      BY <1>1, <1>2, <1>5 DEF MatchBounds
    <3>2. saving'.expected \in 1..MaxSaves
      BY <1>5, <1>6
    <3> QED  BY <1>4, <1>6, <3>1, <3>2 DEF SaveOK, ContinuedBy
  <2>2. flying' # NoSave => SaveOK(flying)' /\ flying'.pc = "pointer"
    BY <1>1 DEF MatchInv, SavesInv, SaveOK, ContinuedBy, Continues, StateOf, WholeMatch
  <2>3. Quiet'
    BY <1>1, <1>2 DEF Quiet
  <2> QED  BY <1>6, <2>1, <2>2, <2>3 DEF SavesInv
<1>8. PointerInv'
  <2>1. version' \in 1..MaxSaves + 1 /\ version' <= pointer'.version
    BY <1>1, <1>2, <1>5 DEF MatchBounds
  <2> QED  BY <1>1, <1>4, <2>1
           DEF MatchInv, PointerInv, Whole, WholeMatch, AcknowledgedSurvive, Continues, StateOf
<1>9. Typed' /\ NoGameInv' /\ QueueInv'
  BY <1>1, <1>2, <1>3, <1>5, <1>6, GameIsNoNoGame
     DEF MatchInv, Typed, NoGameInv, QueueInv, MatchBounds
<1> QED  BY <1>1, <1>3, <1>7, <1>8, <1>9, StaysPut DEF MatchInv

(***************************************************************************)
(* The invariant.                                                          *)
(***************************************************************************)
LEMMA NewIsAtRest ==
    ASSUME MatchBounds
    PROVE  NewMatch \in Game /\ AtRest(NewMatch)
<1> DEFINE first == Checkpoint(<<>>, <<>>)
           cs == <<first>>
<1>1. <<>> \in Seq(Step) /\ <<>> \in Seq(Actions) /\ <<>> \in Seq(Nat) /\ Len(<<>>) = 0
  BY EmptySeq
<1>2. first \in Point /\ first.at = 0 /\ first.state = <<>> /\ first.hash = <<>>
  BY <1>1, PointTyped DEF Checkpoint
<1>3. SubSeq(<<>>, 1, 0) = <<>>
  BY SubSeqEmpty
<1> HIDE DEF first
<1>4. cs \in Seq(Point) /\ Len(cs) = 1 /\ cs[1] = first /\ cs # <<>>
  BY <1>2
<1> HIDE DEF cs
<1>5. TrueCheckpoints(cs, <<>>)
  <2>1. \A i \in 1..Len(cs) : cs[i] = first
    BY <1>4
  <2>2. first.at <= Len(<<>>) /\ first.state = SubSeq(<<>>, 1, first.at) /\ first.hash = first.state
    BY <1>1, <1>2, <1>3
  <2> QED  BY <1>4, <2>1, <2>2 DEF TrueCheckpoints
<1>6. /\ NewMatch.state = <<>> /\ NewMatch.hash = <<>> /\ NewMatch.checkpoints = cs
      /\ NewMatch.commands = <<>> /\ NewMatch.timeline = <<>> /\ NewMatch.status = "running"
      /\ NewMatch.last = "other" /\ NewMatch \in Game
  BY <1>1, <1>4 DEF NewMatch, Game, Statuses, first, cs
<1>7. Once(<<>>) /\ Repeats(<<>>, <<>>, <<>>) /\ Ends("running", 0, "other")
  BY <1>1 DEF Once, Repeats, Ends, MatchBounds
<1> QED  BY <1>1, <1>5, <1>6, <1>7 DEF AtRest

LEMMA InitMatch ==
    ASSUME MatchBounds, Init
    PROVE  MatchInv
<1>1. /\ game \in Game /\ AtRest(game) /\ queue = <<>> /\ pending = NoCall /\ version = 1
      /\ saving = NoSave /\ flying = NoSave /\ acked = {} /\ faults = 0
      /\ kind \in [ticks : BOOLEAN, restores : BOOLEAN]
      /\ pointer = [version |-> 1, written |-> Chunks, match |-> Saved(game, 1)]
  BY NewIsAtRest DEF Init
<1>2. game # NoGame
  BY <1>1, GameIsNoNoGame
<1>3. /\ pointer.match \in Match /\ WholeMatch(pointer.match)
      /\ StateOf(pointer.match) = game.state
      /\ pointer.match.replay.commands = game.commands /\ pointer.match.version = 1
  BY <1>1, ExportIsWhole
<1>4. Typed
  <2>1. <<>> \in Seq(Call)
    BY EmptySeq
  <2> QED  BY <1>1, <1>3, <2>1 DEF Typed, MatchBounds
<1>5. GameInv
  <2>1. Len(game.timeline) \in Nat /\ ~Acting
    BY <1>1, <1>2, <1>4, GameTyped DEF Acting
  <2>2. game.timeline = <<>> /\ Len(game.timeline) = 0
    BY EmptySeq DEF Init, NewMatch
  <2>3. \A i \in 1..Len(game.timeline) :
            game.state[i] # "tick" => game.results[game.state[i]] = "accepted"
    BY <2>2
  <2> QED  BY <1>1, <2>1, <2>3 DEF GameInv, AtRest
<1>6. PointerInv
  <2>1. Continues(pointer.match, game.state, game.commands)
    BY <1>1, <1>3, PrefixFacts DEF Continues, Game
  <2> QED  BY <1>1, <1>3, <2>1 DEF PointerInv, Whole, AcknowledgedSurvive, MatchBounds
<1>7. SavesInv /\ NoGameInv
  BY <1>1, <1>2 DEF SavesInv, NoGameInv
<1>8. QueueInv
  BY <1>1, EmptySeq DEF QueueInv, MatchBounds
<1> QED  BY <1>4, <1>5, <1>6, <1>7, <1>8 DEF MatchInv

LEMMA NextKeeps ==
    ASSUME MatchBounds, MatchInv, [Next]_vars
    PROVE  MatchInv' /\ Forward
<1>1. CASE (\E a \in Actions : Submit(a)) \/ AdvanceTick
  <2>1. UNCHANGED pointer
    BY <1>1 DEF Submit, AdvanceTick, OfSaving
  <2> QED  BY <1>1, <2>1, SubmitKeeps, StaysPut
<1>2. CASE Run
  <2>1. UNCHANGED pointer
    BY <1>2 DEF Run, OfSaving
  <2> QED  BY <1>2, <2>1, RunKeeps, StaysPut
<1>3. CASE Goes
  <2>1. UNCHANGED pointer
    BY <1>3 DEF Goes, OfSaving
  <2> QED  BY <1>3, <2>1, GoesKeeps, StaysPut
<1>4. CASE Pause \/ Resume \/ End
  <2>1. UNCHANGED pointer
    BY <1>4 DEF Pause, Resume, End, Sets, OfSaving
  <2> QED  BY <1>4, <2>1, SetsKeeps, StaysPut
<1>5. CASE SaveBegins
  <2>1. UNCHANGED pointer
    BY <1>5 DEF SaveBegins
  <2> QED  BY <1>5, <2>1, SaveBeginsKeeps, StaysPut
<1>6. CASE PutChunk
  <2>1. UNCHANGED pointer
    BY <1>6 DEF PutChunk
  <2> QED  BY <1>6, <2>1, PutChunkKeeps, StaysPut
<1>7. CASE PutPointer
  BY <1>7, PutPointerKeeps
<1>8. CASE SaveFails
  BY <1>8, SaveFailsKeeps
<1>9. CASE Crash
  BY <1>9, CrashKeeps
<1>10. CASE Arrives
  BY <1>10, ArrivesKeeps
<1>11. CASE Load
  BY <1>11, LoadKeeps
<1>12. CASE UNCHANGED vars
  <2>1. MatchInv'
    BY <1>12 DEF vars, MatchInv, Typed, GameInv, NoGameInv, SavesInv, SaveOK, PointerInv,
                 QueueInv, Acting, Quiet, Whole, WholeMatch, AcknowledgedSurvive, ContinuedBy,
                 Continues, StateOf
  <2> QED  BY <1>12, <2>1, StaysPut DEF vars
<1> QED  BY <1>1, <1>2, <1>3, <1>4, <1>5, <1>6, <1>7, <1>8, <1>9, <1>10, <1>11, <1>12 DEF Next

LEMMA MatchHolds == ASSUME MatchBounds PROVE Spec => []MatchInv
<1>1. Init => MatchInv
  BY InitMatch
<1>2. MatchInv /\ [Next]_vars => MatchInv'
  BY NextKeeps
<1> QED  BY <1>1, <1>2, PTL DEF Spec

(***************************************************************************)
(* The saved match can always be read, verified and recovered to the state *)
(* that was exported, in either way, whatever put failed or came late      *)
(* (DurableMatchStore.save and load, verifyReplay, restoreCheckpoint).     *)
(***************************************************************************)
THEOREM SavedMatchesAreWhole == ASSUME MatchBounds PROVE Spec => []SavedMatchIsWhole
<1>1. MatchInv => SavedMatchIsWhole
  <2> SUFFICES ASSUME MatchInv PROVE SavedMatchIsWhole
    OBVIOUS
  <2>1. /\ Whole(pointer) /\ pointer.match.version = pointer.version
        /\ pointer.match \in Match /\ WholeMatch(pointer.match)
    BY DEF MatchInv, PointerInv, Typed
  <2> QED  BY <2>1, WholeIsVerified DEF SavedMatchIsWhole
<1> QED  BY <1>1, MatchHolds, PTL

(***************************************************************************)
(* An action whose save was answered is in the saved match, whatever put   *)
(* was late, lost or carried out without an answer (persist).              *)
(***************************************************************************)
THEOREM AcknowledgedStaySaved == ASSUME MatchBounds PROVE Spec => []AcknowledgedSurvive
<1>1. MatchInv => AcknowledgedSurvive
  BY DEF MatchInv, PointerInv
<1> QED  BY <1>1, MatchHolds, PTL

(***************************************************************************)
(* An action is applied once, however often and whenever it is sent again, *)
(* also to a match that was recovered (submitActionSerially).              *)
(***************************************************************************)
THEOREM ActionsApplyOnce == ASSUME MatchBounds PROVE Spec => []AppliedOnce
<1>1. MatchInv => AppliedOnce
  <2> SUFFICES ASSUME MatchInv, game # NoGame
               PROVE  \A i, j \in DOMAIN game.state :
                          game.state[i] = game.state[j] /\ i # j => game.state[i] = "tick"
    BY DEF AppliedOnce
  <2>1. Once(game.state) /\ DOMAIN game.state = 1..Len(game.state)
    BY GameTyped, LenProperties DEF MatchInv, GameInv
  <2> QED  BY <2>1 DEF Once
<1> QED  BY <1>1, MatchHolds, PTL

(***************************************************************************)
(* No put undoes a step that was saved: versions are compared, and a save  *)
(* whose version would be accepted continues the match that is saved.      *)
(***************************************************************************)
THEOREM SavesOnlyGoForward == ASSUME MatchBounds PROVE Spec => SavedGoesForward
<1>1. MatchInv /\ [Next]_vars => [IsPrefix(Steps(pointer.match.replay), Steps(pointer'.match.replay))]_pointer
  BY NextKeeps DEF Forward, Steps
<1> QED  BY <1>1, MatchHolds, PTL DEF Spec, SavedGoesForward

(***************************************************************************)
(* Every variable of the match and its saves keeps its type, and a match   *)
(* that is completed says so last.                                         *)
(***************************************************************************)
THEOREM SavedMatchIsTyped == ASSUME MatchBounds PROVE Spec => []TypeOK
<1>1. MatchInv => TypeOK
  <2> SUFFICES ASSUME MatchInv PROVE TypeOK
    OBVIOUS
  <2>1. game # NoGame =>
            /\ game.status \in {"running", "paused"} \cup Over
            /\ Len(game.state) <= MaxSteps /\ game.results \in [Actions -> {"none", "accepted", "rejected"}]
            /\ game.status = "completed" => game.last = "completed"
    BY GameTyped DEF MatchInv, GameInv, Ends, Statuses
  <2>2. saving.pc \in {"none", "chunks", "pointer"}
    BY SaveTyped DEF MatchInv, Typed, NoSave
  <2> QED  BY <2>1, <2>2 DEF MatchInv, Typed, QueueInv, PointerInv, TypeOK
<1> QED  BY <1>1, MatchHolds, PTL
=============================================================================
