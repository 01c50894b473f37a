-------------------------- MODULE SeatControlProofs --------------------------
(***************************************************************************)
(* Theorems about the control of a seat of a paid match: one controller    *)
(* per ticket, no keys inherited, no seat kept by a session that is gone,  *)
(* and keys as the player presses them, for any pages, sockets and queues  *)
(* and any number of cut connections and restarts.                         *)
(***************************************************************************)
EXTENDS SeatControl, TLAPS

Upward == [type : {"authenticate"}, token : Ids] \cup [type : {"action"}, input : Inputs]
Downward == {"authenticated", "observation", "ack", "error"}
Operations ==
    [kind : {"connect"}, socket : Ids, token : Ids]
    \cup [kind : {"action"}, socket : Ids, input : Inputs]
    \cup [kind : {"close"}, socket : Ids]
PageRecords ==
    [state : {"idle", "connecting", "connected"}, token : {None} \cup Ids,
     socket : {None} \cup Ids, queue : Seq(Inputs), flying : BOOLEAN,
     intent : {"none", "hold", "release"}, observed : BOOLEAN, calm : BOOLEAN]
SocketRecords ==
    [page : Pages \cup {NoPage, OtherClient}, open : BOOLEAN, up : Seq(Upward),
     down : Seq(Downward), pending : {"no", "turn", "view"},
     authenticated : BOOLEAN, gone : BOOLEAN]

TypeInv ==
    /\ pages \in [Pages -> PageRecords]
    /\ \A p \in Pages : Len(pages[p].queue) <= MaxQueue
    /\ sockets \in [Ids -> SocketRecords]
    /\ tickets \in [Ids -> {"none", "out", "void"}]
    /\ opened \in [Ids -> Nat]
    /\ ops \in Seq(Operations)
    /\ control \in {None} \cup Ids
    /\ held \in {Nobody, OtherClient} \cup Ids
    /\ match \in {"playing", "over"}
    /\ lapsed \in 0..MaxFaults
-----------------------------------------------------------------------------
(* What a sequence holds, and how that changes at its ends.                *)

\* Messages that a page has sent, and words that it has not heard yet.
Authenticates(up) == \E i \in 1..Len(up) : up[i].type = "authenticate"
Acts(up) == \E i \in 1..Len(up) : up[i].type = "action"
OneAct(up) ==
    \A i, j \in 1..Len(up) : up[i].type = "action" /\ up[j].type = "action" => i = j
ActsSay(up, word) == \A i \in 1..Len(up) : up[i].type = "action" => up[i].input = word
Says(down, word) == \E i \in 1..Len(down) : down[i] = word
OneAck(down) == \A i, j \in 1..Len(down) : down[i] = "ack" /\ down[j] = "ack" => i = j

\* Operations of a socket that wait for their turn.
Waits(q, s, kind) == \E i \in 1..Len(q) : q[i].kind = kind /\ q[i].socket = s
OneTurn(q, s) ==
    \A i, j \in 1..Len(q) :
        q[i].kind = "action" /\ q[i].socket = s /\ q[j].kind = "action" /\ q[j].socket = s => i = j
TurnsSay(q, s, word) ==
    \A i \in 1..Len(q) : q[i].kind = "action" /\ q[i].socket = s => q[i].input = word
OneConnect(q) ==
    \A i, j \in 1..Len(q) :
        /\ q[i].kind = "connect" /\ q[j].kind = "connect"
        /\ q[i].socket = q[j].socket \/ q[i].token = q[j].token
        => i = j
\* Tickets of the sockets that wait to take over are void, and admitted nobody yet.
TicketsTaken(q, cards, counts) ==
    \A i \in 1..Len(q) :
        q[i].kind = "connect" => cards[q[i].token] = "void" /\ counts[q[i].token] = 0

(***************************************************************************)
(* The ends of a sequence.                                                 *)
(***************************************************************************)
LEMMA AppendFacts ==
    ASSUME NEW S, NEW q \in Seq(S), NEW e \in S
    PROVE  /\ Append(q, e) \in Seq(S) /\ Len(Append(q, e)) = Len(q) + 1 /\ Len(q) \in Nat
           /\ \A i \in 1..Len(q) : Append(q, e)[i] = q[i]
           /\ Append(q, e)[Len(q) + 1] = e
           /\ q \o <<e>> = Append(q, e) /\ q \o <<>> = q
           /\ Append(q, e) # <<>>
<1>1. q \o <<e>> = Append(q, e)
  OBVIOUS
<1>2. q \o <<>> = q
  OBVIOUS
<1> QED  BY <1>1, <1>2

LEMMA TailFacts ==
    ASSUME NEW S, NEW q \in Seq(S), q # <<>>
    PROVE  /\ Tail(q) \in Seq(S) /\ Len(Tail(q)) = Len(q) - 1 /\ Len(q) \in Nat \ {0}
           /\ \A i \in 1..Len(Tail(q)) : Tail(q)[i] = q[i + 1] /\ i + 1 \in 1..Len(q)
           /\ Head(q) = q[1] /\ Head(q) \in S
  OBVIOUS

(***************************************************************************)
(* What a page has sent, after one more message and after the first one    *)
(* was read.                                                               *)
(***************************************************************************)
LEMMA UpAppend ==
    ASSUME NEW up \in Seq(Upward), NEW m \in Upward
    PROVE  /\ Authenticates(Append(up, m)) <=> Authenticates(up) \/ m.type = "authenticate"
           /\ Acts(Append(up, m)) <=> Acts(up) \/ m.type = "action"
           /\ ~Acts(up) => OneAct(Append(up, m))
           /\ \A word : ~Acts(up) /\ m.type = "action" /\ m.input = word => ActsSay(Append(up, m), word)
<1> DEFINE q == Append(up, m)
<1>1. /\ Len(q) = Len(up) + 1 /\ Len(up) \in Nat
      /\ \A i \in 1..Len(up) : q[i] = up[i]
      /\ q[Len(up) + 1] = m
  BY AppendFacts
<1> HIDE DEF q
<1>2. \A i \in 1..Len(q) : i \in 1..Len(up) \/ i = Len(up) + 1
  BY <1>1
<1>3. \A i \in 1..Len(up) : i \in 1..Len(q)
  BY <1>1
<1>4. Len(up) + 1 \in 1..Len(q)
  BY <1>1
<1>5. Authenticates(q) <=> Authenticates(up) \/ m.type = "authenticate"
  BY <1>1, <1>2, <1>3, <1>4 DEF Authenticates
<1>6. Acts(q) <=> Acts(up) \/ m.type = "action"
  BY <1>1, <1>2, <1>3, <1>4 DEF Acts
<1>7. ~Acts(up) => OneAct(q)
  BY <1>1, <1>2, <1>3, <1>4 DEF Acts, OneAct
<1>8. \A word : ~Acts(up) /\ m.type = "action" /\ m.input = word => ActsSay(q, word)
  BY <1>1, <1>2, <1>3, <1>4 DEF Acts, ActsSay
<1> QED  BY <1>5, <1>6, <1>7, <1>8 DEF q

LEMMA UpTail ==
    ASSUME NEW up \in Seq(Upward), up # <<>>
    PROVE  /\ Authenticates(Tail(up)) => Authenticates(up)
           /\ Acts(Tail(up)) => Acts(up)
           /\ OneAct(up) => OneAct(Tail(up)) /\ (Head(up).type = "action" => ~Acts(Tail(up)))
           /\ Head(up).type = "action" => Acts(up)
           /\ Head(up).type = "authenticate" => Authenticates(up)
           /\ Len(up) = 1 => Tail(up) = <<>>
           /\ \A word : ActsSay(up, word) =>
                ActsSay(Tail(up), word) /\ (Head(up).type = "action" => Head(up).input = word)
<1> DEFINE q == Tail(up)
<1>1. /\ q \in Seq(Upward) /\ Len(q) = Len(up) - 1 /\ Len(up) \in Nat \ {0}
      /\ \A i \in 1..Len(q) : q[i] = up[i + 1] /\ i + 1 \in 1..Len(up)
      /\ Head(up) = up[1] /\ 1 \in 1..Len(up)
  BY TailFacts
<1> HIDE DEF q
<1>2. Authenticates(q) => Authenticates(up)
  BY <1>1 DEF Authenticates
<1>3. Acts(q) => Acts(up)
  BY <1>1 DEF Acts
<1>4. OneAct(up) => OneAct(q)
  <2> SUFFICES ASSUME OneAct(up), NEW i \in 1..Len(q), NEW j \in 1..Len(q),
                      q[i].type = "action", q[j].type = "action"
               PROVE  i = j
    BY DEF OneAct
  <2>1. i + 1 = j + 1
    BY <1>1 DEF OneAct
  <2> QED  BY <2>1
<1>5. OneAct(up) /\ Head(up).type = "action" => ~Acts(q)
  <2>1. \A i \in 1..Len(q) : i + 1 # 1
    BY <1>1
  <2> QED  BY <1>1, <2>1 DEF OneAct, Acts
<1>6. (Head(up).type = "action" => Acts(up)) /\ (Head(up).type = "authenticate" => Authenticates(up))
  BY <1>1 DEF Acts, Authenticates
<1>7. \A word : ActsSay(up, word) => ActsSay(q, word) /\ (Head(up).type = "action" => Head(up).input = word)
  BY <1>1 DEF ActsSay
<1>8. Len(up) = 1 => q = <<>>
  BY <1>1
<1> QED  BY <1>2, <1>3, <1>4, <1>5, <1>6, <1>7, <1>8 DEF q

LEMMA UpEmpty ==
    /\ ~Authenticates(<<>>) /\ ~Acts(<<>>) /\ OneAct(<<>>)
    /\ \A word : ActsSay(<<>>, word)
  BY DEF Authenticates, Acts, OneAct, ActsSay

LEMMA UpOne ==
    ASSUME NEW m \in Upward, m.type = "authenticate"
    PROVE  Authenticates(<<m>>) /\ ~Acts(<<m>>) /\ OneAct(<<m>>)
           /\ Len(<<m>>) = 1 /\ <<m>> \in Seq(Upward)
  BY DEF Authenticates, Acts, OneAct

(***************************************************************************)
(* Words on their way to the page.                                         *)
(***************************************************************************)
LEMMA DownAppend ==
    ASSUME NEW down \in Seq(Downward), NEW m \in Downward
    PROVE  /\ \A word : Says(Append(down, m), word) <=> Says(down, word) \/ m = word
           /\ OneAck(down) /\ (m = "ack" => ~Says(down, "ack")) => OneAck(Append(down, m))
<1> DEFINE q == Append(down, m)
<1>1. /\ Len(q) = Len(down) + 1 /\ Len(down) \in Nat
      /\ \A i \in 1..Len(down) : q[i] = down[i]
      /\ q[Len(down) + 1] = m
  BY AppendFacts
<1> HIDE DEF q
<1>2. /\ \A i \in 1..Len(q) : i \in 1..Len(down) \/ i = Len(down) + 1
      /\ \A i \in 1..Len(down) : i \in 1..Len(q)
      /\ Len(down) + 1 \in 1..Len(q)
  BY <1>1
<1>3. \A word : Says(q, word) <=> Says(down, word) \/ m = word
  BY <1>1, <1>2 DEF Says
<1>4. OneAck(down) /\ (m = "ack" => ~Says(down, "ack")) => OneAck(q)
  BY <1>1, <1>2 DEF Says, OneAck
<1> QED  BY <1>3, <1>4 DEF q

LEMMA DownTail ==
    ASSUME NEW down \in Seq(Downward), down # <<>>
    PROVE  /\ \A word : Says(Tail(down), word) => Says(down, word)
           /\ Says(down, Head(down))
           /\ OneAck(down) => OneAck(Tail(down)) /\ (Head(down) = "ack" => ~Says(Tail(down), "ack"))
           /\ Says(down, "ack") => Head(down) = "ack" \/ Says(Tail(down), "ack")
<1> DEFINE q == Tail(down)
<1>1. /\ q \in Seq(Downward) /\ Len(q) = Len(down) - 1 /\ Len(down) \in Nat \ {0}
      /\ \A i \in 1..Len(q) : q[i] = down[i + 1] /\ i + 1 \in 1..Len(down)
      /\ Head(down) = down[1] /\ 1 \in 1..Len(down)
  BY TailFacts
<1> HIDE DEF q
<1>2. (\A word : Says(q, word) => Says(down, word)) /\ Says(down, Head(down))
  BY <1>1 DEF Says
<1>3. OneAck(down) => OneAck(q)
  <2> SUFFICES ASSUME OneAck(down), NEW i \in 1..Len(q), NEW j \in 1..Len(q),
                      q[i] = "ack", q[j] = "ack"
               PROVE  i = j
    BY DEF OneAck
  <2>1. i + 1 = j + 1
    BY <1>1 DEF OneAck
  <2> QED  BY <2>1
<1>4. OneAck(down) /\ Head(down) = "ack" => ~Says(q, "ack")
  <2>1. \A i \in 1..Len(q) : i + 1 # 1
    BY <1>1
  <2> QED  BY <1>1, <2>1 DEF OneAck, Says
<1>5. Says(down, "ack") => Head(down) = "ack" \/ Says(q, "ack")
  <2> SUFFICES ASSUME NEW i \in 1..Len(down), down[i] = "ack", i # 1
               PROVE  Says(q, "ack")
    BY <1>1 DEF Says
  <2>1. i - 1 \in 1..Len(q) /\ (i - 1) + 1 = i
    BY <1>1
  <2> QED  BY <1>1, <2>1 DEF Says
<1> QED  BY <1>2, <1>3, <1>4, <1>5 DEF q

LEMMA DownEmpty == OneAck(<<>>) /\ \A word : ~Says(<<>>, word)
  BY DEF OneAck, Says

(***************************************************************************)
(* The queue of exclusive operations.                                      *)
(***************************************************************************)
LEMMA OpsAppend ==
    ASSUME NEW q \in Seq(Operations), NEW e \in Operations
    PROVE  /\ \A s, kind : Waits(Append(q, e), s, kind) <=>
                Waits(q, s, kind) \/ (e.kind = kind /\ e.socket = s)
           /\ \A s : OneTurn(q, s) /\ (e.kind = "action" /\ e.socket = s => ~Waits(q, s, "action"))
                => OneTurn(Append(q, e), s)
           /\ \A s, word : /\ TurnsSay(q, s, word)
                           /\ e.kind = "action" /\ e.socket = s => e.input = word
                => TurnsSay(Append(q, e), s, word)
           /\ OneConnect(q) /\ e.kind # "connect" => OneConnect(Append(q, e))
           /\ \A cards, counts :
                /\ TicketsTaken(q, cards, counts)
                /\ e.kind = "connect" => cards[e.token] = "void" /\ counts[e.token] = 0
                => TicketsTaken(Append(q, e), cards, counts)
<1> DEFINE r == Append(q, e)
<1>1. /\ Len(r) = Len(q) + 1 /\ Len(q) \in Nat
      /\ \A i \in 1..Len(q) : r[i] = q[i]
      /\ r[Len(q) + 1] = e
  BY AppendFacts
<1> HIDE DEF r
<1>2. /\ \A i \in 1..Len(r) : i \in 1..Len(q) \/ i = Len(q) + 1
      /\ \A i \in 1..Len(q) : i \in 1..Len(r)
      /\ Len(q) + 1 \in 1..Len(r)
  BY <1>1
<1>3. \A s, kind : Waits(r, s, kind) <=> Waits(q, s, kind) \/ (e.kind = kind /\ e.socket = s)
  BY <1>1, <1>2 DEF Waits
<1>4. ASSUME NEW s, OneTurn(q, s), e.kind = "action" /\ e.socket = s => ~Waits(q, s, "action")
      PROVE  OneTurn(r, s)
  BY <1>1, <1>2, <1>4 DEF Waits, OneTurn
<1>5. ASSUME NEW s, NEW word, TurnsSay(q, s, word),
             e.kind = "action" /\ e.socket = s => e.input = word
      PROVE  TurnsSay(r, s, word)
  BY <1>1, <1>2, <1>5 DEF TurnsSay
<1>6. OneConnect(q) /\ e.kind # "connect" => OneConnect(r)
  BY <1>1, <1>2 DEF OneConnect
<1>7. ASSUME NEW cards, NEW counts, TicketsTaken(q, cards, counts),
             e.kind = "connect" => cards[e.token] = "void" /\ counts[e.token] = 0
      PROVE  TicketsTaken(r, cards, counts)
  BY <1>1, <1>2, <1>7 DEF TicketsTaken
<1> QED  BY <1>3, <1>4, <1>5, <1>6, <1>7 DEF r

LEMMA OpsConnect ==
    ASSUME NEW q \in Seq(Operations), NEW e \in Operations, OneConnect(q),
           ~Waits(q, e.socket, "connect"),
           NEW cards, NEW counts, TicketsTaken(q, cards, counts), cards[e.token] # "void"
    PROVE  OneConnect(Append(q, e))
<1> DEFINE r == Append(q, e)
<1>1. /\ Len(r) = Len(q) + 1 /\ Len(q) \in Nat
      /\ \A i \in 1..Len(q) : r[i] = q[i]
      /\ r[Len(q) + 1] = e
  BY AppendFacts
<1> HIDE DEF r
<1>2. \A i \in 1..Len(r) : i \in 1..Len(q) \/ i = Len(q) + 1
  BY <1>1
<1>3. \A i \in 1..Len(q) : q[i].kind = "connect" => q[i].socket # e.socket /\ q[i].token # e.token
  BY DEF Waits, TicketsTaken
<1>4. OneConnect(r)
  BY <1>1, <1>2, <1>3 DEF OneConnect
<1> QED  BY <1>4 DEF r

LEMMA OpsTail ==
    ASSUME NEW q \in Seq(Operations), q # <<>>
    PROVE  /\ \A s, kind : Waits(Tail(q), s, kind) => Waits(q, s, kind)
           /\ \A s, kind : Waits(q, s, kind) =>
                Waits(Tail(q), s, kind) \/ (Head(q).kind = kind /\ Head(q).socket = s)
           /\ Waits(q, Head(q).socket, Head(q).kind)
           /\ \A s : OneTurn(q, s) =>
                /\ OneTurn(Tail(q), s)
                /\ Head(q).kind = "action" /\ Head(q).socket = s => ~Waits(Tail(q), s, "action")
           /\ \A s, word : TurnsSay(q, s, word) =>
                /\ TurnsSay(Tail(q), s, word)
                /\ Head(q).kind = "action" /\ Head(q).socket = s => Head(q).input = word
           /\ OneConnect(q) =>
                /\ OneConnect(Tail(q))
                /\ Head(q).kind = "connect" =>
                     /\ ~Waits(Tail(q), Head(q).socket, "connect")
                     /\ \A i \in 1..Len(Tail(q)) :
                           Tail(q)[i].kind = "connect" => Tail(q)[i].token # Head(q).token
           /\ \A cards, counts : TicketsTaken(q, cards, counts) =>
                /\ TicketsTaken(Tail(q), cards, counts)
                /\ Head(q).kind = "connect" =>
                     cards[Head(q).token] = "void" /\ counts[Head(q).token] = 0
           /\ Head(q) \in Operations /\ Tail(q) \in Seq(Operations)
<1> DEFINE r == Tail(q)
<1>1. /\ r \in Seq(Operations) /\ Len(r) = Len(q) - 1 /\ Len(q) \in Nat \ {0}
      /\ \A i \in 1..Len(r) : r[i] = q[i + 1] /\ i + 1 \in 1..Len(q)
      /\ Head(q) = q[1] /\ 1 \in 1..Len(q) /\ Head(q) \in Operations
  BY TailFacts
<1> HIDE DEF r
<1>2. \A i \in 1..Len(q) : i = 1 \/ (i - 1 \in 1..Len(r) /\ r[i - 1] = q[i])
  BY <1>1
<1>3. \A i \in 1..Len(r) : i + 1 # 1
  BY <1>1
<1>4. /\ \A s, kind : Waits(r, s, kind) => Waits(q, s, kind)
      /\ Waits(q, Head(q).socket, Head(q).kind)
  BY <1>1 DEF Waits
<1>5. \A s, kind : Waits(q, s, kind) => Waits(r, s, kind) \/ (Head(q).kind = kind /\ Head(q).socket = s)
  BY <1>1, <1>2 DEF Waits
<1>6. ASSUME NEW s, OneTurn(q, s)
      PROVE  /\ OneTurn(r, s)
             /\ Head(q).kind = "action" /\ Head(q).socket = s => ~Waits(r, s, "action")
  <2>1. ASSUME NEW i \in 1..Len(r), NEW j \in 1..Len(r),
               r[i].kind = "action", r[i].socket = s, r[j].kind = "action", r[j].socket = s
        PROVE  i = j
    <3>1. i + 1 = j + 1
      BY <1>1, <1>6, <2>1 DEF OneTurn
    <3> QED  BY <3>1
  <2>2. Head(q).kind = "action" /\ Head(q).socket = s => ~Waits(r, s, "action")
    BY <1>1, <1>3, <1>6 DEF OneTurn, Waits
  <2> QED  BY <2>1, <2>2 DEF OneTurn
<1>7. ASSUME NEW s, NEW word, TurnsSay(q, s, word)
      PROVE  /\ TurnsSay(r, s, word)
             /\ Head(q).kind = "action" /\ Head(q).socket = s => Head(q).input = word
  BY <1>1, <1>7 DEF TurnsSay
<1>8. ASSUME OneConnect(q)
      PROVE  /\ OneConnect(r)
             /\ Head(q).kind = "connect" =>
                  /\ ~Waits(r, Head(q).socket, "connect")
                  /\ \A i \in 1..Len(r) : r[i].kind = "connect" => r[i].token # Head(q).token
  <2>1. ASSUME NEW i \in 1..Len(r), NEW j \in 1..Len(r), r[i].kind = "connect", r[j].kind = "connect",
               r[i].socket = r[j].socket \/ r[i].token = r[j].token
        PROVE  i = j
    <3>1. i + 1 = j + 1
      BY <1>1, <1>8, <2>1 DEF OneConnect
    <3> QED  BY <3>1
  <2>2. Head(q).kind = "connect" => ~Waits(r, Head(q).socket, "connect")
    BY <1>1, <1>3, <1>8 DEF OneConnect, Waits
  <2>3. Head(q).kind = "connect" =>
          \A i \in 1..Len(r) : r[i].kind = "connect" => r[i].token # Head(q).token
    BY <1>1, <1>3, <1>8 DEF OneConnect
  <2> QED  BY <2>1, <2>2, <2>3 DEF OneConnect
<1>9. ASSUME NEW cards, NEW counts, TicketsTaken(q, cards, counts)
      PROVE  /\ TicketsTaken(r, cards, counts)
             /\ Head(q).kind = "connect" =>
                  cards[Head(q).token] = "void" /\ counts[Head(q).token] = 0
  BY <1>1, <1>9 DEF TicketsTaken
<1> QED  BY <1>1, <1>4, <1>5, <1>6, <1>7, <1>8, <1>9 DEF r

LEMMA OpsEmpty ==
    /\ \A s, kind : ~Waits(<<>>, s, kind)
    /\ \A s : OneTurn(<<>>, s)
    /\ \A s, word : TurnsSay(<<>>, s, word)
    /\ OneConnect(<<>>) /\ \A cards, counts : TicketsTaken(<<>>, cards, counts)
  BY DEF Waits, OneTurn, TurnsSay, OneConnect, TicketsTaken
-----------------------------------------------------------------------------
(* The types.                                                              *)
LEMMA SayFacts ==
    ASSUME TypeInv, NEW s \in Ids, NEW m \in Downward
    PROVE  LET down == sockets[s].down \o Say(s, m) IN
           /\ down \in Seq(Downward)
           /\ \A word : Says(down, word) => Says(sockets[s].down, word) \/ word = m
           /\ \A word : Says(sockets[s].down, word) => Says(down, word)
           /\ sockets[s].open => Says(down, m)
           /\ OneAck(sockets[s].down) /\ (m = "ack" => ~Says(sockets[s].down, "ack")) => OneAck(down)
<1>1. sockets[s].down \in Seq(Downward) /\ sockets[s].open \in BOOLEAN
  BY DEF TypeInv, SocketRecords
<1>2. CASE sockets[s].open
  <2>1. sockets[s].down \o Say(s, m) = Append(sockets[s].down, m)
    BY <1>1, <1>2, AppendFacts DEF Say
  <2>2. Append(sockets[s].down, m) \in Seq(Downward)
    BY <1>1, AppendFacts
  <2> QED  BY <1>1, <1>2, <2>1, <2>2, DownAppend
<1>3. CASE ~sockets[s].open
  <2>1. sockets[s].down \o Say(s, m) = sockets[s].down
    BY <1>1, <1>3, AppendFacts DEF Say
  <2> QED  BY <1>1, <1>3, <2>1
<1> QED  BY <1>2, <1>3
-----------------------------------------------------------------------------
(***************************************************************************)
(* The strengthening.  What a socket is depends on how far its connection  *)
(* has come; what a page believes, on the one input that is in flight: on  *)
(* its socket, in the queue of operations, or acknowledged already.        *)
(***************************************************************************)
\* The connection of a socket k is still to be decided.
Dials(k, q, s) == Authenticates(k.up) \/ Waits(q, s, "connect")

\* A socket dials once, before anything else is said on it.
SocketFits(k, q, s) ==
    /\ k.page = NoPage =>
          /\ k.up = <<>> /\ k.down = <<>> /\ ~k.authenticated /\ k.pending = "no"
          /\ ~Waits(q, s, "connect") /\ ~Waits(q, s, "action")
    /\ Authenticates(k.up) => Len(k.up) = 1 /\ ~Waits(q, s, "connect")
    /\ Waits(q, s, "connect") => k.up = <<>>
    /\ Dials(k, q, s) => ~k.authenticated /\ ~Says(k.down, "authenticated")

\* No input is in flight; or one, at one place.
Quiet(k, q, s) == ~Acts(k.up) /\ ~Waits(q, s, "action") /\ ~Says(k.down, "ack")
Alone(k, q, s) ==
    /\ OneAct(k.up) /\ OneTurn(q, s) /\ OneAck(k.down)
    /\ ~(Acts(k.up) /\ Waits(q, s, "action"))
    /\ ~(Acts(k.up) /\ Says(k.down, "ack"))
    /\ ~(Waits(q, s, "action") /\ Says(k.down, "ack"))

\* A page g with the socket k.
PageFits(p, g, k, q) ==
    /\ g.state # "connected" => g.flying = FALSE /\ g.queue = <<>> /\ g.intent = "none"
    /\ g.state = "connected" => g.socket # None
    /\ g.socket # None =>
          /\ k.page = p
          /\ g.state = "connected" => ~Dials(k, q, g.socket)
          /\ g.calm => Alone(k, q, g.socket)
          /\ g.calm /\ ~g.flying => Quiet(k, q, g.socket)

\* What the last input will make of the game, or has made of it, is what the player wants.
KeysFit(g, k, q, now) ==
    g.intent # "none" =>
        /\ g.queue # <<>> => g.queue[Len(g.queue)] = g.intent
        /\ g.queue = <<>> => ActsSay(k.up, g.intent) /\ TurnsSay(q, g.socket, g.intent)
        /\ g.queue = <<>> /\ (~g.flying \/ Says(k.down, "ack"))
              => (g.intent = "hold" <=> now = g.socket)

TicketsInv ==
    /\ \A t \in Ids : opened[t] # 0 => tickets[t] = "void"
    /\ TicketsTaken(ops, tickets, opened)
SeatInv ==
    control # None =>
        /\ sockets[control].authenticated
        /\ sockets[control].gone => Waits(ops, control, "close")
SocketsInv ==
    /\ OneConnect(ops)
    /\ \A s \in Ids : SocketFits(sockets[s], ops, s)
PagesInv == \A p \in Pages : PageFits(p, pages[p], sockets[pages[p].socket], ops)
Played(p) == pages[p].state = "connected" /\ pages[p].calm /\ pages[p].socket = control /\ match = "playing"
KeysInv == \A p \in Pages : Played(p) => KeysFit(pages[p], sockets[pages[p].socket], ops, held)

ControlInv ==
    /\ TypeInv /\ TicketsAdmitOnce /\ TicketsInv /\ HeldByCurrent /\ SeatInv
    /\ SocketsInv /\ PagesInv /\ KeysInv

LEMMA NewPageTyped == NewPage \in PageRecords
  BY DEF NewPage, PageRecords, None

LEMMA InitControl ==
    ASSUME ControlBounds, Init
    PROVE  ControlInv
<1>1. NewPage \in PageRecords
  BY NewPageTyped
<1>2. NewSocket \in SocketRecords
  BY DEF NewSocket, SocketRecords
<1>3. TypeInv
  <2>1. \A p \in Pages : pages[p] = NewPage
    BY DEF Init
  <2>2. \A p \in Pages : pages[p].queue = <<>>
    BY <2>1 DEF NewPage
  <2> QED  BY <1>1, <1>2, <2>2 DEF Init, TypeInv, ControlBounds
<1>4. TicketsAdmitOnce /\ TicketsInv /\ HeldByCurrent /\ SeatInv
  BY OpsEmpty DEF Init, TicketsAdmitOnce, TicketsInv, HeldByCurrent, SeatInv, ControlBounds, Ids
<1>5. SocketsInv
  BY OpsEmpty, UpEmpty DEF Init, SocketsInv, SocketFits, NewSocket, Dials
<1>6. PagesInv /\ KeysInv
  BY DEF Init, PagesInv, KeysInv, PageFits, NewPage, Played
<1> QED  BY <1>3, <1>4, <1>5, <1>6 DEF ControlInv
-----------------------------------------------------------------------------
(* The page's steps.                                                       *)
LEMMA ShutFacts ==
    ASSUME TypeInv, NEW s \in {None} \cup Ids
    PROVE  /\ Shut(s) \in [Ids -> SocketRecords]
           /\ \A x \in Ids : /\ Shut(s)[x].page = sockets[x].page
                             /\ Shut(s)[x].up = sockets[x].up /\ Shut(s)[x].down = sockets[x].down
                             /\ Shut(s)[x].authenticated = sockets[x].authenticated
                             /\ Shut(s)[x].gone = sockets[x].gone
                             /\ Shut(s)[x].pending = sockets[x].pending
<1>1. sockets \in [Ids -> SocketRecords]
  BY DEF TypeInv
<1>2. CASE s = None
  BY <1>1, <1>2 DEF Shut, SocketRecords
<1>3. CASE s # None
  <2>1. Shut(s) = [sockets EXCEPT ![s].open = FALSE] /\ s \in Ids
    BY <1>3 DEF Shut
  <2>2. \A x \in Ids : x # s => Shut(s)[x] = sockets[x]
    BY <1>1, <2>1
  <2>3. Shut(s)[s] = [sockets[s] EXCEPT !.open = FALSE] /\ sockets[s] \in SocketRecords
    BY <1>1, <2>1
  <2>4. /\ Shut(s)[s].page = sockets[s].page
        /\ Shut(s)[s].up = sockets[s].up /\ Shut(s)[s].down = sockets[s].down
        /\ Shut(s)[s].authenticated = sockets[s].authenticated
        /\ Shut(s)[s].gone = sockets[s].gone
        /\ Shut(s)[s].pending = sockets[s].pending
    BY <2>3 DEF SocketRecords
  <2>5. Shut(s) \in [Ids -> SocketRecords]
    <3>1. Shut(s)[s] \in SocketRecords
      BY <2>3 DEF SocketRecords
    <3> QED  BY <1>1, <2>1, <2>3, <3>1
  <2> QED  BY <2>2, <2>4, <2>5
<1> QED  BY <1>2, <1>3

(***************************************************************************)
(* Whatever leaves the way of an input without an answer, or is refused,   *)
(* leaves a page that does not change with less to wait for.               *)
(***************************************************************************)
Follows(k, q, new, after, s) ==
    /\ new.page = k.page
    /\ Dials(new, after, s) => Dials(k, q, s)
    /\ Acts(new.up) => Acts(k.up)
    /\ OneAct(k.up) => OneAct(new.up)
    /\ \A word : ActsSay(k.up, word) => ActsSay(new.up, word)
    /\ Waits(after, s, "action") => Waits(q, s, "action")
    /\ OneTurn(q, s) => OneTurn(after, s)
    /\ \A word : TurnsSay(q, s, word) => TurnsSay(after, s, word)
    /\ Says(new.down, "ack") => Says(k.down, "ack")
    /\ OneAck(k.down) => OneAck(new.down)

LEMMA FollowFits ==
    ASSUME NEW p, NEW g, NEW k, NEW q, NEW new, NEW after, NEW now,
           g.socket # None => Follows(k, q, new, after, g.socket)
    PROVE  /\ PageFits(p, g, k, q) => PageFits(p, g, new, after)
           /\ g.socket # None /\ KeysFit(g, k, q, now) => KeysFit(g, new, after, now)
<1>1. PageFits(p, g, k, q) => PageFits(p, g, new, after)
  BY DEF PageFits, Follows, Alone, Quiet
<1>2. g.socket # None /\ KeysFit(g, k, q, now) => KeysFit(g, new, after, now)
  BY DEF KeysFit, Follows
<1> QED  BY <1>1, <1>2

LEMMA PageStays ==
    ASSUME TypeInv, PagesInv, KeysInv, NEW p \in Pages, pages'[p] = pages[p],
           pages[p].socket \in Ids =>
               Follows(sockets[pages[p].socket], ops, sockets'[pages[p].socket], ops', pages[p].socket)
    PROVE  /\ PageFits(p, pages'[p], sockets'[pages'[p].socket], ops')
           /\ Played(p) /\ held' = held => KeysFit(pages'[p], sockets'[pages'[p].socket], ops', held')
<1> DEFINE s == pages[p].socket
<1>1. s \in {None} \cup Ids
  BY DEF TypeInv, PageRecords
<1>2. PageFits(p, pages[p], sockets[s], ops)
  BY DEF PagesInv
<1>3. s # None => Follows(sockets[s], ops, sockets'[s], ops', s)
  BY <1>1
<1>4. Played(p) => s # None /\ KeysFit(pages[p], sockets[s], ops, held)
  BY <1>2 DEF KeysInv, Played, PageFits
<1> QED  BY <1>2, <1>3, <1>4, FollowFits

(***************************************************************************)
(* Sockets and pages where nothing was said and no operation taken.        *)
(***************************************************************************)
LEMMA SameFollows ==
    ASSUME NEW k, NEW q, NEW new, NEW s, new.page = k.page, new.up = k.up, new.down = k.down
    PROVE  Follows(k, q, new, q, s)
  BY DEF Follows, Dials

LEMMA SocketsStay ==
    ASSUME TypeInv, SocketsInv, SeatInv, sockets' \in [Ids -> SocketRecords], UNCHANGED <<ops, control>>,
           \A x \in Ids : /\ sockets'[x].page = sockets[x].page
                          /\ sockets'[x].up = sockets[x].up /\ sockets'[x].down = sockets[x].down
                          /\ sockets'[x].authenticated = sockets[x].authenticated
                          /\ sockets'[x].gone = sockets[x].gone
                          /\ sockets'[x].pending = sockets[x].pending
    PROVE  /\ SocketsInv' /\ SeatInv'
           /\ \A x \in Ids : Follows(sockets[x], ops, sockets'[x], ops', x)
<1>1. SocketsInv'
  BY DEF SocketsInv, SocketFits, Dials
<1>2. SeatInv'
  BY DEF SeatInv, TypeInv
<1>3. \A x \in Ids : Follows(sockets[x], ops, sockets'[x], ops', x)
  BY SameFollows
<1> QED  BY <1>1, <1>2, <1>3

LEMMA HostStays ==
    ASSUME UNCHANGED Host
    PROVE  /\ TicketsAdmitOnce => TicketsAdmitOnce'
           /\ TicketsInv => TicketsInv'
           /\ HeldByCurrent => HeldByCurrent'
  BY DEF Host, TicketsAdmitOnce, TicketsInv, HeldByCurrent

(***************************************************************************)
(* Pages fit when the one that changes does, and nobody waits for more.    *)
(***************************************************************************)
LEMMA PagesFit ==
    ASSUME TypeInv, PagesInv, KeysInv, NEW p \in Pages, NEW new,
           pages' = [pages EXCEPT ![p] = new],
           UNCHANGED <<control, match, held>>,
           \A x \in Pages \ {p} : pages[x].socket \in Ids =>
               Follows(sockets[pages[x].socket], ops, sockets'[pages[x].socket], ops', pages[x].socket),
           PageFits(p, new, sockets'[new.socket], ops'),
           Played(p)' => KeysFit(new, sockets'[new.socket], ops', held')
    PROVE  PagesInv' /\ KeysInv'
<1>1. \A x \in Pages : x # p => pages'[x] = pages[x]
  BY DEF TypeInv
<1>2. pages'[p] = new
  BY DEF TypeInv
<1>3. PagesInv'
  <2> SUFFICES ASSUME NEW x \in Pages
               PROVE  PageFits(x, pages'[x], sockets'[pages'[x].socket], ops')
    BY DEF PagesInv
  <2>1. CASE x = p
    BY <1>2, <2>1
  <2>2. CASE x # p
    BY <1>1, <2>2, PageStays
  <2> QED  BY <2>1, <2>2
<1>4. KeysInv'
  <2> SUFFICES ASSUME NEW x \in Pages, Played(x)'
               PROVE  KeysFit(pages'[x], sockets'[pages'[x].socket], ops', held')
    BY DEF KeysInv
  <2>1. CASE x = p
    BY <1>2, <2>1
  <2>2. CASE x # p
    <3>1. pages'[x] = pages[x] /\ Played(x)
      BY <1>1, <2>2 DEF Played
    <3> QED  BY <2>2, <3>1, PageStays
  <2> QED  BY <2>1, <2>2
<1> QED  BY <1>3, <1>4

LEMMA PagesStay ==
    ASSUME TypeInv, PagesInv, KeysInv, pages' = pages,
           \A x \in Pages : pages[x].socket \in Ids =>
               Follows(sockets[pages[x].socket], ops, sockets'[pages[x].socket], ops', pages[x].socket),
           \A x \in Pages : Played(x)' => Played(x) /\ held' = held
    PROVE  PagesInv' /\ KeysInv'
<1>1. PagesInv'
  BY PageStays DEF PagesInv
<1>2. KeysInv'
  <2> SUFFICES ASSUME NEW x \in Pages, Played(x)'
               PROVE  KeysFit(pages'[x], sockets'[pages'[x].socket], ops', held')
    BY DEF KeysInv
  <2> QED  BY PageStays
<1> QED  BY <1>1, <1>2

LEMMA LeavingFits ==
    ASSUME TypeInv, PagesInv, KeysInv, NEW p \in Pages, NEW new,
           pages' = [pages EXCEPT ![p] = new],
           new.socket = None, new.state # "connected",
           new.flying = FALSE, new.queue = <<>>, new.intent = "none",
           UNCHANGED <<control, match, held>>,
           \A x \in Ids : Follows(sockets[x], ops, sockets'[x], ops', x)
    PROVE  PagesInv' /\ KeysInv'
<1>1. PageFits(p, new, sockets'[new.socket], ops')
  BY DEF PageFits
<1>2. ~Played(p)'
  BY DEF Played, TypeInv
<1> QED  BY <1>1, <1>2, PagesFit

LEMMA ConnectKeeps ==
    ASSUME ControlBounds, ControlInv, NEW p \in Pages, Connect(p)
    PROVE  ControlInv'
<1>1. TypeInv /\ SocketsInv /\ SeatInv /\ PagesInv /\ KeysInv
  BY DEF ControlInv
<1>2. sockets' = Shut(pages[p].socket) /\ UNCHANGED Host /\ UNCHANGED lapsed
  BY DEF Connect
<1>3. pages[p] \in PageRecords /\ pages[p].socket \in {None} \cup Ids
  BY <1>1 DEF TypeInv, PageRecords
<1> DEFINE new == [NewPage EXCEPT !.state = "connecting", !.observed = pages[p].observed]
<1>4. pages' = [pages EXCEPT ![p] = new]
  BY DEF Connect
<1>5. /\ new \in PageRecords /\ new.queue = <<>> /\ new.state = "connecting" /\ new.socket = None
      /\ new.flying = FALSE /\ new.intent = "none"
  <2>1. pages[p].observed \in BOOLEAN
    BY <1>3 DEF PageRecords
  <2>2. new \in PageRecords
    BY <2>1, NewPageTyped DEF PageRecords
  <2> QED  BY <2>1, <2>2 DEF NewPage
<1> HIDE DEF new
<1>6. TypeInv'
  <2>1. pages' \in [Pages -> PageRecords] /\ sockets' \in [Ids -> SocketRecords]
    BY <1>1, <1>2, <1>3, <1>4, <1>5, ShutFacts DEF TypeInv
  <2>2. \A x \in Pages : Len(pages'[x].queue) <= MaxQueue
    BY <1>1, <1>4, <1>5 DEF TypeInv, ControlBounds
  <2> QED  BY <1>1, <1>2, <2>1, <2>2 DEF TypeInv, Host
<1>7. SocketsInv' /\ SeatInv' /\ \A x \in Ids : Follows(sockets[x], ops, sockets'[x], ops', x)
  BY <1>1, <1>2, <1>3, <1>6, ShutFacts, SocketsStay DEF TypeInv, Host
<1>8. PagesInv' /\ KeysInv'
  BY <1>1, <1>2, <1>4, <1>5, <1>7, LeavingFits DEF Host
<1> QED  BY <1>2, <1>6, <1>7, <1>8, HostStays DEF ControlInv

LEMMA ClosedKeeps ==
    ASSUME ControlBounds, ControlInv, NEW p \in Pages, Closed(p)
    PROVE  ControlInv'
<1>1. TypeInv /\ SocketsInv /\ SeatInv /\ PagesInv /\ KeysInv
  BY DEF ControlInv
<1>2. sockets' = sockets /\ UNCHANGED Host /\ UNCHANGED lapsed
  BY DEF Closed
<1>3. pages[p] \in PageRecords
  BY <1>1 DEF TypeInv
<1> DEFINE new == [NewPage EXCEPT !.observed = pages[p].observed]
<1>4. pages' = [pages EXCEPT ![p] = new]
  BY DEF Closed
<1>5. /\ new \in PageRecords /\ new.queue = <<>> /\ new.state = "idle" /\ new.socket = None
      /\ new.flying = FALSE /\ new.intent = "none"
  <2>1. pages[p].observed \in BOOLEAN
    BY <1>3 DEF PageRecords
  <2>2. new \in PageRecords
    BY <2>1, NewPageTyped DEF PageRecords
  <2> QED  BY <2>1, <2>2 DEF NewPage
<1> HIDE DEF new
<1>6. TypeInv'
  <2>1. pages' \in [Pages -> PageRecords]
    BY <1>1, <1>4, <1>5 DEF TypeInv
  <2>2. \A x \in Pages : Len(pages'[x].queue) <= MaxQueue
    BY <1>1, <1>4, <1>5 DEF TypeInv, ControlBounds
  <2> QED  BY <1>1, <1>2, <2>1, <2>2 DEF TypeInv, Host
<1>7. SocketsInv' /\ SeatInv' /\ \A x \in Ids : Follows(sockets[x], ops, sockets'[x], ops', x)
  BY <1>1, <1>2, <1>6, SocketsStay DEF TypeInv, Host
<1>8. PagesInv' /\ KeysInv'
  BY <1>1, <1>2, <1>4, <1>5, <1>7, LeavingFits DEF Host
<1> QED  BY <1>2, <1>6, <1>7, <1>8, HostStays DEF ControlInv

(***************************************************************************)
(* A socket that nobody had: it dials for a page or another client.        *)
(***************************************************************************)
LEMMA DialledRecord ==
    ASSUME TypeInv, NEW s \in Ids, NEW who \in Pages \cup {NoPage, OtherClient}, NEW up \in Seq(Upward)
    PROVE  [sockets[s] EXCEPT !.page = who, !.open = TRUE, !.up = up] \in SocketRecords
<1>1. sockets[s] \in SocketRecords
  BY DEF TypeInv
<1> QED  BY <1>1 DEF SocketRecords

LEMMA DialledFits ==
    ASSUME TypeInv, SocketsInv, SeatInv, ControlBounds, UNCHANGED <<ops, control>>,
           NEW s \in Ids, sockets[s].page = NoPage, NEW who \in Pages \cup {OtherClient}, NEW up,
           NEW m \in Upward, m.type = "authenticate", up = <<m>>,
           sockets' = [sockets EXCEPT ![s].page = who, ![s].open = TRUE, ![s].up = up]
    PROVE  /\ sockets' \in [Ids -> SocketRecords] /\ SocketsInv' /\ SeatInv'
           /\ sockets'[s].page = who /\ Quiet(sockets'[s], ops', s) /\ Alone(sockets'[s], ops', s)
           /\ \A x \in Ids \ {s} : sockets'[x] = sockets[x]
<1>2. /\ Authenticates(up) /\ ~Acts(up) /\ OneAct(up)
      /\ Len(up) = 1 /\ up \in Seq(Upward)
  BY UpOne
<1>3. /\ sockets \in [Ids -> SocketRecords] /\ who \in Pages \cup {NoPage, OtherClient}
  BY DEF TypeInv
<1> DEFINE new == [sockets[s] EXCEPT !.page = who, !.open = TRUE, !.up = up]
<1>13. /\ sockets' = [sockets EXCEPT ![s] = new] /\ new \in SocketRecords
       /\ new.page = who /\ new.up = up /\ new.down = sockets[s].down
       /\ new.authenticated = sockets[s].authenticated /\ new.gone = sockets[s].gone
  <2>1. up \in Seq(Upward)
    BY <1>2
  <2>2. sockets[s] \in SocketRecords /\ sockets \in [Ids -> SocketRecords]
    BY DEF TypeInv
  <2>3. sockets' = [sockets EXCEPT ![s] = new]
    BY <2>2
  <2>4. new \in SocketRecords
    BY <1>3, <2>1, DialledRecord
  <2>5. new.page = who /\ new.up = up
    BY <2>2 DEF SocketRecords
  <2>6. /\ new.down = sockets[s].down
        /\ new.authenticated = sockets[s].authenticated /\ new.gone = sockets[s].gone
    BY <2>2 DEF SocketRecords
  <2> QED  BY <2>3, <2>4, <2>5, <2>6
<1> HIDE DEF new
<1>4. \A x \in Ids \ {s} : sockets'[x] = sockets[x]
  BY <1>3, <1>13
<1>5. /\ sockets'[s] \in SocketRecords
      /\ sockets'[s].page = who /\ sockets'[s].up = up /\ sockets'[s].down = sockets[s].down
      /\ sockets'[s].authenticated = sockets[s].authenticated /\ sockets'[s].gone = sockets[s].gone
  BY <1>3, <1>13
<1>6. sockets' \in [Ids -> SocketRecords]
  BY <1>3, <1>4, <1>5
<1>7. /\ sockets[s].up = <<>> /\ sockets[s].down = <<>> /\ ~sockets[s].authenticated
      /\ ~Waits(ops, s, "connect") /\ ~Waits(ops, s, "action")
  BY DEF SocketsInv, SocketFits
<1>8. ~Says(sockets'[s].down, "ack") /\ ~Says(sockets'[s].down, "authenticated") /\ OneAck(sockets'[s].down)
  BY <1>5, <1>7, DownEmpty
<1>9. OneTurn(ops, s)
  BY <1>7 DEF OneTurn, Waits
<1>10. Quiet(sockets'[s], ops', s) /\ Alone(sockets'[s], ops', s)
  BY <1>2, <1>5, <1>7, <1>8, <1>9 DEF Quiet, Alone
<1>11. SocketsInv'
  <2>1. SocketFits(sockets'[s], ops', s)
    BY <1>2, <1>5, <1>7, <1>8 DEF SocketFits, Dials, ControlBounds
  <2>2. \A x \in Ids \ {s} : SocketFits(sockets'[x], ops', x)
    BY <1>4 DEF SocketsInv
  <2> QED  BY <2>1, <2>2 DEF SocketsInv
<1>12. SeatInv'
  BY <1>4, <1>5 DEF SeatInv, TypeInv
<1> QED  BY <1>4, <1>5, <1>6, <1>10, <1>11, <1>12

LEMMA DialKeeps ==
    ASSUME ControlBounds, ControlInv, NEW p \in Pages, Dial(p)
    PROVE  ControlInv'
<1>1. TypeInv /\ SocketsInv /\ SeatInv /\ PagesInv /\ KeysInv
  BY DEF ControlInv
<1>2. UNCHANGED Host /\ UNCHANGED lapsed /\ UNCHANGED <<ops, control, match, held>>
  BY DEF Dial, Host
<1>3. pages[p] \in PageRecords /\ pages[p].token \in Ids /\ pages[p].state = "connecting"
  BY <1>1 DEF TypeInv, PageRecords, Dial
<1>4. PICK s \in Ids :
          /\ sockets[s].page = NoPage
          /\ sockets' = [sockets EXCEPT ![s].page = p, ![s].open = TRUE,
                            ![s].up = <<[type |-> "authenticate", token |-> pages[p].token]>>]
          /\ pages' = [pages EXCEPT ![p].socket = s, ![p].token = None]
  BY DEF Dial
<1> DEFINE m == [type |-> "authenticate", token |-> pages[p].token]
<1>13. m \in Upward /\ m.type = "authenticate"
  BY <1>3 DEF Upward
<1>5. /\ sockets' \in [Ids -> SocketRecords] /\ SocketsInv' /\ SeatInv'
      /\ sockets'[s].page = p /\ Quiet(sockets'[s], ops', s) /\ Alone(sockets'[s], ops', s)
      /\ \A x \in Ids \ {s} : sockets'[x] = sockets[x]
  BY <1>1, <1>2, <1>4, <1>13, DialledFits
<1> DEFINE new == [pages[p] EXCEPT !.socket = s, !.token = None]
<1>6. pages' = [pages EXCEPT ![p] = new]
  BY <1>1, <1>4 DEF TypeInv
<1>7. /\ new \in PageRecords /\ new.socket = s /\ new.state = "connecting" /\ new.flying = pages[p].flying
      /\ new.queue = pages[p].queue /\ new.intent = pages[p].intent /\ new.calm = pages[p].calm
  BY <1>3 DEF PageRecords
<1> HIDE DEF new
<1>8. TypeInv'
  <2>1. pages' \in [Pages -> PageRecords]
    BY <1>1, <1>6, <1>7 DEF TypeInv
  <2>2. \A x \in Pages : pages'[x].queue = pages[x].queue
    BY <1>1, <1>6, <1>7 DEF TypeInv
  <2> QED  BY <1>1, <1>2, <1>5, <2>1, <2>2 DEF TypeInv, Host
<1>9. \A x \in Pages \ {p} : pages[x].socket \in Ids =>
         Follows(sockets[pages[x].socket], ops, sockets'[pages[x].socket], ops', pages[x].socket)
  <2> SUFFICES ASSUME NEW x \in Pages \ {p}, pages[x].socket \in Ids
               PROVE  Follows(sockets[pages[x].socket], ops, sockets'[pages[x].socket], ops', pages[x].socket)
    OBVIOUS
  <2>1. sockets[pages[x].socket].page = x
    BY <1>1 DEF PagesInv, PageFits, None, Ids
  <2>2. pages[x].socket # s
    BY <1>4, <2>1 DEF ControlBounds
  <2> QED  BY <1>2, <1>5, <2>2, SameFollows
<1>10. PageFits(p, new, sockets'[new.socket], ops')
  <2>1. PageFits(p, pages[p], sockets[pages[p].socket], ops)
    BY <1>1 DEF PagesInv
  <2> QED  BY <1>3, <1>5, <1>7, <2>1 DEF PageFits
<1>11. ~Played(p)'
  BY <1>1, <1>6, <1>7 DEF Played, TypeInv
<1>12. PagesInv' /\ KeysInv'
  BY <1>1, <1>2, <1>6, <1>9, <1>10, <1>11, PagesFit
<1> QED  BY <1>2, <1>5, <1>8, <1>12, HostStays DEF ControlInv

LEMMA RedialKeeps ==
    ASSUME ControlBounds, ControlInv, NEW t \in Ids, Redial(t)
    PROVE  ControlInv'
<1>1. TypeInv /\ SocketsInv /\ SeatInv /\ PagesInv /\ KeysInv
  BY DEF ControlInv
<1>2. UNCHANGED Host /\ UNCHANGED <<ops, control, match, held, pages>> /\ Fault
  BY DEF Redial, Host
<1>4. PICK s \in Ids :
          /\ sockets[s].page = NoPage
          /\ sockets' = [sockets EXCEPT ![s].page = OtherClient, ![s].open = TRUE,
                            ![s].up = <<[type |-> "authenticate", token |-> t]>>]
  BY DEF Redial
<1> DEFINE m == [type |-> "authenticate", token |-> t]
<1>13. m \in Upward /\ m.type = "authenticate"
  BY DEF Upward
<1>5. /\ sockets' \in [Ids -> SocketRecords] /\ SocketsInv' /\ SeatInv'
      /\ \A x \in Ids \ {s} : sockets'[x] = sockets[x]
  BY <1>1, <1>2, <1>4, <1>13, DialledFits
<1>8. TypeInv'
  BY <1>1, <1>2, <1>5 DEF TypeInv, Host, Fault, ControlBounds
<1>9. \A x \in Pages : pages[x].socket \in Ids =>
         Follows(sockets[pages[x].socket], ops, sockets'[pages[x].socket], ops', pages[x].socket)
  <2> SUFFICES ASSUME NEW x \in Pages, pages[x].socket \in Ids
               PROVE  Follows(sockets[pages[x].socket], ops, sockets'[pages[x].socket], ops', pages[x].socket)
    OBVIOUS
  <2>1. sockets[pages[x].socket].page = x
    BY <1>1 DEF PagesInv, PageFits, None, Ids
  <2>2. pages[x].socket # s
    BY <1>4, <2>1 DEF ControlBounds
  <2> QED  BY <1>2, <1>5, <2>2, SameFollows
<1>11. \A x \in Pages : Played(x)' => Played(x) /\ held' = held
  BY <1>2 DEF Played
<1>12. PagesInv' /\ KeysInv'
  BY <1>1, <1>2, <1>9, <1>11, PagesStay
<1> QED  BY <1>2, <1>5, <1>8, <1>12, HostStays DEF ControlInv

LEMMA RealtimeSessionKeeps ==
    ASSUME ControlBounds, ControlInv, NEW p \in Pages, RealtimeSession(p)
    PROVE  ControlInv'
<1>1. TypeInv /\ SocketsInv /\ SeatInv /\ PagesInv /\ KeysInv /\ TicketsInv /\ TicketsAdmitOnce /\ HeldByCurrent
  BY DEF ControlInv
<1>2. UNCHANGED <<sockets, ops, control, held, match, opened>>
  BY DEF RealtimeSession
<1>3. /\ pages[p] \in PageRecords /\ pages[p].state = "connecting" /\ pages[p].socket = None
      /\ PageFits(p, pages[p], sockets[pages[p].socket], ops)
  BY <1>1 DEF TypeInv, RealtimeSession, PagesInv
<1>4. SocketsInv' /\ SeatInv' /\ \A x \in Ids : Follows(sockets[x], ops, sockets'[x], ops', x)
  BY <1>1, <1>2, SocketsStay DEF TypeInv
<1>5. HeldByCurrent' /\ TicketsAdmitOnce'
  BY <1>1, <1>2 DEF HeldByCurrent, TicketsAdmitOnce
<1>6. CASE /\ UNCHANGED lapsed
           /\ \E t \in Ids : tickets[t] = "none" /\ tickets' = Issued(t) /\ pages' = [pages EXCEPT ![p].token = t]
  <2>1. PICK t \in Ids : /\ tickets[t] = "none" /\ tickets' = Issued(t)
                         /\ pages' = [pages EXCEPT ![p].token = t]
    BY <1>6
  <2> DEFINE new == [pages[p] EXCEPT !.token = t]
  <2>2. pages' = [pages EXCEPT ![p] = new]
    BY <1>1, <2>1 DEF TypeInv
  <2>3. /\ new \in PageRecords /\ new.socket = None /\ new.state = "connecting"
        /\ new.flying = pages[p].flying /\ new.queue = pages[p].queue /\ new.intent = pages[p].intent
    BY <1>3 DEF PageRecords
  <2> HIDE DEF new
  <2>4. /\ tickets' \in [Ids -> {"none", "out", "void"}]
        /\ \A x \in Ids : tickets[x] = "void" => tickets'[x] = "void"
    BY <1>1, <2>1 DEF TypeInv, Issued
  <2>5. TypeInv'
    <3>1. pages' \in [Pages -> PageRecords] /\ \A x \in Pages : pages'[x].queue = pages[x].queue
      BY <1>1, <2>2, <2>3 DEF TypeInv
    <3> QED  BY <1>1, <1>2, <1>6, <2>4, <3>1 DEF TypeInv
  <2>6. TicketsInv'
    <3>1. \A i \in 1..Len(ops) : ops[i].kind = "connect" => ops[i].token \in Ids
      BY <1>1 DEF TypeInv, Operations
    <3> QED  BY <1>1, <1>2, <2>4, <3>1 DEF TicketsInv, TicketsTaken
  <2>7. PagesInv' /\ KeysInv'
    <3>1. new.flying = FALSE /\ new.queue = <<>> /\ new.intent = "none"
      BY <1>3, <2>3 DEF PageFits
    <3> QED  BY <1>1, <1>2, <1>4, <2>2, <2>3, <3>1, LeavingFits
  <2> QED  BY <1>4, <1>5, <2>5, <2>6, <2>7 DEF ControlInv
<1>7. CASE /\ IF match = "over" THEN UNCHANGED lapsed ELSE Fault
           /\ pages' = [pages EXCEPT ![p].state = "idle"] /\ UNCHANGED tickets
  <2> DEFINE new == [pages[p] EXCEPT !.state = "idle"]
  <2>2. pages' = [pages EXCEPT ![p] = new]
    BY <1>1, <1>7 DEF TypeInv
  <2>3. /\ new \in PageRecords /\ new.socket = None /\ new.state = "idle"
        /\ new.flying = pages[p].flying /\ new.queue = pages[p].queue /\ new.intent = pages[p].intent
    BY <1>3 DEF PageRecords
  <2> HIDE DEF new
  <2>5. TypeInv'
    <3>1. pages' \in [Pages -> PageRecords] /\ \A x \in Pages : pages'[x].queue = pages[x].queue
      BY <1>1, <2>2, <2>3 DEF TypeInv
    <3>2. lapsed' \in 0..MaxFaults
      BY <1>1, <1>7 DEF TypeInv, Fault, ControlBounds
    <3> QED  BY <1>1, <1>2, <1>7, <3>1, <3>2 DEF TypeInv
  <2>6. TicketsInv'
    BY <1>1, <1>2, <1>7 DEF TicketsInv
  <2>7. PagesInv' /\ KeysInv'
    <3>1. new.flying = FALSE /\ new.queue = <<>> /\ new.intent = "none"
      BY <1>3, <2>3 DEF PageFits
    <3> QED  BY <1>1, <1>2, <1>4, <2>2, <2>3, <3>1, LeavingFits
  <2> QED  BY <1>4, <1>5, <2>5, <2>6, <2>7 DEF ControlInv
<1> QED  BY <1>6, <1>7 DEF RealtimeSession

LEMMA TicketExpiresKeeps ==
    ASSUME ControlBounds, ControlInv, NEW t \in Ids, TicketExpires(t)
    PROVE  ControlInv'
<1>1. TypeInv /\ SocketsInv /\ SeatInv /\ PagesInv /\ KeysInv /\ TicketsInv /\ TicketsAdmitOnce /\ HeldByCurrent
  BY DEF ControlInv
<1>2. UNCHANGED <<pages, sockets, ops, control, held, match, opened, lapsed>>
      /\ tickets' = [tickets EXCEPT ![t] = "void"]
  BY DEF TicketExpires
<1>3. TypeInv'
  BY <1>1, <1>2 DEF TypeInv
<1>4. \A i \in 1..Len(ops) : ops[i].kind = "connect" => ops[i].token \in Ids
  BY <1>1 DEF TypeInv, Operations
<1>5. TicketsInv'
  BY <1>1, <1>2, <1>4 DEF TicketsInv, TicketsTaken, TypeInv
<1>6. TicketsAdmitOnce' /\ HeldByCurrent' /\ SeatInv' /\ SocketsInv' /\ PagesInv' /\ KeysInv'
  BY <1>1, <1>2 DEF TicketsAdmitOnce, HeldByCurrent, SeatInv, SocketsInv, PagesInv, KeysInv, Played
<1> QED  BY <1>3, <1>5, <1>6 DEF ControlInv

LEMMA CutKeeps ==
    ASSUME ControlBounds, ControlInv, NEW s \in Ids, Cut(s)
    PROVE  ControlInv'
<1>1. TypeInv /\ SocketsInv /\ SeatInv /\ PagesInv /\ KeysInv
  BY DEF ControlInv
<1>2. UNCHANGED Host /\ UNCHANGED <<ops, control, match, held, pages>> /\ Fault /\ sockets' = Shut(s)
  BY DEF Cut, Host, Shut, None, Ids
<1>3. TypeInv'
  BY <1>1, <1>2, ShutFacts DEF TypeInv, Host, Fault, ControlBounds
<1>4. SocketsInv' /\ SeatInv' /\ \A x \in Ids : Follows(sockets[x], ops, sockets'[x], ops', x)
  BY <1>1, <1>2, <1>3, ShutFacts, SocketsStay DEF TypeInv
<1>5. \A x \in Pages : Played(x)' => Played(x) /\ held' = held
  BY <1>2 DEF Played
<1>6. PagesInv' /\ KeysInv'
  BY <1>1, <1>2, <1>4, <1>5, PagesStay
<1> QED  BY <1>2, <1>3, <1>4, <1>6, HostStays DEF ControlInv

-----------------------------------------------------------------------------
(***************************************************************************)
(* The host's steps.  Operations leave the queue, and messages their       *)
(* socket; a page that does not change has less to wait for.               *)
(***************************************************************************)
Fewer(q, after, s) ==
    /\ Waits(after, s, "connect") => Waits(q, s, "connect")
    /\ Waits(after, s, "action") => Waits(q, s, "action")
    /\ OneTurn(q, s) => OneTurn(after, s)
    /\ \A word : TurnsSay(q, s, word) => TurnsSay(after, s, word)

LEMMA FewerFacts ==
    ASSUME NEW q \in Seq(Operations)
    PROVE  /\ \A s : Fewer(q, q, s) /\ Fewer(q, <<>>, s)
           /\ q # <<>> => \A s : Fewer(q, Tail(q), s)
           /\ \A e \in Operations : \A s : e.socket # s \/ e.kind = "close" => Fewer(q, Append(q, e), s)
<1>1. \A s : Fewer(q, q, s) /\ Fewer(q, <<>>, s)
  BY OpsEmpty DEF Fewer
<1>2. q # <<>> => \A s : Fewer(q, Tail(q), s)
  BY OpsTail DEF Fewer
<1>3. ASSUME NEW e \in Operations, NEW s, e.socket # s \/ e.kind = "close"
      PROVE  Fewer(q, Append(q, e), s)
  <2>1. \A kind : kind # "close" => (Waits(Append(q, e), s, kind) => Waits(q, s, kind))
    BY <1>3, OpsAppend
  <2>2. OneTurn(q, s) => OneTurn(Append(q, e), s)
    BY <1>3, OpsAppend
  <2>3. \A word : TurnsSay(q, s, word) => TurnsSay(Append(q, e), s, word)
    BY <1>3, OpsAppend
  <2> QED  BY <2>1, <2>2, <2>3 DEF Fewer
<1> QED  BY <1>1, <1>2, <1>3

Shorter(up, new) == new = up \/ new = <<>> \/ (up # <<>> /\ new = Tail(up))

LEMMA ShorterFacts ==
    ASSUME NEW up \in Seq(Upward), NEW new, Shorter(up, new)
    PROVE  /\ new \in Seq(Upward)
           /\ Authenticates(new) => Authenticates(up) /\ (Len(up) = 1 => new = up)
           /\ Acts(new) => Acts(up)
           /\ OneAct(up) => OneAct(new)
           /\ \A word : ActsSay(up, word) => ActsSay(new, word)
           /\ up = <<>> => new = <<>>
<1>1. CASE new = up
  BY <1>1
<1>2. CASE new = <<>>
  BY <1>2, UpEmpty
<1>3. CASE up # <<>> /\ new = Tail(up)
  BY <1>3, UpTail, UpEmpty, TailFacts
<1> QED  BY <1>1, <1>2, <1>3 DEF Shorter

LEMMA FadingFollows ==
    ASSUME NEW k \in SocketRecords, NEW q, NEW new, NEW after, NEW s,
           Fewer(q, after, s), Shorter(k.up, new.up), new.page = k.page,
           Says(new.down, "ack") => Says(k.down, "ack"),
           OneAck(k.down) => OneAck(new.down)
    PROVE  Follows(k, q, new, after, s)
<1>1. k.up \in Seq(Upward)
  BY DEF SocketRecords
<1> QED  BY <1>1, ShorterFacts DEF Follows, Dials, Fewer

LEMMA FadingFits ==
    ASSUME NEW k \in SocketRecords, NEW q, NEW new, NEW after, NEW s,
           Fewer(q, after, s), Shorter(k.up, new.up), new.page = k.page,
           Says(new.down, "authenticated") => Says(k.down, "authenticated"),
           new.authenticated => k.authenticated,
           k.page = NoPage => new.down = k.down /\ new.pending = "no",
           SocketFits(k, q, s)
    PROVE  SocketFits(new, after, s)
<1>1. k.up \in Seq(Upward)
  BY DEF SocketRecords
<1>2. /\ Authenticates(new.up) => Authenticates(k.up) /\ new.up = k.up
      /\ k.up = <<>> => new.up = <<>>
  BY <1>1, ShorterFacts DEF SocketFits
<1> QED  BY <1>2 DEF SocketFits, Fewer, Dials

(***************************************************************************)
(* One socket changes.                                                     *)
(***************************************************************************)
LEMMA AnswerKeeps ==
    ASSUME ControlBounds, ControlInv, NEW s \in Ids, Answer(s)
    PROVE  ControlInv'
<1>1. TypeInv /\ SocketsInv /\ SeatInv /\ PagesInv /\ KeysInv
  BY DEF ControlInv
<1>2. UNCHANGED Host /\ UNCHANGED <<ops, control, match, held, pages, lapsed>>
  BY DEF Answer, Host
<1>3. sockets \in [Ids -> SocketRecords] /\ sockets[s] \in SocketRecords /\ ops \in Seq(Operations)
  BY <1>1 DEF TypeInv
<1> DEFINE m == IF May(s) THEN "observation" ELSE "error"
           down == sockets[s].down \o Say(s, m)
           open == sockets[s].open /\ May(s)
           new == [sockets[s] EXCEPT !.pending = "no", !.down = down, !.open = open]
<1>4. sockets' = [sockets EXCEPT ![s] = new]
  BY <1>3 DEF Answer
<1>5. m \in Downward /\ m # "ack" /\ m # "authenticated"
  BY DEF Downward
<1> HIDE DEF m
<1>6. /\ down \in Seq(Downward)
      /\ \A word : Says(down, word) => Says(sockets[s].down, word) \/ word = m
      /\ OneAck(sockets[s].down) => OneAck(down)
  BY <1>1, <1>5, SayFacts
<1>7. open \in BOOLEAN
  BY <1>3 DEF SocketRecords, May
<1> HIDE DEF down, open
<1>8. /\ new \in SocketRecords
  BY <1>3, <1>6, <1>7 DEF SocketRecords
<1>9. /\ new.page = sockets[s].page /\ new.up = sockets[s].up /\ new.down = down
      /\ new.authenticated = sockets[s].authenticated /\ new.gone = sockets[s].gone
  BY <1>3 DEF SocketRecords
<1> HIDE DEF new
<1>10. /\ sockets' \in [Ids -> SocketRecords] /\ sockets'[s] = new
       /\ \A x \in Ids \ {s} : sockets'[x] = sockets[x]
  BY <1>3, <1>4, <1>8
<1>11. TypeInv'
  BY <1>1, <1>2, <1>10 DEF TypeInv, Host
<1>12. Follows(sockets[s], ops, new, ops', s)
  BY <1>2, <1>3, <1>5, <1>6, <1>9, FadingFollows, FewerFacts DEF Shorter
<1>13. SocketFits(new, ops', s)
  <2>1. sockets[s].page # NoPage /\ SocketFits(sockets[s], ops, s)
    BY <1>1 DEF Answer, SocketsInv, SocketFits
  <2> QED  BY <1>2, <1>3, <1>5, <1>6, <1>9, <2>1, FadingFits, FewerFacts DEF Shorter
<1>14. SocketsInv'
  BY <1>1, <1>2, <1>10, <1>13 DEF SocketsInv
<1>15. SeatInv'
  BY <1>1, <1>2, <1>9, <1>10 DEF SeatInv, TypeInv
<1>16. PagesInv' /\ KeysInv'
  <2>1. \A x \in Ids : Follows(sockets[x], ops, sockets'[x], ops', x)
    BY <1>2, <1>10, <1>12, SameFollows
  <2>2. \A x \in Pages : Played(x)' => Played(x) /\ held' = held
    BY <1>2 DEF Played
  <2> QED  BY <1>1, <1>2, <2>1, <2>2, PagesStay
<1> QED  BY <1>2, <1>11, <1>14, <1>15, <1>16, HostStays DEF ControlInv

LEMMA GoneKeeps ==
    ASSUME ControlBounds, ControlInv, NEW s \in Ids, Gone(s)
    PROVE  ControlInv'
<1>1. TypeInv /\ SocketsInv /\ SeatInv /\ PagesInv /\ KeysInv /\ TicketsInv /\ TicketsAdmitOnce /\ HeldByCurrent
  BY DEF ControlInv
<1>2. UNCHANGED <<pages, tickets, control, held, match, opened, lapsed>>
  BY DEF Gone
<1>3. sockets \in [Ids -> SocketRecords] /\ sockets[s] \in SocketRecords /\ ops \in Seq(Operations)
  BY <1>1 DEF TypeInv
<1> DEFINE new == [sockets[s] EXCEPT !.gone = TRUE, !.up = <<>>]
           e == [kind |-> "close", socket |-> s]
<1>4. sockets' = [sockets EXCEPT ![s] = new]
  BY <1>3 DEF Gone
<1>5. e \in Operations /\ e.kind = "close" /\ e.socket = s
  BY DEF Operations
<1>6. ops' = IF sockets[s].authenticated THEN Append(ops, e) ELSE ops
  BY DEF Gone
<1> HIDE DEF e
<1>8. <<>> \in Seq(Upward)
  OBVIOUS
<1>9. new \in SocketRecords
  BY <1>3, <1>8 DEF SocketRecords
<1>10. /\ new.page = sockets[s].page /\ new.up = <<>> /\ new.down = sockets[s].down
       /\ new.authenticated = sockets[s].authenticated /\ new.pending = sockets[s].pending
  BY <1>3 DEF SocketRecords
<1> HIDE DEF new
<1>11. /\ sockets' \in [Ids -> SocketRecords] /\ sockets'[s] = new
       /\ \A x \in Ids \ {s} : sockets'[x] = sockets[x]
  BY <1>3, <1>4, <1>9
<1>12. ops' \in Seq(Operations) /\ OneConnect(ops') /\ \A x : Fewer(ops, ops', x)
  <2>1. CASE sockets[s].authenticated
    <3>1. ops' = Append(ops, e) /\ OneConnect(ops)
      BY <1>1, <1>6, <2>1 DEF SocketsInv
    <3>2. OneConnect(Append(ops, e)) /\ Append(ops, e) \in Seq(Operations)
      BY <1>3, <1>5, <3>1, OpsAppend, AppendFacts
    <3> QED  BY <1>3, <1>5, <3>1, <3>2, FewerFacts
  <2>2. CASE ~sockets[s].authenticated
    BY <1>1, <1>3, <1>6, <2>2, FewerFacts DEF SocketsInv
  <2> QED  BY <2>1, <2>2
<1>13. TypeInv'
  BY <1>1, <1>2, <1>11, <1>12 DEF TypeInv
<1>14. TicketsInv'
  <2>1. CASE ops' = ops
    BY <1>1, <1>2, <2>1 DEF TicketsInv
  <2>2. CASE ops' = Append(ops, e)
    <3>1. TicketsTaken(Append(ops, e), tickets, opened)
      BY <1>1, <1>3, <1>5, OpsAppend DEF TicketsInv
    <3> QED  BY <1>1, <1>2, <2>2, <3>1 DEF TicketsInv
  <2> QED  BY <1>6, <2>1, <2>2
<1>15. \A x \in Ids : SocketFits(sockets[x], ops, x) /\ sockets[x] \in SocketRecords
  BY <1>1, <1>3 DEF SocketsInv
<1>16. \A x \in Ids : Follows(sockets[x], ops, sockets'[x], ops', x) /\ SocketFits(sockets'[x], ops', x)
  <2> SUFFICES ASSUME NEW x \in Ids
               PROVE  Follows(sockets[x], ops, sockets'[x], ops', x) /\ SocketFits(sockets'[x], ops', x)
    OBVIOUS
  <2>1. CASE x = s
    <3>1. SocketFits(sockets[s], ops, s) => (sockets[s].page = NoPage => sockets[s].pending = "no")
      BY DEF SocketFits
    <3> QED  BY <1>10, <1>11, <1>12, <1>15, <2>1, <3>1, FadingFollows, FadingFits DEF Shorter
  <2>2. CASE x # s
    <3>1. SocketFits(sockets[x], ops, x) => (sockets[x].page = NoPage => sockets[x].pending = "no")
      BY DEF SocketFits
    <3> QED  BY <1>11, <1>12, <1>15, <2>2, <3>1, FadingFollows, FadingFits DEF Shorter
  <2> QED  BY <2>1, <2>2
<1>17. SocketsInv'
  BY <1>12, <1>16 DEF SocketsInv
<1>18. SeatInv'
  <2> SUFFICES ASSUME control # None
               PROVE  /\ sockets'[control].authenticated
                      /\ sockets'[control].gone => Waits(ops', control, "close")
    BY <1>2 DEF SeatInv
  <2>1. control \in Ids /\ sockets[control].authenticated /\ (sockets[control].gone => Waits(ops, control, "close"))
    BY <1>1 DEF SeatInv, TypeInv
  <2>2. \A x : Waits(ops, x, "close") => Waits(ops', x, "close")
    BY <1>3, <1>5, <1>6, OpsAppend
  <2>3. control = s => Waits(ops', control, "close")
    BY <1>3, <1>5, <1>6, <2>1, OpsAppend
  <2> QED  BY <1>10, <1>11, <2>1, <2>2, <2>3
<1>19. PagesInv' /\ KeysInv'
  <2>1. \A x \in Pages : Played(x)' => Played(x) /\ held' = held
    BY <1>2 DEF Played
  <2> QED  BY <1>1, <1>2, <1>16, <2>1, PagesStay
<1>20. TicketsAdmitOnce' /\ HeldByCurrent'
  BY <1>1, <1>2 DEF TicketsAdmitOnce, HeldByCurrent
<1> QED  BY <1>13, <1>14, <1>17, <1>18, <1>19, <1>20 DEF ControlInv

LEMMA RunCloseKeeps ==
    ASSUME ControlBounds, ControlInv, RunClose
    PROVE  ControlInv'
<1>1. TypeInv /\ SocketsInv /\ SeatInv /\ PagesInv /\ KeysInv /\ TicketsInv /\ TicketsAdmitOnce /\ HeldByCurrent
  BY DEF ControlInv
<1> DEFINE s == Head(ops).socket
<1>2. /\ UNCHANGED <<pages, sockets, tickets, match, opened, lapsed>>
      /\ ops # <<>> /\ Head(ops).kind = "close" /\ ops' = Tail(ops)
      /\ control' = IF control = s THEN None ELSE control
      /\ held' = IF control = s THEN Freed ELSE held
  BY DEF RunClose, Turn, Leaves
<1>3. ops \in Seq(Operations) /\ Head(ops) \in Operations /\ ops' \in Seq(Operations)
  BY <1>1, <1>2, OpsTail DEF TypeInv
<1> HIDE DEF s
<1>4. Freed \in {Nobody, OtherClient} \cup Ids /\ (match = "playing" => Freed = Nobody /\ Freed \notin Ids)
  BY <1>1 DEF Freed, TypeInv, ControlBounds, Ids
<1>5. TypeInv'
  BY <1>1, <1>2, <1>3, <1>4 DEF TypeInv
<1>6. TicketsInv' /\ TicketsAdmitOnce'
  BY <1>1, <1>2, <1>3, OpsTail DEF TicketsInv, TicketsAdmitOnce
<1>7. HeldByCurrent'
  BY <1>1, <1>2, <1>4 DEF HeldByCurrent
<1>8. \A x \in Ids : Follows(sockets[x], ops, sockets'[x], ops', x) /\ SocketFits(sockets'[x], ops', x)
  <2> SUFFICES ASSUME NEW x \in Ids
               PROVE  Follows(sockets[x], ops, sockets'[x], ops', x) /\ SocketFits(sockets'[x], ops', x)
    OBVIOUS
  <2>1. sockets[x] \in SocketRecords /\ SocketFits(sockets[x], ops, x) /\ Fewer(ops, ops', x)
    BY <1>1, <1>2, <1>3, FewerFacts DEF TypeInv, SocketsInv
  <2>2. sockets[x].page = NoPage => sockets[x].pending = "no"
    BY <2>1 DEF SocketFits
  <2> QED  BY <1>2, <2>1, <2>2, FadingFollows, FadingFits DEF Shorter
<1>9. SocketsInv'
  BY <1>1, <1>2, <1>3, <1>8, OpsTail DEF SocketsInv
<1>10. SeatInv'
  <2> SUFFICES ASSUME control' # None
               PROVE  /\ sockets[control].authenticated /\ control' = control
                      /\ sockets[control].gone => Waits(ops', control, "close")
    BY <1>2 DEF SeatInv
  <2>1. control' = control /\ control # s
    BY <1>2
  <2>2. sockets[control].authenticated /\ (sockets[control].gone => Waits(ops, control, "close"))
    BY <1>1, <2>1 DEF SeatInv
  <2>3. Waits(ops, control, "close") => Waits(Tail(ops), control, "close")
    BY <1>2, <1>3, <2>1, OpsTail DEF s
  <2> QED  BY <1>2, <2>1, <2>2, <2>3
<1>11. PagesInv' /\ KeysInv'
  <2>1. ASSUME NEW x \in Pages, Played(x)'
        PROVE  Played(x) /\ held' = held
    <3>1. pages[x].state = "connected" /\ pages[x].calm /\ pages[x].socket = control' /\ match = "playing"
      BY <1>2, <2>1 DEF Played
    <3>2. pages[x].socket # None
      BY <1>1, <3>1 DEF PagesInv, PageFits
    <3> QED  BY <1>2, <3>1, <3>2 DEF Played
  <2> QED  BY <1>1, <1>2, <1>8, <2>1, PagesStay
<1> QED  BY <1>5, <1>6, <1>7, <1>9, <1>10, <1>11 DEF ControlInv

LEMMA RefuseConnectKeeps ==
    ASSUME ControlBounds, ControlInv, RefuseConnect
    PROVE  ControlInv'
<1>1. TypeInv /\ SocketsInv /\ SeatInv /\ PagesInv /\ KeysInv /\ TicketsInv /\ TicketsAdmitOnce /\ HeldByCurrent
  BY DEF ControlInv
<1> DEFINE s == Head(ops).socket
           down == sockets[s].down \o Say(s, "error")
           new == [sockets[s] EXCEPT !.pending = "no", !.down = down]
<1>2. /\ UNCHANGED <<pages, tickets, control, held, match, opened, lapsed>>
      /\ ops # <<>> /\ Head(ops).kind = "connect" /\ ops' = Tail(ops) /\ match = "over"
  BY DEF RefuseConnect, Turn
<1>3. ops \in Seq(Operations) /\ Head(ops) \in Operations /\ ops' \in Seq(Operations)
  BY <1>1, <1>2, OpsTail DEF TypeInv
<1>4. s \in Ids
  BY <1>3 DEF Operations
<1>5. sockets \in [Ids -> SocketRecords] /\ sockets[s] \in SocketRecords
  BY <1>1, <1>4 DEF TypeInv
<1>6. sockets' = [sockets EXCEPT ![s] = new]
  BY <1>4, <1>5 DEF RefuseConnect
<1>17. Waits(ops, s, "connect")
  BY <1>2, <1>3, OpsTail
<1> HIDE DEF s
<1>7. /\ down \in Seq(Downward)
      /\ \A word : Says(down, word) => Says(sockets[s].down, word) \/ word = "error"
      /\ OneAck(sockets[s].down) => OneAck(down)
  <2>1. "error" \in Downward /\ "error" # "ack"
    BY DEF Downward
  <2> QED  BY <1>1, <1>4, <2>1, SayFacts
<1> HIDE DEF down
<1>8. new \in SocketRecords
  BY <1>5, <1>7 DEF SocketRecords
<1>9. /\ new.page = sockets[s].page /\ new.up = sockets[s].up /\ new.down = down
      /\ new.authenticated = sockets[s].authenticated /\ new.gone = sockets[s].gone
  BY <1>5 DEF SocketRecords
<1> HIDE DEF new
<1>10. /\ sockets' \in [Ids -> SocketRecords] /\ sockets'[s] = new
       /\ \A x \in Ids \ {s} : sockets'[x] = sockets[x]
  BY <1>4, <1>5, <1>6, <1>8
<1>11. TypeInv'
  BY <1>1, <1>2, <1>3, <1>10 DEF TypeInv
<1>12. TicketsInv' /\ TicketsAdmitOnce'
  BY <1>1, <1>2, <1>3, OpsTail DEF TicketsInv, TicketsAdmitOnce
<1>13. HeldByCurrent'
  BY <1>1, <1>2 DEF HeldByCurrent
<1>14. \A x \in Ids : Follows(sockets[x], ops, sockets'[x], ops', x) /\ SocketFits(sockets'[x], ops', x)
  <2> SUFFICES ASSUME NEW x \in Ids
               PROVE  Follows(sockets[x], ops, sockets'[x], ops', x) /\ SocketFits(sockets'[x], ops', x)
    OBVIOUS
  <2>1. sockets[x] \in SocketRecords /\ SocketFits(sockets[x], ops, x) /\ Fewer(ops, ops', x)
    BY <1>1, <1>2, <1>3, FewerFacts DEF TypeInv, SocketsInv
  <2>2. sockets[x].page = NoPage => sockets[x].pending = "no" /\ ~Waits(ops, x, "connect")
    BY <2>1 DEF SocketFits
  <2>3. CASE x = s
    BY <1>7, <1>9, <1>10, <1>17, <2>1, <2>2, <2>3, FadingFollows, FadingFits DEF Shorter
  <2>4. CASE x # s
    BY <1>10, <2>1, <2>2, <2>4, FadingFollows, FadingFits DEF Shorter
  <2> QED  BY <2>3, <2>4
<1>15. SocketsInv'
  BY <1>1, <1>2, <1>3, <1>14, OpsTail DEF SocketsInv
<1>16. SeatInv'
  <2> SUFFICES ASSUME control # None
               PROVE  /\ sockets'[control].authenticated
                      /\ sockets'[control].gone => Waits(ops', control, "close")
    BY <1>2 DEF SeatInv
  <2>1. control \in Ids /\ sockets[control].authenticated /\ (sockets[control].gone => Waits(ops, control, "close"))
    BY <1>1 DEF SeatInv, TypeInv
  <2>2. Waits(ops, control, "close") => Waits(Tail(ops), control, "close")
    BY <1>2, <1>3, OpsTail
  <2> QED  BY <1>2, <1>9, <1>10, <2>1, <2>2
<1>18. PagesInv' /\ KeysInv'
  <2>1. \A x \in Pages : ~Played(x)'
    BY <1>2 DEF Played
  <2> QED  BY <1>1, <1>2, <1>14, <2>1, PagesStay
<1> QED  BY <1>11, <1>12, <1>13, <1>15, <1>16, <1>18 DEF ControlInv

(***************************************************************************)
(* A socket takes over: its own page has not learned of it yet.            *)
(***************************************************************************)
LEMMA TakesOver ==
    ASSUME ControlBounds, ControlInv, NEW s \in Ids, NEW new \in SocketRecords,
           ops # <<>>, Head(ops).kind = "connect", Head(ops).socket = s, match = "playing",
           UNCHANGED <<pages, tickets, match, lapsed>>,
           sockets' = [sockets EXCEPT ![s] = new],
           control' = s, held' = Freed, opened' = [opened EXCEPT ![Head(ops).token] = @ + 1],
           new.page = sockets[s].page, new.up = sockets[s].up, new.authenticated = TRUE,
           OneAck(sockets[s].down) => OneAck(new.down), Says(new.down, "ack") => Says(sockets[s].down, "ack"),
           \/ ops' = Tail(ops) /\ ~new.gone
           \/ \E e \in Operations : e.kind = "close" /\ e.socket = s /\ ops' = Append(Tail(ops), e)
    PROVE  ControlInv'
<1>1. TypeInv /\ SocketsInv /\ SeatInv /\ PagesInv /\ KeysInv /\ TicketsInv /\ TicketsAdmitOnce /\ HeldByCurrent
  BY DEF ControlInv
<1>2. /\ ops \in Seq(Operations) /\ Head(ops) \in Operations /\ Tail(ops) \in Seq(Operations)
      /\ sockets \in [Ids -> SocketRecords] /\ sockets[s] \in SocketRecords
  BY <1>1, OpsTail DEF TypeInv
<1>3. /\ Waits(ops, s, "connect") /\ ~Waits(Tail(ops), s, "connect") /\ OneConnect(Tail(ops))
  BY <1>1, <1>2, OpsTail DEF SocketsInv
<1>4. /\ sockets[s].page # NoPage /\ sockets[s].up = <<>> /\ Dials(sockets[s], ops, s)
  BY <1>1, <1>3 DEF SocketsInv, SocketFits, Dials
<1>5. /\ sockets' \in [Ids -> SocketRecords] /\ sockets'[s] = new
      /\ \A x \in Ids \ {s} : sockets'[x] = sockets[x]
  BY <1>2
<1>6. /\ ops' \in Seq(Operations) /\ OneConnect(ops') /\ \A x : Fewer(ops, ops', x)
      /\ ~Waits(ops', s, "connect") /\ (new.gone => Waits(ops', s, "close"))
      /\ \A cards, counts : TicketsTaken(Tail(ops), cards, counts) => TicketsTaken(ops', cards, counts)
  <2>1. CASE ops' = Tail(ops) /\ ~new.gone
    BY <1>2, <1>3, <2>1, FewerFacts
  <2>2. CASE \E e \in Operations : e.kind = "close" /\ e.socket = s /\ ops' = Append(Tail(ops), e)
    <3>1. PICK e \in Operations : e.kind = "close" /\ e.socket = s /\ ops' = Append(Tail(ops), e)
      BY <2>2
    <3>2. Append(Tail(ops), e) \in Seq(Operations)
      BY <1>2, AppendFacts
    <3>3. OneConnect(Append(Tail(ops), e)) /\ Waits(Append(Tail(ops), e), s, "close")
      BY <1>2, <1>3, <3>1, OpsAppend
    <3>4. ~Waits(Append(Tail(ops), e), s, "connect")
      BY <1>2, <1>3, <3>1, OpsAppend
    <3>5. \A x : Fewer(ops, Tail(ops), x) /\ Fewer(Tail(ops), Append(Tail(ops), e), x)
      BY <1>2, <3>1, FewerFacts
    <3>6. \A x : Fewer(ops, Append(Tail(ops), e), x)
      BY <3>5 DEF Fewer
    <3>7. \A cards, counts : TicketsTaken(Tail(ops), cards, counts) => TicketsTaken(Append(Tail(ops), e), cards, counts)
      BY <1>2, <3>1, OpsAppend
    <3> QED  BY <3>1, <3>2, <3>3, <3>4, <3>6, <3>7
  <2> QED  BY <2>1, <2>2
<1>7. Freed = Nobody /\ Nobody \notin Ids
  BY DEF Freed, ControlBounds, Ids
<1> DEFINE t == Head(ops).token
<1>8. t \in Ids /\ tickets[t] = "void" /\ opened[t] = 0
  <2>1. t \in Ids
    BY <1>2 DEF Operations
  <2>2. TicketsTaken(ops, tickets, opened)
    BY <1>1 DEF TicketsInv
  <2> QED  BY <1>2, <2>1, <2>2, OpsTail
<1>9. \A i \in 1..Len(Tail(ops)) :
         Tail(ops)[i].kind = "connect" => Tail(ops)[i].token # t /\ Tail(ops)[i].token \in Ids
  <2>1. \A i \in 1..Len(Tail(ops)) : Tail(ops)[i].kind = "connect" => Tail(ops)[i].token # t
    BY <1>1, <1>2, OpsTail DEF SocketsInv
  <2>2. \A i \in 1..Len(Tail(ops)) : Tail(ops)[i].kind = "connect" => Tail(ops)[i].token \in Ids
    BY <1>2 DEF Operations
  <2> QED  BY <2>1, <2>2
<1> HIDE DEF t
<1>10. /\ opened' = [opened EXCEPT ![t] = @ + 1] /\ opened \in [Ids -> Nat]
  BY <1>1 DEF t, TypeInv
<1>11. opened'[t] = 1 /\ (\A x \in Ids : x # t => opened'[x] = opened[x]) /\ opened' \in [Ids -> Nat]
  BY <1>8, <1>10
<1>12. TypeInv'
  BY <1>1, <1>5, <1>6, <1>7, <1>11 DEF TypeInv
<1>13. TicketsAdmitOnce'
  BY <1>1, <1>11 DEF TicketsAdmitOnce
<1>14. TicketsInv'
  <2>1. \A x \in Ids : opened'[x] # 0 => tickets[x] = "void"
    BY <1>1, <1>8, <1>11 DEF TicketsInv
  <2>2. TicketsTaken(Tail(ops), tickets, opened)
    BY <1>1, <1>2, OpsTail DEF TicketsInv
  <2>3. TicketsTaken(Tail(ops), tickets, opened')
    BY <1>9, <1>11, <2>2 DEF TicketsTaken
  <2> QED  BY <1>6, <2>1, <2>3 DEF TicketsInv
<1>15. HeldByCurrent'
  BY <1>7 DEF HeldByCurrent
<1>16. SeatInv'
  BY <1>5, <1>6 DEF SeatInv
<1>17. \A x \in Ids : Follows(sockets[x], ops, sockets'[x], ops', x)
  <2> SUFFICES ASSUME NEW x \in Ids
               PROVE  Follows(sockets[x], ops, sockets'[x], ops', x)
    OBVIOUS
  <2>1. sockets[x] \in SocketRecords /\ Fewer(ops, ops', x)
    BY <1>2, <1>6
  <2>2. CASE x = s
    BY <1>5, <2>1, <2>2, FadingFollows DEF Shorter
  <2>3. CASE x # s
    BY <1>5, <2>1, <2>3, FadingFollows DEF Shorter
  <2> QED  BY <2>2, <2>3
<1>18. SocketsInv'
  <2>1. SocketFits(new, ops', s)
    BY <1>4, <1>6, UpEmpty DEF SocketFits, Dials
  <2>2. ASSUME NEW x \in Ids \ {s}
        PROVE  SocketFits(sockets[x], ops', x)
    <3>1. sockets[x] \in SocketRecords /\ Fewer(ops, ops', x) /\ SocketFits(sockets[x], ops, x)
      BY <1>1, <1>2, <1>6 DEF SocketsInv
    <3>2. sockets[x].page = NoPage => sockets[x].pending = "no"
      BY <3>1 DEF SocketFits
    <3> QED  BY <3>1, <3>2, FadingFits DEF Shorter
  <2> QED  BY <1>5, <1>6, <2>1, <2>2 DEF SocketsInv
<1>19. PagesInv' /\ KeysInv'
  <2>1. ASSUME NEW x \in Pages, Played(x)'
        PROVE  FALSE
    <3>1. pages[x].state = "connected" /\ pages[x].socket = s
      BY <2>1 DEF Played
    <3>2. PageFits(x, pages[x], sockets[s], ops)
      BY <1>1, <3>1 DEF PagesInv
    <3> QED  BY <1>4, <3>1, <3>2 DEF PageFits, None, Ids
  <2> QED  BY <1>1, <1>17, <2>1, PagesStay
<1> QED  BY <1>12, <1>13, <1>14, <1>15, <1>16, <1>18, <1>19 DEF ControlInv

LEMMA RunConnectKeeps ==
    ASSUME ControlBounds, ControlInv, RunConnect
    PROVE  ControlInv'
<1>1. TypeInv /\ SocketsInv
  BY DEF ControlInv
<1> DEFINE s == Head(ops).socket
           e == [kind |-> "close", socket |-> s]
           down == sockets[s].down \o Say(s, "authenticated")
           left == [sockets[s] EXCEPT !.authenticated = TRUE, !.pending = "no"]
           new == [sockets[s] EXCEPT !.authenticated = TRUE, !.pending = "view", !.down = down]
<1>2. /\ UNCHANGED <<pages, tickets, match, lapsed>>
      /\ ops # <<>> /\ Head(ops).kind = "connect" /\ match = "playing"
      /\ held' = Freed /\ control' = s /\ opened' = [opened EXCEPT ![Head(ops).token] = @ + 1]
  BY DEF RunConnect, Turn
<1>3. ops \in Seq(Operations) /\ Head(ops) \in Operations
  BY <1>1, <1>2, OpsTail DEF TypeInv
<1>4. s \in Ids
  BY <1>2, <1>3 DEF Operations
<1>5. sockets \in [Ids -> SocketRecords] /\ sockets[s] \in SocketRecords
  BY <1>1, <1>4 DEF TypeInv
<1>6. \/ sockets[s].gone /\ ops' = Append(Tail(ops), e) /\ sockets' = [sockets EXCEPT ![s] = left]
      \/ ~sockets[s].gone /\ ops' = Tail(ops) /\ sockets' = [sockets EXCEPT ![s] = new]
  BY <1>4, <1>5 DEF RunConnect
<1>7. e \in Operations /\ e.kind = "close" /\ e.socket = s
  BY <1>4 DEF Operations
<1> HIDE DEF e
<1>8. /\ down \in Seq(Downward)
      /\ \A word : Says(down, word) => Says(sockets[s].down, word) \/ word = "authenticated"
      /\ OneAck(sockets[s].down) => OneAck(down)
  <2>1. "authenticated" \in Downward /\ "authenticated" # "ack"
    BY DEF Downward
  <2> QED  BY <1>1, <1>4, <2>1, SayFacts
<1>9. Head(ops).socket = s
  OBVIOUS
<1> HIDE DEF s, down
<1>10. left \in SocketRecords /\ new \in SocketRecords
  BY <1>5, <1>8 DEF SocketRecords
<1>11. /\ left.page = sockets[s].page /\ left.up = sockets[s].up /\ left.down = sockets[s].down
       /\ left.authenticated = TRUE
  BY <1>5 DEF SocketRecords
<1>12. /\ new.page = sockets[s].page /\ new.up = sockets[s].up /\ new.down = down
       /\ new.authenticated = TRUE /\ new.gone = sockets[s].gone
  BY <1>5 DEF SocketRecords
<1> HIDE DEF left, new
<1>13. CASE sockets[s].gone /\ ops' = Append(Tail(ops), e) /\ sockets' = [sockets EXCEPT ![s] = left]
  BY <1>2, <1>4, <1>7, <1>9, <1>10, <1>11, <1>13, TakesOver
<1>14. CASE ~sockets[s].gone /\ ops' = Tail(ops) /\ sockets' = [sockets EXCEPT ![s] = new]
  BY <1>2, <1>4, <1>8, <1>9, <1>10, <1>12, <1>14, TakesOver
<1> QED  BY <1>6, <1>13, <1>14

(***************************************************************************)
(* Controllers that were replaced learn of it.                             *)
(***************************************************************************)
LEMMA ReplacedRecord ==
    ASSUME NEW k \in SocketRecords
    PROVE  LET new == [k EXCEPT !.down = Append(@, "error"), !.open = FALSE] IN
           /\ new \in SocketRecords
           /\ new.page = k.page /\ new.up = k.up /\ new.authenticated = k.authenticated /\ new.gone = k.gone
           /\ \A word : word # "error" /\ Says(new.down, word) => Says(k.down, word)
           /\ OneAck(k.down) => OneAck(new.down)
<1> DEFINE down == Append(k.down, "error")
           new == [k EXCEPT !.down = down, !.open = FALSE]
<1>1. k.down \in Seq(Downward) /\ "error" \in Downward /\ "error" # "ack"
  BY DEF SocketRecords, Downward
<1>2. down \in Seq(Downward) /\ (\A word : Says(down, word) <=> Says(k.down, word) \/ "error" = word)
      /\ (OneAck(k.down) => OneAck(down))
  BY <1>1, DownAppend, AppendFacts
<1>3. new = [k EXCEPT !.down = Append(@, "error"), !.open = FALSE]
  BY DEF SocketRecords
<1> HIDE DEF down
<1>4. new \in SocketRecords
  BY <1>2 DEF SocketRecords
<1>5. /\ new.page = k.page /\ new.up = k.up /\ new.authenticated = k.authenticated /\ new.gone = k.gone
      /\ new.down = down
  BY DEF SocketRecords
<1> HIDE DEF new
<1> QED  BY <1>2, <1>3, <1>4, <1>5

LEMMA UpdatedFacts ==
    ASSUME TypeInv, SocketsInv, NEW c
    PROVE  /\ Updated(sockets, c) \in [Ids -> SocketRecords]
           /\ c \in Ids => Updated(sockets, c)[c] = sockets[c]
           /\ \A x \in Ids :
                 LET k == sockets[x]
                     new == Updated(sockets, c)[x] IN
                 /\ new.page = k.page /\ new.up = k.up /\ new.authenticated = k.authenticated
                 /\ new.gone = k.gone
                 /\ \A word : word # "error" /\ Says(new.down, word) => Says(k.down, word)
                 /\ OneAck(k.down) => OneAck(new.down)
                 /\ k.page = NoPage => new = k
<1>1. sockets \in [Ids -> SocketRecords]
  BY DEF TypeInv
<1>2. \A x \in Ids : Updated(sockets, c)[x] =
         IF sockets[x].authenticated /\ sockets[x].open /\ ~sockets[x].gone /\ c # x
         THEN [sockets[x] EXCEPT !.down = Append(@, "error"), !.open = FALSE] ELSE sockets[x]
  BY DEF Updated
<1>3. ASSUME NEW x \in Ids
      PROVE  LET k == sockets[x]
                 new == Updated(sockets, c)[x] IN
             /\ new \in SocketRecords
             /\ new.page = k.page /\ new.up = k.up /\ new.authenticated = k.authenticated
             /\ new.gone = k.gone
             /\ \A word : word # "error" /\ Says(new.down, word) => Says(k.down, word)
             /\ OneAck(k.down) => OneAck(new.down)
             /\ k.page = NoPage => new = k
  <2>1. sockets[x] \in SocketRecords
    BY <1>1
  <2>2. CASE sockets[x].authenticated /\ sockets[x].open /\ ~sockets[x].gone /\ c # x
    <3>1. sockets[x].page # NoPage
      BY <2>2 DEF SocketsInv, SocketFits
    <3> DEFINE new == [sockets[x] EXCEPT !.down = Append(@, "error"), !.open = FALSE]
    <3>2. Updated(sockets, c)[x] = new
      BY <1>2, <2>2
    <3>3. /\ new \in SocketRecords
          /\ new.page = sockets[x].page /\ new.up = sockets[x].up
          /\ new.authenticated = sockets[x].authenticated /\ new.gone = sockets[x].gone
          /\ \A word : word # "error" /\ Says(new.down, word) => Says(sockets[x].down, word)
          /\ OneAck(sockets[x].down) => OneAck(new.down)
      BY <2>1, ReplacedRecord
    <3> HIDE DEF new
    <3> QED  BY <3>1, <3>2, <3>3
  <2>3. CASE ~(sockets[x].authenticated /\ sockets[x].open /\ ~sockets[x].gone /\ c # x)
    BY <1>2, <2>1, <2>3
  <2> QED  BY <2>2, <2>3
<1>4. Updated(sockets, c) \in [Ids -> SocketRecords]
  <2>1. \A x \in Ids : Updated(sockets, c)[x] \in SocketRecords
    BY <1>3
  <2> QED  BY <2>1 DEF Updated
<1>5. c \in Ids => Updated(sockets, c)[c] = sockets[c]
  BY <1>2
<1> QED  BY <1>3, <1>4, <1>5

LEMMA ElsewhereKeeps ==
    ASSUME ControlBounds, ControlInv, Elsewhere
    PROVE  ControlInv'
<1>1. TypeInv /\ SocketsInv /\ SeatInv /\ PagesInv /\ KeysInv /\ TicketsInv /\ TicketsAdmitOnce /\ HeldByCurrent
  BY DEF ControlInv
<1>2. /\ UNCHANGED <<tickets, ops, control, opened, lapsed>> /\ match = "playing"
      /\ sockets' = Updated(sockets, control)
  BY DEF Elsewhere
<1>3. sockets \in [Ids -> SocketRecords] /\ ops \in Seq(Operations) /\ pages \in [Pages -> PageRecords]
  BY <1>1 DEF TypeInv
<1>4. sockets' \in [Ids -> SocketRecords]
  BY <1>1, <1>2, UpdatedFacts
<1>5. \A x \in Ids :
         /\ sockets'[x].page = sockets[x].page /\ sockets'[x].up = sockets[x].up
         /\ sockets'[x].authenticated = sockets[x].authenticated /\ sockets'[x].gone = sockets[x].gone
         /\ \A word : word # "error" /\ Says(sockets'[x].down, word) => Says(sockets[x].down, word)
         /\ OneAck(sockets[x].down) => OneAck(sockets'[x].down)
         /\ sockets[x].page = NoPage => sockets'[x] = sockets[x]
  BY <1>1, <1>2, UpdatedFacts
<1>6. \A x \in Ids : Follows(sockets[x], ops, sockets'[x], ops', x) /\ SocketFits(sockets'[x], ops', x)
  <2> SUFFICES ASSUME NEW x \in Ids
               PROVE  Follows(sockets[x], ops, sockets'[x], ops', x) /\ SocketFits(sockets'[x], ops', x)
    OBVIOUS
  <2>1. sockets[x] \in SocketRecords /\ SocketFits(sockets[x], ops, x) /\ Fewer(ops, ops', x)
    BY <1>1, <1>2, <1>3, FewerFacts DEF SocketsInv
  <2>2. sockets[x].page = NoPage => sockets[x].pending = "no"
    BY <2>1 DEF SocketFits
  <2> QED  BY <1>5, <2>1, <2>2, FadingFollows, FadingFits DEF Shorter
<1>7. SocketsInv'
  BY <1>1, <1>2, <1>6 DEF SocketsInv
<1>8. SeatInv'
  BY <1>1, <1>2, <1>5 DEF SeatInv, TypeInv
<1>9. TicketsInv' /\ TicketsAdmitOnce'
  BY <1>1, <1>2 DEF TicketsInv, TicketsAdmitOnce
<1>10. CASE UNCHANGED <<held, pages>> /\ match' \in {"playing", "over"}
  <2>1. TypeInv'
    BY <1>1, <1>2, <1>4, <1>10 DEF TypeInv
  <2>2. HeldByCurrent'
    BY <1>1, <1>2, <1>10 DEF HeldByCurrent
  <2>3. \A x \in Pages : Played(x)' => Played(x) /\ held' = held
    BY <1>2, <1>10 DEF Played
  <2>4. PagesInv' /\ KeysInv'
    BY <1>1, <1>6, <1>10, <2>3, PagesStay
  <2> QED  BY <1>7, <1>8, <1>9, <2>1, <2>2, <2>4 DEF ControlInv
<1>11. CASE /\ \E i \in {"hold", "release"} : held' = Doing(i, OtherClient)
            /\ pages' = [p \in Pages |-> [pages[p] EXCEPT !.calm = FALSE]]
            /\ UNCHANGED match
  <2>1. held' \in {Nobody, OtherClient} /\ Nobody \notin Ids /\ OtherClient \notin Ids
    BY <1>11 DEF Doing, ControlBounds, Ids
  <2>2. HeldByCurrent'
    BY <2>1 DEF HeldByCurrent
  <2>3. \A p \in Pages : /\ pages'[p] = [pages[p] EXCEPT !.calm = FALSE] /\ pages[p] \in PageRecords
    BY <1>3, <1>11
  <2>4. \A p \in Pages : /\ pages'[p] \in PageRecords /\ pages'[p].queue = pages[p].queue
                         /\ pages'[p].state = pages[p].state /\ pages'[p].socket = pages[p].socket
                         /\ pages'[p].flying = pages[p].flying /\ pages'[p].intent = pages[p].intent
                         /\ pages'[p].calm = FALSE
    <3> SUFFICES ASSUME NEW p \in Pages
                 PROVE  /\ pages'[p] \in PageRecords /\ pages'[p].queue = pages[p].queue
                        /\ pages'[p].state = pages[p].state /\ pages'[p].socket = pages[p].socket
                        /\ pages'[p].flying = pages[p].flying /\ pages'[p].intent = pages[p].intent
                        /\ pages'[p].calm = FALSE
      OBVIOUS
    <3>1. pages'[p] = [pages[p] EXCEPT !.calm = FALSE] /\ pages[p] \in PageRecords
      BY <2>3
    <3>2. pages'[p] \in PageRecords
      BY <3>1 DEF PageRecords
    <3> QED  BY <3>1, <3>2 DEF PageRecords
  <2>5. pages' \in [Pages -> PageRecords]
    BY <1>11, <2>4
  <2>6. TypeInv'
    BY <1>1, <1>2, <1>4, <1>11, <2>1, <2>4, <2>5 DEF TypeInv
  <2>7. KeysInv'
    BY <2>4 DEF KeysInv, Played
  <2>8. PagesInv'
    <3> SUFFICES ASSUME NEW p \in Pages
                 PROVE  PageFits(p, pages'[p], sockets'[pages'[p].socket], ops')
      BY DEF PagesInv
    <3>1. PageFits(p, pages[p], sockets[pages[p].socket], ops)
      BY <1>1 DEF PagesInv
    <3>2. pages[p].socket # None =>
             Follows(sockets[pages[p].socket], ops, sockets'[pages[p].socket], ops', pages[p].socket)
      BY <1>3, <1>6 DEF PageRecords
    <3>3. PageFits(p, pages[p], sockets'[pages[p].socket], ops')
      BY <3>1, <3>2, FollowFits
    <3> QED  BY <2>4, <3>3 DEF PageFits
  <2> QED  BY <1>7, <1>8, <1>9, <2>2, <2>6, <2>7, <2>8 DEF ControlInv
<1>12. match \in {"playing", "over"}
  BY <1>1 DEF TypeInv
<1> QED  BY <1>10, <1>11, <1>12 DEF Elsewhere

LEMMA RestartKeeps ==
    ASSUME ControlBounds, ControlInv, Restart
    PROVE  ControlInv'
<1>1. TypeInv /\ SocketsInv /\ SeatInv /\ PagesInv /\ KeysInv /\ TicketsInv /\ TicketsAdmitOnce /\ HeldByCurrent
  BY DEF ControlInv
<1>2. /\ UNCHANGED <<pages, match, opened>> /\ Fault
      /\ ops' = <<>> /\ control' = None /\ held' = Freed
      /\ tickets' = [t \in Ids |-> IF tickets[t] = "out" THEN "void" ELSE tickets[t]]
  BY DEF Restart
<1>3. sockets \in [Ids -> SocketRecords] /\ ops \in Seq(Operations) /\ <<>> \in Seq(Upward)
  BY <1>1 DEF TypeInv
<1>4. \A x \in Ids :
         sockets'[x] = IF sockets[x].page = NoPage THEN sockets[x]
                       ELSE [sockets[x] EXCEPT !.open = FALSE, !.gone = TRUE, !.pending = "no",
                                               !.up = <<>>, !.authenticated = FALSE]
  BY DEF Restart
<1>5. \A x \in Ids : /\ sockets'[x] \in SocketRecords
                     /\ sockets'[x].page = sockets[x].page /\ sockets'[x].down = sockets[x].down
                     /\ sockets[x].page = NoPage => sockets'[x] = sockets[x]
                     /\ sockets[x].page # NoPage => sockets'[x].up = <<>> /\ ~sockets'[x].authenticated
  <2> SUFFICES ASSUME NEW x \in Ids
               PROVE  /\ sockets'[x] \in SocketRecords
                      /\ sockets'[x].page = sockets[x].page /\ sockets'[x].down = sockets[x].down
                      /\ sockets[x].page = NoPage => sockets'[x] = sockets[x]
                      /\ sockets[x].page # NoPage => sockets'[x].up = <<>> /\ ~sockets'[x].authenticated
    OBVIOUS
  <2> DEFINE k == sockets[x]
             new == [k EXCEPT !.open = FALSE, !.gone = TRUE, !.pending = "no",
                              !.up = <<>>, !.authenticated = FALSE]
  <2>1. k \in SocketRecords
    BY <1>3
  <2>2. sockets'[x] = IF k.page = NoPage THEN k ELSE new
    BY <1>4
  <2> HIDE DEF k
  <2>3. new \in SocketRecords
    BY <1>3, <2>1 DEF SocketRecords
  <2>4. new.page = k.page /\ new.down = k.down /\ new.up = <<>> /\ ~new.authenticated
    BY <2>1 DEF SocketRecords
  <2> HIDE DEF new
  <2> QED  BY <2>1, <2>2, <2>3, <2>4 DEF k
<1>6. sockets' \in [Ids -> SocketRecords]
  BY <1>5 DEF Restart
<1>7. Freed \in {Nobody, OtherClient} \cup Ids /\ (match = "playing" => Freed = Nobody /\ Freed \notin Ids)
  BY <1>1 DEF Freed, TypeInv, ControlBounds, Ids
<1>8. /\ tickets' \in [Ids -> {"none", "out", "void"}]
      /\ \A t \in Ids : tickets[t] = "void" => tickets'[t] = "void"
  BY <1>1, <1>2 DEF TypeInv
<1>9. TypeInv'
  <2>1. ops' \in Seq(Operations)
    BY <1>2
  <2>2. lapsed' \in 0..MaxFaults
    BY <1>1, <1>2 DEF TypeInv, Fault, ControlBounds
  <2> QED  BY <1>1, <1>2, <1>6, <1>7, <1>8, <2>1, <2>2 DEF TypeInv
<1>10. TicketsInv' /\ TicketsAdmitOnce'
  BY <1>1, <1>2, <1>8, OpsEmpty DEF TicketsInv, TicketsAdmitOnce
<1>11. HeldByCurrent' /\ SeatInv'
  BY <1>2, <1>7 DEF HeldByCurrent, SeatInv
<1>12. \A x \in Ids : Follows(sockets[x], ops, sockets'[x], ops', x) /\ SocketFits(sockets'[x], ops', x)
  <2> SUFFICES ASSUME NEW x \in Ids
               PROVE  Follows(sockets[x], ops, sockets'[x], ops', x) /\ SocketFits(sockets'[x], ops', x)
    OBVIOUS
  <2>1. sockets[x] \in SocketRecords /\ SocketFits(sockets[x], ops, x) /\ Fewer(ops, ops', x)
    BY <1>1, <1>2, <1>3, FewerFacts DEF SocketsInv
  <2>2. sockets[x].page = NoPage => sockets[x].pending = "no"
    BY <2>1 DEF SocketFits
  <2>3. CASE sockets[x].page = NoPage
    BY <1>5, <2>1, <2>2, <2>3, FadingFollows, FadingFits DEF Shorter
  <2>4. CASE sockets[x].page # NoPage
    BY <1>5, <2>1, <2>4, FadingFollows, FadingFits DEF Shorter
  <2> QED  BY <2>3, <2>4
<1>13. SocketsInv'
  BY <1>2, <1>12, OpsEmpty DEF SocketsInv
<1>14. PagesInv' /\ KeysInv'
  <2>1. ASSUME NEW x \in Pages, Played(x)'
        PROVE  FALSE
    <3>1. pages[x].state = "connected" /\ pages[x].socket = None
      BY <1>2, <2>1 DEF Played
    <3> QED  BY <1>1, <3>1 DEF PagesInv, PageFits
  <2> QED  BY <1>1, <1>2, <1>12, <2>1, PagesStay
<1> QED  BY <1>9, <1>10, <1>11, <1>13, <1>14 DEF ControlInv

(***************************************************************************)
(* An action takes its turn: applied and acknowledged, or refused.         *)
(***************************************************************************)
LEMMA AppliedFits ==
    ASSUME NEW p, NEW g, NEW k, NEW q \in Seq(Operations), q # <<>>, NEW new, NEW now,
           Head(q).kind = "action", Head(q).socket = g.socket, g.socket # None,
           new.page = k.page, new.up = k.up, OneAck(k.down) => OneAck(new.down) \/ Says(k.down, "ack"),
           PageFits(p, g, k, q),
           Head(q).input = "hold" => now = g.socket, Head(q).input = "release" => now # g.socket,
           g.intent \in {"none", "hold", "release"}
    PROVE  /\ PageFits(p, g, new, Tail(q))
           /\ g.calm /\ KeysFit(g, k, q, now) => KeysFit(g, new, Tail(q), now)
           /\ g.calm => ~Says(k.down, "ack")
<1> DEFINE s == g.socket
<1>1. /\ Waits(q, s, "action")
      /\ Waits(Tail(q), s, "connect") => Waits(q, s, "connect")
      /\ OneTurn(q, s) => OneTurn(Tail(q), s) /\ ~Waits(Tail(q), s, "action")
      /\ \A word : TurnsSay(q, s, word) => TurnsSay(Tail(q), s, word) /\ Head(q).input = word
  <2>1. Waits(q, s, "action")
    BY OpsTail
  <2> QED  BY <2>1, OpsTail
<1>2. Dials(new, Tail(q), s) => Dials(k, q, s)
  BY <1>1 DEF Dials
<1>3. g.calm => /\ Alone(k, q, s) /\ ~Acts(k.up) /\ ~Says(k.down, "ack") /\ g.flying
  BY <1>1 DEF PageFits, Alone, Quiet
<1>4. g.calm => Alone(new, Tail(q), s)
  BY <1>1, <1>3 DEF Alone
<1>5. PageFits(p, g, new, Tail(q))
  BY <1>2, <1>3, <1>4 DEF PageFits
<1>6. KeysFit(g, k, q, now) => KeysFit(g, new, Tail(q), now)
  <2> SUFFICES ASSUME KeysFit(g, k, q, now), g.intent # "none"
               PROVE  /\ g.queue # <<>> => g.queue[Len(g.queue)] = g.intent
                      /\ g.queue = <<>> =>
                            /\ ActsSay(k.up, g.intent) /\ TurnsSay(Tail(q), s, g.intent)
                            /\ g.intent = "hold" <=> now = s
    BY DEF KeysFit
  <2>1. CASE g.queue # <<>>
    BY <2>1 DEF KeysFit
  <2>2. CASE g.queue = <<>>
    <3>1. ActsSay(k.up, g.intent) /\ TurnsSay(q, s, g.intent)
      BY <2>2 DEF KeysFit
    <3>2. TurnsSay(Tail(q), s, g.intent) /\ Head(q).input = g.intent
      BY <1>1, <3>1
    <3> QED  BY <2>2, <3>1, <3>2
  <2> QED  BY <2>1, <2>2
<1> QED  BY <1>3, <1>5, <1>6

LEMMA RunActionKeeps ==
    ASSUME ControlBounds, ControlInv, RunAction
    PROVE  ControlInv'
<1>1. TypeInv /\ SocketsInv /\ SeatInv /\ PagesInv /\ KeysInv /\ TicketsInv /\ TicketsAdmitOnce /\ HeldByCurrent
  BY DEF ControlInv
<1> DEFINE s == Head(ops).socket
<1>2. /\ UNCHANGED <<pages, tickets, control, match, opened>>
      /\ ops # <<>> /\ Head(ops).kind = "action" /\ ops' = Tail(ops)
  BY DEF RunAction, Turn
<1>3. /\ ops \in Seq(Operations) /\ Head(ops) \in Operations /\ ops' \in Seq(Operations)
      /\ sockets \in [Ids -> SocketRecords] /\ pages \in [Pages -> PageRecords]
  BY <1>1, <1>2, OpsTail DEF TypeInv
<1>4. s \in Ids /\ sockets[s] \in SocketRecords /\ Head(ops).input \in Inputs
  BY <1>2, <1>3 DEF Operations
<1>5. Waits(ops, s, "action") /\ SocketFits(sockets[s], ops, s)
  BY <1>1, <1>2, <1>3, <1>4, OpsTail DEF SocketsInv
<1>6. sockets[s].page # NoPage
  BY <1>5 DEF SocketFits
<1>7. TicketsInv' /\ TicketsAdmitOnce'
  BY <1>1, <1>2, <1>3, OpsTail DEF TicketsInv, TicketsAdmitOnce
<1>8. OneConnect(ops') /\ \A x : Waits(ops, x, "close") => Waits(ops', x, "close")
  BY <1>1, <1>2, <1>3, OpsTail DEF SocketsInv
<1>9. ASSUME sockets' \in [Ids -> SocketRecords],
             \A x \in Ids : sockets'[x].authenticated = sockets[x].authenticated /\ sockets'[x].gone = sockets[x].gone
      PROVE  SeatInv'
  BY <1>1, <1>2, <1>8, <1>9 DEF SeatInv, TypeInv
<1>10. CASE /\ StillMay(s) /\ match = "playing" /\ held' = Doing(Head(ops).input, s)
            /\ sockets' = [Updated(sockets, control) EXCEPT ![s].pending = "no", ![s].down = @ \o Say(s, "ack")]
            /\ UNCHANGED lapsed
  <2>1. control = s /\ StillMay(s)
    BY <1>10 DEF StillMay, May
  <2> DEFINE socks == Updated(sockets, control)
             down == sockets[s].down \o Say(s, "ack")
             new == [sockets[s] EXCEPT !.pending = "no", !.down = down]
  <2>2. socks \in [Ids -> SocketRecords] /\ socks[s] = sockets[s]
    BY <1>1, <1>4, <2>1, UpdatedFacts
  <2>3. sockets' = [socks EXCEPT ![s] = new]
    BY <1>4, <1>10, <2>2
  <2>4. "ack" \in Downward
    BY DEF Downward
  <2>5. /\ down \in Seq(Downward)
        /\ \A word : Says(down, word) => Says(sockets[s].down, word) \/ word = "ack"
        /\ OneAck(sockets[s].down) /\ ~Says(sockets[s].down, "ack") => OneAck(down)
    BY <1>1, <1>4, <2>4, SayFacts
  <2> HIDE DEF down
  <2>6. new \in SocketRecords
    BY <1>4, <2>5 DEF SocketRecords
  <2>7. /\ new.page = sockets[s].page /\ new.up = sockets[s].up /\ new.down = down
        /\ new.authenticated = sockets[s].authenticated /\ new.gone = sockets[s].gone
    BY <1>4 DEF SocketRecords
  <2> HIDE DEF new, s
  <2>8. \A x \in Ids :
          /\ socks[x].page = sockets[x].page /\ socks[x].up = sockets[x].up
          /\ socks[x].authenticated = sockets[x].authenticated /\ socks[x].gone = sockets[x].gone
          /\ \A word : word # "error" /\ Says(socks[x].down, word) => Says(sockets[x].down, word)
          /\ OneAck(sockets[x].down) => OneAck(socks[x].down)
          /\ sockets[x].page = NoPage => socks[x] = sockets[x]
    BY <1>1, UpdatedFacts
  <2> HIDE DEF socks
  <2>9. /\ sockets' \in [Ids -> SocketRecords] /\ sockets'[s] = new
        /\ \A x \in Ids \ {s} : sockets'[x] = socks[x]
    BY <1>4, <2>2, <2>3, <2>6
  <2>10. SeatInv'
    <3>1. \A x \in Ids : sockets'[x].authenticated = sockets[x].authenticated /\ sockets'[x].gone = sockets[x].gone
      BY <2>7, <2>8, <2>9
    <3> QED  BY <1>9, <2>9, <3>1
  <2>11. /\ held' \in {Nobody, OtherClient} \cup Ids
         /\ Head(ops).input = "hold" => held' = s
         /\ Head(ops).input = "release" => held' = Nobody
         /\ held' = s \/ held' = Nobody \/ held' = held
    BY <1>1, <1>4, <1>10 DEF Doing, TypeInv
  <2>12. TypeInv'
    BY <1>1, <1>2, <1>3, <1>10, <2>9, <2>11 DEF TypeInv
  <2>13. HeldByCurrent'
    BY <1>1, <1>2, <2>1, <2>11 DEF HeldByCurrent, ControlBounds, Ids
  <2>14. \A x \in Ids \ {s} :
            Follows(sockets[x], ops, sockets'[x], ops', x) /\ SocketFits(sockets'[x], ops', x)
    <3> SUFFICES ASSUME NEW x \in Ids \ {s}
                 PROVE  Follows(sockets[x], ops, sockets'[x], ops', x) /\ SocketFits(sockets'[x], ops', x)
      OBVIOUS
    <3>1. sockets[x] \in SocketRecords /\ SocketFits(sockets[x], ops, x) /\ Fewer(ops, ops', x)
      BY <1>1, <1>2, <1>3, FewerFacts DEF SocketsInv
    <3>2. sockets[x].page = NoPage => sockets[x].pending = "no"
      BY <3>1 DEF SocketFits
    <3> QED  BY <2>8, <2>9, <3>1, <3>2, FadingFollows, FadingFits DEF Shorter
  <2>15. SocketFits(sockets'[s], ops', s)
    <3>1. Fewer(ops, ops', s)
      BY <1>2, <1>3, FewerFacts
    <3> QED  BY <1>4, <1>5, <1>6, <2>5, <2>7, <2>9, <3>1, FadingFits DEF Shorter
  <2>16. SocketsInv'
    BY <1>8, <2>14, <2>15 DEF SocketsInv
  <2>17. Nobody # s
    BY <1>4 DEF ControlBounds, Ids
  <2>18. ASSUME NEW p \in Pages
         PROVE  /\ PageFits(p, pages[p], sockets'[pages[p].socket], ops')
                /\ Played(p)' => KeysFit(pages[p], sockets'[pages[p].socket], ops', held')
    <3>1. pages[p] \in PageRecords /\ PageFits(p, pages[p], sockets[pages[p].socket], ops)
      BY <1>1, <1>3 DEF PagesInv
    <3>2. CASE pages[p].socket = s
      <4>1. s # None /\ pages[p].intent \in {"none", "hold", "release"}
        BY <1>4, <3>1 DEF PageRecords, None, Ids
      <4>2. /\ PageFits(p, pages[p], new, Tail(ops))
            /\ pages[p].calm /\ KeysFit(pages[p], sockets[s], ops, held') => KeysFit(pages[p], new, Tail(ops), held')
        <5>1. OneAck(sockets[s].down) => OneAck(new.down) \/ Says(sockets[s].down, "ack")
          BY <2>5, <2>7
        <5>2. Head(ops).socket = pages[p].socket
          BY <3>2 DEF s
        <5> QED  BY <1>2, <1>3, <2>7, <2>11, <2>17, <3>1, <3>2, <4>1, <5>1, <5>2, AppliedFits
      <4>3. ASSUME Played(p)'
            PROVE  KeysFit(pages[p], new, Tail(ops), held')
        <5>1. Played(p) /\ pages[p].calm /\ pages[p].flying
          <6>1. Played(p) /\ pages[p].calm
            BY <1>2, <1>10, <4>3 DEF Played
          <6>2. ~Quiet(sockets[s], ops, s)
            BY <1>5 DEF Quiet
          <6> QED  BY <3>1, <3>2, <4>1, <6>1, <6>2 DEF PageFits, PageRecords
        <5>2. KeysFit(pages[p], sockets[s], ops, held)
          BY <1>1, <3>2, <5>1 DEF KeysInv
        <5>3. ~Says(sockets[s].down, "ack")
          BY <1>5, <3>1, <3>2, <4>1, <5>1 DEF PageFits, Alone
        <5>4. KeysFit(pages[p], sockets[s], ops, held')
          BY <5>1, <5>2, <5>3 DEF KeysFit
        <5> QED  BY <4>2, <5>1, <5>4
      <4> QED  BY <1>2, <2>9, <3>2, <4>2, <4>3
    <3>3. CASE pages[p].socket # s
      <4>1. pages[p].socket # None =>
               Follows(sockets[pages[p].socket], ops, sockets'[pages[p].socket], ops', pages[p].socket)
        BY <2>14, <3>1, <3>3 DEF PageRecords
      <4>2. PageFits(p, pages[p], sockets'[pages[p].socket], ops')
        BY <3>1, <4>1, FollowFits
      <4>3. ~Played(p)'
        BY <1>2, <2>1, <3>3 DEF Played
      <4> QED  BY <4>2, <4>3
    <3> QED  BY <3>2, <3>3
  <2>19. PagesInv' /\ KeysInv'
    BY <1>2, <2>18 DEF PagesInv, KeysInv
  <2> QED  BY <1>7, <2>10, <2>12, <2>13, <2>16, <2>19 DEF ControlInv
<1>11. CASE /\ sockets' = [sockets EXCEPT ![s].pending = "no", ![s].down = @ \o Say(s, "error")]
            /\ UNCHANGED held /\ lapsed' \in 0..MaxFaults
  <2> DEFINE down == sockets[s].down \o Say(s, "error")
             new == [sockets[s] EXCEPT !.pending = "no", !.down = down]
  <2>3. sockets' = [sockets EXCEPT ![s] = new]
    BY <1>3, <1>4, <1>11
  <2>4. "error" \in Downward /\ "error" # "ack" /\ "error" # "authenticated"
    BY DEF Downward
  <2>5. /\ down \in Seq(Downward)
        /\ \A word : Says(down, word) => Says(sockets[s].down, word) \/ word = "error"
        /\ OneAck(sockets[s].down) => OneAck(down)
    BY <1>1, <1>4, <2>4, SayFacts
  <2> HIDE DEF down
  <2>6. new \in SocketRecords
    BY <1>4, <2>5 DEF SocketRecords
  <2>7. /\ new.page = sockets[s].page /\ new.up = sockets[s].up /\ new.down = down
        /\ new.authenticated = sockets[s].authenticated /\ new.gone = sockets[s].gone
    BY <1>4 DEF SocketRecords
  <2> HIDE DEF new, s
  <2>9. /\ sockets' \in [Ids -> SocketRecords] /\ sockets'[s] = new
        /\ \A x \in Ids \ {s} : sockets'[x] = sockets[x]
    BY <1>3, <1>4, <2>3, <2>6
  <2>10. SeatInv'
    <3>1. \A x \in Ids : sockets'[x].authenticated = sockets[x].authenticated /\ sockets'[x].gone = sockets[x].gone
      BY <2>7, <2>9
    <3> QED  BY <1>9, <2>9, <3>1
  <2>12. TypeInv'
    BY <1>1, <1>2, <1>3, <1>11, <2>9 DEF TypeInv
  <2>13. HeldByCurrent'
    BY <1>1, <1>2, <1>11 DEF HeldByCurrent
  <2>14. \A x \in Ids : Follows(sockets[x], ops, sockets'[x], ops', x) /\ SocketFits(sockets'[x], ops', x)
    <3> SUFFICES ASSUME NEW x \in Ids
                 PROVE  Follows(sockets[x], ops, sockets'[x], ops', x) /\ SocketFits(sockets'[x], ops', x)
      OBVIOUS
    <3>1. sockets[x] \in SocketRecords /\ SocketFits(sockets[x], ops, x) /\ Fewer(ops, ops', x)
      BY <1>1, <1>2, <1>3, FewerFacts DEF SocketsInv
    <3>2. sockets[x].page = NoPage => sockets[x].pending = "no"
      BY <3>1 DEF SocketFits
    <3>3. CASE x = s
      BY <1>6, <2>4, <2>5, <2>7, <2>9, <3>1, <3>2, <3>3, FadingFollows, FadingFits DEF Shorter
    <3>4. CASE x # s
      BY <2>9, <3>1, <3>2, <3>4, FadingFollows, FadingFits DEF Shorter
    <3> QED  BY <3>3, <3>4
  <2>16. SocketsInv'
    BY <1>8, <2>14 DEF SocketsInv
  <2>19. PagesInv' /\ KeysInv'
    <3>1. \A x \in Pages : Played(x)' => Played(x) /\ held' = held
      BY <1>2, <1>11 DEF Played
    <3> QED  BY <1>1, <1>2, <2>14, <3>1, PagesStay
  <2> QED  BY <1>7, <2>10, <2>12, <2>13, <2>16, <2>19 DEF ControlInv
<1>12. lapsed \in 0..MaxFaults /\ MaxFaults \in Nat
  BY <1>1 DEF TypeInv, ControlBounds
<1>13. (IF ~StillMay(s) \/ match = "over" THEN lapsed ELSE lapsed + 1) \in 0..MaxFaults
       \/ ~(~StillMay(s) \/ match = "over" \/ lapsed < MaxFaults)
  BY <1>12
<1> QED  BY <1>10, <1>11, <1>13 DEF RunAction

(***************************************************************************)
(* A message arrives: a dial with a ticket, an input, or neither.          *)
(***************************************************************************)
LEMMA ArrivedFits ==
    ASSUME NEW p, NEW g, NEW k \in SocketRecords, NEW q \in Seq(Operations), NEW new, NEW now,
           NEW e \in Operations, e.kind = "action", e.socket = g.socket, g.socket # None,
           k.up # <<>>, Head(k.up).type = "action", e.input = Head(k.up).input,
           new.page = k.page, new.up = Tail(k.up), new.down = k.down,
           PageFits(p, g, k, q)
    PROVE  /\ PageFits(p, g, new, Append(q, e))
           /\ g.calm /\ KeysFit(g, k, q, now) => KeysFit(g, new, Append(q, e), now)
<1> DEFINE s == g.socket
           after == Append(q, e)
<1>1. k.up \in Seq(Upward)
  BY DEF SocketRecords
<1>2. /\ Authenticates(Tail(k.up)) => Authenticates(k.up)
      /\ Acts(Tail(k.up)) => Acts(k.up)
      /\ OneAct(k.up) => OneAct(Tail(k.up)) /\ ~Acts(Tail(k.up))
      /\ Acts(k.up)
      /\ \A word : ActsSay(k.up, word) => ActsSay(Tail(k.up), word) /\ Head(k.up).input = word
  BY <1>1, UpTail
<1>3. /\ Waits(after, s, "connect") => Waits(q, s, "connect")
      /\ OneTurn(q, s) /\ ~Waits(q, s, "action") => OneTurn(after, s)
      /\ \A word : TurnsSay(q, s, word) /\ e.input = word => TurnsSay(after, s, word)
  <2>1. Waits(after, s, "connect") => Waits(q, s, "connect")
    BY OpsAppend
  <2>2. OneTurn(q, s) /\ ~Waits(q, s, "action") => OneTurn(after, s)
    BY OpsAppend
  <2>3. \A word : TurnsSay(q, s, word) /\ e.input = word => TurnsSay(after, s, word)
    BY OpsAppend
  <2> QED  BY <2>1, <2>2, <2>3
<1> HIDE DEF after
<1>4. Dials(new, after, s) => Dials(k, q, s)
  BY <1>2, <1>3 DEF Dials
<1>5. g.calm => Alone(k, q, s) /\ ~Waits(q, s, "action") /\ ~Says(k.down, "ack") /\ g.flying
  BY <1>2 DEF PageFits, Alone, Quiet
<1>6. g.calm => Alone(new, after, s)
  BY <1>2, <1>3, <1>5 DEF Alone
<1>7. PageFits(p, g, new, after)
  BY <1>4, <1>5, <1>6 DEF PageFits
<1>8. g.calm /\ KeysFit(g, k, q, now) => KeysFit(g, new, after, now)
  <2> SUFFICES ASSUME g.calm, KeysFit(g, k, q, now), g.intent # "none"
               PROVE  KeysFit(g, new, after, now)
    BY DEF KeysFit
  <2>1. CASE g.queue # <<>>
    BY <2>1 DEF KeysFit
  <2>2. CASE g.queue = <<>>
    <3>1. ActsSay(k.up, g.intent) /\ TurnsSay(q, s, g.intent)
      BY <2>2 DEF KeysFit
    <3>2. ActsSay(new.up, g.intent) /\ TurnsSay(after, s, g.intent)
      BY <1>2, <1>3, <3>1
    <3> QED  BY <1>5, <2>2, <3>2 DEF KeysFit
  <2> QED  BY <2>1, <2>2
<1> QED  BY <1>7, <1>8 DEF after

LEMMA ReceiveKeeps ==
    ASSUME ControlBounds, ControlInv, NEW s \in Ids, Receive(s)
    PROVE  ControlInv'
<1>1. TypeInv /\ SocketsInv /\ SeatInv /\ PagesInv /\ KeysInv /\ TicketsInv /\ TicketsAdmitOnce /\ HeldByCurrent
  BY DEF ControlInv
<1>2. UNCHANGED <<pages, control, held, match, opened, lapsed>> /\ sockets[s].up # <<>>
  BY DEF Receive
<1>3. /\ ops \in Seq(Operations) /\ sockets \in [Ids -> SocketRecords] /\ pages \in [Pages -> PageRecords]
      /\ sockets[s] \in SocketRecords /\ sockets[s].up \in Seq(Upward)
      /\ tickets \in [Ids -> {"none", "out", "void"}]
  BY <1>1 DEF TypeInv, SocketRecords
<1> DEFINE k == sockets[s]
           m == Head(k.up)
           rest == Tail(k.up)
<1>4. /\ m \in Upward /\ rest \in Seq(Upward) /\ SocketFits(k, ops, s) /\ k \in SocketRecords
      /\ sockets[s].page # NoPage
  BY <1>1, <1>2, <1>3, TailFacts DEF SocketsInv, SocketFits
<1>5. HeldByCurrent' /\ TicketsAdmitOnce'
  BY <1>1, <1>2 DEF HeldByCurrent, TicketsAdmitOnce
<1>6. ASSUME ops' = ops \/ \E e \in Operations : ops' = Append(ops, e),
             sockets' \in [Ids -> SocketRecords],
             \A x \in Ids : sockets'[x].authenticated = sockets[x].authenticated /\ sockets'[x].gone = sockets[x].gone
      PROVE  SeatInv'
  <2>1. \A x : Waits(ops, x, "close") => Waits(ops', x, "close")
    <3>1. CASE ops' = ops
      BY <3>1
    <3>2. CASE \E e \in Operations : ops' = Append(ops, e)
      <4>1. PICK e \in Operations : ops' = Append(ops, e)
        BY <3>2
      <4>2. \A x : Waits(ops, x, "close") => Waits(Append(ops, e), x, "close")
        BY <1>3, OpsAppend
      <4> QED  BY <4>1, <4>2
    <3> QED  BY <1>6, <3>1, <3>2
  <2> QED  BY <1>1, <1>2, <1>6, <2>1 DEF SeatInv, TypeInv
<1>7. \A x \in Ids : /\ sockets[x] \in SocketRecords /\ SocketFits(sockets[x], ops, x)
                     /\ sockets[x].page = NoPage => sockets[x].pending = "no"
  BY <1>1, <1>3 DEF SocketsInv, SocketFits
<1> DEFINE taken == [k EXCEPT !.up = rest, !.pending = "turn"]
<1>8. taken \in SocketRecords
  BY <1>4 DEF SocketRecords
<1>9. /\ taken.page = k.page /\ taken.up = rest /\ taken.down = k.down
      /\ taken.authenticated = k.authenticated /\ taken.gone = k.gone
  BY <1>4 DEF SocketRecords
<1> HIDE DEF taken
<1>10. CASE /\ m.type = "authenticate" /\ ~k.authenticated /\ tickets[m.token] = "out"
            /\ sockets' = [sockets EXCEPT ![s].up = Tail(@), ![s].pending = "turn"]
            /\ tickets' = Taken(m.token)
            /\ ops' = Append(ops, [kind |-> "connect", socket |-> s, token |-> m.token])
  <2> DEFINE e == [kind |-> "connect", socket |-> s, token |-> m.token]
  <2>1. sockets' = [sockets EXCEPT ![s] = taken]
    BY <1>3, <1>10 DEF taken
  <2>2. m.token \in Ids
    BY <1>4, <1>10 DEF Upward
  <2>3. e \in Operations /\ e.kind = "connect" /\ e.socket = s /\ e.token = m.token
    BY <2>2 DEF Operations
  <2>4. ops' = Append(ops, e)
    BY <1>10
  <2> HIDE DEF e
  <2>5. /\ tickets' \in [Ids -> {"none", "out", "void"}] /\ tickets'[m.token] = "void"
        /\ \A t \in Ids : tickets[t] = "void" => tickets'[t] = "void"
    BY <1>3, <1>10, <2>2 DEF Taken
  <2>6. opened[m.token] = 0
    BY <1>1, <1>10, <2>2 DEF TicketsInv
  <2>7. Authenticates(k.up) /\ rest = <<>> /\ ~Waits(ops, s, "connect")
    <3>1. Authenticates(k.up) /\ (Len(k.up) = 1 => rest = <<>>)
      BY <1>2, <1>3, <1>10, UpTail
    <3> QED  BY <1>4, <3>1 DEF SocketFits
  <2>8. OneConnect(ops') /\ ops' \in Seq(Operations)
    <3>1. TicketsTaken(ops, tickets, opened) /\ OneConnect(ops)
      BY <1>1 DEF TicketsInv, SocketsInv
    <3>2. tickets[e.token] # "void" /\ ~Waits(ops, e.socket, "connect")
      BY <1>10, <2>3, <2>7
    <3>3. OneConnect(Append(ops, e))
      BY <1>3, <2>3, <3>1, <3>2, OpsConnect
    <3> QED  BY <1>3, <2>3, <2>4, <3>3, AppendFacts
  <2>9. /\ sockets' \in [Ids -> SocketRecords] /\ sockets'[s] = taken
        /\ \A x \in Ids \ {s} : sockets'[x] = sockets[x]
    BY <1>3, <1>8, <2>1
  <2>10. TypeInv'
    BY <1>1, <1>2, <2>5, <2>8, <2>9 DEF TypeInv
  <2>11. TicketsInv'
    <3>1. \A i \in 1..Len(ops) : ops[i].kind = "connect" => ops[i].token \in Ids
      BY <1>3 DEF Operations
    <3>2. TicketsTaken(ops, tickets', opened)
      BY <1>1, <2>5, <3>1 DEF TicketsInv, TicketsTaken
    <3>3. TicketsTaken(Append(ops, e), tickets', opened)
      BY <1>3, <2>3, <2>5, <2>6, <3>2, OpsAppend
    <3> QED  BY <1>1, <1>2, <2>4, <2>5, <3>3 DEF TicketsInv
  <2>12. SeatInv'
    <3>1. \A x \in Ids : sockets'[x].authenticated = sockets[x].authenticated /\ sockets'[x].gone = sockets[x].gone
      BY <1>9, <2>9
    <3> QED  BY <1>6, <2>3, <2>4, <2>9, <3>1
  <2>13. \A x : x # s => Fewer(ops, ops', x)
    BY <1>3, <2>3, <2>4, FewerFacts
  <2>14. Dials(k, ops, s) /\ ~k.authenticated /\ ~Says(k.down, "authenticated")
    BY <1>4, <2>7 DEF Dials, SocketFits
  <2>15. SocketFits(taken, ops', s)
    BY <1>4, <1>9, <2>7, <2>14, UpEmpty DEF SocketFits
  <2>16. Follows(k, ops, taken, ops', s)
    <3>1. \A word : word # "connect" => (Waits(ops', s, word) => Waits(ops, s, word))
      BY <1>3, <2>3, <2>4, OpsAppend
    <3>2. OneTurn(ops, s) => OneTurn(ops', s)
      BY <1>3, <2>3, <2>4, OpsAppend
    <3>3. \A word : TurnsSay(ops, s, word) => TurnsSay(ops', s, word)
      BY <1>3, <2>3, <2>4, OpsAppend
    <3> QED  BY <1>9, <2>7, <2>14, <3>1, <3>2, <3>3, UpEmpty DEF Follows
  <2>17. \A x \in Ids : Follows(sockets[x], ops, sockets'[x], ops', x) /\ SocketFits(sockets'[x], ops', x)
    <3> SUFFICES ASSUME NEW x \in Ids
                 PROVE  Follows(sockets[x], ops, sockets'[x], ops', x) /\ SocketFits(sockets'[x], ops', x)
      OBVIOUS
    <3>1. CASE x = s
      BY <2>9, <2>15, <2>16, <3>1
    <3>2. CASE x # s
      BY <1>7, <2>9, <2>13, <3>2, FadingFollows, FadingFits DEF Shorter
    <3> QED  BY <3>1, <3>2
  <2>18. PagesInv' /\ KeysInv'
    <3>1. \A x \in Pages : Played(x)' => Played(x) /\ held' = held
      BY <1>2 DEF Played
    <3> QED  BY <1>1, <1>2, <2>17, <3>1, PagesStay
  <2>19. SocketsInv'
    BY <2>8, <2>17 DEF SocketsInv
  <2> QED  BY <1>5, <2>10, <2>11, <2>12, <2>18, <2>19 DEF ControlInv
<1>11. CASE /\ m.type = "action" /\ k.authenticated
            /\ sockets' = [sockets EXCEPT ![s].up = Tail(@), ![s].pending = "turn"]
            /\ tickets' = tickets
            /\ ops' = Append(ops, [kind |-> "action", socket |-> s, input |-> m.input])
  <2> DEFINE e == [kind |-> "action", socket |-> s, input |-> m.input]
  <2>1. sockets' = [sockets EXCEPT ![s] = taken]
    BY <1>3, <1>11 DEF taken
  <2>2. m.input \in Inputs
    BY <1>4, <1>11 DEF Upward
  <2>3. e \in Operations /\ e.kind = "action" /\ e.socket = s /\ e.input = m.input
    BY <2>2 DEF Operations
  <2>4. ops' = Append(ops, e)
    BY <1>11
  <2> HIDE DEF e
  <2>8. OneConnect(ops') /\ ops' \in Seq(Operations)
    <3>1. OneConnect(ops)
      BY <1>1 DEF SocketsInv
    <3>2. OneConnect(Append(ops, e))
      BY <1>3, <2>3, <3>1, OpsAppend
    <3> QED  BY <1>3, <2>3, <2>4, <3>2, AppendFacts
  <2>9. /\ sockets' \in [Ids -> SocketRecords] /\ sockets'[s] = taken
        /\ \A x \in Ids \ {s} : sockets'[x] = sockets[x]
    BY <1>3, <1>8, <2>1
  <2>10. TypeInv'
    BY <1>1, <1>2, <1>11, <2>8, <2>9 DEF TypeInv
  <2>11. TicketsInv'
    <3>1. TicketsTaken(Append(ops, e), tickets, opened)
      BY <1>1, <1>3, <2>3, OpsAppend DEF TicketsInv
    <3> QED  BY <1>1, <1>2, <1>11, <2>4, <3>1 DEF TicketsInv
  <2>12. SeatInv'
    <3>1. \A x \in Ids : sockets'[x].authenticated = sockets[x].authenticated /\ sockets'[x].gone = sockets[x].gone
      BY <1>9, <2>9
    <3> QED  BY <1>6, <2>3, <2>4, <2>9, <3>1
  <2>13. \A x : x # s => Fewer(ops, ops', x)
    BY <1>3, <2>3, <2>4, FewerFacts
  <2>14. ~Dials(k, ops, s)
    BY <1>4, <1>11 DEF SocketFits
  <2>15. SocketFits(taken, ops', s)
    <3>1. Waits(ops', s, "connect") => Waits(ops, s, "connect")
      BY <1>3, <2>3, <2>4, OpsAppend
    <3>2. Authenticates(rest) => Authenticates(k.up)
      BY <1>2, <1>3, UpTail
    <3> QED  BY <1>4, <1>9, <2>14, <3>1, <3>2 DEF SocketFits, Dials
  <2>16. ASSUME NEW x \in Ids \ {s}
         PROVE  Follows(sockets[x], ops, sockets'[x], ops', x) /\ SocketFits(sockets'[x], ops', x)
    BY <1>7, <2>9, <2>13, FadingFollows, FadingFits DEF Shorter
  <2>17. SocketsInv'
    BY <2>8, <2>9, <2>15, <2>16 DEF SocketsInv
  <2>18. ASSUME NEW p \in Pages
         PROVE  /\ PageFits(p, pages[p], sockets'[pages[p].socket], ops')
                /\ Played(p)' => KeysFit(pages[p], sockets'[pages[p].socket], ops', held')
    <3>1. pages[p] \in PageRecords /\ PageFits(p, pages[p], sockets[pages[p].socket], ops)
      BY <1>1, <1>3 DEF PagesInv
    <3>2. Played(p)' => Played(p) /\ pages[p].calm
      BY <1>2 DEF Played
    <3>3. CASE pages[p].socket = s
      <4>1. s # None
        BY DEF None, Ids
      <4>2. /\ PageFits(p, pages[p], taken, Append(ops, e))
            /\ pages[p].calm /\ KeysFit(pages[p], k, ops, held) => KeysFit(pages[p], taken, Append(ops, e), held)
        BY <1>2, <1>3, <1>4, <1>9, <1>11, <2>3, <3>1, <3>3, <4>1, ArrivedFits
      <4>3. Played(p) => KeysFit(pages[p], k, ops, held)
        BY <1>1, <3>3 DEF KeysInv
      <4> QED  BY <1>2, <2>4, <2>9, <3>2, <3>3, <4>2, <4>3
    <3>4. CASE pages[p].socket # s
      <4>1. pages[p].socket \in Ids =>
               Follows(sockets[pages[p].socket], ops, sockets'[pages[p].socket], ops', pages[p].socket)
        BY <2>16, <3>4
      <4> QED  BY <1>1, <1>2, <3>2, <4>1, PageStays
    <3> QED  BY <3>3, <3>4
  <2>19. PagesInv' /\ KeysInv'
    BY <1>2, <2>18 DEF PagesInv, KeysInv
  <2> QED  BY <1>5, <2>10, <2>11, <2>12, <2>17, <2>19 DEF ControlInv
<1>12. CASE /\ sockets' = [sockets EXCEPT ![s].up = Tail(@), ![s].down = @ \o Say(s, "error")]
            /\ UNCHANGED <<tickets, ops>>
  <2> DEFINE down == sockets[s].down \o Say(s, "error")
             new == [k EXCEPT !.up = rest, !.down = down]
  <2>3. sockets' = [sockets EXCEPT ![s] = new]
    BY <1>3, <1>12
  <2>4. "error" \in Downward /\ "error" # "ack" /\ "error" # "authenticated"
    BY DEF Downward
  <2>5. /\ down \in Seq(Downward)
        /\ \A word : Says(down, word) => Says(sockets[s].down, word) \/ word = "error"
        /\ OneAck(sockets[s].down) => OneAck(down)
    BY <1>1, <2>4, SayFacts
  <2> HIDE DEF down
  <2>6. new \in SocketRecords
    BY <1>4, <2>5 DEF SocketRecords
  <2>7. /\ new.page = k.page /\ new.up = rest /\ new.down = down
        /\ new.authenticated = k.authenticated /\ new.gone = k.gone
    BY <1>4 DEF SocketRecords
  <2> HIDE DEF new
  <2>9. /\ sockets' \in [Ids -> SocketRecords] /\ sockets'[s] = new
        /\ \A x \in Ids \ {s} : sockets'[x] = sockets[x]
    BY <1>3, <2>3, <2>6
  <2>10. SeatInv'
    <3>1. \A x \in Ids : sockets'[x].authenticated = sockets[x].authenticated /\ sockets'[x].gone = sockets[x].gone
      BY <2>7, <2>9
    <3> QED  BY <1>6, <1>12, <2>9, <3>1
  <2>12. TypeInv'
    BY <1>1, <1>2, <1>12, <2>9 DEF TypeInv
  <2>13. TicketsInv'
    BY <1>1, <1>2, <1>12 DEF TicketsInv
  <2>14. \A x \in Ids : Follows(sockets[x], ops, sockets'[x], ops', x) /\ SocketFits(sockets'[x], ops', x)
    <3> SUFFICES ASSUME NEW x \in Ids
                 PROVE  Follows(sockets[x], ops, sockets'[x], ops', x) /\ SocketFits(sockets'[x], ops', x)
      OBVIOUS
    <3>1. Fewer(ops, ops', x)
      BY <1>3, <1>12, FewerFacts
    <3>2. CASE x = s
      BY <1>2, <1>4, <1>7, <2>4, <2>5, <2>7, <2>9, <3>1, <3>2, FadingFollows, FadingFits DEF Shorter
    <3>3. CASE x # s
      BY <1>7, <2>9, <3>1, <3>3, FadingFollows, FadingFits DEF Shorter
    <3> QED  BY <3>2, <3>3
  <2>16. SocketsInv'
    BY <1>1, <1>12, <2>14 DEF SocketsInv
  <2>19. PagesInv' /\ KeysInv'
    <3>1. \A x \in Pages : Played(x)' => Played(x) /\ held' = held
      BY <1>2 DEF Played
    <3> QED  BY <1>1, <1>2, <2>14, <3>1, PagesStay
  <2> QED  BY <1>5, <2>10, <2>12, <2>13, <2>16, <2>19 DEF ControlInv
<1>13. \/ /\ m.type = "authenticate" /\ ~k.authenticated /\ tickets[m.token] = "out"
          /\ sockets' = [sockets EXCEPT ![s].up = Tail(@), ![s].pending = "turn"]
          /\ tickets' = Taken(m.token)
          /\ ops' = Append(ops, [kind |-> "connect", socket |-> s, token |-> m.token])
       \/ /\ m.type = "action" /\ k.authenticated
          /\ sockets' = [sockets EXCEPT ![s].up = Tail(@), ![s].pending = "turn"]
          /\ tickets' = tickets
          /\ ops' = Append(ops, [kind |-> "action", socket |-> s, input |-> m.input])
       \/ /\ sockets' = [sockets EXCEPT ![s].up = Tail(@), ![s].down = @ \o Say(s, "error")]
          /\ UNCHANGED <<tickets, ops>>
  BY Zenon DEF Receive
<1> QED  BY <1>10, <1>11, <1>12, <1>13

(***************************************************************************)
(* The page sends: what it wants is what its last input says.              *)
(***************************************************************************)
LEMMA SentFits ==
    ASSUME NEW k \in SocketRecords, NEW q, NEW s, NEW up, NEW input \in Inputs, NEW word,
           up = k.up \o <<[type |-> "action", input |-> input]>>
    PROVE  /\ up \in Seq(Upward)
           /\ Authenticates(up) => Authenticates(k.up)
           /\ Quiet(k, q, s) => /\ OneAct(up)
                                /\ input = word => ActsSay(up, word)
           /\ up # <<>>
<1> DEFINE m == [type |-> "action", input |-> input]
<1>1. m \in Upward /\ m.type = "action" /\ m.input = input
  BY DEF Upward
<1>2. k.up \in Seq(Upward)
  BY DEF SocketRecords
<1> HIDE DEF m
<1>3. up = k.up \o <<m>>
  BY DEF m
<1>4. up = Append(k.up, m) /\ up \in Seq(Upward) /\ up # <<>>
  BY <1>1, <1>2, <1>3, AppendFacts
<1>5. Authenticates(up) => Authenticates(k.up)
  BY <1>1, <1>2, <1>4, UpAppend
<1>6. ~Acts(k.up) => OneAct(up) /\ (input = word => ActsSay(up, word))
  <2>1. ~Acts(k.up) => OneAct(Append(k.up, m))
    BY <1>1, <1>2, UpAppend
  <2>2. \A w : ~Acts(k.up) /\ m.type = "action" /\ m.input = w => ActsSay(Append(k.up, m), w)
    BY <1>1, <1>2, UpAppend
  <2> QED  BY <1>1, <1>4, <2>1, <2>2
<1> QED  BY <1>4, <1>5, <1>6 DEF Quiet

\* The last input of a queue stays the last one.
LEMMA LastInput ==
    ASSUME NEW q \in Seq(Inputs), q # <<>>
    PROVE  /\ Tail(q) # <<>> => Tail(q)[Len(Tail(q))] = q[Len(q)]
           /\ Tail(q) = <<>> => Head(q) = q[Len(q)]
<1>1. /\ Len(Tail(q)) = Len(q) - 1 /\ Len(q) \in Nat \ {0} /\ Head(q) = q[1] /\ Tail(q) \in Seq(Inputs)
      /\ \A i \in 1..Len(Tail(q)) : Tail(q)[i] = q[i + 1]
  BY TailFacts
<1>2. ASSUME Tail(q) # <<>> PROVE Tail(q)[Len(Tail(q))] = q[Len(q)]
  <2>1. Len(Tail(q)) \in 1..Len(Tail(q)) /\ Len(Tail(q)) + 1 = Len(q)
    BY <1>1, <1>2
  <2> QED  BY <1>1, <2>1
<1>3. ASSUME Tail(q) = <<>> PROVE Head(q) = q[Len(q)]
  <2> DEFINE n == Len(q)
             rest == Len(Tail(q))
  <2>1. Len(<<>>) = 0
    OBVIOUS
  <2>2. rest = 0
    BY <1>3, <2>1, Zenon
  <2>3. rest = n - 1 /\ n \in Nat /\ Head(q) = q[1]
    BY <1>1
  <2>4. Len(q) = n
    OBVIOUS
  <2> HIDE DEF n, rest
  <2>5. n = 1
    BY <2>2, <2>3
  <2> QED  BY <2>3, <2>4, <2>5, Zenon
<1> QED  BY <1>2, <1>3

(***************************************************************************)
(* flush, of a page that has no input in flight: it becomes g.             *)
(***************************************************************************)
LEMMA SentPage ==
    ASSUME NEW p, NEW q \in Seq(Inputs), q # <<>>, NEW k \in SocketRecords, NEW waiting,
           NEW new, NEW g,
           g.socket # None, g.state = "connected", g.flying,
           k.page = p, ~Dials(k, waiting, g.socket),
           g.calm => Quiet(k, waiting, g.socket) /\ Alone(k, waiting, g.socket),
           new.page = k.page, new.down = k.down,
           new.up = k.up \o <<[type |-> "action", input |-> Head(q)]>>
    PROVE  /\ new.up \in Seq(Upward) /\ (Authenticates(new.up) => Authenticates(k.up))
           /\ \A word : Quiet(k, waiting, g.socket) /\ Head(q) = word => ActsSay(new.up, word)
           /\ PageFits(p, g, new, waiting)
<1> DEFINE s == g.socket
           sent == new.up
<1>1. Head(q) \in Inputs
  BY TailFacts
<1>2. /\ sent \in Seq(Upward) /\ (Authenticates(sent) => Authenticates(k.up))
      /\ \A word : Quiet(k, waiting, s) => OneAct(sent) /\ (Head(q) = word => ActsSay(sent, word))
  <2> HIDE DEF s, sent
  <2>1. sent = k.up \o <<[type |-> "action", input |-> Head(q)]>>
    BY DEF sent
  <2> QED  BY <1>1, <2>1, SentFits
<1>3. ~Dials(new, waiting, s)
  BY <1>2 DEF Dials
<1>4. g.calm => Alone(new, waiting, s)
  BY <1>2 DEF Alone, Quiet
<1>5. PageFits(p, g, new, waiting)
  BY <1>3, <1>4 DEF PageFits
<1> QED  BY <1>2, <1>5

LEMMA SendFits ==
    ASSUME NEW p, NEW q \in Seq(Inputs), q # <<>>, NEW k \in SocketRecords, NEW waiting,
           NEW new, NEW g, NEW now,
           g.socket # None, g.state = "connected", g.flying, g.queue = Tail(q),
           k.page = p, ~Dials(k, waiting, g.socket),
           g.calm => Quiet(k, waiting, g.socket) /\ Alone(k, waiting, g.socket),
           new.page = k.page, new.down = k.down,
           new.up = k.up \o <<[type |-> "action", input |-> Head(q)]>>,
           g.intent # "none" => q[Len(q)] = g.intent
    PROVE  /\ Authenticates(new.up) => Authenticates(k.up)
           /\ PageFits(p, g, new, waiting)
           /\ g.calm => KeysFit(g, new, waiting, now)
<1> DEFINE s == g.socket
           word == g.intent
<1>1. /\ Authenticates(new.up) => Authenticates(k.up)
      /\ \A w : Quiet(k, waiting, s) /\ Head(q) = w => ActsSay(new.up, w)
      /\ PageFits(p, g, new, waiting)
  BY SentPage
<1>2. ASSUME g.calm, word # "none"
      PROVE  KeysFit(g, new, waiting, now)
  <2>1. g.queue # <<>> => g.queue[Len(g.queue)] = word
    <3>1. Tail(q) # <<>> => Tail(q)[Len(Tail(q))] = word
      BY <1>2, LastInput, Zenon
    <3> QED  BY <3>1, Zenon
  <2>2. g.queue = <<>> => Head(q) = word
    <3>1. Tail(q) = <<>> => Head(q) = word
      BY <1>2, LastInput, Zenon
    <3> QED  BY <3>1, Zenon
  <2>3. TurnsSay(waiting, s, word)
    BY <1>2 DEF Quiet, Waits, TurnsSay
  <2>4. ~Says(new.down, "ack")
    BY <1>2 DEF Quiet
  <2> QED  BY <1>1, <1>2, <2>1, <2>2, <2>3, <2>4 DEF KeysFit
<1>3. g.calm => KeysFit(g, new, waiting, now)
  BY <1>2 DEF KeysFit
<1> QED  BY <1>1, <1>3

(***************************************************************************)
(* A page and its own socket.                                              *)
(***************************************************************************)
LEMMA PageActs ==
    ASSUME ControlBounds, ControlInv, NEW p \in Pages, NEW g \in PageRecords, NEW j \in SocketRecords,
           NEW s \in Ids, s = pages[p].socket, g.socket = s, Len(g.queue) <= MaxQueue,
           pages' = [pages EXCEPT ![p] = g], sockets' = [sockets EXCEPT ![s] = j],
           UNCHANGED Host, UNCHANGED lapsed,
           j.authenticated = sockets[s].authenticated, j.gone = sockets[s].gone, j.page = sockets[s].page,
           SocketFits(j, ops, s), PageFits(p, g, j, ops),
           g.state = "connected" /\ g.calm /\ s = control /\ match = "playing" => KeysFit(g, j, ops, held)
    PROVE  ControlInv'
<1>1. TypeInv /\ SocketsInv /\ SeatInv /\ PagesInv /\ KeysInv
  BY DEF ControlInv
<1>2. UNCHANGED <<tickets, ops, control, held, match, opened, lapsed>>
  BY DEF Host
<1>3. /\ sockets \in [Ids -> SocketRecords] /\ pages \in [Pages -> PageRecords]
  BY <1>1 DEF TypeInv
<1>4. /\ sockets' \in [Ids -> SocketRecords] /\ sockets'[s] = j
      /\ \A x \in Ids \ {s} : sockets'[x] = sockets[x]
  BY <1>3
<1>5. /\ pages' \in [Pages -> PageRecords] /\ pages'[p] = g
      /\ \A x \in Pages \ {p} : pages'[x] = pages[x]
  BY <1>3
<1>6. TypeInv'
  <2>1. \A x \in Pages : Len(pages'[x].queue) <= MaxQueue
    BY <1>1, <1>5 DEF TypeInv
  <2> QED  BY <1>1, <1>2, <1>4, <1>5, <2>1 DEF TypeInv
<1>7. SocketsInv'
  BY <1>1, <1>2, <1>4 DEF SocketsInv
<1>8. SeatInv'
  BY <1>1, <1>2, <1>4 DEF SeatInv, TypeInv
<1>9. PageFits(p, pages[p], sockets[s], ops)
  BY <1>1 DEF PagesInv
<1>10. \A x \in Pages \ {p} : pages[x].socket \in Ids =>
          Follows(sockets[pages[x].socket], ops, sockets'[pages[x].socket], ops', pages[x].socket)
  <2> SUFFICES ASSUME NEW x \in Pages \ {p}, pages[x].socket \in Ids
               PROVE  Follows(sockets[pages[x].socket], ops, sockets'[pages[x].socket], ops', pages[x].socket)
    OBVIOUS
  <2>1. sockets[pages[x].socket].page = x
    BY <1>1 DEF PagesInv, PageFits, None, Ids
  <2>2. sockets[s].page = p
    BY <1>9 DEF PageFits, None, Ids
  <2>3. pages[x].socket # s
    BY <2>1, <2>2
  <2> QED  BY <1>2, <1>4, <2>3, SameFollows
<1>11. Played(p)' => KeysFit(g, j, ops, held)
  BY <1>2, <1>5 DEF Played
<1>12. PagesInv' /\ KeysInv'
  BY <1>1, <1>2, <1>4, <1>10, <1>11, PagesFit
<1> QED  BY <1>6, <1>7, <1>8, <1>12, HostStays DEF ControlInv

LEMMA SubmitKeeps ==
    ASSUME ControlBounds, ControlInv, NEW p \in Pages, NEW i \in Inputs, Submit(p, i)
    PROVE  ControlInv'
<1>1. TypeInv /\ SocketsInv /\ SeatInv /\ PagesInv /\ KeysInv
  BY DEF ControlInv
<1>2. UNCHANGED Host /\ UNCHANGED lapsed /\ pages[p].state = "connected"
  BY DEF Submit
<1> DEFINE s == pages[p].socket
           k == sockets[s]
           q == Append(pages[p].queue, i)
           intent == IF i = "tap" THEN "none" ELSE i
           goes == ~pages[p].flying /\ q # <<>> /\ pages[p].observed /\ k.open
           kept == IF goes THEN Tail(q) ELSE q
           flies == pages[p].flying \/ goes
           g == [pages[p] EXCEPT !.queue = kept, !.flying = flies, !.intent = intent]
           up == IF goes THEN k.up \o <<[type |-> "action", input |-> Head(q)]>> ELSE k.up
           j == [k EXCEPT !.up = up]
<1>3. /\ pages \in [Pages -> PageRecords] /\ pages[p] \in PageRecords /\ pages[p].queue \in Seq(Inputs)
      /\ sockets \in [Ids -> SocketRecords] /\ pages[p].flying \in BOOLEAN
  BY <1>1 DEF TypeInv, PageRecords
<1>4. PageFits(p, pages[p], k, ops)
  BY <1>1 DEF PagesInv
<1>5. /\ s \in Ids /\ k \in SocketRecords /\ k.up \in Seq(Upward) /\ SocketFits(k, ops, s)
  BY <1>1, <1>2, <1>3, <1>4 DEF PageFits, PageRecords, SocketRecords, SocketsInv
<1>6. s # None /\ k.page = p /\ ~Dials(k, ops, s) /\ p # NoPage
  BY <1>2, <1>4, <1>5 DEF PageFits, None, Ids, ControlBounds
<1>7. CASE Len(pages[p].queue) >= MaxQueue
  <2>1. sockets' = Shut(s) /\ pages' = pages
    BY <1>7 DEF Submit
  <2>2. TypeInv'
    BY <1>1, <1>2, <1>5, <2>1, ShutFacts DEF TypeInv, Host
  <2>3. UNCHANGED <<ops, control, held, match>>
    BY <1>2 DEF Host
  <2>4. SocketsInv' /\ SeatInv' /\ \A x \in Ids : Follows(sockets[x], ops, sockets'[x], ops', x)
    BY <1>1, <1>5, <2>1, <2>2, <2>3, ShutFacts, SocketsStay DEF TypeInv
  <2>5. \A x \in Pages : Played(x)' => Played(x) /\ held' = held
    BY <2>1, <2>3 DEF Played
  <2>6. PagesInv' /\ KeysInv'
    BY <1>1, <2>1, <2>4, <2>5, PagesStay
  <2> QED  BY <1>2, <2>2, <2>4, <2>6, HostStays DEF ControlInv
<1>8. CASE ~(Len(pages[p].queue) >= MaxQueue)
  <2>1. q \in Seq(Inputs) /\ Len(q) = Len(pages[p].queue) + 1 /\ q # <<>> /\ q[Len(q)] = i
        /\ Len(pages[p].queue) \in Nat
    BY <1>3, AppendFacts
  <2>2. Tail(q) \in Seq(Inputs) /\ Head(q) \in Inputs /\ Len(Tail(q)) = Len(q) - 1
    BY <2>1, TailFacts
  <2> DEFINE f == Flushed(p, q, pages[p].flying)
  <2>3. /\ f.page = [pages[p] EXCEPT !.queue = kept, !.flying = flies]
        /\ f.up = IF goes THEN <<[type |-> "action", input |-> Head(q)]>> ELSE <<>>
    BY DEF Flushed
  <2>4. /\ pages' = [pages EXCEPT ![p] = [f.page EXCEPT !.intent = intent]]
        /\ sockets' = [sockets EXCEPT ![s].up = @ \o f.up]
    BY <1>8 DEF Submit
  <2> HIDE DEF f, q
  <2>5. k.up \o f.up = up
    <3>1. k.up \o <<>> = k.up
      BY <1>5
    <3> HIDE DEF goes
    <3>2. CASE goes
      <4>1. f.up = <<[type |-> "action", input |-> Head(q)]>>
        BY <2>3, <3>2
      <4> QED  BY <3>2, <4>1
    <3>3. CASE ~goes
      <4>1. f.up = <<>>
        BY <2>3, <3>3
      <4> QED  BY <3>1, <3>3, <4>1
    <3> QED  BY <3>2, <3>3
  <2>6. kept \in Seq(Inputs) /\ flies \in BOOLEAN /\ intent \in {"none", "hold", "release"}
        /\ Len(kept) <= MaxQueue
    BY <1>3, <1>8, <2>1, <2>2 DEF Inputs, ControlBounds
  <2> HIDE DEF kept, flies, intent
  <2>7. pages' = [pages EXCEPT ![p] = g]
    BY <1>3, <2>3, <2>4 DEF PageRecords
  <2>8. g \in PageRecords
    BY <1>3, <2>6 DEF PageRecords
  <2>9. /\ g.socket = s /\ g.state = "connected" /\ g.calm = pages[p].calm /\ g.queue = kept
        /\ g.intent = intent
    BY <1>2, <1>3 DEF PageRecords
  <2>10. g.flying <=> flies
    BY <1>3 DEF PageRecords
  <2>11. sockets' = [sockets EXCEPT ![s] = j]
    BY <1>3, <1>5, <2>4, <2>5
  <2> HIDE DEF g
  <2>12. CASE goes
    <3>1. up = k.up \o <<[type |-> "action", input |-> Head(q)]>> /\ kept = Tail(q) /\ flies /\ ~pages[p].flying
      BY <2>12 DEF kept, flies
    <3> HIDE DEF up, goes
    <3>2. up \in Seq(Upward)
      BY <1>5, <2>2, <3>1, SentFits
    <3>3. j \in SocketRecords
      BY <1>5, <3>2 DEF SocketRecords
    <3>4. /\ j.up = up /\ j.page = k.page /\ j.down = k.down
          /\ j.authenticated = k.authenticated /\ j.gone = k.gone
      BY <1>5 DEF SocketRecords
    <3> HIDE DEF j
    <3>5. g.calm => Quiet(k, ops, s) /\ Alone(k, ops, s)
      BY <1>4, <1>6, <2>9, <3>1 DEF PageFits
    <3>6. g.intent # "none" => q[Len(q)] = g.intent
      BY <2>1, <2>9 DEF intent
    <3>7. /\ (Authenticates(j.up) => Authenticates(k.up))
          /\ PageFits(p, g, j, ops)
          /\ g.calm => KeysFit(g, j, ops, held)
      <4> HIDE DEF k, s
      <4>1. k \in SocketRecords /\ g.socket # None /\ ~Dials(k, ops, g.socket)
        BY <1>5, <1>6, <2>9
      <4>2. g.flying /\ g.queue = Tail(q) /\ g.state = "connected" /\ k.page = p
        BY <1>6, <2>9, <2>10, <3>1
      <4>3. g.calm => Quiet(k, ops, g.socket) /\ Alone(k, ops, g.socket)
        BY <2>9, <3>5
      <4>4. j.up = k.up \o <<[type |-> "action", input |-> Head(q)]>>
        BY <3>1, <3>4
      <4> QED  BY <2>1, <3>4, <3>6, <4>1, <4>2, <4>3, <4>4, SendFits
    <3>8. SocketFits(j, ops, s)
      BY <1>5, <1>6, <3>4, <3>7 DEF SocketFits, Dials
    <3> QED  BY <1>2, <1>5, <1>6, <2>6, <2>7, <2>8, <2>9, <2>11, <3>3, <3>4, <3>7, <3>8, PageActs
  <2>13. CASE ~goes
    <3>1. up = k.up /\ kept = q /\ (flies <=> pages[p].flying)
      BY <2>13 DEF kept, flies
    <3> HIDE DEF up, goes
    <3>3. j \in SocketRecords
      BY <1>5, <3>1 DEF SocketRecords
    <3>4. /\ j.up = up /\ j.page = k.page /\ j.down = k.down /\ j.pending = k.pending
          /\ j.authenticated = k.authenticated /\ j.gone = k.gone
      BY <1>5 DEF SocketRecords
    <3> HIDE DEF j
    <3>5. PageFits(p, g, j, ops)
      BY <1>2, <1>4, <1>6, <2>9, <2>10, <3>1, <3>4 DEF PageFits, Alone, Quiet, Dials
    <3>6. KeysFit(g, j, ops, held)
      BY <2>1, <2>9, <3>1 DEF KeysFit, intent
    <3>7. SocketFits(j, ops, s)
      BY <1>5, <3>1, <3>4 DEF SocketFits, Dials
    <3> QED  BY <1>2, <1>5, <1>6, <2>6, <2>7, <2>8, <2>9, <2>11, <3>3, <3>4, <3>5, <3>6, <3>7, PageActs
  <2> QED  BY <2>12, <2>13
<1> QED  BY <1>7, <1>8

LEMMA HearKeeps ==
    ASSUME ControlBounds, ControlInv, NEW p \in Pages, Hear(p)
    PROVE  ControlInv'
<1>1. TypeInv /\ SocketsInv /\ SeatInv /\ PagesInv /\ KeysInv
  BY DEF ControlInv
<1> DEFINE page == pages[p]
           s == page.socket
           k == sockets[s]
           type == Head(k.down)
           done == Flushed(p, page.queue, FALSE)
           open == k.open /\ (type = "error" => page.state = "connected")
<1>2. UNCHANGED Host /\ UNCHANGED lapsed /\ s # None /\ k.down # <<>>
  BY DEF Hear
<1>3. /\ pages \in [Pages -> PageRecords] /\ page \in PageRecords /\ page.queue \in Seq(Inputs)
      /\ sockets \in [Ids -> SocketRecords] /\ page.flying \in BOOLEAN /\ Len(page.queue) <= MaxQueue
      /\ ops \in Seq(Operations)
  BY <1>1 DEF TypeInv, PageRecords
<1>4. PageFits(p, page, k, ops)
  BY <1>1 DEF PagesInv
<1>5. /\ s \in Ids /\ k \in SocketRecords /\ k.up \in Seq(Upward) /\ SocketFits(k, ops, s)
      /\ k.down \in Seq(Downward)
  BY <1>1, <1>2, <1>3 DEF PageRecords, SocketRecords, SocketsInv
<1>6. k.page = p /\ p # NoPage
  BY <1>2, <1>4 DEF PageFits, ControlBounds
<1>7. Played(p) => KeysFit(page, k, ops, held)
  BY <1>1 DEF KeysInv
<1> DEFINE down == Tail(k.down)
<1>8. /\ down \in Seq(Downward) /\ type \in Downward /\ Says(k.down, type)
      /\ \A word : Says(down, word) => Says(k.down, word)
      /\ OneAck(k.down) => OneAck(down) /\ (type = "ack" => ~Says(down, "ack"))
  BY <1>2, <1>5, DownTail, TailFacts
<1>9. open \in BOOLEAN
  BY <1>5 DEF SocketRecords
<1>10. /\ pages' = [pages EXCEPT ![p] =
             CASE type = "authenticated" -> [page EXCEPT !.state = "connected"]
               [] type = "observation" -> [page EXCEPT !.observed = TRUE]
               [] type = "ack" -> done.page
               [] type = "error" -> Refused(page)]
       /\ sockets' = [sockets EXCEPT ![s].down = Tail(@),
                                     ![s].up = @ \o IF type = "ack" THEN done.up ELSE <<>>,
                                     ![s].open = @ /\ (type = "error" => page.state = "connected")]
  BY DEF Hear
<1>11. k.up \o <<>> = k.up
  BY <1>5
<1>12. Fewer(ops, ops, s)
  BY <1>3, FewerFacts
<1> HIDE DEF open
<1>13. CASE type # "ack"
  <2> DEFINE j == [k EXCEPT !.down = down, !.open = open]
  <2>1. sockets' = [sockets EXCEPT ![s] = j]
    <3>1. (IF type = "ack" THEN done.up ELSE <<>>) = <<>>
      BY <1>13
    <3> HIDE DEF type, done
    <3>2. sockets' = [sockets EXCEPT ![s] = [k EXCEPT !.down = down, !.up = k.up, !.open = open]]
      BY <1>3, <1>5, <1>10, <1>11, <3>1 DEF open
    <3>3. [k EXCEPT !.down = down, !.up = k.up, !.open = open] = j
      BY <1>5 DEF SocketRecords
    <3> QED  BY <3>2, <3>3
  <2> HIDE DEF down
  <2>2. j \in SocketRecords
    BY <1>5, <1>8, <1>9 DEF SocketRecords
  <2>3. /\ j.up = k.up /\ j.page = k.page /\ j.down = down /\ j.pending = k.pending
        /\ j.authenticated = k.authenticated /\ j.gone = k.gone
    BY <1>5 DEF SocketRecords
  <2> HIDE DEF j
  <2>4. Follows(k, ops, j, ops, s)
    BY <1>5, <1>8, <1>12, <2>3, FadingFollows DEF Shorter
  <2>5. SocketFits(j, ops, s)
    BY <1>5, <1>6, <1>8, <1>12, <2>3, FadingFits DEF Shorter
  <2>6. CASE type = "authenticated"
    <3> DEFINE g == [page EXCEPT !.state = "connected"]
    <3>1. pages' = [pages EXCEPT ![p] = g]
      BY <1>3, <1>10, <2>6
    <3>2. g \in PageRecords
      BY <1>3 DEF PageRecords
    <3>3. /\ g.socket = s /\ g.calm = page.calm /\ g.queue = page.queue /\ g.state = "connected"
          /\ g.intent = page.intent /\ (g.flying <=> page.flying)
      BY <1>3 DEF PageRecords
    <3> HIDE DEF g
    <3>4. ~Dials(j, ops, s)
      BY <1>5, <1>8, <2>4, <2>6 DEF SocketFits, Follows
    <3>5. PageFits(p, g, j, ops)
      BY <1>2, <1>4, <1>6, <2>3, <2>4, <3>3, <3>4 DEF PageFits, Follows, Alone, Quiet
    <3>6. g.calm /\ s = control /\ match = "playing" => KeysFit(g, j, ops, held)
      <4>1. CASE page.state = "connected"
        BY <1>7, <2>4, <3>3, <4>1 DEF Played, KeysFit, Follows
      <4>2. CASE page.state # "connected"
        BY <1>4, <3>3, <4>2 DEF KeysFit, PageFits
      <4> QED  BY <4>1, <4>2
    <3> QED  BY <1>2, <1>3, <1>5, <2>1, <2>2, <2>3, <2>5, <3>1, <3>2, <3>3, <3>5, <3>6, PageActs
  <2>7. CASE type = "observation"
    <3> DEFINE g == [page EXCEPT !.observed = TRUE]
    <3>1. pages' = [pages EXCEPT ![p] = g]
      BY <1>3, <1>10, <2>7
    <3>2. g \in PageRecords
      BY <1>3 DEF PageRecords
    <3>3. /\ g.socket = s /\ g.calm = page.calm /\ g.queue = page.queue /\ g.state = page.state
          /\ g.intent = page.intent /\ (g.flying <=> page.flying)
      BY <1>3 DEF PageRecords
    <3> HIDE DEF g
    <3>5. PageFits(p, g, j, ops)
      BY <1>2, <1>4, <1>6, <2>3, <2>4, <3>3 DEF PageFits, Follows, Alone, Quiet
    <3>6. g.state = "connected" /\ g.calm /\ s = control /\ match = "playing" => KeysFit(g, j, ops, held)
      BY <1>7, <2>4, <3>3 DEF Played, KeysFit, Follows
    <3> QED  BY <1>2, <1>3, <1>5, <2>1, <2>2, <2>3, <2>5, <3>1, <3>2, <3>3, <3>5, <3>6, PageActs
  <2>8. CASE type = "error"
    <3> DEFINE g == Refused(page)
    <3>1. pages' = [pages EXCEPT ![p] = g]
      BY <1>3, <1>10, <2>8
    <3>0. <<>> \in Seq(Inputs)
      OBVIOUS
    <3>2. g \in PageRecords
      BY <1>3, <3>0 DEF PageRecords, Refused
    <3>3. /\ g.socket = s /\ ~g.calm /\ g.queue = <<>> /\ g.state = page.state
          /\ g.intent = "none" /\ ~g.flying
      BY <1>3 DEF PageRecords, Refused
    <3> HIDE DEF g
    <3>4. g.flying = FALSE
      BY <3>2, <3>3 DEF PageRecords
    <3>5. PageFits(p, g, j, ops)
      BY <1>2, <1>4, <1>6, <2>3, <2>4, <3>3, <3>4 DEF PageFits, Follows
    <3>6. Len(g.queue) <= MaxQueue
      BY <3>3 DEF ControlBounds
    <3> QED  BY <1>2, <1>3, <1>5, <2>1, <2>2, <2>3, <2>5, <3>1, <3>2, <3>3, <3>5, <3>6, PageActs
  <2> QED  BY <1>8, <1>13, <2>6, <2>7, <2>8 DEF Downward
<1>14. CASE type = "ack"
  <2> DEFINE q == page.queue
             goes == q # <<>> /\ page.observed /\ k.open
             g == [page EXCEPT !.queue = IF goes THEN Tail(q) ELSE q, !.flying = goes]
             up == IF goes THEN k.up \o <<[type |-> "action", input |-> Head(q)]>> ELSE k.up
             j == [k EXCEPT !.down = down, !.up = up, !.open = open]
  <2>1. page.calm => Quiet([k EXCEPT !.down = down], ops, s)
    <3>1. page.calm => Alone(k, ops, s) /\ Says(k.down, "ack")
      BY <1>2, <1>4, <1>8, <1>14 DEF PageFits
    <3>2. [k EXCEPT !.down = down].up = k.up /\ [k EXCEPT !.down = down].down = down
      BY <1>5 DEF SocketRecords
    <3> HIDE DEF down
    <3> QED  BY <1>8, <1>14, <3>1, <3>2 DEF Alone, Quiet
  <2>2. /\ done.page = [page EXCEPT !.queue = IF goes THEN Tail(q) ELSE q, !.flying = goes]
        /\ done.up = IF goes THEN <<[type |-> "action", input |-> Head(q)]>> ELSE <<>>
    BY DEF Flushed
  <2>3. pages' = [pages EXCEPT ![p] = g]
    BY <1>3, <1>10, <1>14, <2>2
  <2>4. k.up \o done.up = up
    <3> HIDE DEF goes
    <3>2. CASE goes
      <4>1. done.up = <<[type |-> "action", input |-> Head(q)]>>
        BY <2>2, <3>2
      <4> QED  BY <3>2, <4>1
    <3>3. CASE ~goes
      <4>1. done.up = <<>>
        BY <2>2, <3>3
      <4> QED  BY <1>11, <3>3, <4>1
    <3> QED  BY <3>2, <3>3
  <2>5. sockets' = [sockets EXCEPT ![s] = j]
    <3>1. (IF type = "ack" THEN done.up ELSE <<>>) = done.up
      BY <1>14
    <3> HIDE DEF type, done, up
    <3> QED  BY <1>3, <1>5, <1>10, <2>4, <3>1 DEF open
  <2>6. /\ q # <<>> => Tail(q) \in Seq(Inputs) /\ Head(q) \in Inputs /\ Len(Tail(q)) = Len(q) - 1
        /\ Len(q) \in Nat
    BY <1>3, TailFacts
  <2> HIDE DEF down
  <2>7. /\ j.page = k.page /\ j.down = down /\ j.pending = k.pending /\ j.up = up
        /\ j.authenticated = k.authenticated /\ j.gone = k.gone
    BY <1>5 DEF SocketRecords
  <2>8. CASE goes
    <3>1. up = k.up \o <<[type |-> "action", input |-> Head(q)]>> /\ q # <<>>
          /\ g = [page EXCEPT !.queue = Tail(q), !.flying = TRUE]
      BY <2>8
    <3> HIDE DEF up, goes, g
    <3>2. up \in Seq(Upward)
      BY <1>5, <2>6, <3>1, SentFits
    <3>3. j \in SocketRecords
      BY <1>5, <1>8, <1>9, <3>2 DEF SocketRecords
    <3>4. g \in PageRecords
      BY <1>3, <2>6, <3>1 DEF PageRecords
    <3>5. /\ g.socket = s /\ g.calm = page.calm /\ g.queue = Tail(q) /\ g.state = page.state
          /\ g.intent = page.intent /\ g.flying
      BY <1>3, <3>1 DEF PageRecords
    <3> HIDE DEF j
    <3>6. page.state = "connected"
      BY <1>4, <3>1 DEF PageFits
    <3> DEFINE heard == [k EXCEPT !.down = down]
    <3>7. heard \in SocketRecords /\ heard.up = k.up /\ heard.page = k.page /\ heard.down = down
      BY <1>5, <1>8 DEF SocketRecords
    <3>8. ~Dials(heard, ops, s)
      BY <1>2, <1>4, <3>6, <3>7 DEF PageFits, Dials
    <3>9. g.calm => Quiet(heard, ops, s) /\ Alone(heard, ops, s)
      <4>1. page.calm => Alone(k, ops, s)
        BY <1>2, <1>4 DEF PageFits
      <4> QED  BY <1>8, <2>1, <3>5, <3>7, <4>1 DEF Alone, Quiet
    <3>10. page.calm /\ s = control /\ match = "playing" /\ page.intent # "none" => q[Len(q)] = page.intent
      BY <1>7, <3>1, <3>6 DEF Played, KeysFit
    <3> HIDE DEF heard
    <3>11. /\ (Authenticates(j.up) => Authenticates(k.up))
           /\ PageFits(p, g, j, ops)
           /\ page.calm /\ s = control /\ match = "playing" => KeysFit(g, j, ops, held)
      <4> HIDE DEF k, s, q
      <4>1. heard \in SocketRecords /\ g.socket # None /\ ~Dials(heard, ops, g.socket)
        BY <1>2, <3>5, <3>7, <3>8
      <4>2. g.flying /\ g.queue = Tail(q) /\ g.state = "connected" /\ heard.page = p /\ q # <<>>
        BY <1>6, <3>1, <3>5, <3>6, <3>7
      <4>3. g.calm => Quiet(heard, ops, g.socket) /\ Alone(heard, ops, g.socket)
        BY <3>5, <3>9
      <4>4. j.up = heard.up \o <<[type |-> "action", input |-> Head(q)]>>
        BY <2>7, <3>1, <3>7
      <4>5. j.page = heard.page /\ j.down = heard.down /\ q \in Seq(Inputs)
        BY <1>3, <2>7, <3>7 DEF q
      <4>6. /\ (Authenticates(j.up) => Authenticates(heard.up))
            /\ PageFits(p, g, j, ops)
        BY <4>1, <4>2, <4>3, <4>4, <4>5, SentPage
      <4>7. page.calm /\ s = control /\ match = "playing" => KeysFit(g, j, ops, held)
        <5>1. ASSUME page.calm, s = control, match = "playing"
              PROVE  KeysFit(g, j, ops, held)
          <6>1. g.intent # "none" => q[Len(q)] = g.intent
            BY <3>5, <3>10, <5>1
          <6> QED  BY <3>5, <4>1, <4>2, <4>3, <4>4, <4>5, <5>1, <6>1, SendFits
        <5> QED  BY <5>1
      <4> QED  BY <3>7, <4>6, <4>7
    <3>12. SocketFits(j, ops, s)
      BY <1>5, <1>6, <1>8, <2>7, <3>7, <3>8, <3>11 DEF SocketFits, Dials
    <3>13. Len(g.queue) <= MaxQueue
      BY <1>3, <2>6, <3>1, <3>5 DEF ControlBounds
    <3> QED  BY <1>2, <1>5, <2>3, <2>5, <2>7, <3>3, <3>4, <3>5, <3>11, <3>12, <3>13, PageActs
  <2>9. CASE ~goes
    <3>1. up = k.up /\ g = [page EXCEPT !.queue = q, !.flying = FALSE]
      BY <2>9
    <3> HIDE DEF up, goes, g
    <3>3. j \in SocketRecords
      BY <1>5, <1>8, <1>9, <3>1 DEF SocketRecords
    <3>4. g \in PageRecords
      BY <1>3, <3>1 DEF PageRecords
    <3>5. /\ g.socket = s /\ g.calm = page.calm /\ g.queue = q /\ g.state = page.state
          /\ g.intent = page.intent /\ g.flying = FALSE
      BY <1>3, <3>1 DEF PageRecords
    <3> HIDE DEF j
    <3>6. Follows(k, ops, j, ops, s)
      BY <1>5, <1>8, <1>12, <2>7, <3>1, FadingFollows DEF Shorter
    <3>7. SocketFits(j, ops, s)
      BY <1>5, <1>6, <1>8, <1>12, <2>7, <3>1, FadingFits DEF Shorter
    <3>8. page.calm => Quiet(j, ops, s)
      <4>1. [k EXCEPT !.down = down].up = k.up /\ [k EXCEPT !.down = down].down = down
        BY <1>5 DEF SocketRecords
      <4> QED  BY <2>1, <2>7, <3>1, <4>1 DEF Quiet
    <3>9. PageFits(p, g, j, ops)
      BY <1>2, <1>4, <1>6, <2>7, <3>5, <3>6, <3>8 DEF PageFits, Follows, Alone, Quiet
    <3>10. Says(k.down, "ack")
      BY <1>8, <1>14
    <3>11. g.state = "connected" /\ g.calm /\ s = control /\ match = "playing" => KeysFit(g, j, ops, held)
      BY <1>7, <2>7, <3>1, <3>5, <3>10 DEF Played, KeysFit
    <3> QED  BY <1>2, <1>3, <1>5, <2>3, <2>5, <2>7, <3>3, <3>4, <3>5, <3>7, <3>9, <3>11, PageActs
  <2> QED  BY <2>8, <2>9
<1> QED  BY <1>13, <1>14

-----------------------------------------------------------------------------
(* The theorems.                                                           *)
LEMMA ControlStutters ==
    ASSUME ControlInv, UNCHANGED vars
    PROVE  ControlInv'
<1> USE DEF vars
<1>1. TypeInv' /\ TicketsAdmitOnce' /\ TicketsInv' /\ HeldByCurrent' /\ SeatInv'
  BY DEF ControlInv, TypeInv, TicketsAdmitOnce, TicketsInv, HeldByCurrent, SeatInv
<1>2. SocketsInv' /\ PagesInv' /\ KeysInv'
  BY DEF ControlInv, SocketsInv, PagesInv, KeysInv, Played
<1> QED  BY <1>1, <1>2 DEF ControlInv

LEMMA ControlStep ==
    ASSUME ControlBounds, ControlInv, Next
    PROVE  ControlInv'
<1>1. ASSUME NEW p \in Pages,
             Connect(p) \/ Dial(p) \/ Hear(p) \/ Closed(p) \/ RealtimeSession(p)
             \/ \E i \in Inputs : Submit(p, i)
      PROVE  ControlInv'
  BY <1>1, ConnectKeeps, DialKeeps, HearKeeps, ClosedKeeps, RealtimeSessionKeeps, SubmitKeeps
<1>2. ASSUME NEW s \in Ids, Receive(s) \/ Answer(s) \/ Gone(s) \/ Cut(s) \/ TicketExpires(s)
      PROVE  ControlInv'
  BY <1>2, ReceiveKeeps, AnswerKeeps, GoneKeeps, CutKeeps, TicketExpiresKeeps
<1>3. ASSUME NEW t \in Ids, Redial(t)
      PROVE  ControlInv'
  BY <1>3, RedialKeeps
<1>4. CASE RunConnect \/ RefuseConnect \/ RunAction \/ RunClose \/ Elsewhere \/ Restart
  BY <1>4, RunConnectKeeps, RefuseConnectKeeps, RunActionKeeps, RunCloseKeeps, ElsewhereKeeps, RestartKeeps
<1> QED  BY <1>1, <1>2, <1>3, <1>4 DEF Next

LEMMA ControlIsInvariant == ControlBounds => (Spec => []ControlInv)
<1> SUFFICES ASSUME ControlBounds
             PROVE  Spec => []ControlInv
  OBVIOUS
<1>1. Init => ControlInv
  BY InitControl
<1>2. ControlInv /\ [Next]_vars => ControlInv'
  BY ControlStep, ControlStutters
<1> QED  BY <1>1, <1>2, PTL DEF Spec

(***************************************************************************)
(* What the strengthening says of the seat.                                *)
(***************************************************************************)
LEMMA TypesFollow ==
    ASSUME ControlInv
    PROVE  TypeOK
<1>1. TypeInv
  BY DEF ControlInv
<1>2. ASSUME NEW p \in Pages
      PROVE  /\ pages[p] \in PageRecords
             /\ Len(pages[p].queue) <= MaxQueue
  BY <1>1 DEF TypeInv
<1>3. ASSUME NEW s \in Ids
      PROVE  /\ sockets[s].page \in Pages \cup {NoPage, OtherClient}
             /\ sockets[s].pending \in {"no", "turn", "view"}
             /\ {sockets[s].open, sockets[s].gone, sockets[s].authenticated} \subseteq BOOLEAN
             /\ ToSet(sockets[s].down) \subseteq {"authenticated", "observation", "ack", "error"}
  <2>1. sockets[s] \in SocketRecords
    BY <1>1 DEF TypeInv
  <2>2. sockets[s].down \in Seq(Downward)
    BY <2>1 DEF SocketRecords
  <2>3. ToSet(sockets[s].down) \subseteq Downward
    BY <2>2 DEF ToSet
  <2> QED  BY <2>1, <2>3 DEF SocketRecords, Downward
<1> QED  BY <1>1, <1>2, <1>3 DEF TypeOK, TypeInv, PageRecords

LEMMA SeatFollows ==
    ASSUME ControlInv
    PROVE  SeatIsFreed /\ KeysAreAsPressed
<1>1. SeatIsFreed
  BY OpsEmpty DEF ControlInv, SeatInv, SeatIsFreed
<1>2. KeysAreAsPressed
  BY DEF ControlInv, KeysInv, Played, KeysFit, KeysAreAsPressed
<1> QED  BY <1>1, <1>2

(***************************************************************************)
(* A ticket admits one controller, whoever presents it again, before or    *)
(* after it expires and however often the worker restarts.                 *)
(***************************************************************************)
THEOREM OneControllerPerTicket == ControlBounds => (Spec => []TicketsAdmitOnce)
<1>1. ControlInv => TicketsAdmitOnce
  BY DEF ControlInv
<1> QED  BY <1>1, ControlIsInvariant, PTL

(***************************************************************************)
(* What a session made the game hold is let go before another session      *)
(* controls the seat.                                                      *)
(***************************************************************************)
THEOREM NoKeysInherited == ControlBounds => (Spec => []HeldByCurrent)
<1>1. ControlInv => HeldByCurrent
  BY DEF ControlInv
<1> QED  BY <1>1, ControlIsInvariant, PTL

(***************************************************************************)
(* A socket that closed, while it waited for the seat or later, does not   *)
(* keep the seat once all operations had their turn.                       *)
(***************************************************************************)
THEOREM ClosedSessionsLeave == ControlBounds => (Spec => []SeatIsFreed)
<1>1. ControlInv => SeatIsFreed
  BY SeatFollows
<1> QED  BY <1>1, ControlIsInvariant, PTL

(***************************************************************************)
(* One input in flight, and one word of the player to say last: once all   *)
(* is acknowledged the game holds the input if the player does.            *)
(***************************************************************************)
THEOREM KeysArePlayed == ControlBounds => (Spec => []KeysAreAsPressed)
<1>1. ControlInv => KeysAreAsPressed
  BY SeatFollows
<1> QED  BY <1>1, ControlIsInvariant, PTL

(***************************************************************************)
(* All of it, with the types, at every moment of the match.                *)
(***************************************************************************)
THEOREM TheSeatIsPlayed == ControlBounds => (Spec => []SeatIsPlayed)
<1>1. ControlInv => SeatIsPlayed
  BY TypesFollow, SeatFollows DEF ControlInv, SeatIsPlayed
<1> QED  BY <1>1, ControlIsInvariant, PTL
=============================================================================
