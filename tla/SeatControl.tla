---------------------------- MODULE SeatControl ----------------------------
(***************************************************************************)
(* The control of one seat of a running paid match: the pages of its       *)
(* player (paid-realtime-game.tsx), the gameplay sockets                   *)
(* (realtime-socket.ts), and the tickets, the exclusive operations and the *)
(* controllers of MatchHost (matches.ts).                                  *)
(*                                                                         *)
(* An input is held, released or tapped.  Messages keep their order on a   *)
(* socket.  The agent of the seat and the wallet's signed actions reach    *)
(* the game without a socket.  Observations are a message where the page   *)
(* waits for its first one.                                                *)
(***************************************************************************)
EXTENDS Naturals, Sequences, SequencesExt

CONSTANTS Pages,        \* of the seat's player
          NoPage, OtherClient, Nobody,
          MaxSockets,   \* as many tickets are issued
          MaxQueue,     \* inputs that a page keeps back (16 in the code)
          MaxFaults     \* refused actions, cut connections and restarts

ControlBounds ==
    /\ MaxSockets \in Nat \ {0} /\ MaxQueue \in Nat \ {0} /\ MaxFaults \in Nat
    /\ Nobody \notin Nat /\ OtherClient \notin Nat
    /\ NoPage \notin Pages /\ OtherClient # NoPage

VARIABLES
    pages,   \* state, token, socket, queue, input in flight, intent, observed;
             \* ghost calm: nothing was refused and nobody else acted since connect
    sockets, \* open, messages up and down; the server's pending ("turn", "view"), authenticated, gone
    tickets, \* "none", "out", "void"
    ops,     \* the queue of exclusive operations
    control, \* the current controller
    held,    \* who made the game hold the input
    match,   \* "playing", "over"
    opened,  \* ghost: controllers opened by each ticket
    lapsed   \* faults so far

vars == <<pages, sockets, tickets, ops, control, held, match, opened, lapsed>>

Ids == 1..MaxSockets
None == 0
Inputs == {"hold", "release", "tap"}
NewPage == [state |-> "idle", token |-> None, socket |-> None, queue |-> <<>>,
            flying |-> FALSE, intent |-> "none", observed |-> FALSE, calm |-> TRUE]
NewSocket == [page |-> NoPage, open |-> FALSE, up |-> <<>>, down |-> <<>>,
              pending |-> "no", authenticated |-> FALSE, gone |-> FALSE]

Init ==
    /\ pages = [p \in Pages |-> NewPage]
    /\ sockets = [s \in Ids |-> NewSocket]
    /\ tickets = [t \in Ids |-> "none"]
    /\ ops = <<>> /\ control = None /\ held = Nobody /\ match = "playing"
    /\ opened = [t \in Ids |-> 0] /\ lapsed = 0

Fault == lapsed < MaxFaults /\ lapsed' = lapsed + 1
Host == <<tickets, ops, control, held, match, opened>>
-----------------------------------------------------------------------------
(* The page.                                                               *)
Shut(s) == IF s = None THEN sockets ELSE [sockets EXCEPT ![s].open = FALSE]

\* flush, with the queue q: one input is in flight at a time.
Flushed(p, q, flying) ==
    LET page == pages[p]
        goes == ~flying /\ q # <<>> /\ page.observed /\ sockets[page.socket].open IN
    [page |-> [page EXCEPT !.queue = IF goes THEN Tail(q) ELSE q,
                           !.flying = flying \/ goes],
     up |-> IF goes THEN <<[type |-> "action", input |-> Head(q)]>> ELSE <<>>]

\* Slip: a new connection takes what the player did on the last for said.
ConnectHolding(p) ==
    /\ \E t \in Ids : tickets[t] = "none"
    /\ sockets' = Shut(pages[p].socket)
    /\ pages' = [pages EXCEPT ![p] = [NewPage EXCEPT !.state = "connecting",
                                                     !.observed = pages[p].observed,
                                                     !.intent = pages[p].intent]]
    /\ UNCHANGED <<Host, lapsed>>

\* connect, up to the wallet's approval.
Connect(p) ==
    /\ \E t \in Ids : tickets[t] = "none"
    /\ sockets' = Shut(pages[p].socket)
    /\ pages' = [pages EXCEPT ![p] = [NewPage EXCEPT !.state = "connecting",
                                                     !.observed = pages[p].observed]]
    /\ UNCHANGED <<Host, lapsed>>

\* connect, with a ticket: a socket that authenticates first.
Dial(p) ==
    /\ pages[p].state = "connecting" /\ pages[p].token # None
    /\ \E s \in Ids :
          /\ sockets[s].page = NoPage /\ \A x \in 1..(s - 1) : sockets[x].page # NoPage
          /\ sockets' = [sockets EXCEPT ![s].page = p, ![s].open = TRUE,
                            ![s].up = <<[type |-> "authenticate", token |-> pages[p].token]>>]
          /\ pages' = [pages EXCEPT ![p].socket = s, ![p].token = None]
    /\ UNCHANGED <<Host, lapsed>>

\* Another client of the player presents a ticket, perhaps once more.
Redial(t) ==
    /\ tickets[t] # "none" /\ Fault
    /\ \E s \in Ids :
          /\ sockets[s].page = NoPage /\ \A x \in 1..(s - 1) : sockets[x].page # NoPage
          /\ sockets' = [sockets EXCEPT ![s].page = OtherClient, ![s].open = TRUE,
                            ![s].up = <<[type |-> "authenticate", token |-> t]>>]
    /\ UNCHANGED <<pages, Host>>

\* submit: a held input is not repeated, and a queue that is full ends the connection.
Submit(p, i) ==
    LET page == pages[p]
        intent == IF i = "tap" THEN "none" ELSE i
        flushed == Flushed(p, Append(page.queue, i), page.flying) IN
    /\ page.state = "connected" /\ match = "playing"
    /\ intent = "none" \/ intent # page.intent
    /\ IF Len(page.queue) >= MaxQueue
       THEN sockets' = Shut(page.socket) /\ UNCHANGED pages
       ELSE /\ pages' = [pages EXCEPT ![p] = [flushed.page EXCEPT !.intent = intent]]
            /\ sockets' = [sockets EXCEPT ![page.socket].up = @ \o flushed.up]
    /\ UNCHANGED <<Host, lapsed>>

\* The page after an error: it may say again what it wants.
Refused(page) ==
    [page EXCEPT !.intent = "none", !.flying = FALSE, !.queue = <<>>, !.calm = FALSE]

\* onmessage, of the page's own socket.
Hear(p) ==
    LET page == pages[p]
        s == page.socket
        done == Flushed(p, page.queue, FALSE)
        type == Head(sockets[s].down) IN
    /\ s # None /\ sockets[s].down # <<>>
    /\ pages' = [pages EXCEPT ![p] =
           CASE type = "authenticated" -> [page EXCEPT !.state = "connected"]
             [] type = "observation" -> [page EXCEPT !.observed = TRUE]
             [] type = "ack" -> done.page
             [] type = "error" -> Refused(page)]
    /\ sockets' = [sockets EXCEPT
           ![s].down = Tail(@),
           ![s].up = @ \o IF type = "ack" THEN done.up ELSE <<>>,
           ![s].open = @ /\ (type = "error" => page.state = "connected")]
    /\ UNCHANGED <<Host, lapsed>>

\* onclose, after the last message.
Closed(p) ==
    LET s == pages[p].socket IN
    /\ s # None /\ ~sockets[s].open /\ sockets[s].down = <<>>
    /\ pages' = [pages EXCEPT ![p] = [NewPage EXCEPT !.observed = pages[p].observed]]
    /\ UNCHANGED <<sockets, Host, lapsed>>
-----------------------------------------------------------------------------
(* The host.                                                               *)
\* The seat has one ticket at most.
Issued(t) == [x \in Ids |-> IF x = t THEN "out" ELSE IF tickets[x] = "out" THEN "void" ELSE tickets[x]]

\* realtimeSession, for a page that waits: a ticket, or a refusal.
RealtimeSession(p) ==
    /\ pages[p].state = "connecting" /\ pages[p].token = None /\ pages[p].socket = None
    /\ \/ /\ match = "playing"
          /\ \E t \in Ids :
                /\ tickets[t] = "none" /\ \A x \in 1..(t - 1) : tickets[x] # "none"
                /\ tickets' = Issued(t)
                /\ pages' = [pages EXCEPT ![p].token = t]
          /\ UNCHANGED lapsed
       \/ /\ IF match = "over" THEN UNCHANGED lapsed ELSE Fault
          /\ pages' = [pages EXCEPT ![p].state = "idle"] /\ UNCHANGED tickets
    /\ UNCHANGED <<sockets, ops, control, held, match, opened>>

TicketExpires(t) ==
    /\ tickets[t] = "out" /\ tickets' = [tickets EXCEPT ![t] = "void"]
    /\ UNCHANGED <<pages, sockets, ops, control, held, match, opened, lapsed>>

Say(s, message) == IF sockets[s].open THEN <<message>> ELSE <<>>

\* check: the session is that of the current controller.
May(s) == control = s /\ ~sockets[s].gone

\* Slip: the ticket is deleted when the seat has been taken over.
TakenLater(t) == tickets

\* connectRealtime takes the ticket before it waits for its turn.
Taken(t) == [tickets EXCEPT ![t] = "void"]

\* A message arrives at attachPaymentSocket.
Receive(s) ==
    LET message == Head(sockets[s].up)
        dials == message.type = "authenticate" /\ ~sockets[s].authenticated
                 /\ tickets[message.token] = "out"
        acts == message.type = "action" /\ sockets[s].authenticated /\ May(s)
        accepted == sockets[s].pending = "no" /\ (dials \/ acts) IN
    /\ sockets[s].up # <<>> /\ ~sockets[s].gone
    /\ IF accepted
       THEN /\ sockets' = [sockets EXCEPT ![s].up = Tail(@), ![s].pending = "turn"]
            /\ tickets' = IF dials THEN Taken(message.token) ELSE tickets
            /\ ops' = Append(ops, IF dials THEN [kind |-> "connect", socket |-> s, token |-> message.token]
                                  ELSE [kind |-> "action", socket |-> s, input |-> message.input])
       ELSE /\ sockets' = [sockets EXCEPT ![s].up = Tail(@), ![s].down = @ \o Say(s, "error")]
            /\ UNCHANGED <<tickets, ops>>
    /\ UNCHANGED <<pages, control, held, match, opened, lapsed>>

\* update: a controller that was replaced learns of it, and its socket is closed.
Updated(socks, c) ==
    [s \in Ids |-> IF socks[s].authenticated /\ socks[s].open /\ ~socks[s].gone /\ c # s
                   THEN [socks[s] EXCEPT !.down = Append(@, "error"), !.open = FALSE]
                   ELSE socks[s]]

Turn(kind) == ops # <<>> /\ Head(ops).kind = kind

\* Slip: the new controller finds what the last one held.
Inherited == held

\* releaseInputs.
Freed == IF match = "playing" THEN Nobody ELSE held

\* Slip: a socket that closed while it waited keeps the seat.
RunConnectOpen ==
    LET s == Head(ops).socket IN
    /\ Turn("connect") /\ match = "playing" /\ ops' = Tail(ops)
    /\ held' = Freed /\ control' = s
    /\ opened' = [opened EXCEPT ![Head(ops).token] = @ + 1]
    /\ sockets' = [sockets EXCEPT ![s].authenticated = TRUE, ![s].pending = "view",
                                  ![s].down = @ \o Say(s, "authenticated")]
    /\ UNCHANGED <<pages, tickets, match, lapsed>>

\* connectRealtime, its turn.  What was held is released before the seat is
\* taken over; a socket that closed while it waited leaves at once.
RunConnect ==
    LET s == Head(ops).socket IN
    /\ Turn("connect") /\ match = "playing"
    /\ held' = Freed /\ control' = s
    /\ opened' = [opened EXCEPT ![Head(ops).token] = @ + 1]
    /\ IF sockets[s].gone
       THEN /\ ops' = Append(Tail(ops), [kind |-> "close", socket |-> s])
            /\ sockets' = [sockets EXCEPT ![s].authenticated = TRUE, ![s].pending = "no"]
       ELSE /\ ops' = Tail(ops)
            /\ sockets' = [sockets EXCEPT ![s].authenticated = TRUE, ![s].pending = "view",
                                          ![s].down = @ \o Say(s, "authenticated")]
    /\ UNCHANGED <<pages, tickets, match, lapsed>>

RefuseConnect ==
    LET s == Head(ops).socket IN
    /\ Turn("connect") /\ match = "over" /\ ops' = Tail(ops)
    /\ sockets' = [sockets EXCEPT ![s].pending = "no", ![s].down = @ \o Say(s, "error")]
    /\ UNCHANGED <<pages, tickets, control, held, match, opened, lapsed>>

\* The view that follows the authentication.
Answer(s) ==
    /\ sockets[s].pending = "view"
    /\ sockets' = [sockets EXCEPT ![s].pending = "no",
                                  ![s].down = @ \o Say(s, IF May(s) THEN "observation" ELSE "error"),
                                  ![s].open = @ /\ May(s)]
    /\ UNCHANGED <<pages, tickets, ops, control, held, match, opened, lapsed>>

\* Slip: the controller is checked when its message arrives only.
StillMayAlways(s) == TRUE

\* playerAction checks again when it is its turn.
StillMay(s) == May(s)

Doing(i, who) == CASE i = "hold" -> who [] i = "release" -> Nobody [] OTHER -> held

\* playerAction, its turn: applied and acknowledged, or refused by the rules.
RunAction ==
    LET op == Head(ops)
        s == op.socket IN
    /\ Turn("action") /\ ops' = Tail(ops)
    /\ \/ /\ StillMay(s) /\ match = "playing"
          /\ held' = Doing(op.input, s)
          /\ sockets' = [Updated(sockets, control) EXCEPT ![s].pending = "no", ![s].down = @ \o Say(s, "ack")]
          /\ UNCHANGED lapsed
       \/ /\ ~StillMay(s) \/ match = "over" \/ lapsed < MaxFaults
          /\ lapsed' = IF ~StillMay(s) \/ match = "over" THEN lapsed ELSE lapsed + 1
          /\ sockets' = [sockets EXCEPT ![s].pending = "no", ![s].down = @ \o Say(s, "error")]
          /\ UNCHANGED held
    /\ UNCHANGED <<pages, tickets, control, match, opened>>

\* close of a session: only the current controller leaves the seat.
Leaves(s) == control = s

RunClose ==
    LET s == Head(ops).socket IN
    /\ Turn("close") /\ ops' = Tail(ops)
    /\ control' = IF Leaves(s) THEN None ELSE control
    /\ held' = IF Leaves(s) THEN Freed ELSE held
    /\ UNCHANGED <<pages, sockets, tickets, match, opened, lapsed>>

\* The close event of a socket: its session, if there is one, is closed in its turn.
Gone(s) ==
    /\ sockets[s].page # NoPage /\ ~sockets[s].open /\ ~sockets[s].gone
    /\ sockets' = [sockets EXCEPT ![s].gone = TRUE, ![s].up = <<>>]
    /\ ops' = IF sockets[s].authenticated THEN Append(ops, [kind |-> "close", socket |-> s]) ELSE ops
    /\ UNCHANGED <<pages, tickets, control, held, match, opened, lapsed>>

\* A tick of the match, an agent's move, or an action that the wallet signed.
Elsewhere ==
    /\ match = "playing"
    /\ \/ /\ \E i \in {"hold", "release"} : held' = Doing(i, OtherClient)
          /\ pages' = [p \in Pages |-> [pages[p] EXCEPT !.calm = FALSE]]
          /\ UNCHANGED match
       \/ match' = "over" /\ UNCHANGED <<held, pages>>
       \/ UNCHANGED <<held, match, pages>>
    /\ sockets' = Updated(sockets, control)
    /\ UNCHANGED <<tickets, ops, control, opened, lapsed>>

\* A connection is cut.
Cut(s) ==
    /\ sockets[s].open /\ Fault
    /\ sockets' = [sockets EXCEPT ![s].open = FALSE]
    /\ UNCHANGED <<pages, Host>>

\* The worker restarts: recoverRealtime releases what the saved match held.
Restart ==
    /\ Fault
    /\ tickets' = [t \in Ids |-> IF tickets[t] = "out" THEN "void" ELSE tickets[t]]
    /\ ops' = <<>> /\ control' = None /\ held' = Freed
    /\ sockets' = [s \in Ids |-> IF sockets[s].page = NoPage THEN sockets[s]
                                 ELSE [sockets[s] EXCEPT !.open = FALSE, !.gone = TRUE, !.pending = "no",
                                                         !.up = <<>>, !.authenticated = FALSE]]
    /\ UNCHANGED <<pages, match, opened>>

Next ==
    \/ \E p \in Pages :
          \/ Connect(p) \/ Dial(p) \/ Hear(p) \/ Closed(p) \/ RealtimeSession(p)
          \/ \E i \in Inputs : Submit(p, i)
    \/ \E s \in Ids : Receive(s) \/ Answer(s) \/ Gone(s) \/ Cut(s) \/ TicketExpires(s)
    \/ \E t \in Ids : Redial(t)
    \/ RunConnect \/ RefuseConnect \/ RunAction \/ RunClose \/ Elsewhere \/ Restart

Spec == Init /\ [][Next]_vars
-----------------------------------------------------------------------------
TypeOK ==
    /\ \A p \in Pages :
          /\ pages[p].state \in {"idle", "connecting", "connected"}
          /\ pages[p].token \in {None} \cup Ids /\ pages[p].socket \in {None} \cup Ids
          /\ pages[p].queue \in Seq(Inputs) /\ Len(pages[p].queue) <= MaxQueue
          /\ pages[p].intent \in {"none", "hold", "release"}
          /\ {pages[p].flying, pages[p].observed, pages[p].calm} \subseteq BOOLEAN
    /\ \A s \in Ids :
          /\ sockets[s].page \in Pages \cup {NoPage, OtherClient}
          /\ sockets[s].pending \in {"no", "turn", "view"}
          /\ {sockets[s].open, sockets[s].gone, sockets[s].authenticated} \subseteq BOOLEAN
          /\ ToSet(sockets[s].down) \subseteq {"authenticated", "observation", "ack", "error"}
    /\ \A t \in Ids : tickets[t] \in {"none", "out", "void"} /\ opened[t] \in Nat
    /\ control \in {None} \cup Ids /\ held \in {Nobody, OtherClient} \cup Ids
    /\ match \in {"playing", "over"} /\ lapsed \in 0..MaxFaults

\* "A new controller never inherits a disconnected controller's held keys"
\* (matches.ts:1210): what a session made the game hold, it holds only as long
\* as that session controls the seat.
HeldByCurrent == match = "playing" /\ held \in Ids => control = held

\* A ticket admits one controller, whoever presents it again.
TicketsAdmitOnce == \A t \in Ids : opened[t] <= 1

\* A session that is closed does not keep the seat once all has its turn.
SeatIsFreed == ops = <<>> /\ control # None => ~sockets[control].gone

\* When everything that the page sent was acknowledged, nothing refused and
\* nobody else acted, the game holds the input if the player does.
KeysAreAsPressed ==
    \A p \in Pages :
        LET page == pages[p] IN
        /\ page.state = "connected" /\ page.queue = <<>> /\ ~page.flying /\ page.calm
        /\ page.socket = control /\ match = "playing"
        => /\ page.intent = "hold" => held = control
           /\ page.intent = "release" => held # control

(* A seat is played by its current controller: a ticket admits one, nobody  *)
(* inherits the keys of another, a closed session frees the seat, and the   *)
(* game holds what the player holds.                                        *)
SeatIsPlayed ==
    TypeOK /\ TicketsAdmitOnce /\ HeldByCurrent /\ SeatIsFreed /\ KeysAreAsPressed
=============================================================================
