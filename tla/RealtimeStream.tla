--------------------------- MODULE RealtimeStream ---------------------------
(***************************************************************************)
(* One session of a match between the realtime gateway                     *)
(* (apps/realtime-gateway/src/index.ts) and a client                       *)
(* (packages/realtime-client/src/index.ts): handshakes, sequence numbers,  *)
(* resume tokens, drops and the end of the resume window.                  *)
(*                                                                         *)
(* A view stands for an observation, a snapshot and the transition that    *)
(* goes with it: the version of the match it shows.  Left out are the      *)
(* client's acknowledgements and the gateway's retained messages, which    *)
(* nobody reads, and actions (MatchWorker).                                *)
(***************************************************************************)
EXTENDS Naturals, Sequences, FiniteSets

CONSTANTS MaxSockets, MaxVersion, MaxDrops \* bounds

StreamAssumption == MaxSockets \in Nat \ {0} /\ {MaxVersion, MaxDrops} \subseteq Nat

VARIABLES
    role,    \* the session watches, or it controls a seat
    socket,  \* the sockets: both ends, the handler of the gateway, messages
    stream,  \* the gateway's stream: next sequence number, token, active socket
    session, \* the session on the platform
    version, \* of the match
    client,  \* state, socket, last sequence number, token, view
    drops,   \* connections cut so far
    unheard, \* ghost: sockets closed before anybody listened to that
    leaked   \* ghost: sockets that opened after the client was closed

vars == <<socket, stream, session, version, client, drops, unheard, leaked>>

Sockets == 1..MaxSockets
Nowhere == 0
NoSocket == [page |-> "none", host |-> "none", cut |-> FALSE, phase |-> "none",
             subscribed |-> FALSE, up |-> <<>>, down |-> <<>>]

Spectator == role = "spectator"

Init ==
    /\ role \in {"spectator", "controller"}
    /\ socket = [k \in Sockets |-> NoSocket]
    /\ stream = [made |-> FALSE, next |-> 1, token |-> 0, valid |-> FALSE,
                 active |-> Nowhere, expired |-> FALSE]
    /\ session = "none" /\ version = 1
    /\ client = [state |-> "idle", socket |-> Nowhere, last |-> 0, token |-> 0, view |-> 0]
    /\ drops = 0 /\ unheard = {} /\ leaked = {}

Ghosts == <<unheard, leaked>>
Gateway == <<stream, session, version>>
View == [type |-> "view", version |-> version]
-----------------------------------------------------------------------------
(* The client.                                                             *)
Unused == {k \in Sockets : socket[k].page = "none"}
Open(state) ==
    LET k == CHOOSE k \in Unused : \A j \in Unused : k <= j IN
    /\ Unused # {}
    /\ socket' = [socket EXCEPT ![k].page = "opening"]
    /\ client' = [client EXCEPT !.state = state, !.socket = k]

\* connect: a ticket is presented once.
Connect ==
    /\ client.state = "idle" /\ Open("connecting")
    /\ UNCHANGED <<Gateway, drops, Ghosts>>

\* resume, on the player's demand.
Resume ==
    /\ client.state = "disconnected" /\ client.token # 0 /\ Open("resuming")
    /\ UNCHANGED <<Gateway, drops, Ghosts>>

\* The socket has opened, and the first message goes out whatever became of
\* the client meanwhile.
Opened(k) ==
    /\ socket[k].page = "opening"
    /\ socket' = [socket EXCEPT
          ![k].page = "open", ![k].host = "open", ![k].phase = "handshake",
          ![k].up = <<IF client.token = 0 THEN [type |-> "hello"]
                      ELSE [type |-> "resume", token |-> client.token]>>]
    /\ leaked' = IF client.state = "closed" THEN leaked \cup {k} ELSE leaked
    /\ UNCHANGED <<Gateway, client, drops, unheard>>

Disconnected == IF client.state = "closed" THEN client ELSE [client EXCEPT !.state = "disconnected"]

OpenFails(k) ==
    /\ socket[k].page = "opening" /\ drops < MaxDrops /\ drops' = drops + 1
    /\ socket' = [socket EXCEPT ![k].page = "closed"]
    /\ client' = Disconnected
    /\ UNCHANGED <<Gateway, Ghosts>>

\* close: only a socket that is open is closed.
Close ==
    /\ client.state \notin {"idle", "closed"}
    /\ client' = [client EXCEPT !.state = "closed"]
    /\ socket' = IF client.socket # Nowhere /\ socket[client.socket].page = "open"
                 THEN [socket EXCEPT ![client.socket].page = "closing"] ELSE socket
    /\ UNCHANGED <<Gateway, drops, Ghosts>>

\* A message is news: the numbers of a session go on over its sockets.
IsNews(m) == m.seq > client.last \/ client.state = "resuming"

Receive(k) ==
    LET m == Head(socket[k].down) IN
    /\ socket[k].page \in {"open", "closing"} /\ socket[k].down # <<>>
    /\ socket' = [socket EXCEPT ![k].down = Tail(@)]
    /\ client' =
          IF k # client.socket \/ client.state = "closed" \/ ~IsNews(m) THEN client
          ELSE [client EXCEPT
                  !.last = IF m.seq > @ THEN m.seq ELSE @,
                  !.token = IF m.type = "welcome" THEN m.token ELSE @,
                  !.state = IF m.type = "welcome" THEN "connected" ELSE @,
                  !.view = IF m.type = "view" THEN m.version ELSE @]
    /\ UNCHANGED <<Gateway, drops, Ghosts>>

\* The close event, of whichever socket.
SeesClose(k) ==
    LET s == socket[k] IN
    /\ \/ s.page = "open" /\ (s.cut \/ s.host \in {"closing", "closed"})
       \/ s.page = "closing" /\ (s.cut \/ s.host = "closed")
    /\ s.down = <<>>
    /\ socket' = [socket EXCEPT ![k].page = "closed"]
    /\ client' = Disconnected
    /\ UNCHANGED <<Gateway, drops, Ghosts>>

\* A connection breaks, and what is under way on it is lost.
Drop(k) ==
    /\ socket[k].page \in {"open", "closing"} /\ ~socket[k].cut
    /\ drops < MaxDrops /\ drops' = drops + 1
    /\ socket' = [socket EXCEPT ![k].cut = TRUE, ![k].up = <<>>, ![k].down = <<>>]
    /\ UNCHANGED <<Gateway, client, Ghosts>>
-----------------------------------------------------------------------------
(* The gateway.                                                            *)
Refused(k) == [socket EXCEPT ![k].host = IF @ = "open" THEN "closing" ELSE @,
                             ![k].phase = "refused", ![k].up = <<>>]

\* send, of `messages` on socket k of sockets sk under stream st; a socket that
\* does not accept messages gets none, and no number is used.
Sent(sk, st, k, messages) ==
    LET to == sk[k]
        numbered == [i \in DOMAIN messages |->
                        [seq |-> st.next + i - 1, type |-> messages[i].type,
                         token |-> st.token,
                         version |-> version]]
    IN  IF to.host # "open" THEN [sockets |-> sk, stream |-> st]
        ELSE [sockets |-> [sk EXCEPT ![k].down = IF to.cut THEN @ ELSE @ \o numbered],
              stream |-> [st EXCEPT !.next = @ + Len(messages)]]

\* Slip: the numbers start again with the socket.
IssuedAnew(k, st) ==
    [st EXCEPT !.active = k, !.token = @ + 1, !.valid = TRUE, !.expired = FALSE, !.next = 1]

\* issueResumeToken and attach: a new token, and socket k serves the stream.
Issued(k, st) ==
    [st EXCEPT !.active = k, !.token = @ + 1, !.valid = TRUE, !.expired = FALSE]

\* attach and welcome, with a new token; a controller's observation follows at
\* once, and the handlers are registered.  Of a spectator the view is awaited.
Attach(k, st) ==
    LET messages == IF Spectator THEN <<"welcome">> ELSE <<"welcome", "view">>
        out == Sent(socket, Issued(k, st), k, [i \in DOMAIN messages |-> [type |-> messages[i]]])
    IN  /\ socket' = [out.sockets EXCEPT
                        ![k].subscribed = TRUE, ![k].up = <<>>,
                        ![k].phase = IF Spectator THEN "projecting" ELSE "wired"]
        /\ stream' = out.stream
        /\ unheard' = IF socket[k].host = "closed" /\ ~Spectator THEN unheard \cup {k} ELSE unheard

\* connectWithTicket is awaited.
Hello(k) ==
    /\ socket[k].phase = "handshake" /\ socket[k].up # <<>> /\ Head(socket[k].up).type = "hello"
    /\ socket' = [socket EXCEPT ![k].phase = "redeeming", ![k].up = <<>>]
    /\ UNCHANGED <<Gateway, client, drops, Ghosts>>

Admit(k) ==
    /\ socket[k].phase = "redeeming"
    /\ IF session = "none"
       THEN /\ session' = "connected"
            /\ Attach(k, [stream EXCEPT !.made = TRUE])
       ELSE socket' = Refused(k) /\ UNCHANGED <<stream, session, unheard>>
    /\ UNCHANGED <<version, client, drops, leaked>>

\* Slip: the other socket is not asked about.
AdmitsBeside(m) == stream.made /\ stream.valid /\ m.token = stream.token /\ ~stream.expired

\* The token is good and nobody else uses the stream.
Admits(m) ==
    /\ stream.made /\ stream.valid /\ m.token = stream.token
    /\ ~stream.expired /\ stream.active = Nowhere

\* A resumption; the token is used up, also if the session was revoked.
Resumes(k) ==
    /\ socket[k].phase = "handshake" /\ socket[k].up # <<>>
    /\ LET m == Head(socket[k].up) IN
       /\ m.type = "resume"
       /\ IF Admits(m) /\ session # "gone"
          THEN session' = "connected" /\ Attach(k, stream)
          ELSE /\ socket' = Refused(k)
               /\ stream' = IF Admits(m) THEN [stream EXCEPT !.valid = FALSE] ELSE stream
               /\ UNCHANGED <<session, unheard>>
    /\ UNCHANGED <<version, client, drops, leaked>>

\* Five seconds without a handshake.
HandshakeEnds(k) ==
    /\ socket[k].phase = "handshake" /\ socket[k].host = "open" /\ socket[k].up = <<>>
    /\ socket' = Refused(k)
    /\ UNCHANGED <<Gateway, client, drops, Ghosts>>

\* sendProjection for a spectator, and wireActiveConnection.
Project(k) ==
    /\ socket[k].phase = "projecting"
    /\ LET out == Sent(socket, stream, k, <<View>>)
       IN  /\ socket' = [out.sockets EXCEPT ![k].phase = "wired"]
           /\ stream' = out.stream
    /\ unheard' = IF socket[k].host = "closed" THEN unheard \cup {k} ELSE unheard
    /\ UNCHANGED <<session, version, client, drops, leaked>>

\* Those whom an update of the match reaches.
Hearers == {k \in Sockets : socket[k].subscribed /\ socket[k].host = "open"}

\* The match has changed: notify, and the listener of each subscription.  A
\* controller whose session is gone is told so, and the socket is closed.
Update ==
    /\ version < MaxVersion /\ version' = version + 1
    /\ LET told == Hearers
           revoked == ~Spectator /\ session # "connected"
       IN  IF told = {} THEN UNCHANGED <<socket, stream>>
           ELSE LET k == CHOOSE k \in told : TRUE
                    m == [seq |-> stream.next, type |-> IF revoked THEN "error" ELSE "view",
                          token |-> 0, version |-> version + 1]
                IN  /\ socket' = [socket EXCEPT
                          ![k].down = IF socket[k].cut THEN @ ELSE Append(@, m),
                          ![k].subscribed = ~revoked,
                          ![k].host = IF revoked THEN "closing" ELSE @]
                    /\ stream' = [stream EXCEPT !.next = @ + 1]
    /\ UNCHANGED <<session, client, drops, Ghosts>>

\* The seat is released, or gets another controller.
Revoke ==
    /\ ~Spectator /\ session \in {"connected", "suspended"} /\ session' = "gone"
    /\ UNCHANGED <<socket, stream, version, client, drops, Ghosts>>

\* send finds too much waiting for a slow client.
TooSlow(k) ==
    /\ socket[k].host = "open" /\ socket[k].phase = "wired"
    /\ drops < MaxDrops /\ drops' = drops + 1
    /\ socket' = [socket EXCEPT ![k].host = "closing"]
    /\ UNCHANGED <<Gateway, client, Ghosts>>

\* Slip: the stream goes on with a socket that has closed.
ClosedStream(k) == stream

\* What the stream remembers of a socket that has closed.
Closed(k) == IF stream.active = k THEN [stream EXCEPT !.active = Nowhere, !.expired = FALSE]
             ELSE stream

\* The close event at the gateway, with the handler if it is there.
HearsClose(k) ==
    LET s == socket[k] IN
    /\ s.host \in {"open", "closing"}
    /\ s.cut \/ (s.page \in {"closing", "closed"} /\ s.up = <<>>)
    /\ socket' = [socket EXCEPT ![k].host = "closed",
                                ![k].subscribed = @ /\ s.phase # "wired"]
    /\ IF s.phase = "wired"
       THEN /\ stream' = Closed(k)
            /\ session' = IF stream.active = k /\ session = "connected" THEN "suspended" ELSE session
       ELSE UNCHANGED <<stream, session>>
    /\ UNCHANGED <<version, client, drops, Ghosts>>

\* Thirty seconds without a socket.
WindowEnds ==
    /\ stream.made /\ stream.active = Nowhere /\ ~stream.expired
    /\ stream' = [stream EXCEPT !.expired = TRUE]
    /\ UNCHANGED <<socket, session, version, client, drops, Ghosts>>

\* cleanup, every five seconds.
Cleanup ==
    /\ stream.made /\ stream.active = Nowhere /\ stream.expired
    /\ stream' = [stream EXCEPT !.made = FALSE, !.valid = FALSE]
    /\ session' = "gone"
    /\ UNCHANGED <<socket, version, client, drops, Ghosts>>
-----------------------------------------------------------------------------
Next ==
    /\ UNCHANGED role
    /\ \/ Connect \/ Resume \/ Close \/ Update \/ Revoke \/ WindowEnds \/ Cleanup
       \/ \E k \in Sockets :
             \/ Opened(k) \/ OpenFails(k) \/ Receive(k) \/ SeesClose(k) \/ Drop(k)
             \/ Hello(k) \/ Admit(k) \/ Resumes(k) \/ HandshakeEnds(k) \/ Project(k)
             \/ TooSlow(k) \/ HearsClose(k)

Spec == Init /\ [][Next]_<<role, vars>>

\* Sockets deliver or break, awaits return, and the timers go on.
Fairness ==
    /\ \A k \in Sockets :
          /\ WF_vars(Opened(k)) /\ WF_vars(Receive(k)) /\ WF_vars(SeesClose(k))
          /\ WF_vars(Hello(k) \/ Admit(k) \/ Resumes(k) \/ Project(k))
          /\ WF_vars(HandshakeEnds(k)) /\ WF_vars(HearsClose(k))
    /\ WF_vars(WindowEnds) /\ WF_vars(Cleanup)
-----------------------------------------------------------------------------
TypeOK ==
    /\ session \in {"none", "connected", "suspended", "gone"}
    /\ stream.active \in Sockets \cup {Nowhere} /\ client.last < stream.next
    /\ client.token <= stream.token /\ client.view <= version

(* A page that is connected and has received everything shows the match as  *)
(* it is: the subscription begins before the first view is made, and after  *)
(* a resumption nothing that was lost on the old socket is missed.          *)
Current(k) == /\ socket[k].phase = "wired" /\ socket[k].page = "open"
              /\ socket[k].host = "open" /\ ~socket[k].cut /\ socket[k].down = <<>>
ViewIsCurrent ==
    \A k \in Sockets :
        client.socket = k /\ client.state = "connected" /\ Current(k) /\ session = "connected"
        => client.view = version

(* Two sockets never act for one session.                                   *)
OneSocketEach ==
    Cardinality({k \in Sockets : socket[k].subscribed /\ socket[k].host # "closed"}) <= 1

(* A session that counts as connected, which keeps its match alive, has a   *)
(* socket that is open or whose close will be heard; excepted are sockets   *)
(* that close before their handler is registered.                           *)
ConnectedHasSocket ==
    session = "connected" /\ unheard = {} =>
        \E k \in Sockets : /\ stream.active = k
                           /\ socket[k].host # "closed" \/ socket[k].phase = "projecting"

(* A client that has been closed leaves no session behind, with the same    *)
(* exception, and that of a socket that opened after the close.             *)
ClosedIsGone ==
    client.state = "closed" ~> session \in {"none", "gone"} \/ unheard # {} \/ leaked # {}

(* README.md: dropped connections can resume.  A client that knows the      *)
(* token of its session and whose sockets the gateway has seen close is not *)
(* refused because of one of them.                                          *)
DroppedCanResume ==
    client.state = "disconnected" /\ client.token = stream.token /\ stream.valid
    /\ (\A k \in Sockets : socket[k].host \in {"none", "closed"}
                           /\ socket[k].phase \notin {"projecting", "redeeming"})
    => stream.active = Nowhere
=============================================================================
