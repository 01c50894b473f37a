----------------------------- MODULE MCLiveMatch -----------------------------
(* A live match on the worker, one part at a time: its seats and sessions,   *)
(* and the control of a seat of a paid match.                                *)
EXTENDS SeatControl

CONSTANTS NoOne, ann, pad, bot, key

VARIABLES
    focus, \* the part that is run; the others stay as they start
    chair, session, runtime, series, archive, clock, tick, unattended, version, work, late,
    store, answered, faults, requests  \* MatchWorker

Controls(c) == IF c = key THEN "bob" ELSE ann

\* Sessions and handoffs of one seat.
Seat == INSTANCE MatchWorker WITH
    seat <- chair, op <- work,
    Seats <- {"s1"}, Controllers <- {pad, bot, key}, Actor <- Controls, Owner <- ann,
    Realtime <- FALSE, LateJoin <- TRUE, MinSeats <- 1, Policies <- {"automatic", "unanimous"},
    MaxRounds <- 2, Kinds <- {"win"}, Faults <- {"create"}, Idles <- TRUE, MaxFaults <- 1,
    MaxSessions <- 2, MaxActions <- 1, MaxRequests <- 3, MaxVersion <- 8
\* Two seats of two people.
Lobby == INSTANCE MatchWorker WITH
    seat <- chair, op <- work,
    Seats <- {"s1", "s2"}, Controllers <- {pad, key}, Actor <- Controls, Owner <- ann,
    Realtime <- FALSE, LateJoin <- TRUE, MinSeats <- 1, Policies <- {"unanimous"},
    MaxRounds <- 2, Kinds <- {"win"}, Faults <- {"create"}, Idles <- TRUE, MaxFaults <- 1,
    MaxSessions <- 2, MaxActions <- 1, MaxRequests <- 2, MaxVersion <- 6

ASSUME SmallInstances == ControlBounds

OfWorker == <<chair, session, runtime, series, archive, clock, tick, unattended, version, work,
              late, store, answered, faults, requests>>

AnyInit ==
    /\ Init
    /\ \/ focus = "seat" /\ Seat!Init
       \/ focus \in {"lobby", "paid"} /\ Lobby!Init
AnyNext ==
    /\ UNCHANGED focus
    /\ \/ focus = "seat" /\ Seat!Next /\ UNCHANGED vars
       \/ focus = "lobby" /\ Lobby!Next /\ UNCHANGED vars
       \/ focus = "paid" /\ Next /\ UNCHANGED OfWorker
AnySpec == AnyInit /\ [][AnyNext]_<<focus, vars, OfWorker>>
-----------------------------------------------------------------------------
(* Sessions and seats agree: who is connected holds the seat as it is now,   *)
(* through handoffs, drops, late joins and rounds that begin, and the lobby  *)
(* shows it.                                                                 *)
SeatsAreTrue ==
    /\ focus = "seat" => Seat!TypeOK /\ Seat!SessionsHoldSeats /\ Seat!SeatStatusIsTrue
    /\ focus = "lobby" => Lobby!TypeOK /\ Lobby!SessionsHoldSeats /\ Lobby!SeatStatusIsTrue
=============================================================================
