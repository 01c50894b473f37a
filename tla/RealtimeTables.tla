--------------------------- MODULE RealtimeTables ---------------------------
(***************************************************************************)
(* The realtime tables of one payment worker (MatchHost, matches.ts).  One *)
(* is played at a time: the clocks that run and the starts that wait for   *)
(* the chain count.  Lobbies that are ready when funded are started by     *)
(* their funding clocks, again and again until they are or their deadline  *)
(* passes.                                                                 *)
(*                                                                         *)
(* Every lobby is funded.  Operations of a table run one after the other;  *)
(* those of two tables interleave at their awaits.  Play and settlement    *)
(* are one step each: PaidMatch has their steps.                           *)
(***************************************************************************)
EXTENDS Naturals, FiniteSets

CONSTANTS Tables,
          MaxMishaps \* failures of the chain, the disk and the game, and restarts

TablesBound == IsFiniteSet(Tables) /\ MaxMishaps \in Nat

VARIABLES
    stored,    \* the records on the disk: stage and error
    live,      \* the records in memory; "none" is the stage of a table that is not there
    step,      \* of the start of a table
    starting, clocks, watched, \* as in the code; watched are the funding clocks
    late,      \* tables whose funding deadline has passed
    mishaps,
    unsaved,   \* ghost: tables stopped by an error that was not saved
    dormant    \* ghost: tables that a restart did not recover

vars == <<stored, live, step, starting, clocks, watched, late, mishaps, unsaved, dormant>>

NotLive == [stage |-> "none", error |-> FALSE]
Lobby == [stage |-> "funding", error |-> FALSE]
Playing == [stage |-> "playing", error |-> FALSE]
Over == [stage |-> "settled", error |-> FALSE]

\* Lobbies whose seats are paid; the other tables are over.
InitWith(lobbies) ==
    /\ stored = [t \in Tables |-> IF t \in lobbies THEN Lobby ELSE Over]
    /\ live = [t \in Tables |-> NotLive]
    /\ step = [t \in Tables |-> "idle"]
    /\ starting = {} /\ clocks = {} /\ watched = lobbies
    /\ late = {} /\ mishaps = 0 /\ unsaved = {} /\ dormant = {}
Init == InitWith(Tables)

Mishap == mishaps < MaxMishaps /\ mishaps' = mishaps + 1
Rest == <<late, unsaved, dormant>>
Record(t) == IF live[t] = NotLive THEN stored[t] ELSE live[t]
-----------------------------------------------------------------------------
\* Slip: a start that waits for the chain does not count.
HasRoomNow == clocks = {}

\* "Paid realtime tables are at capacity."
HasRoom == clocks \cup starting = {}

\* startForHost, up to the lock; the funding clock or the host asks for it.
Start(t) ==
    /\ step[t] = "idle" /\ Record(t).stage = "funding" /\ t \notin late /\ HasRoom
    /\ step' = [step EXCEPT ![t] = "lock"]
    /\ starting' = starting \cup {t}
    /\ live' = [live EXCEPT ![t] = Lobby]
    /\ UNCHANGED <<stored, clocks, watched, mishaps, Rest>>

\* Slip: a start that failed counts on.
LeftStarting(t) == starting

\* finally.
Released(t) == starting \ {t}

\* The release is not to be had, the chain does not answer, or the record is not written.
StartFails(t) ==
    /\ step[t] \in {"lock", "put"} /\ Mishap
    /\ step' = [step EXCEPT ![t] = "idle"]
    /\ starting' = Released(t)
    /\ live' = [live EXCEPT ![t] = NotLive]
    /\ UNCHANGED <<stored, clocks, watched, Rest>>

Locked(t) ==
    /\ step[t] = "lock" /\ step' = [step EXCEPT ![t] = "put"]
    /\ live' = [live EXCEPT ![t] = Playing]
    /\ UNCHANGED <<stored, starting, clocks, watched, mishaps, Rest>>

\* startForHost, after the put: the clock runs.
Started(t) ==
    /\ step[t] = "put" /\ step' = [step EXCEPT ![t] = "idle"]
    /\ stored' = [stored EXCEPT ![t] = Playing]
    /\ clocks' = clocks \cup {t} /\ starting' = Released(t) /\ watched' = watched \ {t}
    /\ UNCHANGED <<live, mishaps, Rest>>

\* The funding deadline; the funding clock ends with it.
Late(t) ==
    /\ stored[t].stage = "funding" /\ step[t] = "idle" /\ t \notin late
    /\ late' = late \cup {t} /\ watched' = watched \ {t}
    /\ UNCHANGED <<stored, live, step, starting, clocks, mishaps, unsaved, dormant>>
-----------------------------------------------------------------------------
\* The game is over, and it is paid out.
Ends(t) ==
    /\ t \in clocks /\ step[t] = "idle"
    /\ stored' = [stored EXCEPT ![t].stage = "settled"]
    /\ live' = [live EXCEPT ![t] = NotLive] /\ clocks' = clocks \ {t}
    /\ UNCHANGED <<step, starting, watched, mishaps, Rest>>

\* Slip: the clock of a match that was stopped is not taken away.
KeptTicking(t) == clocks

\* stopClock.
StopClock(t) == clocks \ {t}

\* A tick that fails, or the deadline of the match: the error is saved if it can be.
ClockFails(t) ==
    /\ t \in clocks /\ Mishap
    /\ live' = [live EXCEPT ![t].error = TRUE] /\ clocks' = StopClock(t)
    /\ \/ stored' = [stored EXCEPT ![t].error = TRUE] /\ UNCHANGED unsaved
       \/ unsaved' = unsaved \cup {t} /\ UNCHANGED stored
    /\ UNCHANGED <<step, starting, watched, late, dormant>>

\* applyPlayerAction: an action that is not saved stops the match.
ActionNotSaved(t) ==
    /\ live[t] = Playing /\ step[t] = "idle" /\ Mishap
    /\ live' = [live EXCEPT ![t].error = TRUE] /\ clocks' = StopClock(t)
    /\ unsaved' = unsaved \cup {t}
    /\ UNCHANGED <<stored, step, starting, watched, late, dormant>>

\* A request makes a match live that was not recovered; it starts no clock.
Requested(t) ==
    /\ live[t] = NotLive /\ stored[t] = Playing
    /\ live' = [live EXCEPT ![t] = stored[t]]
    /\ UNCHANGED <<stored, step, starting, clocks, watched, mishaps, Rest>>

\* Slip: a table that an error stopped is recovered, too.
RecoverableAll == {t \in Tables : stored[t].stage = "playing"}

Recoverable == {t \in Tables : stored[t] = Playing}

\* The worker restarts, and recoverRealtime goes over the tables one by one:
\* those that were played get their clocks, whatever their number.
Restart ==
    /\ Mishap
    /\ \E failed \in SUBSET Recoverable :
          /\ dormant' = dormant \cup failed
          /\ clocks' = Recoverable \ failed
          /\ live' = [t \in Tables |-> IF t \in clocks' THEN stored[t] ELSE NotLive]
    /\ step' = [t \in Tables |-> "idle"] /\ starting' = {}
    /\ watched' = {t \in Tables \ late : stored[t].stage = "funding"}
    /\ UNCHANGED <<stored, late, unsaved>>

TableStep(t) ==
    \/ Start(t) \/ StartFails(t) \/ Locked(t) \/ Started(t) \/ Late(t)
    \/ Ends(t) \/ ClockFails(t) \/ ActionNotSaved(t) \/ Requested(t)

Next == (\E t \in Tables : TableStep(t)) \/ Restart

\* The funding clocks ask every two seconds, the chain answers, and every
\* match has its end or its deadline.
Fairness ==
    /\ WF_vars(\E t \in watched : Start(t))
    /\ WF_vars(\E t \in Tables : Locked(t) \/ Started(t) \/ Ends(t))

Spec == Init /\ [][Next]_vars /\ Fairness
-----------------------------------------------------------------------------
TypeOK ==
    /\ stored \in [Tables -> [stage : {"funding", "playing", "settled"}, error : BOOLEAN]]
    /\ live \in [Tables -> [stage : {"none", "funding", "playing"}, error : BOOLEAN]]
    /\ step \in [Tables -> {"idle", "lock", "put"}]
    /\ starting \cup clocks \cup watched \cup late \cup unsaved \cup dormant \subseteq Tables
    /\ mishaps \in 0..MaxMishaps

\* One table at a time, but for those that a restart brings back although they
\* had been stopped, because the disk does not know, or were not recovered.
WithinCapacity == Cardinality(clocks \cup starting) <= 1 + Cardinality(unsaved \cup dormant)

\* The capacity is given back: what counts is being started or played, and
\* what is played has its clock, unless it was not recovered.
CapacityIsReturned ==
    \A t \in Tables :
        /\ t \in starting => step[t] # "idle"
        /\ t \in clocks => live[t] = Playing
        /\ live[t] = Playing /\ step[t] = "idle" => t \in clocks \cup dormant

\* Nobody is kept waiting for ever by the capacity: each funded lobby is
\* played, or its deadline passes.
EveryTableStarts == watched # {} ~> watched = {}
=============================================================================
