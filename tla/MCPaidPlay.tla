----------------------------- MODULE MCPaidPlay -----------------------------
(* A paid match with the driver and the faults of the cfg; one that an     *)
(* agent plays, on a host that is not shut down; and the copies of a match *)
(* that a host has in memory, while reads do not overlap with operations.  *)
EXTENDS MCPaidMatch

CONSTANTS r1, r2, a1, a2, a3, NoObject

\* A match with an agent's clock, on a host that crashes but is not shut down:
\* a settlement that failed is asked for again until it succeeds.
Agent == INSTANCE PaidMatch WITH Driver <- "agent", Faults <- {"rpc", "receipt", "disk", "crash"}

VARIABLES disk, records, games, objects, cache, op, agent, reader, acked, restarts
Cache == INSTANCE RuntimeCache WITH
    Readers <- {r1, r2}, Actions <- {a1, a2, a3}, MaxMoves <- 2, MaxObjects <- 4,
    MaxRestarts <- 2
OfCache == <<disk, records, games, objects, cache, op, agent, reader, acked, restarts>>

VARIABLES kind, game, queue, pending, version, saving, pointer, flying, recorded, upsets
History == INSTANCE AuthoritativeMatch WITH
    Actions <- {a1, a2}, Snapshots <- 2, MaxSteps <- 2, Chunks <- 2, MaxQueue <- 1,
    MaxSaves <- 3, MaxFaults <- 1, acked <- recorded, faults <- upsets
OfHistory == <<kind, game, queue, pending, version, saving, pointer, flying, recorded, upsets>>

ASSUME SmallInstances == Cache!CacheAssumption /\ History!MatchBounds

VARIABLE played \* "asGiven", with the driver and the faults of the cfg, "byAgent",
                \* "cached", "saved"
AnyInit ==
    /\ Init /\ Cache!Init /\ History!Init
    /\ played \in {"asGiven", "byAgent", "cached", "saved"}
    /\ played # "saved" => kind = [ticks |-> TRUE, restores |-> TRUE]
AnyNext ==
    /\ UNCHANGED played
    /\ \/ played = "asGiven" /\ Next /\ UNCHANGED <<OfCache, OfHistory>>
       \/ played = "byAgent" /\ Agent!Next /\ UNCHANGED <<OfCache, OfHistory>>
       \/ played = "cached" /\ Cache!Next /\ Cache!ReadsAlone /\ Cache!GivenLive
          /\ UNCHANGED <<vars, OfHistory>>
       \/ played = "saved" /\ History!Next /\ UNCHANGED <<vars, OfCache>>
AnySpec == AnyInit /\ [][AnyNext]_<<vars, OfCache, OfHistory, played>> /\ Agent!Fairness

AllTypesOK == TypeOK /\ Cache!TypeOK /\ History!TypeOK

(* Acknowledged actions survive: a match in memory is the one on the disk,   *)
(* as long as no read overlaps with an operation, and what a live match      *)
(* saved can be read, verified and recovered with every action in it, once.  *)
AcknowledgedActionsSurvive ==
    /\ Cache!AcknowledgedActionsSurvive
    /\ History!AcknowledgedSurvive
    /\ History!SavedMatchIsWhole
    /\ History!AppliedOnce

(* The record on the disk goes forward: its stage, its replay, and what a    *)
(* settled match was, whatever fails and whatever copy was read before.      *)
RecordGoesForward == DiskGoesForward /\ Cache!FinishedStays /\ History!SavedGoesForward

(* Whatever failed, a match that an agent plays comes to its end: a result   *)
(* that waits for its payment is paid, and a lobby that was cancelled closes.*)
PaidMatchEnds == played = "byAgent" => PendingIsSettled /\ CanceledLobbyCloses
=============================================================================
