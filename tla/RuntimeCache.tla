---------------------------- MODULE RuntimeCache ----------------------------
(***************************************************************************)
(* The runtimes and liveRecords maps of MatchHost (matches.ts) while a     *)
(* match is played.  Actions of players run one after the other            *)
(* (exclusive), reads do not: observation and publicObservation call       *)
(* require and runtime on their own, and both await between looking into   *)
(* the maps and filling them.                                              *)
(*                                                                         *)
(* A record is an object: what require copies from the disk is told apart  *)
(* from the object that is live.  A replay is the sequence of the actions  *)
(* it contains; the map of handled action ids is the set of them.          *)
(* The match is turn-based.  A seat may be given to an agent (autoplay):   *)
(* its clock keeps the record it was started with, and a tick of it that   *)
(* waits for its turn is not taken back when the clock is stopped.         *)
(* Settlement is PaidMatch's subject: here a finished match is settled at  *)
(* once and leaves the maps.                                               *)
(***************************************************************************)
EXTENDS Naturals, Sequences, SequencesExt

CONSTANTS Readers,      \* concurrent calls of observation
          Actions,      \* action ids of players
          NoObject,
          MaxMoves,     \* a game is over after so many actions
          MaxObjects,   \* bound on the records and games in memory
          MaxRestarts   \* bound on the restarts

CacheAssumption ==
    /\ MaxMoves \in Nat /\ MaxObjects \in Nat \ {0} /\ MaxRestarts \in Nat
    /\ NoObject \notin Nat

VARIABLES
    disk,       \* the stored record: its replay, stage and autoplay
    records,    \* record objects in memory
    games,      \* runtime objects in memory, made for the same record
    objects,    \* number of objects made
    cache,      \* liveRecords and runtimes
    op,         \* the exclusive operation
    agent,      \* the record of the agent's clock, and that of its queued tick
    reader,     \* the reads
    acked,      \* actions that have been acknowledged
    restarts

vars == <<disk, records, games, objects, cache, op, agent, reader, acked, restarts>>

Objects == 1..MaxObjects
Record == [replay : Seq(Actions), stage : {"playing", "settled"}, auto : BOOLEAN]
Fresh == [replay |-> <<>>, stage |-> "playing", auto |-> FALSE]
NoClock == [clock |-> NoObject, due |-> NoObject]
Empty == [rec |-> NoObject, game |-> NoObject]
Idle == [pc |-> "idle", rec |-> NoObject, game |-> NoObject]

\* start has just made the match's record and runtime.
Init ==
    /\ disk = Fresh
    /\ records = [o \in Objects |-> Fresh] /\ games = [o \in Objects |-> <<>>]
    /\ objects = 1 /\ cache = [rec |-> 1, game |-> 1]
    /\ op = Idle /\ agent = NoClock /\ reader = [r \in Readers |-> Idle]
    /\ acked = {} /\ restarts = 0
-----------------------------------------------------------------------------
\* require: the live record, or a new copy of the one on disk.
Require(rec) ==
    IF cache # Empty
    THEN rec = cache.rec /\ UNCHANGED <<records, objects>>
    ELSE /\ objects < MaxObjects /\ objects' = objects + 1
         /\ rec = objects' /\ records' = [records EXCEPT ![rec] = disk]

\* Slip: the game is created anew although the record has a replay.
LoadAnew(o) == cache = Empty /\ games' = [games EXCEPT ![o] = <<>>]

\* runtime, up to its awaits: nothing is cached, so the game is recovered.
Load(o) == cache = Empty /\ games' = [games EXCEPT ![o] = records[o].replay]

\* Slip: the runtime is installed without its record.
InstallGameOnly(o) ==
    cache' = IF records[o].stage = "settled" THEN cache
             ELSE [cache EXCEPT !.game = o]

\* runtime, after its awaits.
Install(o) ==
    cache' = IF records[o].stage = "settled" THEN cache
             ELSE [rec |-> o, game |-> o]

ReadRequire(r) ==
    /\ reader[r].pc = "idle"
    /\ \E o \in Objects :
          /\ Require(o)
          /\ reader' = [reader EXCEPT ![r] = [@ EXCEPT !.pc = "runtime", !.rec = o]]
    /\ UNCHANGED <<disk, games, cache, op, agent, acked, restarts>>

ReadRuntime(r) ==
    /\ reader[r].pc = "runtime"
    /\ \/ /\ cache # Empty
          /\ reader' = [reader EXCEPT ![r] = Idle] /\ UNCHANGED games
       \/ /\ Load(reader[r].rec)
          /\ reader' = [reader EXCEPT ![r].pc = "install"]
    /\ UNCHANGED <<disk, records, objects, cache, op, agent, acked, restarts>>

ReadInstall(r) ==
    /\ reader[r].pc = "install"
    /\ Install(reader[r].rec)
    /\ reader' = [reader EXCEPT ![r] = Idle]
    /\ UNCHANGED <<disk, records, games, objects, op, agent, acked, restarts>>
-----------------------------------------------------------------------------
(* playerAction and applyPlayerAction.                                     *)
ActRequire ==
    /\ op.pc = "idle"
    /\ \E o \in Objects :
          /\ Require(o)
          /\ op' = [op EXCEPT !.pc = "runtime", !.rec = o]
    /\ UNCHANGED <<disk, games, cache, agent, reader, acked, restarts>>

\* Slip: the stage of the record is not looked at.
ActRuntimeAnyStage ==
    /\ op.pc = "runtime"
    /\ \/ /\ cache # Empty
          /\ op' = [op EXCEPT !.pc = "submit", !.game = cache.game]
          /\ UNCHANGED games
       \/ /\ Load(op.rec)
          /\ op' = [op EXCEPT !.pc = "install", !.game = op.rec]
    /\ UNCHANGED <<disk, records, objects, cache, agent, reader, acked, restarts>>

ActRuntime ==
    /\ op.pc = "runtime"
    /\ \/ /\ records[op.rec].stage = "settled"
          /\ op' = Idle /\ UNCHANGED games
       \/ /\ records[op.rec].stage = "playing" /\ cache # Empty
          /\ op' = [op EXCEPT !.pc = "submit", !.game = cache.game]
          /\ UNCHANGED games
       \/ /\ records[op.rec].stage = "playing" /\ Load(op.rec)
          /\ op' = [op EXCEPT !.pc = "install", !.game = op.rec]
    /\ UNCHANGED <<disk, records, objects, cache, agent, reader, acked, restarts>>

ActInstall ==
    /\ op.pc = "install"
    /\ Install(op.rec)
    /\ op' = [op EXCEPT !.pc = "submit"]
    /\ UNCHANGED <<disk, records, games, objects, agent, reader, acked, restarts>>

\* The game goes on with the record: its replay is written, and a match that
\* is over is settled at once, leaves the maps and has no clock.
Write(rec, o, replay) ==
    LET over == Len(replay) >= MaxMoves
        record == [records[rec] EXCEPT !.replay = replay,
                                       !.stage = IF over THEN "settled" ELSE @] IN
    /\ games' = [games EXCEPT ![o] = replay]
    /\ records' = [records EXCEPT ![rec] = record]
    /\ disk' = record
    /\ cache' = IF over THEN Empty ELSE cache
    /\ agent' = [clock |-> IF over THEN NoObject ELSE agent.clock,
                 due |-> IF op.pc = "agents" THEN NoObject ELSE agent.due]

\* The record keeps its handled ids, so an action is never applied twice to
\* the same record; the replay is written before the answer.
ActSubmit(a) ==
    /\ op.pc = "submit" /\ a \notin ToSet(records[op.rec].replay)
    /\ Write(op.rec, op.game, Append(games[op.game], a))
    /\ acked' = acked \cup {a} /\ op' = Idle
    /\ UNCHANGED <<objects, reader, restarts>>

ActRefused ==
    /\ op.pc = "submit" /\ op' = Idle
    /\ UNCHANGED <<disk, records, games, objects, cache, agent, reader, acked, restarts>>

-----------------------------------------------------------------------------
(* autoplay, and the agent's clock.                                        *)
AutoRequire ==
    /\ op.pc = "idle"
    /\ \E o \in Objects :
          /\ Require(o)
          /\ op' = IF records'[o].stage = "playing"
                   THEN [op EXCEPT !.pc = "autoplay", !.rec = o]
                   ELSE Idle
    /\ UNCHANGED <<disk, games, cache, agent, reader, acked, restarts>>

AutoPut ==
    /\ op.pc = "autoplay"
    /\ \E enabled \in BOOLEAN :
          LET record == [records[op.rec] EXCEPT !.auto = enabled] IN
          /\ records' = [records EXCEPT ![op.rec] = record]
          /\ disk' = record
          /\ agent' = IF enabled /\ agent.clock = NoObject
                      THEN [agent EXCEPT !.clock = op.rec] ELSE agent
    /\ op' = Idle
    /\ UNCHANGED <<games, objects, cache, reader, acked, restarts>>

\* The timer: a tick waits for its turn.
TickDue ==
    /\ agent.clock # NoObject /\ agent.due = NoObject
    /\ agent' = [agent EXCEPT !.due = agent.clock]
    /\ UNCHANGED <<disk, records, games, objects, cache, op, reader, acked, restarts>>

\* Slip: a tick does not look at the stage of its record.
TickStartAnyStage ==
    /\ op.pc = "idle" /\ agent.due # NoObject
    /\ op' = [op EXCEPT !.pc = "tick", !.rec = agent.due] /\ UNCHANGED agent
    /\ UNCHANGED <<disk, records, games, objects, cache, reader, acked, restarts>>

\* Its turn: a record that is not played any more ends it.
TickStart ==
    /\ op.pc = "idle" /\ agent.due # NoObject
    /\ IF records[agent.due].stage = "playing"
       THEN op' = [op EXCEPT !.pc = "tick", !.rec = agent.due] /\ UNCHANGED agent
       ELSE agent' = NoClock /\ UNCHANGED op
    /\ UNCHANGED <<disk, records, games, objects, cache, reader, acked, restarts>>

TickRuntime ==
    /\ op.pc = "tick"
    /\ \/ /\ cache # Empty
          /\ op' = [op EXCEPT !.pc = "agents", !.game = cache.game]
          /\ UNCHANGED games
       \/ /\ Load(op.rec)
          /\ op' = [op EXCEPT !.pc = "tickInstall", !.game = op.rec]
    /\ UNCHANGED <<disk, records, objects, cache, agent, reader, acked, restarts>>

TickInstall ==
    /\ op.pc = "tickInstall"
    /\ Install(op.rec)
    /\ op' = [op EXCEPT !.pc = "agents"]
    /\ UNCHANGED <<disk, records, games, objects, agent, reader, acked, restarts>>

\* playAgents: an agent moves with a fresh id, or none does; the record the
\* clock was started with is written.
TickAgents ==
    /\ op.pc = "agents"
    /\ \E moves \in {<<>>} \cup {<<a>> : a \in Actions} :
          /\ moves # <<>> => records[op.rec].auto
          /\ ToSet(moves) \cap ToSet(games[op.game]) = {}
          /\ Write(op.rec, op.game, games[op.game] \o moves)
    /\ op' = Idle
    /\ UNCHANGED <<objects, reader, acked, restarts>>
-----------------------------------------------------------------------------
Revive(live) ==
    IF disk.auto /\ disk.stage = "playing"
    THEN /\ objects < MaxObjects /\ objects' = objects + 1
         /\ records' = [records EXCEPT ![objects'] = disk]
         /\ games' = [games EXCEPT ![objects'] = disk.replay]
         /\ cache' = IF live THEN [rec |-> objects', game |-> objects'] ELSE Empty
         /\ agent' = [clock |-> objects', due |-> NoObject]
    ELSE cache' = Empty /\ agent' = NoClock /\ UNCHANGED <<objects, records, games>>

\* Slip: a match gets its clock back, but is not live.
RecoverClock == Revive(FALSE)

\* recoverRealtime, before requests are served: a match that an agent plays
\* is live again and has its clock.
Recover == Revive(TRUE)

\* The process restarts; only the disk is left.
Restart ==
    /\ restarts < MaxRestarts /\ restarts' = restarts + 1
    /\ Recover
    /\ op' = Idle /\ reader' = [r \in Readers |-> Idle]
    /\ UNCHANGED <<disk, acked>>

Next ==
    \/ \E r \in Readers : ReadRequire(r) \/ ReadRuntime(r) \/ ReadInstall(r)
    \/ ActRequire \/ ActRuntime \/ ActInstall
    \/ \E a \in Actions : ActSubmit(a)
    \/ ActRefused
    \/ AutoRequire \/ AutoPut \/ TickDue \/ TickStart \/ TickRuntime \/ TickInstall \/ TickAgents
    \/ Restart

Spec == Init /\ [][Next]_vars

\* Action constraint: no read overlaps with an operation.
ReadsAlone == op'.pc = "idle" \/ \A r \in Readers : reader'[r].pc = "idle"

\* Action constraint: a seat is given to an agent while its match is live, and
\* not on the copy that a request after a restart has made.
GivenLive == op'.pc = "autoplay" => cache'.rec = op'.rec

\* The host when both are so.
CarefulSpec == Init /\ [][Next /\ ReadsAlone /\ GivenLive]_vars
-----------------------------------------------------------------------------
TypeOK ==
    /\ disk \in Record /\ records \in [Objects -> Record]
    /\ games \in [Objects -> Seq(Actions)] /\ objects \in Objects
    /\ \/ cache = Empty
       \/ cache.rec \in 1..objects /\ cache.game \in 1..objects
    /\ op.pc \in {"idle", "runtime", "install", "submit", "autoplay", "tick", "tickInstall", "agents"}
    /\ agent.clock \in {NoObject} \cup 1..objects /\ agent.due \in {NoObject} \cup 1..objects
    /\ op.pc # "idle" => op.rec \in 1..objects
    /\ op.pc \in {"submit", "agents"} => op.game \in 1..objects
    /\ \A r \in Readers : reader[r].pc \in {"idle", "runtime", "install"}
    /\ acked \subseteq Actions /\ restarts \in 0..MaxRestarts

\* "Accepted actions are saved before acknowledgement ... acknowledged
\* actions survive" (runbook.md): what a player was told stays in the replay.
AcknowledgedActionsSurvive == acked \subseteq ToSet(disk.replay)

\* A match that is over is not played on from a copy that was read before.
FinishedStays == [][disk.stage = "settled" => disk' = disk]_disk
=============================================================================
