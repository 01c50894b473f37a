------------------------- MODULE RuntimeCacheProofs -------------------------
(***************************************************************************)
(* Theorems about the copies of a paid match that a host has in memory:    *)
(* for any readers, actions, moves and restarts, acknowledged actions      *)
(* survive and a match that is over stays over, if reads do not overlap    *)
(* with operations and a seat is given to an agent on the live copy only.  *)
(*                                                                         *)
(* TypeOK says too little to be inductive.  The invariant is that whatever *)
(* copy can still be written is the record on the disk: the live one, that *)
(* of the operation under way, those that reads are about to install, and  *)
(* that of the agent's clock, unless the match is over.                    *)
(***************************************************************************)
EXTENDS RuntimeCache, SequenceTheorems, TLAPS

Places == {"idle", "runtime", "install", "submit", "autoplay", "tick", "agents"}
Made == 1..objects
Ref == Made \cup {NoObject}

Typed ==
    /\ disk \in Record /\ records \in [Objects -> Record]
    /\ games \in [Objects -> Seq(Actions)]
    /\ objects \in Objects
    /\ cache \in [rec : Ref, game : Ref]
    /\ op \in [pc : Places, rec : Ref, game : Ref]
    /\ agent \in [clock : Ref, due : Ref]
    /\ reader \in [Readers -> [pc : {"idle", "runtime", "install"}, rec : Ref, game : {NoObject}]]

\* Object o, as a record or also as a game, is what is on the disk.
RecordOf(o) == o \in Made /\ records[o] = disk
CopyOf(o) == RecordOf(o) /\ games[o] = disk.replay

LiveInv ==
    cache # Empty => /\ cache.rec = cache.game /\ CopyOf(cache.rec)
                     /\ disk.stage = "playing"

OpInv ==
    /\ op.pc \in {"runtime", "install", "submit"} => RecordOf(op.rec)
    /\ op.pc = "runtime" /\ cache # Empty => op.rec = cache.rec
    /\ op.pc = "install" => /\ op.game = op.rec /\ CopyOf(op.rec)
                            /\ cache = Empty /\ disk.stage = "playing"
    /\ op.pc \in {"submit", "agents"} => cache # Empty /\ op.rec = cache.rec /\ op.game = cache.game
    /\ op.pc \in {"autoplay", "tick"} => cache # Empty /\ op.rec = cache.rec
    /\ op.pc = "idle" => op = Idle

ReadInv ==
    \A r \in Readers :
        /\ reader[r].pc # "idle" => op.pc = "idle" /\ RecordOf(reader[r].rec)
        /\ reader[r].pc = "install" => CopyOf(reader[r].rec)

\* The agent's clock, and a tick that waits, have the live record, if any.
Over(o) == records[o].stage = "settled"
ClockInv ==
    /\ agent.clock # NoObject => cache # Empty /\ agent.clock = cache.rec
    /\ agent.due # NoObject => Over(agent.due) \/ (cache # Empty /\ agent.due = cache.rec)
    /\ \A r \in Readers : reader[r].pc = "install" =>
           agent.clock = NoObject /\ (agent.due = NoObject \/ Over(agent.due))

CacheInv ==
    /\ Typed /\ LiveInv /\ OpInv /\ ReadInv /\ ClockInv
    /\ acked \subseteq ToSet(disk.replay)

\* A match that is over is not written any more.
OverStays == disk.stage = "settled" => disk' = disk
Careful == Next /\ ReadsAlone /\ GivenLive

LEMMA Grows ==
    ASSUME CacheAssumption, Typed
    PROVE  objects \in Nat /\ objects >= 1 /\ Made \subseteq Objects /\ NoObject \notin Made
BY DEF CacheAssumption, Typed, Objects, Made

(***************************************************************************)
(* require gives a copy of the disk, and touches no other copy.            *)
(***************************************************************************)
LEMMA RequireCopies ==
    ASSUME CacheAssumption, CacheInv, NEW o \in Objects, Require(o)
    PROVE  /\ objects' \in Objects /\ Made \subseteq Made' /\ Ref \subseteq Ref'
           /\ records' \in [Objects -> Record]
           /\ o \in Made' /\ records'[o] = disk
           /\ cache # Empty => o = cache.rec
           /\ \A x \in Made : records'[x] = records[x]
<1>1. /\ objects \in Objects /\ records \in [Objects -> Record] /\ disk \in Record
      /\ objects \in Nat /\ objects >= 1 /\ Made \subseteq Objects
  BY Grows DEF CacheInv, Typed
<1>2. CASE cache # Empty
  BY <1>1, <1>2 DEF Require, CacheInv, LiveInv, CopyOf, RecordOf, Made, Ref
<1>3. CASE cache = Empty
  <2>1. /\ objects < MaxObjects /\ objects' = objects + 1 /\ o = objects + 1
        /\ records' = [records EXCEPT ![o] = disk]
    BY <1>3 DEF Require
  <2>2. objects' \in Objects /\ Made \subseteq Made' /\ o \in Made' /\ o \notin Made
    BY <1>1, <2>1 DEF CacheAssumption, Objects, Made
  <2> QED  BY <1>1, <1>3, <2>1, <2>2 DEF Ref, Made
<1> QED  BY <1>2, <1>3

(***************************************************************************)
(* When operations and copies stay as they are, but for new ones, so does  *)
(* what is said of them.                                                   *)
(***************************************************************************)
Kept ==
    /\ objects' \in Objects /\ Made \subseteq Made' /\ Ref \subseteq Ref'
    /\ records' \in [Objects -> Record] /\ games' \in [Objects -> Seq(Actions)]
    /\ \A x \in Made : records'[x] = records[x] /\ games'[x] = games[x]
    /\ disk' = disk

LEMMA CopiesStay ==
    ASSUME CacheAssumption, Typed, Kept, NEW o \in Ref
    PROVE  /\ RecordOf(o) => o \in Made' /\ records'[o] = disk'
           /\ CopyOf(o) => o \in Made' /\ records'[o] = disk' /\ games'[o] = disk'.replay
           /\ o # NoObject => (Over(o) <=> records'[o].stage = "settled")
BY Grows DEF Kept, CopyOf, RecordOf, Over, Made, Ref

(***************************************************************************)
(* The reads.                                                              *)
(***************************************************************************)
LEMMA ReadsKeep ==
    ASSUME CacheAssumption, CacheInv, NEW r \in Readers,
           ReadRequire(r) \/ ReadRuntime(r) \/ ReadInstall(r), ReadsAlone
    PROVE  CacheInv' /\ OverStays
<1>0. Typed /\ LiveInv /\ OpInv /\ ReadInv /\ ClockInv
  BY DEF CacheInv
<1>q. /\ reader \in [Readers -> [pc : {"idle", "runtime", "install"}, rec : Ref, game : {NoObject}]]
      /\ cache \in [rec : Ref, game : Ref] /\ op.rec \in Ref /\ op.game \in Ref
      /\ agent.clock \in Ref /\ agent.due \in Ref
      /\ NoObject \notin Made /\ Made \subseteq Objects
      /\ disk \in Record /\ disk.replay \in Seq(Actions)
  BY <1>0, Grows DEF Typed, Record
<1>1. CASE ReadRequire(r)
  <2>1. PICK o \in Objects :
            /\ Require(o)
            /\ reader' = [reader EXCEPT ![r] = [@ EXCEPT !.pc = "runtime", !.rec = o]]
    BY <1>1 DEF ReadRequire
  <2>2. UNCHANGED <<disk, games, cache, op, agent, acked>>
    BY <1>1 DEF ReadRequire
  <2>3. /\ objects' \in Objects /\ Made \subseteq Made' /\ Ref \subseteq Ref'
        /\ records' \in [Objects -> Record] /\ o \in Made' /\ records'[o] = disk
        /\ cache # Empty => o = cache.rec
        /\ \A x \in Made : records'[x] = records[x]
    BY <2>1, RequireCopies
  <2>4. Kept
    BY <1>0, <2>2, <2>3 DEF Kept, Typed
  <2>5. reader'[r].pc = "runtime" /\ reader'[r].rec = o
        /\ \A q \in Readers \ {r} : reader'[q] = reader[q]
    BY <1>q, <2>1
  <2>6. op.pc = "idle"
    BY <2>2, <2>5 DEF ReadsAlone
  <2>7. Typed'
    <3>1. reader' \in [Readers -> [pc : {"idle", "runtime", "install"}, rec : Ref', game : {NoObject}]]
      BY <1>q, <2>1, <2>3 DEF Ref
    <3> QED  BY <1>0, <2>2, <2>3, <3>1 DEF Typed
  <2>8. LiveInv'
    BY <1>0, <1>q, <2>2, <2>4, CopiesStay DEF LiveInv, CopyOf, RecordOf
  <2>9. OpInv'
    BY <1>0, <2>2, <2>6 DEF OpInv
  <2>10. ReadInv'
    <3>1. ASSUME NEW q \in Readers, reader'[q].pc # "idle"
          PROVE  RecordOf(reader[q].rec)' \/ q = r
      BY <1>0, <1>q, <2>4, <2>5, <3>1, CopiesStay DEF ReadInv, RecordOf
    <3>2. ASSUME NEW q \in Readers
          PROVE  /\ reader'[q].pc # "idle" => op'.pc = "idle" /\ RecordOf(reader[q].rec)'
                 /\ reader'[q].pc = "install" => CopyOf(reader[q].rec)'
      BY <1>0, <1>q, <2>2, <2>3, <2>4, <2>5, <2>6, CopiesStay DEF ReadInv, RecordOf, CopyOf
    <3> QED  BY <3>2 DEF ReadInv
  <2>11. ClockInv'
    BY <1>0, <1>q, <2>2, <2>4, <2>5, CopiesStay DEF ClockInv, Over
  <2> QED  BY <2>2, <2>7, <2>8, <2>9, <2>10, <2>11 DEF CacheInv, OverStays
<1>2. CASE ReadRuntime(r)
  <2>1. /\ reader[r].pc = "runtime" /\ RecordOf(reader[r].rec) /\ op.pc = "idle"
        /\ UNCHANGED <<disk, records, objects, cache, op, agent, acked>>
    BY <1>0, <1>2 DEF ReadRuntime, ReadInv
  <2>2. CASE cache # Empty /\ reader' = [reader EXCEPT ![r] = Idle] /\ UNCHANGED games
    <3>1. Typed'
      BY <1>0, <1>q, <2>1, <2>2 DEF Typed, Idle, Ref, Made
    <3>2. ReadInv'
      BY <1>0, <1>q, <2>1, <2>2 DEF ReadInv, Idle, RecordOf, CopyOf, Made
    <3>3. LiveInv' /\ OpInv' /\ ClockInv'
      BY <1>0, <1>q, <2>1, <2>2 DEF LiveInv, OpInv, ClockInv, RecordOf, CopyOf, Made, Over, Idle
    <3> QED  BY <2>1, <3>1, <3>2, <3>3 DEF CacheInv, OverStays
  <2>3. CASE Load(reader[r].rec) /\ reader' = [reader EXCEPT ![r].pc = "install"]
    <3> DEFINE o == reader[r].rec
    <3>1. cache = Empty /\ games' = [games EXCEPT ![o] = records[o].replay]
      BY <2>3 DEF Load
    <3>2. o \in Made /\ records[o] = disk /\ o \in Objects
      BY <1>q, <2>1 DEF RecordOf
    <3>3. games' \in [Objects -> Seq(Actions)] /\ games'[o] = disk.replay
      BY <1>0, <1>q, <3>1, <3>2 DEF Typed
    <3>4. Typed'
      BY <1>0, <1>q, <2>1, <2>3, <3>3 DEF Typed, Ref, Made
    <3>5. \A x \in Made : CopyOf(x) => CopyOf(x)'
      BY <1>0, <1>q, <2>1, <3>1, <3>2 DEF CopyOf, RecordOf, Made, Typed
    <3>6. ReadInv'
      BY <1>0, <1>q, <2>1, <2>3, <3>2, <3>3, <3>5 DEF ReadInv, RecordOf, CopyOf, Made
    <3>7. LiveInv' /\ OpInv' /\ ClockInv'
      BY <1>0, <1>q, <2>1, <2>3, <3>1 DEF LiveInv, OpInv, ClockInv, Over
    <3> QED  BY <2>1, <3>4, <3>6, <3>7 DEF CacheInv, OverStays
  <2> QED  BY <1>2, <2>2, <2>3 DEF ReadRuntime
<1>3. CASE ReadInstall(r)
  <2> DEFINE o == reader[r].rec
  <2>1. /\ CopyOf(o) /\ op.pc = "idle" /\ Install(o) /\ reader[r].pc = "install"
        /\ reader' = [reader EXCEPT ![r] = Idle]
        /\ UNCHANGED <<disk, records, games, objects, op, agent, acked>>
    BY <1>0, <1>3 DEF ReadInstall, ReadInv
  <2>2. o \in Made /\ records[o] = disk /\ games[o] = disk.replay
    BY <2>1 DEF CopyOf, RecordOf
  <2>3. /\ disk.stage = "settled" => cache' = cache
        /\ disk.stage # "settled" => cache' = [rec |-> o, game |-> o]
    BY <2>1, <2>2 DEF Install
  <2>4. disk.stage \in {"playing", "settled"}
    BY <1>q DEF Record
  <2>5. Typed'
    BY <1>0, <1>q, <2>1, <2>2, <2>3 DEF Typed, Idle, Ref, Made
  <2>6. LiveInv'
    BY <1>0, <2>1, <2>2, <2>3, <2>4 DEF LiveInv, CopyOf, RecordOf, Made
  <2>7. OpInv'
    BY <1>0, <2>1 DEF OpInv, Idle
  <2>8. ReadInv'
    BY <1>0, <1>q, <2>1 DEF ReadInv, Idle, RecordOf, CopyOf, Made
  <2>9. ClockInv'
    BY <1>0, <1>q, <2>1, <2>3 DEF ClockInv, Over, Idle
  <2> QED  BY <2>1, <2>5, <2>6, <2>7, <2>8, <2>9 DEF CacheInv, OverStays
<1> QED  BY <1>1, <1>2, <1>3
(***************************************************************************)
(* An operation begins: it requires the record.                            *)
(***************************************************************************)
LEMMA RequiresKeep ==
    ASSUME CacheAssumption, CacheInv, ActRequire \/ AutoRequire, ReadsAlone, GivenLive
    PROVE  CacheInv' /\ OverStays
<1>0. Typed /\ LiveInv /\ OpInv /\ ReadInv /\ ClockInv
  BY DEF CacheInv
<1>q. /\ reader \in [Readers -> [pc : {"idle", "runtime", "install"}, rec : Ref, game : {NoObject}]]
      /\ cache \in [rec : Ref, game : Ref] /\ op = Idle
      /\ agent.clock \in Ref /\ agent.due \in Ref
      /\ NoObject \notin Made /\ Made \subseteq Objects /\ disk \in Record
  BY <1>0, Grows DEF Typed, ActRequire, AutoRequire, OpInv
<1>1. PICK o \in Objects :
          /\ Require(o)
          /\ \/ op' = [op EXCEPT !.pc = "runtime", !.rec = o]
             \/ records'[o].stage = "playing" /\ op' = [op EXCEPT !.pc = "autoplay", !.rec = o]
             \/ op' = Idle
  BY DEF ActRequire, AutoRequire
<1>2. UNCHANGED <<disk, games, cache, agent, reader, acked>>
  BY DEF ActRequire, AutoRequire
<1>3. /\ objects' \in Objects /\ Made \subseteq Made' /\ Ref \subseteq Ref'
      /\ records' \in [Objects -> Record] /\ o \in Made' /\ records'[o] = disk
      /\ cache # Empty => o = cache.rec
      /\ \A x \in Made : records'[x] = records[x]
  BY <1>1, RequireCopies
<1>4. Kept
  BY <1>0, <1>2, <1>3 DEF Kept, Typed
<1>5. /\ op' \in [pc : {"runtime", "autoplay"}, rec : {o}, game : {NoObject}] \/ op' = Idle
      /\ op'.pc = "autoplay" => o = cache.rec
  <2>1. \/ op' = [pc |-> "runtime", rec |-> o, game |-> NoObject]
        \/ op' = [pc |-> "autoplay", rec |-> o, game |-> NoObject]
        \/ op' = Idle
    BY <1>q, <1>1 DEF Idle
  <2>2. op'.pc = "autoplay" => op'.rec = cache.rec
    BY <1>2 DEF GivenLive
  <2> QED  BY <2>1, <2>2 DEF Idle
<1>6. Typed'
  <2>1. op' \in [pc : Places, rec : Ref', game : Ref']
    BY <1>3, <1>5 DEF Idle, Places, Ref
  <2> QED  BY <1>0, <1>2, <1>3, <2>1 DEF Typed
<1>7. LiveInv'
  BY <1>0, <1>q, <1>2, <1>4, CopiesStay DEF LiveInv, CopyOf, RecordOf
<1>8. OpInv'
  <2>1. op'.pc = "autoplay" => cache # Empty
    BY <1>q, <1>3, <1>5 DEF Empty, Made, CacheAssumption, Objects
  <2>2. op'.pc = "runtime" => RecordOf(op.rec)'
    BY <1>2, <1>3, <1>5 DEF RecordOf, Idle
  <2>3. op'.pc \in {"idle", "runtime", "autoplay"} /\ (op'.pc = "idle" => op' = Idle)
    BY <1>5 DEF Idle
  <2>4. op'.pc # "idle" => op'.rec = o
    BY <1>5 DEF Idle
  <2> QED  BY <1>2, <1>3, <1>5, <2>1, <2>2, <2>3, <2>4 DEF OpInv
<1>9. ReadInv'
  <2>1. op'.pc = "idle" \/ \A r \in Readers : reader'[r].pc = "idle"
    BY DEF ReadsAlone
  <2>2. ASSUME NEW r \in Readers
        PROVE  /\ reader'[r].pc # "idle" => op'.pc = "idle" /\ RecordOf(reader[r].rec)'
               /\ reader'[r].pc = "install" => CopyOf(reader[r].rec)'
    <3>1. reader' = reader /\ reader[r].rec \in Ref
      BY <1>q, <1>2
    <3>2. RecordOf(reader[r].rec) => RecordOf(reader[r].rec)'
      BY <1>0, <1>4, <3>1, CopiesStay DEF RecordOf
    <3>3. CopyOf(reader[r].rec) => CopyOf(reader[r].rec)'
      BY <1>0, <1>4, <3>1, CopiesStay DEF RecordOf, CopyOf
    <3> QED  BY <1>0, <2>1, <3>1, <3>2, <3>3 DEF ReadInv
  <2> QED  BY <2>2 DEF ReadInv
<1>10. ClockInv'
  BY <1>0, <1>q, <1>2, <1>4, CopiesStay DEF ClockInv, Over
<1> QED  BY <1>2, <1>6, <1>7, <1>8, <1>9, <1>10 DEF CacheInv, OverStays

(***************************************************************************)
(* An operation looks for its game, or gives up; copies are not written.   *)
(***************************************************************************)
LEMMA LookupsKeep ==
    ASSUME CacheAssumption, CacheInv,
           ActRuntime \/ ActInstall \/ ActRefused \/ TickDue \/ TickStart \/ TickRuntime
             \/ TickInstall,
           ReadsAlone
    PROVE  CacheInv' /\ OverStays
<1>0. Typed /\ LiveInv /\ OpInv /\ ReadInv /\ ClockInv
  BY DEF CacheInv
<1>q. /\ cache \in [rec : Ref, game : Ref] /\ op \in [pc : Places, rec : Ref, game : Ref]
      /\ agent \in [clock : Ref, due : Ref]
      /\ NoObject \notin Made /\ Made \subseteq Objects /\ NoObject \in Ref
      /\ disk \in Record /\ disk.replay \in Seq(Actions)
  BY <1>0, Grows DEF Typed, Record, Ref
<1>r. UNCHANGED <<disk, records, objects, reader, acked>>
  BY DEF ActRuntime, ActInstall, ActRefused, TickDue, TickStart, TickRuntime, TickInstall
<1>1. CASE ActRuntime
  <2>1. op.pc = "runtime" /\ RecordOf(op.rec) /\ UNCHANGED <<cache, agent>>
    BY <1>0, <1>1 DEF ActRuntime, OpInv
  <2>r. \A r \in Readers : reader[r].pc = "idle"
    BY <1>0, <2>1 DEF ReadInv
  <2>2. CASE op' = Idle /\ UNCHANGED games
    BY <1>0, <1>q, <1>r, <2>1, <2>2, <2>r
    DEF CacheInv, Typed, LiveInv, OpInv, ReadInv, ClockInv, OverStays, Idle, CopyOf, RecordOf,
        Over, Made, Ref, Places
  <2>3. CASE /\ records[op.rec].stage = "playing" /\ cache # Empty
             /\ op' = [op EXCEPT !.pc = "submit", !.game = cache.game] /\ UNCHANGED games
    <3>1. op' = [pc |-> "submit", rec |-> cache.rec, game |-> cache.game]
      BY <1>0, <1>q, <2>1, <2>3 DEF OpInv
    <3> QED  BY <1>0, <1>q, <1>r, <2>1, <2>3, <2>r, <3>1
             DEF CacheInv, Typed, LiveInv, OpInv, ReadInv, ClockInv, OverStays, CopyOf, RecordOf,
                 Over, Made, Ref, Places
  <2>4. CASE /\ records[op.rec].stage = "playing" /\ Load(op.rec)
             /\ op' = [op EXCEPT !.pc = "install", !.game = op.rec]
    <3>1. op' = [pc |-> "install", rec |-> op.rec, game |-> op.rec]
      BY <1>q, <2>4
    <3>2. cache = Empty /\ games' = [games EXCEPT ![op.rec] = disk.replay]
      BY <2>1, <2>4 DEF Load, RecordOf
    <3>3. op.rec \in Made /\ records[op.rec] = disk /\ disk.stage = "playing"
      BY <2>1, <2>4 DEF RecordOf
    <3>4. games' \in [Objects -> Seq(Actions)] /\ games'[op.rec] = disk.replay
      BY <1>0, <1>q, <3>2, <3>3 DEF Typed
    <3>5. Typed'
      BY <1>0, <1>q, <1>r, <2>1, <3>1, <3>4 DEF Typed, Made, Ref, Places
    <3>6. OpInv'
      BY <1>r, <2>1, <3>1, <3>2, <3>3, <3>4 DEF OpInv, RecordOf, CopyOf, Made
    <3>7. LiveInv' /\ ReadInv' /\ ClockInv'
      BY <1>0, <1>r, <2>1, <2>r, <3>2 DEF LiveInv, ReadInv, ClockInv, Over
    <3> QED  BY <1>r, <3>5, <3>6, <3>7 DEF CacheInv, OverStays
  <2> QED  BY <1>1, <2>2, <2>3, <2>4 DEF ActRuntime
<1>2. CASE ActInstall
  <2>1. /\ op.pc = "install" /\ op.game = op.rec /\ CopyOf(op.rec) /\ disk.stage = "playing"
        /\ UNCHANGED <<games, agent>> /\ op' = [op EXCEPT !.pc = "submit"]
        /\ cache = Empty
    BY <1>0, <1>2 DEF ActInstall, OpInv
  <2>2. cache' = [rec |-> op.rec, game |-> op.rec] /\ op.rec \in Made
    BY <1>2, <2>1 DEF ActInstall, Install, CopyOf, RecordOf
  <2>3. op' = [pc |-> "submit", rec |-> op.rec, game |-> op.rec]
    BY <1>q, <2>1
  <2>4. \A r \in Readers : reader[r].pc = "idle"
    BY <1>0, <2>1 DEF ReadInv
  <2>5. cache' # Empty
    BY <1>q, <2>2 DEF Empty
  <2>6. Typed'
    BY <1>0, <1>r, <2>1, <2>2, <2>3 DEF Typed, Made, Ref, Places
  <2>7. LiveInv' /\ OpInv'
    BY <1>r, <2>1, <2>2, <2>3, <2>5 DEF LiveInv, OpInv, CopyOf, RecordOf, Made
  <2>8. ReadInv' /\ ClockInv'
    BY <1>0, <1>r, <2>1, <2>4 DEF ReadInv, ClockInv, Over
  <2> QED  BY <1>r, <2>6, <2>7, <2>8 DEF CacheInv, OverStays
<1>3. CASE ActRefused
  BY <1>0, <1>q, <1>r, <1>3
  DEF ActRefused, CacheInv, Typed, LiveInv, OpInv, ReadInv, ClockInv, OverStays, Idle, CopyOf,
      RecordOf, Over, Made, Ref, Places
<1>4. CASE TickDue
  <2>1. /\ agent.clock # NoObject /\ agent' = [clock |-> agent.clock, due |-> agent.clock]
        /\ UNCHANGED <<games, cache, op>>
    BY <1>q, <1>4 DEF TickDue
  <2>2. Typed'
    BY <1>0, <1>q, <1>r, <2>1 DEF Typed, Made, Ref
  <2>3. LiveInv' /\ OpInv' /\ ReadInv' /\ ClockInv'
    BY <1>0, <1>q, <1>r, <2>1
    DEF LiveInv, OpInv, ReadInv, ClockInv, CopyOf, RecordOf, Over, Made
  <2> QED  BY <1>r, <2>2, <2>3 DEF CacheInv, OverStays
<1>5. CASE TickStart
  <2>0. op = Idle /\ agent.due # NoObject /\ UNCHANGED <<games, cache>>
    BY <1>0, <1>5 DEF TickStart, OpInv
  <2>1. CASE ~Over(agent.due)
    <3>1. cache # Empty /\ agent.due = cache.rec
      BY <1>0, <2>0, <2>1 DEF ClockInv
    <3>2. op' = [op EXCEPT !.pc = "tick", !.rec = agent.due] /\ UNCHANGED agent
      <4>1. records[agent.due].stage \in {"playing", "settled"}
        BY <1>0, <1>q, <2>0 DEF Typed, Record, Ref
      <4> QED  BY <1>5, <2>1, <4>1 DEF TickStart, Over
    <3>3. op' = [pc |-> "tick", rec |-> cache.rec, game |-> NoObject]
      BY <2>0, <3>1, <3>2 DEF Idle
    <3>4. \A r \in Readers : reader[r].pc = "idle"
      BY <1>r, <3>3 DEF ReadsAlone
    <3>5. Typed'
      BY <1>0, <1>q, <1>r, <2>0, <3>2, <3>3 DEF Typed, Made, Ref, Places
    <3>6. LiveInv' /\ OpInv' /\ ReadInv' /\ ClockInv'
      BY <1>0, <1>r, <2>0, <3>1, <3>2, <3>3, <3>4
      DEF LiveInv, OpInv, ReadInv, ClockInv, CopyOf, RecordOf, Over, Made
    <3> QED  BY <1>r, <3>5, <3>6 DEF CacheInv, OverStays
  <2>2. CASE Over(agent.due)
    <3>1. agent' = NoClock /\ UNCHANGED op
      BY <1>5, <2>2 DEF TickStart, Over
    <3>2. Typed'
      BY <1>0, <1>q, <1>r, <2>0, <3>1 DEF Typed, Made, Ref, NoClock
    <3>3. LiveInv' /\ OpInv' /\ ReadInv' /\ ClockInv'
      BY <1>0, <1>r, <2>0, <3>1
      DEF LiveInv, OpInv, ReadInv, ClockInv, CopyOf, RecordOf, Over, Made, NoClock
    <3> QED  BY <1>r, <3>2, <3>3 DEF CacheInv, OverStays
  <2> QED  BY <2>1, <2>2
<1>6. CASE TickRuntime
  <2>1. op.pc = "tick" /\ cache # Empty /\ op.rec = cache.rec /\ UNCHANGED <<cache, agent>>
    BY <1>0, <1>6 DEF TickRuntime, OpInv
  <2>2. op' = [op EXCEPT !.pc = "agents", !.game = cache.game] /\ UNCHANGED games
    BY <1>6, <2>1 DEF TickRuntime, Load
  <2>3. op' = [pc |-> "agents", rec |-> cache.rec, game |-> cache.game]
    BY <1>q, <2>1, <2>2
  <2>4. Typed'
    BY <1>0, <1>q, <1>r, <2>1, <2>2, <2>3 DEF Typed, Made, Ref, Places
  <2>5. LiveInv' /\ OpInv' /\ ReadInv' /\ ClockInv'
    BY <1>0, <1>r, <2>1, <2>2, <2>3
    DEF LiveInv, OpInv, ReadInv, ClockInv, CopyOf, RecordOf, Over, Made
  <2> QED  BY <1>r, <2>4, <2>5 DEF CacheInv, OverStays
<1>7. CASE TickInstall
  BY <1>7, <1>q DEF TickInstall, Places
<1> QED  BY <1>1, <1>2, <1>3, <1>4, <1>5, <1>6, <1>7
(***************************************************************************)
(* The game goes on with the live record and game: the disk, the record    *)
(* and the game are the same again, or the match is over and nothing is    *)
(* live.                                                                   *)
(***************************************************************************)
LEMMA WritesKeep ==
    ASSUME CacheAssumption, CacheInv, op.pc \in {"submit", "agents"}, op' = Idle,
           NEW replay \in Seq(Actions), Write(op.rec, op.game, replay),
           UNCHANGED <<objects, reader>>
    PROVE  Typed' /\ LiveInv' /\ OpInv' /\ ReadInv' /\ ClockInv' /\ disk'.replay = replay
<1>0. Typed /\ LiveInv /\ OpInv /\ ReadInv /\ ClockInv
  BY DEF CacheInv
<1> DEFINE o == cache.rec
           over == Len(replay) >= MaxMoves
           record == [disk EXCEPT !.replay = replay,
                                  !.stage = IF over THEN "settled" ELSE @]
<1>1. /\ o \in Made /\ o \in Objects /\ records[o] = disk /\ disk.stage = "playing"
      /\ op.rec = o /\ op.game = o /\ cache = [rec |-> o, game |-> o] /\ cache # Empty
      /\ NoObject \notin Made /\ disk \in Record
      /\ records \in [Objects -> Record] /\ games \in [Objects -> Seq(Actions)]
      /\ agent \in [clock : Ref, due : Ref]
  BY <1>0, Grows DEF OpInv, LiveInv, CopyOf, RecordOf, Typed
<1>2. /\ games' = [games EXCEPT ![o] = replay] /\ records' = [records EXCEPT ![o] = record]
      /\ disk' = record /\ cache' = IF over THEN Empty ELSE cache
      /\ agent' = [clock |-> IF over THEN NoObject ELSE agent.clock,
                   due |-> IF op.pc = "agents" THEN NoObject ELSE agent.due]
  BY <1>1 DEF Write
<1>3. /\ record \in Record /\ record.replay = replay
      /\ record.stage = IF over THEN "settled" ELSE "playing"
  BY <1>1 DEF Record
<1>4. \A r \in Readers : reader[r].pc = "idle"
  BY <1>0 DEF ReadInv
<1>5. /\ records'[o] = disk' /\ games'[o] = replay
      /\ \A x \in Made : x # o => records'[x] = records[x]
  BY <1>1, <1>2 DEF Made, Objects
<1> HIDE DEF record
<1>6. Typed'
  BY <1>0, <1>1, <1>2, <1>3 DEF Typed, Made, Ref, Idle, Empty, Places
<1>7. LiveInv'
  BY <1>1, <1>2, <1>3, <1>5 DEF LiveInv, CopyOf, RecordOf, Made
<1>8. OpInv' /\ ReadInv'
  BY <1>4 DEF OpInv, ReadInv, Idle
<1>9. ClockInv'
  <2>1. agent'.clock # NoObject => cache'.rec = agent'.clock /\ cache' # Empty
    BY <1>0, <1>1, <1>2 DEF ClockInv
  <2>2. ASSUME agent'.due # NoObject
        PROVE  Over(agent.due)' \/ (cache' # Empty /\ agent'.due = cache'.rec)
    <3>1. agent'.due = agent.due /\ agent.due \in Made
      BY <1>1, <1>2, <2>2 DEF Ref
    <3>2. CASE agent.due = o
      BY <1>1, <1>2, <1>3, <1>5, <3>1, <3>2 DEF Over
    <3>3. CASE agent.due # o
      BY <1>0, <1>5, <2>2, <3>1, <3>3 DEF ClockInv, Over
    <3> QED  BY <3>2, <3>3
  <2> QED  BY <1>4, <2>1, <2>2 DEF ClockInv
<1> QED  BY <1>2, <1>3, <1>6, <1>7, <1>8, <1>9

LEMMA ToSetAppend ==
    ASSUME NEW q \in Seq(Actions), NEW p \in Seq(Actions)
    PROVE  ToSet(q \o p) = ToSet(q) \cup ToSet(p) /\ q \o p \in Seq(Actions)
<1>1. /\ q \o p \in Seq(Actions) /\ Len(q \o p) = Len(q) + Len(p)
      /\ Len(q) \in Nat /\ Len(p) \in Nat
      /\ DOMAIN q = 1..Len(q) /\ DOMAIN p = 1..Len(p) /\ DOMAIN (q \o p) = 1..(Len(q) + Len(p))
      /\ \A i \in 1..(Len(q) + Len(p)) :
            (q \o p)[i] = IF i <= Len(q) THEN q[i] ELSE p[i - Len(q)]
  BY ConcatProperties, LenProperties
<1>2. ASSUME NEW x \in ToSet(q) PROVE x \in ToSet(q \o p)
  <2>1. PICK i \in 1..Len(q) : x = q[i]
    BY <1>1, <1>2 DEF ToSet
  <2>2. i \in 1..(Len(q) + Len(p)) /\ (q \o p)[i] = x
    BY <1>1, <2>1
  <2> QED  BY <1>1, <2>2 DEF ToSet
<1>3. ASSUME NEW x \in ToSet(p) PROVE x \in ToSet(q \o p)
  <2>1. PICK i \in 1..Len(p) : x = p[i]
    BY <1>1, <1>3 DEF ToSet
  <2>2. i + Len(q) \in 1..(Len(q) + Len(p)) /\ (q \o p)[i + Len(q)] = x
    BY <1>1, <2>1
  <2> QED  BY <1>1, <2>2 DEF ToSet
<1>4. ASSUME NEW x \in ToSet(q \o p) PROVE x \in ToSet(q) \cup ToSet(p)
  <2>1. PICK i \in 1..(Len(q) + Len(p)) : x = (q \o p)[i]
    BY <1>1, <1>4 DEF ToSet
  <2>2. CASE i <= Len(q)
    <3>1. x = q[i] /\ i \in 1..Len(q)
      BY <1>1, <2>1, <2>2
    <3> QED  BY <1>1, <3>1 DEF ToSet
  <2>3. CASE ~(i <= Len(q))
    <3>1. x = p[i - Len(q)] /\ i - Len(q) \in 1..Len(p)
      BY <1>1, <2>1, <2>3
    <3> QED  BY <1>1, <3>1 DEF ToSet
  <2> QED  BY <2>2, <2>3
<1> QED  BY <1>1, <1>2, <1>3, <1>4

(***************************************************************************)
(* An action of a player is in the replay when it is acknowledged.         *)
(***************************************************************************)
LEMMA SubmitKeeps ==
    ASSUME CacheAssumption, CacheInv, NEW a \in Actions, ActSubmit(a)
    PROVE  CacheInv' /\ OverStays
<1>1. /\ op.pc = "submit" /\ games[op.game] = disk.replay /\ disk.stage = "playing"
      /\ disk.replay \in Seq(Actions)
  BY DEF CacheInv, ActSubmit, OpInv, LiveInv, CopyOf, Typed, Record
<1>2. /\ Write(op.rec, op.game, Append(disk.replay, a))
      /\ acked' = acked \cup {a} /\ op' = Idle /\ UNCHANGED <<objects, reader>>
  BY <1>1 DEF ActSubmit
<1>3. <<a>> \in Seq(Actions) /\ Append(disk.replay, a) = disk.replay \o <<a>>
  BY <1>1, AppendIsConcat
<1>4. a \in ToSet(<<a>>)
  BY DEF ToSet
<1>5. /\ Append(disk.replay, a) \in Seq(Actions)
      /\ ToSet(disk.replay) \cup {a} \subseteq ToSet(Append(disk.replay, a))
  <2>1. /\ disk.replay \o <<a>> \in Seq(Actions)
        /\ ToSet(disk.replay \o <<a>>) = ToSet(disk.replay) \cup ToSet(<<a>>)
    BY <1>1, <1>3, ToSetAppend
  <2> QED  BY <1>3, <1>4, <2>1
<1>6. /\ Typed' /\ LiveInv' /\ OpInv' /\ ReadInv' /\ ClockInv'
      /\ disk'.replay = Append(disk.replay, a)
  BY <1>1, <1>2, <1>5, WritesKeep
<1> QED  BY <1>1, <1>2, <1>5, <1>6 DEF CacheInv, OverStays

(***************************************************************************)
(* A tick of the agent's clock adds to the replay.                         *)
(***************************************************************************)
LEMMA TickKeeps ==
    ASSUME CacheAssumption, CacheInv, TickAgents PROVE CacheInv' /\ OverStays
<1>1. /\ op.pc = "agents" /\ games[op.game] = disk.replay /\ disk.stage = "playing"
      /\ disk.replay \in Seq(Actions)
  BY DEF CacheInv, TickAgents, OpInv, LiveInv, CopyOf, Typed, Record
<1>2. PICK moves \in {<<>>} \cup {<<a>> : a \in Actions} :
          Write(op.rec, op.game, disk.replay \o moves)
  BY <1>1 DEF TickAgents
<1>3. op' = Idle /\ UNCHANGED <<objects, reader, acked>>
  BY DEF TickAgents
<1>4. moves \in Seq(Actions)
  <2>1. <<>> \in Seq(Actions) /\ \A a \in Actions : <<a>> \in Seq(Actions)
    OBVIOUS
  <2> QED  BY <2>1
<1>5. /\ disk.replay \o moves \in Seq(Actions)
      /\ ToSet(disk.replay) \subseteq ToSet(disk.replay \o moves)
  BY <1>1, <1>4, ToSetAppend
<1>6. /\ Typed' /\ LiveInv' /\ OpInv' /\ ReadInv' /\ ClockInv'
      /\ disk'.replay = disk.replay \o moves
  BY <1>1, <1>2, <1>3, <1>5, WritesKeep
<1> QED  BY <1>1, <1>3, <1>5, <1>6 DEF CacheInv, OverStays
(***************************************************************************)
(* autoplay stores its choice on the live record.                          *)
(***************************************************************************)
LEMMA AutoPutKeeps ==
    ASSUME CacheAssumption, CacheInv, AutoPut PROVE CacheInv' /\ OverStays
<1>0. Typed /\ LiveInv /\ OpInv /\ ReadInv /\ ClockInv
  BY DEF CacheInv
<1> DEFINE o == cache.rec
<1>1. /\ op.pc = "autoplay" /\ op.rec = o /\ cache # Empty
      /\ o \in Made /\ records[o] = disk /\ disk.stage = "playing"
      /\ NoObject \notin Made /\ disk \in Record /\ Made \subseteq Objects
      /\ records \in [Objects -> Record] /\ agent \in [clock : Ref, due : Ref]
  BY <1>0, Grows DEF AutoPut, OpInv, LiveInv, CopyOf, RecordOf, Typed
<1>2. PICK enabled \in BOOLEAN :
          /\ records' = [records EXCEPT ![o] = [disk EXCEPT !.auto = enabled]]
          /\ disk' = [disk EXCEPT !.auto = enabled]
          /\ agent' = IF enabled /\ agent.clock = NoObject
                      THEN [agent EXCEPT !.clock = o] ELSE agent
  BY <1>1 DEF AutoPut
<1>3. op' = Idle /\ UNCHANGED <<games, objects, cache, reader, acked>>
  BY DEF AutoPut
<1>4. /\ disk' \in Record /\ disk'.replay = disk.replay /\ disk'.stage = "playing"
      /\ records' \in [Objects -> Record] /\ records'[o] = disk'
      /\ \A x \in Made : x # o => records'[x] = records[x]
  <2>1. PICK rec : rec = [disk EXCEPT !.auto = enabled]
    OBVIOUS
  <2>2. rec \in Record /\ rec.replay = disk.replay /\ rec.stage = "playing"
    BY <1>1, <2>1 DEF Record
  <2>3. records' = [records EXCEPT ![o] = rec] /\ disk' = rec
    BY <1>2, <2>1
  <2> QED  BY <1>1, <2>2, <2>3
<1>5. \A r \in Readers : reader[r].pc = "idle"
  BY <1>0, <1>1 DEF ReadInv
<1>6. /\ agent' \in [clock : Ref, due : Ref] /\ agent'.due = agent.due
      /\ agent'.clock # NoObject => agent'.clock = o
  BY <1>0, <1>1, <1>2 DEF ClockInv, Ref
<1>7. Typed'
  BY <1>0, <1>3, <1>4, <1>6 DEF Typed, Made, Ref, Idle, Places
<1>8. LiveInv' /\ OpInv' /\ ReadInv'
  BY <1>0, <1>1, <1>3, <1>4, <1>5 DEF LiveInv, OpInv, ReadInv, CopyOf, RecordOf, Made, Idle
<1>9. ClockInv'
  <2>1. ASSUME agent.due # NoObject, agent.due # o PROVE Over(agent.due)'
    BY <1>0, <1>1, <1>4, <1>6, <2>1 DEF ClockInv, Over, Ref
  <2> QED  BY <1>1, <1>3, <1>5, <1>6, <2>1 DEF ClockInv
<1> QED  BY <1>1, <1>3, <1>4, <1>7, <1>8, <1>9 DEF CacheInv, OverStays

(***************************************************************************)
(* A restart: a copy of the disk is live, or nothing is.                   *)
(***************************************************************************)
LEMMA RestartKeeps ==
    ASSUME CacheAssumption, CacheInv, Restart PROVE CacheInv' /\ OverStays
<1>0. /\ Typed /\ objects \in Nat /\ Made \subseteq Objects /\ NoObject \notin Made
      /\ disk \in Record /\ disk.replay \in Seq(Actions)
      /\ disk.stage \in {"playing", "settled"}
  BY Grows DEF CacheInv, Typed, Record
<1>1. /\ op' = Idle /\ reader' = [r \in Readers |-> Idle] /\ UNCHANGED <<disk, acked>>
      /\ Revive(TRUE)
  BY DEF Restart, Recover
<1>2. CASE disk.auto /\ disk.stage = "playing"
  <2>1. PICK o : o = objects + 1
    OBVIOUS
  <2>2. /\ objects' = o /\ objects < MaxObjects
        /\ records' = [records EXCEPT ![o] = disk] /\ games' = [games EXCEPT ![o] = disk.replay]
        /\ cache' = [rec |-> o, game |-> o] /\ agent' = [clock |-> o, due |-> NoObject]
    BY <1>1, <1>2, <2>1 DEF Revive
  <2>3. o \in Objects /\ o \in Made' /\ o # NoObject
    BY <1>0, <2>1, <2>2 DEF CacheAssumption, Objects, Made, Typed
  <2>4. Typed'
    BY <1>0, <1>1, <2>2, <2>3 DEF Typed, Ref, Idle, Places
  <2>5. LiveInv'
    BY <1>0, <1>1, <1>2, <2>2, <2>3 DEF LiveInv, CopyOf, RecordOf, Typed
  <2>6. OpInv' /\ ReadInv'
    BY <1>1 DEF OpInv, ReadInv, Idle
  <2>7. ClockInv'
    BY <1>1, <2>2, <2>3 DEF ClockInv, Empty, Idle
  <2> QED  BY <1>1, <2>4, <2>5, <2>6, <2>7 DEF CacheInv, OverStays
<1>3. CASE ~(disk.auto /\ disk.stage = "playing")
  <2>1. cache' = Empty /\ agent' = NoClock /\ UNCHANGED <<objects, records, games>>
    BY <1>1, <1>3 DEF Revive
  <2>2. Typed'
    BY <1>0, <1>1, <2>1 DEF Typed, Made, Ref, Idle, Places, Empty, NoClock
  <2>3. LiveInv' /\ OpInv' /\ ReadInv' /\ ClockInv'
    BY <1>1, <2>1 DEF LiveInv, OpInv, ReadInv, ClockInv, Idle, NoClock
  <2> QED  BY <1>1, <2>2, <2>3 DEF CacheInv, OverStays
<1> QED  BY <1>2, <1>3

LEMMA CacheInit == CacheAssumption /\ Init => CacheInv
<1> SUFFICES ASSUME CacheAssumption, Init PROVE CacheInv
  OBVIOUS
<1>1. /\ 1 \in Objects /\ objects = 1 /\ Made = {1} /\ NoObject # 1 /\ NoObject \notin Objects
  BY DEF CacheAssumption, Init, Objects, Made
<1>2. <<>> \in Seq(Actions) /\ Fresh \in Record /\ Fresh.replay = <<>>
  BY DEF Fresh, Record
<1>3. Typed
  BY <1>1, <1>2 DEF Init, Typed, Ref, Idle, Places, NoClock
<1>4. LiveInv /\ OpInv /\ ReadInv /\ ClockInv
  BY <1>1, <1>2
  DEF Init, LiveInv, OpInv, ReadInv, ClockInv, Idle, NoClock, CopyOf, RecordOf, Fresh
<1> QED  BY <1>3, <1>4 DEF CacheInv, Init

LEMMA CacheNext ==
    ASSUME CacheAssumption, CacheInv, [Careful]_vars PROVE CacheInv' /\ OverStays
<1>1. CASE UNCHANGED vars
  BY <1>1
  DEF vars, CacheInv, Typed, LiveInv, OpInv, ReadInv, ClockInv, CopyOf, RecordOf, Over, Made,
      Ref, OverStays
<1>2. CASE Careful
  BY <1>2, ReadsKeep, RequiresKeep, LookupsKeep, SubmitKeeps, TickKeeps, AutoPutKeeps, RestartKeeps
  DEF Careful, Next
<1> QED  BY <1>1, <1>2

LEMMA CacheHolds ==
    ASSUME CacheAssumption PROVE CarefulSpec => [][OverStays]_vars /\ []CacheInv
<1>1. Init => CacheInv
  BY CacheInit
<1>2. CacheInv /\ [Careful]_vars => CacheInv' /\ [OverStays]_vars
  BY CacheNext
<1> QED  BY <1>1, <1>2, PTL DEF CarefulSpec, Careful

(***************************************************************************)
(* What a player was told stays in the replay on the disk, whichever copy  *)
(* of the record is written: reads, restarts and the agent's clock never   *)
(* make an older one live (require, runtime, applyPlayerAction, autoplay,  *)
(* recoverRealtime).                                                       *)
(***************************************************************************)
THEOREM AcknowledgedStay ==
    ASSUME CacheAssumption PROVE CarefulSpec => []AcknowledgedActionsSurvive
<1>1. CacheInv => AcknowledgedActionsSurvive
  BY DEF CacheInv, AcknowledgedActionsSurvive
<1> QED  BY <1>1, CacheHolds, PTL

(***************************************************************************)
(* A match that is over is not played on from a copy that was read before  *)
(* (the stage that action and the clock's tick look at).                   *)
(***************************************************************************)
THEOREM FinishedStaysSo == ASSUME CacheAssumption PROVE CarefulSpec => FinishedStays
<1>1. [OverStays]_vars => [disk.stage = "settled" => disk' = disk]_disk
  BY DEF OverStays, vars
<1> QED  BY <1>1, CacheHolds, PTL DEF FinishedStays

(***************************************************************************)
(* Every copy in use has been made, and nothing else was acknowledged than *)
(* actions (the maps runtimes and liveRecords, and who still refers to     *)
(* what was taken from them).                                              *)
(***************************************************************************)
THEOREM CacheIsTyped == ASSUME CacheAssumption PROVE CarefulSpec => []TypeOK
<1> DEFINE Few == restarts \in 0..MaxRestarts
<1>1. Init => Few
  BY DEF Init, CacheAssumption
<1>2. Few /\ [Careful]_vars => Few'
  <2> SUFFICES ASSUME Few, [Careful]_vars PROVE Few'
    OBVIOUS
  <2>1. restarts' = restarts \/ (restarts < MaxRestarts /\ restarts' = restarts + 1)
    BY DEF Careful, Next, vars, ReadRequire, ReadRuntime, ReadInstall, ActRequire, ActRuntime, ActInstall,
           ActSubmit, ActRefused, AutoRequire, AutoPut, TickDue, TickStart, TickRuntime,
           TickInstall, TickAgents, Restart
  <2> QED  BY <2>1 DEF CacheAssumption
<1>3. CacheInv /\ Few => TypeOK
  <2> SUFFICES ASSUME CacheInv, Few PROVE TypeOK
    OBVIOUS
  <2>0. Typed /\ LiveInv /\ OpInv /\ ReadInv /\ ClockInv
    BY DEF CacheInv
  <2>1. cache = Empty \/ (cache.rec \in 1..objects /\ cache.game \in 1..objects)
    BY <2>0 DEF LiveInv, CopyOf, RecordOf, Made
  <2>2. op.pc # "idle" => op.rec \in 1..objects
    BY <2>0, <2>1 DEF Typed, Places, OpInv, RecordOf, Made
  <2>3. op.pc \in {"submit", "agents"} => op.game \in 1..objects
    BY <2>0, <2>1 DEF OpInv
  <2>4. acked \subseteq Actions
    <3>1. disk.replay \in Seq(Actions) /\ acked \subseteq ToSet(disk.replay)
      BY DEF CacheInv, Typed, Record
    <3> QED  BY <3>1 DEF ToSet
  <2> QED  BY <2>0, <2>1, <2>2, <2>3, <2>4 DEF Typed, Places, Ref, Made, TypeOK
<1> HIDE DEF Few
<1> QED  BY <1>1, <1>2, <1>3, CacheHolds, PTL DEF CarefulSpec, Careful
=============================================================================
