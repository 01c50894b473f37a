------------------------- MODULE AuthoritativeMatch -------------------------
(***************************************************************************)
(* AuthoritativeMatch (match-runtime/src/index.ts): the game that a host   *)
(* runs, its history, and how both are saved and recovered, through the    *)
(* match worker and DurableMatchStore (match-store.ts).                    *)
(*                                                                         *)
(* Calls of the class are carried out one after the other (operation), but *)
(* each awaits the hash of the new state, and pause, resume and end wait   *)
(* for nobody.  A save exports the match when no call is under way, as in  *)
(* the exclusive sections of both hosts, and writes the chunks and then    *)
(* the pointer that makes them the saved match.                            *)
(*                                                                         *)
(* A state is the sequence of the steps that led to it, and its hash is    *)
(* that sequence.  Whether a game accepts an action is left open: only     *)
(* accepted actions are replayed.  Left out: the events' contents, of      *)
(* which only the last one's kind is kept, and observations.               *)
(***************************************************************************)
EXTENDS Naturals, Sequences, SequencesExt

CONSTANTS Actions,      \* action ids
          Snapshots,    \* a realtime game has a checkpoint every so many steps
          MaxSteps,     \* a game is over after so many steps
          Chunks,       \* of a saved match
          MaxQueue, MaxSaves, MaxFaults

MatchBounds ==
    /\ "tick" \notin Actions
    /\ Snapshots \in Nat \ {0} /\ MaxSteps \in Nat \ {0} /\ Chunks \in Nat \ {0}
    /\ MaxQueue \in Nat \ {0} /\ MaxSaves \in Nat /\ MaxFaults \in Nat

VARIABLES
    kind,     \* of the game: it has ticks, its states can be restored
    game,     \* the AuthoritativeMatch of the process, if it has one
    queue,    \* calls of submitAction and advanceTick
    pending,  \* the call whose checkpoint is awaited
    version,  \* the record's version
    saving,   \* the save under way and its chunks
    pointer,  \* the document of the match, with the chunks it points to
    flying,   \* a pointer put of a process that is gone
    acked,    \* actions in a save that was answered
    faults

vars == <<kind, game, queue, pending, version, saving, pointer, flying, acked, faults>>

Tick == [kind |-> "tick"]
Action(a, based) == [kind |-> "action", id |-> a, based |-> based]
NoCall == [kind |-> "none"]
NoGame == [status |-> "none"]
NoSave == [pc |-> "none"]
Over == {"completed", "ended"}

\* Between checkpoints only the replay's last one holds the state.
Periodic(length, status) ==
    kind.ticks => length = 0 \/ length % Snapshots = 0 \/ status = "completed"
Checkpoint(state, hash) == [at |-> Len(state), state |-> state, hash |-> hash]

\* create and start.
NewMatch ==
    [status |-> "running", state |-> <<>>, hash |-> <<>>,
     checkpoints |-> <<Checkpoint(<<>>, <<>>)>>, commands |-> <<>>, timeline |-> <<>>,
     results |-> [a \in Actions |-> "none"], last |-> "other"]

\* Slip: the last checkpoint is taken for the current one.
ExportAsChecked(m) ==
    [commands |-> m.commands, timeline |-> m.timeline, last |-> m.last,
     checkpoints |-> m.checkpoints, final |-> m.hash]

\* exportReplay.
Export(m) ==
    [commands |-> m.commands, timeline |-> m.timeline, last |-> m.last,
     checkpoints |-> IF Last(m.checkpoints).at = Len(m.state) THEN m.checkpoints
                     ELSE Append(m.checkpoints, Checkpoint(m.state, m.hash)),
     final |-> m.hash]

Saved(m, v) == [version |-> v, replay |-> Export(m), status |-> m.status]
\* The match was created, started and saved.
Init ==
    /\ kind \in [ticks : BOOLEAN, restores : BOOLEAN]
    /\ game = NewMatch /\ queue = <<>> /\ pending = NoCall
    /\ version = 1 /\ saving = NoSave
    /\ pointer = [version |-> 1, written |-> Chunks, match |-> Saved(game, 1)]
    /\ flying = NoSave /\ acked = {} /\ faults = 0
-----------------------------------------------------------------------------
(* submitAction and advanceTick.                                           *)
OfSaving == <<version, saving, pointer, flying, acked, faults>>

Submit(a) ==
    /\ game # NoGame /\ saving = NoSave /\ Len(queue) < MaxQueue
    /\ \E based \in {Len(game.state), 0} : queue' = Append(queue, Action(a, based))
    /\ UNCHANGED <<kind, game, pending, OfSaving>>

AdvanceTick ==
    /\ game # NoGame /\ saving = NoSave /\ kind.ticks /\ Len(queue) < MaxQueue
    /\ queue' = Append(queue, Tick)
    /\ UNCHANGED <<kind, game, pending, OfSaving>>

\* The call of submitAction is refused before it reaches the game's rules.
Stale(call) ==
    IF kind.ticks THEN call.based > Len(game.state) ELSE call.based # Len(game.state)

\* Slip: whether an action was handled is known when it is submitted.
HandledBefore(a) == FALSE

Handled(a) == game.results[a] # "none"

\* The state moves on; its hash is awaited.
Applied(m, step) ==
    LET state == Append(m.state, step) IN
    [m EXCEPT !.state = state,
              !.status = IF Len(state) >= MaxSteps THEN "completed" ELSE @,
              !.last = IF Len(state) >= MaxSteps THEN "completed" ELSE "other"]

Run ==
    /\ pending = NoCall /\ queue # <<>> /\ queue' = Tail(queue)
    /\ LET call == Head(queue) IN
       IF call = Tick
       THEN IF game.status # "running" THEN UNCHANGED <<game, pending>>
            ELSE LET next == Applied(game, "tick") IN
                 /\ game' = [next EXCEPT !.timeline = Append(@, 0)]
                 /\ pending' = call
       ELSE \/ Handled(call.id) /\ UNCHANGED <<game, pending>>
            \/ /\ ~Handled(call.id) /\ UNCHANGED pending
               /\ game' = [game EXCEPT !.results[call.id] = "rejected"]
            \/ /\ ~Handled(call.id) /\ game.status = "running" /\ ~Stale(call)
               /\ game' = Applied(game, call.id) /\ pending' = call
    /\ UNCHANGED <<kind, OfSaving>>

\* recordCheckpoint, once the hash is known.
Checkpointed(m) ==
    [m EXCEPT !.hash = m.state,
              !.checkpoints = IF Periodic(Len(m.state), m.status)
                              THEN Append(@, Checkpoint(m.state, m.state)) ELSE @]

\* Slip: the accepted action's id is not remembered.
RecordedOnly(m, a) ==
    [m EXCEPT !.commands = Append(@, a), !.timeline = Append(@, Len(m.commands) + 1)]

Recorded(m, a) ==
    [m EXCEPT !.results[a] = "accepted", !.commands = Append(@, a),
              !.timeline = Append(@, Len(m.commands) + 1)]

Goes ==
    /\ pending # NoCall /\ pending' = NoCall
    /\ game' = IF pending = Tick THEN Checkpointed(game)
               ELSE Recorded(Checkpointed(game), pending.id)
    /\ UNCHANGED <<kind, queue, OfSaving>>

(* What waits for nobody: pause, resume and end.                           *)
Sets(from, to) ==
    /\ game.status \in from /\ saving = NoSave
    /\ game' = [game EXCEPT !.status = to, !.last = "other"]
    /\ UNCHANGED <<kind, queue, pending, OfSaving>>
Pause == Sets({"running"}, "paused")
Resume == Sets({"paused"}, "running")
End == Sets({"running", "paused"}, "ended")
-----------------------------------------------------------------------------
(* persist and DurableMatchStore.save.                                     *)
OfCalls == <<kind, queue>>

Saving(m, v, recovers) ==
    [pc |-> "chunks", written |-> 0, expected |-> v, match |-> Saved(m, v + 1),
     recovers |-> recovers]

\* Slip: a match is saved while an action waits for its checkpoint.
QuietEnough == queue = <<>>

\* exclusive: no call is under way.
Quiet == queue = <<>> /\ pending = NoCall

SaveBegins ==
    /\ game # NoGame /\ saving = NoSave /\ Quiet
    /\ version <= MaxSaves /\ saving' = Saving(game, version, FALSE)
    /\ UNCHANGED <<OfCalls, game, pending, version, pointer, flying, acked, faults>>

\* Slip: the pointer is put before the last chunk.
ChunksOutstanding(written) == written = Chunks - 1

ChunksWritten(written) == written = Chunks

PutChunk ==
    /\ saving.pc = "chunks"
    /\ LET n == saving.written + 1 IN
       saving' = [saving EXCEPT !.written = n,
                                !.pc = IF ChunksWritten(n) THEN "pointer" ELSE "chunks"]
    /\ UNCHANGED <<OfCalls, game, pending, version, pointer, flying, acked, faults>>

\* Slip: the pointer's version is not compared.
PutsOver(save) ==
    pointer' = [version |-> save.match.version, written |-> save.written, match |-> save.match]

Puts(save) ==
    /\ pointer.version = save.expected
    /\ pointer' = [version |-> save.match.version, written |-> save.written, match |-> save.match]

PutPointer ==
    /\ saving.pc = "pointer" /\ Puts(saving)
    /\ version' = version + 1 /\ saving' = NoSave
    /\ acked' = acked \cup ToSet(saving.match.replay.commands)
    /\ UNCHANGED <<OfCalls, game, pending, flying, faults>>

\* A put throws, carried out or not: a running match pauses, and its version
\* stays what it was; a match that was being recovered is not taken on.
SaveFails ==
    /\ \/ /\ saving.pc = "pointer" /\ pointer.version # saving.expected
          /\ UNCHANGED <<pointer, faults>>
       \/ /\ saving # NoSave /\ faults < MaxFaults /\ faults' = faults + 1
          /\ UNCHANGED pointer \/ (saving.pc = "pointer" /\ Puts(saving))
    /\ saving' = NoSave
    /\ game' = IF saving.recovers THEN NoGame
               ELSE IF game.status = "running" THEN [game EXCEPT !.status = "paused", !.last = "other"]
               ELSE game
    /\ UNCHANGED <<OfCalls, pending, version, flying, acked>>

\* The process is gone; a pointer that it was putting may arrive later.
Crash ==
    /\ game # NoGame /\ faults < MaxFaults /\ faults' = faults + 1
    /\ game' = NoGame /\ queue' = <<>> /\ pending' = NoCall /\ saving' = NoSave
    /\ flying' = IF saving.pc = "pointer" THEN saving ELSE flying
    /\ UNCHANGED <<kind, version, pointer, acked>>

Arrives ==
    /\ flying # NoSave /\ flying' = NoSave
    /\ Puts(flying) \/ UNCHANGED pointer
    /\ UNCHANGED <<OfCalls, game, pending, version, saving, acked, faults>>
-----------------------------------------------------------------------------
(* DurableMatchStore.load and LocalMatchPlatform.restore.                  *)
\* The steps of a timeline (0 is a tick) as replayInto repeats them: it stops where the game is over.
Steps(replay) ==
    LET step(i) == IF replay.timeline[i] = 0 THEN "tick" ELSE replay.commands[replay.timeline[i]]
        all == [i \in DOMAIN replay.timeline |-> step(i)] IN
    SubSeq(all, 1, IF Len(all) < MaxSteps THEN Len(all) ELSE MaxSteps)

\* verifyReplay: every checkpoint is met and the last one is the final state.
Verified(replay) ==
    LET steps == Steps(replay) IN
    /\ \A i \in DOMAIN replay.checkpoints :
          LET c == replay.checkpoints[i] IN
          c.at <= Len(steps) /\ c.hash = SubSeq(steps, 1, c.at)
    /\ replay.final = SubSeq(steps, 1, Last(replay.checkpoints).at)

Rebuilt(match, state, checkpoints) ==
    [status |-> match.status, state |-> state,
     hash |-> match.replay.final, checkpoints |-> checkpoints,
     commands |-> match.replay.commands, timeline |-> match.replay.timeline,
     results |-> [a \in Actions |-> IF a \in ToSet(match.replay.commands) THEN "accepted" ELSE "none"],
     last |-> match.replay.last]

\* recover, by the whole timeline.
Recovered(match) == Rebuilt(match, Steps(match.replay), match.replay.checkpoints)

\* Slip: the timeline's ticks and actions before the checkpoint are not kept.
RestoredAfresh(match) ==
    [Rebuilt(match, Last(match.replay.checkpoints).state, match.replay.checkpoints)
       EXCEPT !.timeline = <<>>]

\* A new match has a checkpoint of its own of the first state.
TakenOver(checkpoints) ==
    LET taken[i \in 0..Len(checkpoints)] ==
            IF i = 0 THEN <<Checkpoint(<<>>, <<>>)>>
            ELSE IF checkpoints[i].at # 0 THEN Append(taken[i - 1], checkpoints[i])
            ELSE taken[i - 1] IN
    taken[Len(checkpoints)]

\* restoreCheckpoint, by the last checkpoint.
Restored(match) ==
    Rebuilt(match, Last(match.replay.checkpoints).state, TakenOver(match.replay.checkpoints))
Trusted(replay) ==
    LET last == Last(replay.checkpoints) IN last.hash = replay.final /\ last.state = last.hash

Whole(p) == p.written = Chunks

\* A recovered match is saved again before anybody plays it.
Load ==
    /\ game = NoGame /\ Whole(pointer) /\ pointer.version <= MaxSaves
    /\ LET match == pointer.match IN
       /\ \/ kind.restores /\ Trusted(match.replay) /\ game' = Restored(match)
          \/ ~kind.restores /\ Verified(match.replay) /\ game' = Recovered(match)
       /\ version' = match.version /\ saving' = Saving(game', match.version, TRUE)
    /\ UNCHANGED <<OfCalls, pending, pointer, flying, acked, faults>>

Next ==
    \/ \E a \in Actions : Submit(a)
    \/ AdvanceTick \/ Run \/ Goes \/ Pause \/ Resume \/ End
    \/ SaveBegins \/ PutChunk \/ PutPointer \/ SaveFails
    \/ Crash \/ Arrives \/ Load

Spec == Init /\ [][Next]_vars
-----------------------------------------------------------------------------
TypeOK ==
    /\ kind \in [ticks : BOOLEAN, restores : BOOLEAN]
    /\ game # NoGame =>
          /\ game.status \in {"running", "paused"} \cup Over
          /\ Len(game.state) <= MaxSteps /\ game.results \in [Actions -> {"none", "accepted", "rejected"}]
          /\ game.status = "completed" => game.last = "completed"
    /\ Len(queue) <= MaxQueue /\ saving.pc \in {"none", "chunks", "pointer"}
    /\ version \in 1..MaxSaves + 1 /\ acked \subseteq Actions

\* What is saved can always be read, verified and recovered, to the very state
\* that was exported ("Publish the small CAS pointer only after every immutable
\* payload chunk is durable", match-store.ts:11), and a match that goes on from
\* there can be replayed again.
SavedMatchIsWhole ==
    LET match == pointer.match IN
    Whole(pointer) /\ match.version = pointer.version /\ Verified(match.replay) /\ Trusted(match.replay)

\* An action whose save was answered is in the saved match, whatever put was
\* late, lost or repeated.
AcknowledgedSurvive == acked \subseteq ToSet(pointer.match.replay.commands)

\* An action is applied once, however often and whenever it is sent again.
AppliedOnce == game # NoGame => \A i, j \in DOMAIN game.state :
    game.state[i] = game.state[j] /\ i # j => game.state[i] = "tick"

\* The saved match goes forward: no step that was saved is undone.
SavedGoesForward ==
    [][ IsPrefix(Steps(pointer.match.replay), Steps(pointer'.match.replay)) ]_pointer
=============================================================================
