---------------------------- MODULE MatchHosting ----------------------------
(***************************************************************************)
(* The matches of one LocalArcadePlatform (services/match-worker/src/      *)
(* index.ts): creation under a key, the limits on active matches,          *)
(* matchmaking, rounds, the maintenance that ends idle matches, and        *)
(* recovery.  What happens inside a match is MatchWorker's.                *)
(*                                                                         *)
(* A match's id is the hash of its owner and key, so a key stands for it.  *)
(* One release, whose games have SeatsOf seats; queues make public         *)
(* lobbies, other creations are unlisted.  An operation of a match is one  *)
(* step with its save (exclusive by match id); creations wait for each     *)
(* other, and so do searches for an opponent.                              *)
(***************************************************************************)
EXTENDS Naturals, FiniteSets

CONSTANTS Calls,           \* requests that can be under way
          Keys, Owner(_),  \* of creations
          Limit, OwnerLimit, \* on active matches: 24 (12 of a release) and 4
          SeatsOf, LastRound,
          MaxCalls, MaxMishaps \* bounds

HostingBounds ==
    {Limit, OwnerLimit, SeatsOf, LastRound, MaxCalls, MaxMishaps} \subseteq Nat \ {0}

VARIABLES
    saved,   \* the stored records; version 0: none
    live,    \* matches, and idempotency, in memory
    upkeep,  \* the maintenance interval is set
    call,    \* requests
    beside,  \* matches that became active otherwise than by being created
    unsaved, \* matches whose state in memory is not the stored one since a save failed
    told,    \* seats that a player was told it has
    calls, mishaps

vars == <<saved, live, upkeep, call, beside, unsaved, told, calls, mishaps>>

Players == {Owner(k) : k \in Keys}
NoMatch == [version |-> 0, status |-> "none", seats |-> {}, public |-> FALSE, round |-> 0, born |-> 0]
Free == [pc |-> "free"]
Active == {"lobby", "running", "paused"}

Exists(matches) == {k \in Keys : matches[k].version > 0}
ActiveIn(matches) == {k \in Keys : matches[k].status \in Active}
Up(m) == [m EXCEPT !.version = @ + 1]

Init ==
    /\ saved = [k \in Keys |-> NoMatch] /\ live = saved /\ upkeep = TRUE
    /\ call = [c \in Calls |-> Free]
    /\ beside = {} /\ unsaved = {} /\ told = {} /\ calls = 0 /\ mishaps = 0

Goes(c, next) == call' = [call EXCEPT ![c] = next]
Mishap == mishaps < MaxMishaps /\ mishaps' = mishaps + 1
-----------------------------------------------------------------------------
(* persist: the changed match m replaces the record it was made from.  When *)
(* that fails, or its answer is lost, m stays in memory and a game that     *)
(* runs is paused.                                                          *)
Persisted(k, m) ==
    /\ m.version = saved[k].version
    /\ saved' = [saved EXCEPT ![k] = Up(m)] /\ live' = [live EXCEPT ![k] = Up(m)]
    /\ UNCHANGED <<unsaved, mishaps>>

NotPersisted(k, m) ==
    /\ \/ m.version # saved[k].version /\ UNCHANGED <<saved, mishaps>>
       \/ Mishap /\ UNCHANGED saved
       \/ Mishap /\ m.version = saved[k].version /\ saved' = [saved EXCEPT ![k] = Up(m)]
    /\ live' = [live EXCEPT ![k] = [m EXCEPT !.status = IF @ = "running" THEN "paused" ELSE @]]
    /\ unsaved' = unsaved \cup {k}

Persist(k, m) == Persisted(k, m) \/ NotPersisted(k, m)
-----------------------------------------------------------------------------
(* Creation                                                                 *)
Begin(c, kind, p, k) ==
    /\ call[c].pc = "free" /\ calls < MaxCalls /\ calls' = calls + 1
    /\ kind # "join" => Owner(k) = p
    /\ kind = "join" => live[k].version > 0
    /\ Goes(c, [pc |-> CASE kind = "find" -> "queued" [] kind = "create" -> "create" [] OTHER -> "join",
                kind |-> kind, player |-> p, match |-> k])
    /\ UNCHANGED <<saved, live, upkeep, beside, unsaved, told, mishaps>>

AtCapacity(k) ==
    \/ Cardinality(ActiveIn(live)) >= Limit
    \/ Cardinality({j \in ActiveIn(live) : Owner(j) = Owner(k)}) >= OwnerLimit

\* After the creation: whoever looked for an opponent joins the match.
Created(c) == Goes(c, IF call[c].kind = "find" THEN [call[c] EXCEPT !.pc = "join"] ELSE Free)

\* Slip: creations do not wait for each other.
CreateAtOnce(c) ==
    LET k == call[c].match IN
    /\ call[c].pc = "create"
    /\ IF live[k].version > 0 THEN Created(c)
       ELSE Goes(c, IF AtCapacity(k) THEN Free ELSE [call[c] EXCEPT !.pc = "build"])
    /\ UNCHANGED <<saved, live, upkeep, beside, unsaved, told, calls, mishaps>>

\* createMatch, up to its first await.
Create(c) ==
    LET k == call[c].match IN
    /\ call[c].pc = "create" /\ \A d \in Calls : call[d].pc # "build"
    /\ IF live[k].version > 0 THEN Created(c)
       ELSE Goes(c, IF AtCapacity(k) THEN Free ELSE [call[c] EXCEPT !.pc = "build"])
    /\ UNCHANGED <<saved, live, upkeep, beside, unsaved, told, calls, mishaps>>

NewMatch(c) ==
    [version |-> 1, status |-> "lobby", seats |-> {}, public |-> call[c].kind = "find",
     round |-> 1, born |-> Cardinality(Exists(saved)) + 1]

\* Slip: a new record replaces whatever was stored under its id.
BuildOver(c) ==
    LET k == call[c].match IN
    /\ call[c].pc = "build" /\ Created(c)
    /\ saved' = [saved EXCEPT ![k] = NewMatch(c)] /\ live' = [live EXCEPT ![k] = NewMatch(c)]
    /\ upkeep' = TRUE
    /\ UNCHANGED <<beside, unsaved, told, calls, mishaps>>

\* The new match is put, which wants that there is none, and served.
Build(c) ==
    LET k == call[c].match IN
    /\ call[c].pc = "build" /\ Created(c)
    /\ saved[k].version = 0
    /\ saved' = [saved EXCEPT ![k] = NewMatch(c)] /\ live' = [live EXCEPT ![k] = NewMatch(c)]
    /\ upkeep' = TRUE
    /\ UNCHANGED <<beside, unsaved, told, calls, mishaps>>

\* The release cannot be read or run, another record is there, or the
\* store's answer is lost.
BuildFails(c) ==
    LET k == call[c].match IN
    /\ call[c].pc = "build" /\ Goes(c, Free)
    /\ \/ saved[k].version > 0 /\ UNCHANGED <<saved, mishaps>>
       \/ Mishap /\ UNCHANGED saved
       \/ Mishap /\ saved[k].version = 0 /\ saved' = [saved EXCEPT ![k] = NewMatch(c)]
    /\ UNCHANGED <<live, upkeep, beside, unsaved, told, calls>>
-----------------------------------------------------------------------------
(* Finding an opponent, and joining                                         *)
Candidates ==
    {k \in Keys : live[k].status = "lobby" /\ live[k].public /\ Cardinality(live[k].seats) < SeatsOf}
Oldest(ks) == CHOOSE k \in ks : \A j \in ks : live[k].born <= live[j].born

Searches(c) == call[c].pc # "free" /\ call[c].kind = "find" /\ call[c].pc # "queued"

\* Slip: searches do not wait for each other.
FindAtOnce(c) ==
    /\ call[c].pc = "queued"
    /\ Goes(c, IF Candidates = {} THEN [call[c] EXCEPT !.pc = "create"]
               ELSE [call[c] EXCEPT !.pc = "join", !.match = Oldest(Candidates)])
    /\ UNCHANGED <<saved, live, upkeep, beside, unsaved, told, calls, mishaps>>

\* findOrCreateMatch: the release's queue is free.
Find(c) ==
    /\ call[c].pc = "queued" /\ \A d \in Calls : ~Searches(d)
    /\ Goes(c, IF Candidates = {} THEN [call[c] EXCEPT !.pc = "create"]
               ELSE [call[c] EXCEPT !.pc = "join", !.match = Oldest(Candidates)])
    /\ UNCHANGED <<saved, live, upkeep, beside, unsaved, told, calls, mishaps>>

Filled(m) == [m EXCEPT !.status = IF Cardinality(m.seats) = SeatsOf THEN "running" ELSE @]

\* joinMatch: whoever has a seat is told so, without another save.
Join(c) ==
    LET k == call[c].match
        p == call[c].player
        m == live[k]
        taken == Filled([m EXCEPT !.seats = @ \cup {p}])
    IN
    /\ call[c].pc = "join" /\ Goes(c, Free)
    /\ \/ p \in m.seats /\ told' = told \cup {<<p, k>>}
          /\ UNCHANGED <<saved, live, unsaved, mishaps>>
       \/ /\ p \notin m.seats /\ m.status = "lobby"
          /\ \/ Persisted(k, taken) /\ told' = told \cup {<<p, k>>}
             \/ NotPersisted(k, taken) /\ UNCHANGED told
       \/ p \notin m.seats /\ m.status # "lobby"
          /\ UNCHANGED <<saved, live, unsaved, told, mishaps>>
    /\ UNCHANGED <<upkeep, beside, calls>>
-----------------------------------------------------------------------------
(* The life of a match                                                      *)
\* The round is decided: the series is over or awaits the next one.
Finish(k) ==
    /\ live[k].status = "running"
    /\ Persist(k, [live[k] EXCEPT !.status = IF live[k].round = LastRound THEN "over" ELSE "between"])
    /\ UNCHANGED <<upkeep, call, beside, told, calls>>

\* Slip: the next round does not set the interval.
AdvanceOnly(k) ==
    /\ live[k].status = "between"
    /\ Persist(k, [live[k] EXCEPT !.status = "running", !.round = @ + 1])
    /\ beside' = beside \cup {k}
    /\ UNCHANGED <<upkeep, call, told, calls>>

\* advanceRound, and the save after it: nobody counts the active matches.
Advance(k) ==
    /\ live[k].status = "between"
    /\ Persist(k, [live[k] EXCEPT !.status = "running", !.round = @ + 1])
    /\ beside' = beside \cup {k} /\ upkeep' = TRUE
    /\ UNCHANGED <<call, told, calls>>

\* abandonMatch.
Abandon(k) ==
    /\ live[k].status \in Active \cup {"between"}
    /\ Persist(k, [live[k] EXCEPT !.status = "over"])
    /\ UNCHANGED <<upkeep, call, beside, told, calls>>

\* A tick of the interval: a match that is idle or lasts too long is ended,
\* and the interval clears itself when no match is active.
Expire(k) ==
    /\ upkeep /\ live[k].status \in Active
    /\ Persist(k, [live[k] EXCEPT !.status = "over"])
    /\ UNCHANGED <<upkeep, call, beside, told, calls>>

UpkeepStops ==
    /\ upkeep /\ ActiveIn(live) = {} /\ upkeep' = FALSE
    /\ UNCHANGED <<saved, live, call, beside, unsaved, told, calls, mishaps>>

(* The process ends and another recovers the saved matches, each under a new *)
(* ownership epoch, except those whose release or save fails (skipped).      *)
Restart(skipped) ==
    /\ skipped \subseteq Exists(saved)
    /\ Mishap
    /\ LET back == Exists(saved) \ skipped IN
       /\ saved' = [k \in Keys |-> IF k \in back THEN Up(saved[k]) ELSE saved[k]]
       /\ live' = [k \in Keys |-> IF k \in back THEN Up(saved[k]) ELSE NoMatch]
    /\ call' = [c \in Calls |-> Free] /\ upkeep' = TRUE
    /\ beside' = beside \cup (ActiveIn(live') \ ActiveIn(live))
    /\ UNCHANGED <<unsaved, told, calls>>
-----------------------------------------------------------------------------
Next ==
    \/ \E c \in Calls :
        \/ \E kind \in {"create", "find", "join"}, p \in Players, k \in Keys : Begin(c, kind, p, k)
        \/ Create(c) \/ Build(c) \/ BuildFails(c) \/ Find(c) \/ Join(c)
    \/ \E k \in Keys : Finish(k) \/ Advance(k) \/ Abandon(k) \/ Expire(k)
    \/ UpkeepStops
    \/ \E skipped \in SUBSET Keys : Restart(skipped)

Spec == Init /\ [][Next]_vars
-----------------------------------------------------------------------------
TypeOK ==
    LET Match == [version : Nat, status : Active \cup {"none", "between", "over"},
                  seats : SUBSET Players, public : BOOLEAN, round : Nat, born : Nat]
    IN
    /\ saved \in [Keys -> Match] /\ live \in [Keys -> Match]
    /\ upkeep \in BOOLEAN
    /\ \A c \in Calls : call[c].pc \in {"free", "queued", "create", "build", "join"}
    /\ beside \subseteq Keys /\ unsaved \subseteq Keys /\ told \subseteq Players \X Keys
    /\ calls \in 0..MaxCalls /\ mishaps \in 0..MaxMishaps

(* Overlapping creations stay within the limits; what exceeds them came back *)
(* with a restart or went on to another round, which nobody counts.          *)
WithinLimits ==
    LET counted == ActiveIn(live) \ beside IN
    /\ Cardinality(counted) <= Limit
    /\ \A p \in Players : Cardinality({k \in counted : Owner(k) = p}) <= OwnerLimit

(* Who was told of a seat has it in the stored match, whatever is created or *)
(* retried under the match's key and through restarts, as long as no save of *)
(* the match failed.                                                         *)
SeatsAreKept == \A seat \in told : seat[2] \notin unsaved => seat[1] \in saved[seat[2]].seats

(* Two players who look for an opponent find each other: there is never more *)
(* than one lobby of the queue in which somebody waits, beside those that a  *)
(* restart brought back and those of which a save failed.                    *)
NobodyWaitsAlone ==
    Cardinality({k \in Candidates : live[k].seats # {}} \ (beside \cup unsaved)) <= 1

(* While a match is active, the interval is set that ends it when idle.      *)
UpkeepRuns == ActiveIn(live) # {} => upkeep

\* What the worker owes its players, all of the above.
HostingHolds == WithinLimits /\ SeatsAreKept /\ NobodyWaitsAlone /\ UpkeepRuns
=============================================================================
