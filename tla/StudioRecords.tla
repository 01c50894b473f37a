---------------------------- MODULE StudioRecords ----------------------------
(***************************************************************************)
(* Records that the control API keeps under two keys or in several steps:  *)
(* recordings (recordings.ts), access keys and their index, the account's  *)
(* co-pilot agent, and the steps of a test run (studio.ts).  One record of *)
(* each, and requests to them that overlap or end with their host.         *)
(***************************************************************************)
EXTENDS DocumentStore, Sequences, FiniteSets

CONSTANTS Callers,      \* requests that can be under way
          MaxCalls, MaxLost, MaxTurns \* bounds: requests, lost ones, steps of a run

RecordsAssumption == {MaxCalls, MaxLost, MaxTurns} \subseteq Nat

VARIABLES
    recording, \* recordings: version, ready
    listed,    \* recordings:<project>, the same document's copy
    uploaded,  \* the object is in the bucket (external)
    key,       \* access-keys: version, revoked
    keyIndex,  \* keys:<owner>, its copy
    copilot,   \* commons:<owner>: version, agent (0: none), locked
    agents,    \* co-pilot agents in Commons (external)
    testRun,   \* runs:<owner>: version, steps; whether the game is over after them
    call,      \* requests
    calls, lost,
    said       \* what was answered: kind and value

vars == <<recording, listed, uploaded, key, keyIndex, copilot, agents, testRun, call, calls, lost, said>>

Missing == [version |-> 0, ready |-> FALSE]
NoKey == [version |-> 0, revoked |-> FALSE]
NoAgent == [version |-> 0, agent |-> 0, locked |-> FALSE]
Free == [pc |-> "free"]

Init ==
    /\ recording = [version |-> 1, ready |-> FALSE] /\ listed = Missing /\ uploaded = FALSE
    /\ key = NoKey /\ keyIndex = NoKey
    /\ copilot = NoAgent /\ agents = {}
    /\ testRun = [version |-> 1, steps |-> 0, over |-> FALSE]
    /\ call = [c \in Callers |-> Free] /\ calls = 0 /\ lost = 0 /\ said = <<>>

Recordings == <<recording, listed, uploaded>>
Keys == <<key, keyIndex>>
Agents == <<copilot, agents>>
Count == <<calls, lost>>
Goes(c, next) == call' = [call EXCEPT ![c] = next]
Answer(c, kind, value) ==
    Goes(c, Free) /\ said' = Append(said, [kind |-> kind, value |-> value])
Refuses(c) == Goes(c, Free) /\ UNCHANGED said
Begins(c) == call[c].pc = "free" /\ calls < MaxCalls /\ calls' = calls + 1 /\ UNCHANGED <<lost, said>>
-----------------------------------------------------------------------------
(* A recording: the client uploads it, and a request calls it complete      *)
Upload ==
    /\ ~uploaded /\ uploaded' = TRUE
    /\ UNCHANGED <<recording, listed, Keys, Agents, testRun, call, Count, said>>

CompleteBegins(c) ==
    /\ Begins(c) /\ Goes(c, [pc |-> "head", seen |-> recording])
    /\ UNCHANGED <<Recordings, Keys, Agents, testRun>>

CompleteHead(c) ==
    /\ call[c].pc = "head"
    /\ IF uploaded
       THEN Goes(c, [call[c] EXCEPT !.pc = IF call[c].seen.ready THEN "repair" ELSE "ready"])
       ELSE Goes(c, Free)
    /\ UNCHANGED <<Recordings, Keys, Agents, testRun, Count, said>>

CompleteReady(c) ==
    LET seen == call[c].seen IN
    /\ call[c].pc = "ready"
    /\ IF Unchanged(recording, seen)
       THEN /\ recording' = [Updated(seen) EXCEPT !.ready = TRUE]
            /\ Goes(c, [pc |-> "list", seen |-> recording'])
       ELSE Goes(c, Free) /\ UNCHANGED recording
    /\ UNCHANGED <<listed, uploaded, Keys, Agents, testRun, Count, said>>

\* The index is put without an expected version: it must not be there yet.
CompleteList(c) ==
    /\ call[c].pc = "list"
    /\ IF listed.version = 0
       THEN listed' = call[c].seen /\ Answer(c, "complete", 1)
       ELSE UNCHANGED listed /\ Refuses(c)
    /\ UNCHANGED <<recording, uploaded, Keys, Agents, testRun, Count>>

\* Slip: a ready recording is answered for without a look at the index.
AnswerUnlisted(c) ==
    /\ call[c].pc = "repair" /\ Answer(c, "complete", 1)
    /\ UNCHANGED <<Recordings, Keys, Agents, testRun, Count>>

\* A recording that is ready already: its place in the index is looked up.
CompleteRepair(c) ==
    /\ call[c].pc = "repair"
    /\ IF listed.version = 0
       THEN Goes(c, [call[c] EXCEPT !.pc = "list"]) /\ UNCHANGED said
       ELSE Answer(c, "complete", 1)
    /\ UNCHANGED <<Recordings, Keys, Agents, testRun, Count>>

-----------------------------------------------------------------------------
\* Slip: the key works before it is listed.
CreateKeyFirst(c) ==
    /\ Begins(c) /\ keyIndex.version = 0 /\ key.version = 0
    /\ key' = [version |-> 1, revoked |-> FALSE] /\ Goes(c, [pc |-> "issue"])
    /\ UNCHANGED <<keyIndex, Recordings, Agents, testRun>>

(* An access key, listed before it works and revoked before it is listed so *)
CreateKeyBegins(c) ==
    /\ Begins(c) /\ keyIndex.version = 0 /\ key.version = 0
    /\ \A o \in Callers : call[o].pc # "issue"
    /\ keyIndex' = [version |-> 1, revoked |-> FALSE] /\ Goes(c, [pc |-> "issue"])
    /\ UNCHANGED <<key, Recordings, Agents, testRun>>

CreateKey(c) ==
    /\ call[c].pc = "issue"
    /\ key' = [version |-> 1, revoked |-> FALSE] /\ Answer(c, "key", 1)
    /\ UNCHANGED <<keyIndex, Recordings, Agents, testRun, Count>>

RevokeBegins(c) ==
    /\ key.version # 0 /\ Begins(c)
    /\ Goes(c, [pc |-> "revoke", seen |-> key])
    /\ UNCHANGED <<Keys, Recordings, Agents, testRun>>

Revoked(seen) == [Updated(seen) EXCEPT !.revoked = TRUE]

Revoke(c) ==
    /\ call[c].pc = "revoke"
    /\ IF Unchanged(key, call[c].seen)
       THEN key' = Revoked(call[c].seen) /\ Goes(c, [call[c] EXCEPT !.pc = "unlist"])
       ELSE UNCHANGED key /\ Goes(c, Free)
    /\ UNCHANGED <<keyIndex, Recordings, Agents, testRun, Count, said>>

\* The index is expected at the version that the key was read at.
RevokeListed(c) ==
    /\ call[c].pc = "unlist"
    /\ IF Unchanged(keyIndex, call[c].seen)
       THEN keyIndex' = Revoked(call[c].seen) /\ Answer(c, "revoked", 1)
       ELSE UNCHANGED keyIndex /\ Refuses(c)
    /\ UNCHANGED <<key, Recordings, Agents, testRun, Count>>

-----------------------------------------------------------------------------
(* The co-pilot: one agent, created in Commons under a lock of 120 seconds  *)
AgentBegins(c) ==
    /\ Begins(c)
    /\ Goes(c, [pc |-> IF copilot.agent # 0 THEN "have" ELSE IF copilot.locked THEN "busy" ELSE "look",
                seen |-> copilot, existing |-> 0])
    /\ UNCHANGED <<Agents, Recordings, Keys, testRun>>

AgentHeld(c) ==
    /\ call[c].pc \in {"have", "busy"}
    /\ IF call[c].pc = "have" THEN Answer(c, "agent", call[c].seen.agent) ELSE Refuses(c)
    /\ UNCHANGED <<Agents, Recordings, Keys, testRun, Count>>

AgentLook(c) ==
    /\ call[c].pc = "look"
    /\ \E a \in (IF agents = {} THEN {0} ELSE agents) :
          Goes(c, [call[c] EXCEPT !.pc = "lock", !.existing = a])
    /\ UNCHANGED <<Agents, Recordings, Keys, testRun, Count, said>>

AgentLock(c) ==
    /\ call[c].pc = "lock"
    /\ IF Unchanged(copilot, call[c].seen)
       THEN /\ copilot' = [Updated(call[c].seen) EXCEPT !.locked = TRUE]
            /\ Goes(c, [call[c] EXCEPT !.pc = "make", !.seen = copilot'])
       ELSE UNCHANGED copilot /\ Goes(c, Free)
    /\ UNCHANGED <<agents, Recordings, Keys, testRun, Count, said>>

LockLapses ==
    /\ copilot.locked /\ copilot' = [copilot EXCEPT !.locked = FALSE]
    /\ UNCHANGED <<agents, Recordings, Keys, testRun, call, Count, said>>

\* An agent that exists is set up; otherwise Commons creates one.
AgentMake(c) ==
    /\ call[c].pc = "make"
    /\ LET a == IF call[c].existing = 0 THEN Cardinality(agents) + 1 ELSE call[c].existing
       IN  /\ agents' = agents \cup {a}
           /\ Goes(c, [call[c] EXCEPT !.pc = "keep", !.existing = a])
    /\ UNCHANGED <<copilot, Recordings, Keys, testRun, Count, said>>

\* The answer of Commons is lost: the lock is given back if it is still held.
AgentFails(c) ==
    /\ call[c].pc = "make" /\ lost < MaxLost /\ lost' = lost + 1
    /\ agents' \in {agents} \cup (IF call[c].existing = 0 THEN {agents \cup {Cardinality(agents) + 1}} ELSE {})
    /\ copilot' = IF Unchanged(copilot, call[c].seen)
                  THEN [Updated(copilot) EXCEPT !.locked = FALSE] ELSE copilot
    /\ Refuses(c)
    /\ UNCHANGED <<calls, Recordings, Keys, testRun>>

\* Slip: the agent is recorded although the lock has gone to somebody else.
AgentKeepAnyway(c) ==
    /\ call[c].pc = "keep"
    /\ copilot' = [version |-> copilot.version + 1, agent |-> call[c].existing, locked |-> FALSE]
    /\ Answer(c, "agent", call[c].existing)
    /\ UNCHANGED <<agents, Recordings, Keys, testRun, Count>>

AgentKeep(c) ==
    /\ call[c].pc = "keep"
    /\ IF Unchanged(copilot, call[c].seen)
       THEN /\ copilot' = [version |-> copilot.version + 1, agent |-> call[c].existing, locked |-> FALSE]
            /\ Answer(c, "agent", call[c].existing)
       ELSE UNCHANGED copilot /\ Refuses(c)
    /\ UNCHANGED <<agents, Recordings, Keys, testRun, Count>>

-----------------------------------------------------------------------------
(* A step of a test run, for the number of steps that the page has seen     *)
StepBegins(c) ==
    /\ Begins(c)
    /\ \E steps \in 0..testRun.steps :
          Goes(c, IF steps = testRun.steps THEN [pc |-> "step", seen |-> testRun] ELSE Free)
    /\ UNCHANGED <<Recordings, Keys, Agents, testRun>>

\* The run is played again from its seed and takes one step more, with which the
\* game may end, as it does on a full board. A game that is over takes none: the run
\* is saved again as it was.
Stepped(seen) ==
    IF seen.over THEN {Updated(seen)}
    ELSE {[Updated(seen) EXCEPT !.steps = @ + 1, !.over = ends] :
              ends \in {e \in BOOLEAN : e \/ seen.steps + 1 < MaxTurns}}
AnswerStep(c, seen) ==
    Answer(c, IF seen.over THEN "over" ELSE "step", testRun'.steps)

\* Slip: the step is taken whatever happened to the run meanwhile.
StepAnyway(c) ==
    /\ call[c].pc = "step"
    /\ testRun' \in Stepped(call[c].seen) /\ AnswerStep(c, call[c].seen)
    /\ UNCHANGED <<Recordings, Keys, Agents, Count>>

Step(c) ==
    /\ call[c].pc = "step"
    /\ IF Unchanged(testRun, call[c].seen)
       THEN testRun' \in Stepped(call[c].seen) /\ AnswerStep(c, call[c].seen)
       ELSE UNCHANGED testRun /\ Refuses(c)
    /\ UNCHANGED <<Recordings, Keys, Agents, Count>>

\* The host stops, and the request ends where it is.
Stops(c) ==
    /\ call[c].pc # "free" /\ lost < MaxLost /\ lost' = lost + 1
    /\ Goes(c, Free)
    /\ UNCHANGED <<Recordings, Keys, Agents, testRun, calls, said>>
-----------------------------------------------------------------------------
OfRecordings(c) == CompleteBegins(c) \/ CompleteHead(c) \/ CompleteReady(c) \/ CompleteList(c) \/ CompleteRepair(c)
OfKeys(c) == CreateKeyBegins(c) \/ CreateKey(c) \/ RevokeBegins(c) \/ Revoke(c) \/ RevokeListed(c)
OfAgents(c) == AgentBegins(c) \/ AgentHeld(c) \/ AgentLook(c) \/ AgentLock(c) \/ AgentMake(c) \/ AgentFails(c) \/ AgentKeep(c)
OfRuns(c) == StepBegins(c) \/ Step(c)

Next ==
    \/ Upload \/ LockLapses
    \/ \E c \in Callers : OfRecordings(c) \/ OfKeys(c) \/ OfAgents(c) \/ OfRuns(c) \/ Stops(c)

Spec == Init /\ [][Next]_vars
-----------------------------------------------------------------------------
Said(kind) == {said[i].value : i \in {j \in DOMAIN said : said[j].kind = kind}}

TypeOK ==
    /\ listed.version # 0 => listed = recording /\ recording.ready
    /\ copilot.agent \in {0} \cup agents /\ Len(said) <= calls
    /\ testRun.steps \in 0..MaxTurns /\ testRun.steps < testRun.version

(* A recording that was called complete is in the project's list, also when *)
(* an earlier request ended between its two writes.                         *)
CompleteIsListed == 1 \in Said("complete") => recording.ready /\ listed = recording

(* Every key that works is in its owner's list, and none that was answered  *)
(* as revoked works or is listed as if it did.                              *)
KeysAreListed ==
    /\ key.version # 0 => keyIndex.version # 0
    /\ 1 \in Said("revoked") => key.revoked /\ keyIndex.revoked

(* An account has one co-pilot for ever, and no request was answered with   *)
(* another, however long Commons took to create it.                         *)
OneCopilot == Said("agent") \subseteq {copilot.agent}

(* No step of a test run is answered twice, though a run that is over takes  *)
(* requests without end; no step that was answered is taken back, and what   *)
(* was said of a run that is over stays so.                                  *)
StepsAreTakenOnce ==
    LET steps == {i \in DOMAIN said : said[i].kind = "step"}
    IN  /\ \A i, j \in steps : i # j => said[i].value # said[j].value
        /\ \A value \in Said("step") : value <= testRun.steps
        /\ Said("over") \subseteq {testRun.steps}
=============================================================================
