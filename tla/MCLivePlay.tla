----------------------------- MODULE MCLivePlay -----------------------------
(* What plays live, one part at a time: the diagnostics of a preview, its  *)
(* agents, a connection to a match, and the realtime tables of a payment   *)
(* worker.                                                                 *)
EXTENDS Integers, Sequences, FiniteSets

CONSTANTS w1, w2, s1, drive, steer, t1, t2, t3

VARIABLES
    focus, \* the part that is run; the others stay as they start
    outbox, sending, named, playing, step, taken, reported, skipped, refused,
    request, stored, counts, troubles,                      \* PreviewTelemetry
    page, wanted, told, mail, post, frame, seats, steps, input, accepted,
    crossed, astray, upsets,                                 \* PreviewAgent
    role, socket, stream, link, shown, client, drops, unheard,
    leaked,                                                 \* RealtimeStream
    saved, live, begun, starting, clocks, watched, late, mishaps, unsaved,
    dormant                                                 \* RealtimeTables

Telemetry == INSTANCE PreviewTelemetry WITH
    Servers <- {w1, w2}, Capacity <- 2, BatchSize <- 2, Attempts <- 2,
    MaxSteps <- 3, MaxFaults <- 1
Agents == INSTANCE PreviewAgent WITH
    Seats <- {s1}, Holds <- {drive, steer}, Pulses <- {drive}, MaxEpochs <- 2,
    MaxStrategy <- 1, MaxMail <- 1, MaxPromises <- 2, MaxTroubles <- 1
Stream == INSTANCE RealtimeStream WITH
    session <- link, version <- shown, MaxSockets <- 2, MaxVersion <- 3, MaxDrops <- 2
Worker == INSTANCE RealtimeTables WITH
    stored <- saved, step <- begun, Tables <- {t1, t2, t3}, MaxMishaps <- 3

ASSUME SmallInstances ==
    Telemetry!TelemetryAssumption /\ Agents!PreviewAssumption /\ Stream!StreamAssumption
    /\ Worker!TablesBound

OfTelemetry == <<outbox, sending, named, playing, step, taken, reported, skipped,
                 refused, request, stored, counts, troubles>>
OfAgents == <<page, wanted, told, mail, post, frame, seats, steps, input, accepted,
              crossed, astray, upsets>>
OfStream == <<role, socket, stream, link, shown, client, drops, unheard, leaked>>
OfWorker == <<saved, live, begun, starting, clocks, watched, late, mishaps, unsaved, dormant>>

Init ==
    /\ focus \in {"telemetry", "agents", "stream", "tables"}
    /\ Telemetry!Init /\ Agents!Init /\ Stream!Init
    /\ Worker!InitWith(IF focus = "tables" THEN {t1, t2, t3} ELSE {})
Next ==
    /\ UNCHANGED focus
    /\ \/ focus = "telemetry" /\ Telemetry!Next /\ UNCHANGED <<OfAgents, OfStream, OfWorker>>
       \/ focus = "agents" /\ Agents!Next /\ UNCHANGED <<OfTelemetry, OfStream, OfWorker>>
       \/ focus = "stream" /\ Stream!Next /\ UNCHANGED <<OfTelemetry, OfAgents, OfWorker>>
       \/ focus = "tables" /\ Worker!Next /\ UNCHANGED <<OfTelemetry, OfAgents, OfStream>>

\* A part that is not run has nothing to be fair about: no action of its
\* fairness is enabled in its initial state.
Spec == Init /\ [][Next]_<<focus, OfTelemetry, OfAgents, OfStream, OfWorker>>
        /\ Telemetry!Fairness /\ Agents!Fairness /\ Stream!Fairness /\ Worker!Fairness
-----------------------------------------------------------------------------
\* Each part keeps its types, and one promise of the game at a time.
TypeOK == Telemetry!TypeOK /\ Agents!TypeOK /\ Stream!TypeOK /\ Worker!TypeOK

(* Diagnostics arrive: a batch that may have been stored does not change any *)
(* more, what was acknowledged is counted, once, and the number of decisions *)
(* that was reported is not lost, however full the outbox is.                *)
DiagnosticsArrive ==
    /\ Telemetry!SentIsSealed
    /\ Telemetry!CountsAreRight
    /\ Telemetry!ReportArrives

(* Agents hold no key that they should not: a stopped runtime holds none,    *)
(* the game goes on only with what the strategy in force holds, and with all *)
(* that the runtime believes it holds.                                       *)
KeysAreTheAgents ==
    /\ Agents!NothingHeldWhenStopped
    /\ Agents!InputIsCurrent
    /\ Agents!HeldIsApplied

(* The page tells the truth about strategies: one is active once the game    *)
(* accepted an action of it, not before, and when every message has arrived, *)
(* the frame plays what the page shows.                                      *)
StrategiesAreAsShown == Agents!ActiveIsTrue /\ Agents!InstalledIsWanted

(* A page that is connected to a match shows it: nothing that was lost on an *)
(* old socket is missed after a resumption, one socket at a time acts for a  *)
(* session, and a session that counts as connected has a socket, except      *)
(* where the socket closed before anybody listened to that.                  *)
StreamIsTrue ==
    /\ Stream!ViewIsCurrent
    /\ Stream!OneSocketEach
    /\ Stream!ConnectedHasSocket

(* One realtime table is played at a time, but for those that a restart      *)
(* brings back by mistake, and the capacity is given back on every path.     *)
TablesAreFreed == Worker!WithinCapacity /\ Worker!CapacityIsReturned

(* When the service works again the outbox is emptied, a page that has       *)
(* stopped leaves no agent running, a client that was closed leaves no       *)
(* session of its behind, and every funded table is started in time.         *)
LivePlayComesToRest ==
    /\ Telemetry!OutboxDrains
    /\ Agents!StoppedForGood
    /\ Stream!ClosedIsGone
    /\ Worker!EveryTableStarts
=============================================================================
