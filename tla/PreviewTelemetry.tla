-------------------------- MODULE PreviewTelemetry --------------------------
(***************************************************************************)
(* The diagnostics of a preview: the outbox of the studio page             *)
(* (use-preview-agents.ts), and the requests that store its batches and    *)
(* count them (browser-tests.ts).  A request that the page gave up after   *)
(* its ten seconds may still run when the batch is sent again.             *)
(*                                                                         *)
(* One run and one epoch; a sample stands for its step number.             *)
(***************************************************************************)
EXTENDS DocumentStore, Integers, Sequences, FiniteSets

CONSTANTS Servers,   \* requests that can be under way
          Capacity,  \* of the outbox (32)
          BatchSize, \* samples in a batch (4)
          Attempts,  \* to count a batch (5)
          MaxSteps, MaxFaults \* bounds on samples, and on failing requests

TelemetryAssumption ==
    /\ Capacity \in Nat \ {0, 1} /\ {BatchSize, Attempts} \subseteq Nat \ {0}
    /\ {MaxSteps, MaxFaults} \subseteq Nat

VARIABLES
    outbox,   \* the outbox: batches, the oldest first
    sending, \* the request that the page waits for, if any
    named,   \* batches named
    playing, \* the frame takes decisions
    step,    \* decisions since it started
    taken,   \* steps sampled so far
    reported, \* the decisions that the page was last told of
    skipped, \* samples dropped, replaced or rejected
    refused, \* the most decisions in a batch that was rejected
    request, \* requests: batch, what they read of the counts, attempts
    stored,  \* browser-telemetry: batches by id
    counts,  \* browser-preview-counts: version, decisions, steps
    troubles \* faults so far

vars == <<outbox, sending, named, playing, step, taken, reported, skipped, refused, request, stored, counts, troubles>>

NoSender == "nobody"
NoReport == -1
NoBatch == [id |-> 0, events |-> {}, progress |-> NoReport, sealed |-> TRUE]
NoCounts == [version |-> 0, decisions |-> 0, steps |-> {}]
Waiting == [pc |-> "idle", batch |-> NoBatch, seen |-> NoCounts, tries |-> 0]

Init ==
    /\ outbox = <<>> /\ sending = NoSender /\ named = 0 /\ reported = 0
    /\ playing = TRUE /\ step = 0 /\ taken = {}
    /\ skipped = {} /\ refused = NoReport /\ request = [s \in Servers |-> Waiting]
    /\ stored = {} /\ counts = NoCounts /\ troubles = 0

Server == <<request, stored, counts>>
Larger(i, j) == IF i > j THEN i ELSE j
IsReport(b) == b.progress # NoReport
Last == outbox[Len(outbox)]
New(events, progress) == [id |-> named + 1, events |-> events, progress |-> progress, sealed |-> FALSE]
-----------------------------------------------------------------------------
(* The outbox                                                               *)
\* Slip: a batch that is being sent takes further samples.
JoinsSealed(b) == Cardinality(b.events) < BatchSize

Joins(b) == ~b.sealed /\ Cardinality(b.events) < BatchSize

\* add: a sample joins the last batch if that has room, which its size may deny.
Add ==
    /\ playing /\ step < MaxSteps /\ step' = step + 1 /\ taken' = taken \cup {step}
    /\ \/ /\ outbox # <<>> /\ Joins(Last)
          /\ outbox' = [outbox EXCEPT ![Len(outbox)].events = @ \cup {step}]
          /\ UNCHANGED <<named, skipped>>
       \/ /\ Len(outbox) < Capacity
          /\ outbox' = Append(outbox, New({step}, NoReport)) /\ named' = named + 1
          /\ UNCHANGED skipped
       \/ /\ Len(outbox) = Capacity
          /\ skipped' = skipped \cup {step}
          /\ UNCHANGED <<outbox, named>>
    /\ UNCHANGED <<sending, playing, reported, refused, Server, troubles>>

Without(i) == [j \in 1..(Len(outbox) - 1) |-> outbox[IF j < i THEN j ELSE j + 1]]

\* Slip: a full outbox takes no report.
ReportIfRoom ==
    /\ playing /\ playing' = FALSE /\ reported' = step
    /\ IF Len(outbox) < Capacity
       THEN outbox' = Append(outbox, New({}, step)) /\ named' = named + 1
       ELSE UNCHANGED <<outbox, named>>
    /\ UNCHANGED <<sending, step, taken, skipped, refused, Server, troubles>>

\* progress: the number of decisions joins a report that waits, or takes the
\* place of a waiting sample in a full outbox.
Report ==
    LET pending == {i \in DOMAIN outbox : ~outbox[i].sealed /\ IsReport(outbox[i])}
        samples == {i \in DOMAIN outbox : ~outbox[i].sealed /\ ~IsReport(outbox[i])}
        oldest == CHOOSE i \in samples : \A j \in samples : i <= j
    IN  /\ playing /\ playing' = FALSE /\ reported' = step
        /\ \/ \E i \in pending : /\ outbox' = [outbox EXCEPT ![i].progress = Larger(@, step)]
                                 /\ UNCHANGED <<named, skipped>>
           \/ /\ pending = {} /\ Len(outbox) < Capacity
              /\ outbox' = Append(outbox, New({}, step)) /\ named' = named + 1
              /\ UNCHANGED skipped
           \/ /\ pending = {} /\ Len(outbox) = Capacity /\ samples # {}
              /\ outbox' = Append(Without(oldest), New({}, step)) /\ named' = named + 1
              /\ skipped' = skipped \cup outbox[oldest].events
        /\ UNCHANGED <<sending, step, taken, refused, Server, troubles>>

\* A strategy that arrives after the stop starts the frame again under the
\* same epoch, at the step zero.
Resume ==
    /\ ~playing /\ playing' = TRUE /\ step' = 0
    /\ troubles < MaxFaults /\ troubles' = troubles + 1
    /\ UNCHANGED <<outbox, sending, named, taken, reported, skipped, refused, Server>>

\* flush, every half second: the oldest batch is sealed and sent.
Flush(s) ==
    /\ sending = NoSender /\ outbox # <<>> /\ request[s].pc = "idle"
    /\ outbox' = [outbox EXCEPT ![1].sealed = TRUE]
    /\ request' = [request EXCEPT ![s] = [Waiting EXCEPT !.pc = "store", !.batch = outbox'[1]]]
    /\ sending' = s
    /\ UNCHANGED <<named, playing, step, taken, reported, skipped, refused, stored, counts, troubles>>

\* The answer has come: the batch is done with.
Saved ==
    /\ sending # NoSender /\ request[sending].pc = "saved"
    /\ request' = [request EXCEPT ![sending] = Waiting]
    /\ outbox' = Tail(outbox) /\ sending' = NoSender
    /\ UNCHANGED <<named, playing, step, taken, reported, skipped, refused, stored, counts, troubles>>

\* Samples that the service calls invalid are skipped.
Rejected ==
    /\ sending # NoSender /\ request[sending].pc = "store" /\ troubles < MaxFaults
    /\ outbox[1].events # {}
    /\ refused' = Larger(refused, outbox[1].progress)
    /\ troubles' = troubles + 1
    /\ request' = [request EXCEPT ![sending] = Waiting]
    /\ skipped' = skipped \cup outbox[1].events
    /\ outbox' = Tail(outbox) /\ sending' = NoSender
    /\ UNCHANGED <<named, playing, step, taken, reported, stored, counts>>

\* Slip: the page goes on waiting for the request.
SendFailsBusy ==
    /\ sending # NoSender /\ request[sending].pc # "failed"
    /\ troubles < MaxFaults /\ troubles' = troubles + 1
    /\ request' = [request EXCEPT ![sending] = Waiting]
    /\ UNCHANGED <<outbox, sending, named, playing, step, taken, reported, skipped, refused,
                   stored, counts>>

\* Time out, lost answer, or an error: the same batch is sent again later.
SendFails ==
    /\ sending # NoSender /\ request[sending].pc # "failed"
    /\ troubles < MaxFaults /\ troubles' = troubles + 1
    /\ sending' = NoSender
    /\ UNCHANGED <<outbox, named, playing, step, taken, reported, skipped, refused, Server>>
SendRefused ==
    /\ sending # NoSender /\ request[sending].pc = "failed"
    /\ request' = [request EXCEPT ![sending] = Waiting] /\ sending' = NoSender
    /\ UNCHANGED <<outbox, named, playing, step, taken, reported, skipped, refused, stored, counts, troubles>>

-----------------------------------------------------------------------------
(* POST .../telemetry/:batchId                                              *)
Page == <<outbox, sending, named, playing, step, taken, reported, skipped, refused, troubles>>
Body(b) == <<b.events, b.progress>>

\* The batch is put under its id; one that is there must be the same.
Store(s) ==
    LET b == request[s].batch
        prior == {o \in stored : o.id = b.id}
    IN  /\ request[s].pc = "store"
        /\ stored' = IF prior = {} THEN stored \cup {b} ELSE stored
        /\ request' = [request EXCEPT ![s].pc =
                          IF \E o \in prior : Body(o) # Body(b) THEN "failed" ELSE "count"]
        /\ UNCHANGED <<Page, counts>>

Count(s) ==
    /\ request[s].pc = "count"
    /\ request' = [request EXCEPT ![s].pc = "put", ![s].seen = counts]
    /\ UNCHANGED <<Page, stored, counts>>

Counted(seen, b) ==
    [Updated(seen) EXCEPT
        !.steps = @ \cup b.events,
        !.decisions = LET seenTo == {n + 1 : n \in b.events} \cup {b.progress}
                      IN  Larger(@, CHOOSE n \in seenTo : \A m \in seenTo : m <= n)]

\* Slip: the counts are put whatever they are by now.
PutOver(s) ==
    /\ request[s].pc = "put"
    /\ counts' = Counted(request[s].seen, request[s].batch)
    /\ request' = [request EXCEPT ![s].pc = "saved"]
    /\ UNCHANGED <<Page, stored>>

Put(s) ==
    LET q == request[s] IN
    /\ q.pc = "put"
    /\ IF Unchanged(counts, q.seen)
       THEN /\ counts' = Counted(q.seen, q.batch)
            /\ request' = [request EXCEPT ![s].pc = "saved"]
       ELSE /\ request' = [request EXCEPT ![s].tries = @ + 1,
                             ![s].pc = IF q.tries + 1 = Attempts THEN "failed" ELSE "count"]
            /\ UNCHANGED counts
    /\ UNCHANGED <<Page, stored>>

\* Nobody waits for the answer any more, or the host stops.
Ends(s) ==
    /\ sending # s /\ request[s].pc # "idle"
    /\ (request[s].pc \in {"saved", "failed"} \/ troubles = MaxFaults)
    /\ request' = [request EXCEPT ![s] = Waiting]
    /\ UNCHANGED <<Page, stored, counts>>
-----------------------------------------------------------------------------
Next ==
    \/ Add \/ Report \/ Resume \/ Saved \/ Rejected \/ SendFails \/ SendRefused
    \/ \E s \in Servers : Flush(s) \/ Store(s) \/ Count(s) \/ Put(s) \/ Ends(s)

Spec == Init /\ [][Next]_vars

\* The interval of the page, and requests that are carried out.
Fairness ==
    /\ WF_vars(\E s \in Servers : Flush(s)) /\ WF_vars(Saved) /\ WF_vars(SendRefused)
    /\ \A s \in Servers : WF_vars(Store(s) \/ Count(s) \/ Put(s)) /\ WF_vars(Ends(s))
FairSpec == Spec /\ Fairness
-----------------------------------------------------------------------------
AllOf(q) == {q[i] : i \in DOMAIN q}
TypeOK ==
    /\ Len(outbox) <= Capacity /\ sending \in Servers \cup {NoSender}
    /\ \A b \in AllOf(outbox) \cup stored :
          b.events \subseteq taken /\ Cardinality(b.events) <= BatchSize
    /\ counts.decisions \in 0..MaxSteps /\ refused \in NoReport..MaxSteps /\ counts.steps \subseteq taken

(* A batch that may have been stored does not change any more: sent again,  *)
(* it is accepted as the same, and is not refused for ever.                 *)
SentIsSealed == \A b \in AllOf(outbox), o \in stored : b.id = o.id => Body(b) = Body(o)

(* The counts agree with the batches, though a request that was given up    *)
(* may finish beside or after its repetition: what was acknowledged is      *)
(* counted, and what was not stored is not.                                 *)
Waits == UNION {b.events : b \in AllOf(outbox)}
CountsAreRight ==
    /\ counts.steps \subseteq UNION {b.events : b \in stored}
    /\ taken \ (skipped \cup Waits) \subseteq counts.steps

(* However many samples are dropped by a full outbox, the number of         *)
(* decisions that was reported is not: it waits, or is counted, unless the   *)
(* samples that share its batch are rejected.                               *)
ReportArrives ==
    \/ Larger(counts.decisions, refused) >= reported
    \/ \E b \in AllOf(outbox) : b.progress >= reported

(* The outbox is emptied when the service works again.                      *)
OutboxDrains == <>[](outbox = <<>>)
=============================================================================
