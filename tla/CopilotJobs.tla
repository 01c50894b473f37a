----------------------------- MODULE CopilotJobs -----------------------------
(***************************************************************************)
(* Copilot jobs of one conversation about one game (control-api/studio.ts  *)
(* and lambda.ts).  A request puts a job, makes it the conversation's      *)
(* active one and queues a worker.  The worker follows a Commons run, does *)
(* the tool calls that the run asks for, and before its host stops it      *)
(* hands the run to a successor.  Changes of a job in manual mode wait for *)
(* the creator.  Requests, workers and reviews interleave at every call of *)
(* the store, and may stop between any two.                                *)
(*                                                                         *)
(* External: the Commons run numbers its events, waits for the answer to a *)
(* tool request, and replays what comes after a given number; a queued     *)
(* invocation may be lost or delivered twice, and is never retried.        *)
(*                                                                         *)
(* Time: a worker's host (15 min), a request and a queue last less than    *)
(* the 16 min after which a silent job counts as dead.                     *)
(***************************************************************************)
EXTENDS DocumentStore, Sequences, FiniteSets

CONSTANTS MaxJobs, Workers, Reviews,
          Modes,       \* "automatic", "manual", "read-only"
          MaxRevision, \* bound on the revisions of the game
          MaxEvents,   \* bound on the events of a run
          MaxVersion,  \* bound on the version of a job that is handed off
          MaxRepeats,  \* bound on the jobs whose worker is invoked twice
          MaxFaults    \* bound on crashes and lost calls

CopilotBounds == {MaxJobs, MaxRevision, MaxEvents, MaxVersion, MaxRepeats, MaxFaults} \subseteq Nat

Jobs == 1..MaxJobs

VARIABLES
    rev,      \* the revision of the project
    conv,     \* the conversation: version, active job, messages by job and role
    jobs,     \* the job records: version, status, mode, where to resume
    old,      \* jobs that began more than 60 min ago
    silent,   \* running jobs without a sign of life for 16 min
    post,     \* the requests that begin the jobs
    queue,    \* invocations of workers that are on their way
    worker,   \* the workers
    runs,     \* Commons runs: job, events, how many are answered, revision known
    changes,  \* proposals: what they are for, version, status, base revision
    review,   \* approvals and rejections on their way
    applied,  \* history: what was saved, on which revision, for which request
    faults,
    repeated  \* history: jobs whose worker was invoked twice

vars == <<rev, conv, jobs, old, silent, post, queue, worker, runs, changes, review,
          applied, faults, repeated>>

None == 0
Afresh == [run |-> None, after |-> 0, seen |-> 0]
NoJob == [version |-> 0, status |-> "none", mode |-> "manual", resume |-> Afresh]
NoConv == [version |-> 0, active |-> None, messages |-> {}]
Gone == [pc |-> "idle", job |-> None, cur |-> NoJob, at |-> Afresh, ok |-> TRUE,
         conv |-> NoConv, tries |-> 0]
Unasked == [pc |-> "idle", conv |-> NoConv, tries |-> 0]
Unread == [pc |-> "idle", id |-> None, version |-> 0, ok |-> TRUE]

Init ==
    /\ rev = 1 /\ conv = NoConv /\ jobs = [j \in Jobs |-> NoJob]
    /\ old = {} /\ silent = {} /\ queue = [j \in Jobs |-> 0]
    /\ post = [j \in Jobs |-> Unasked] /\ worker = [w \in Workers |-> Gone]
    /\ runs = <<>> /\ changes = {} /\ review = [v \in Reviews |-> Unread]
    /\ applied = {} /\ faults = 0 /\ repeated = {}

\* copilotJobExpired: what a reader of the record makes of it.
Expired(j) == j \in old \cup silent

Fault == faults < MaxFaults /\ faults' = faults + 1
Game == <<rev, applied, repeated>>
Clock == <<old, silent>>
-----------------------------------------------------------------------------
(* POST /v1/projects/:id/copilot                                            *)
Ask(j, pc) == post[j].pc = pc
Asks(j, p) == post' = [post EXCEPT ![j] = p]
OnlyPost == UNCHANGED <<Game, conv, jobs, Clock, queue, worker, runs, changes, review, faults>>

\* ensureCommonsProjectSession, then the conversation is read.
PostOpen(j) ==
    /\ Ask(j, "idle") /\ \A i \in 1..(j - 1) : ~Ask(i, "idle")
    /\ Asks(j, [post[j] EXCEPT !.pc = IF conv.version = 0 THEN "session" ELSE "check",
                               !.conv = conv])
    /\ OnlyPost

\* A session was created in Commons; of two, the one put first is used by both.
PostSession(j) ==
    /\ Ask(j, "session")
    /\ conv' = IF conv.version = 0 THEN [conv EXCEPT !.version = 1] ELSE conv
    /\ Asks(j, [post[j] EXCEPT !.pc = "check", !.conv = conv'])
    /\ UNCHANGED <<Game, jobs, Clock, queue, worker, runs, changes, review, faults>>

\* The conversation is busy, or the job is put.
PostCheck(j, mode) ==
    LET active == post[j].conv.active
        busy == active # None /\ jobs[active].status = "running" /\ ~Expired(active)
    IN  /\ Ask(j, "check")
        /\ jobs' = IF busy THEN jobs ELSE
                   [jobs EXCEPT ![j] = [Updated(NoJob) EXCEPT !.status = "running", !.mode = mode]]
        /\ Asks(j, [post[j] EXCEPT !.pc = IF busy THEN "done" ELSE "claim"])
        /\ UNCHANGED <<Game, conv, Clock, queue, worker, runs, changes, review, faults>>

\* Slip: the conversation is claimed whoever has claimed it.
PostClaimAnyway(j) ==
    /\ Ask(j, "claim")
    /\ conv' = [conv EXCEPT !.version = @ + 1, !.active = j]
    /\ Asks(j, [post[j] EXCEPT !.pc = "read"])
    /\ UNCHANGED <<Game, jobs, Clock, queue, worker, runs, changes, review, faults>>

\* The job becomes the active one, unless the conversation changed meanwhile.
PostClaim(j) ==
    /\ Ask(j, "claim")
    /\ IF Unchanged(conv, post[j].conv)
       THEN /\ conv' = [Updated(post[j].conv) EXCEPT !.active = j]
            /\ Asks(j, [post[j] EXCEPT !.pc = "read"])
       ELSE /\ Asks(j, [post[j] EXCEPT !.pc = "done"]) /\ UNCHANGED conv
    /\ UNCHANGED <<Game, jobs, Clock, queue, worker, runs, changes, review, faults>>

(* appendCommonsProjectHistory: three attempts to read the conversation and *)
(* put it with one message more.                                            *)
Said(message) == message \in conv.messages
Append1(seen, message) == [Updated(seen) EXCEPT !.messages = @ \cup {message}]

PostRead(j) ==
    /\ Ask(j, "read")
    /\ Asks(j, [post[j] EXCEPT !.pc = IF Said(<<j, "user">>) THEN "queue" ELSE "append", !.conv = conv])
    /\ OnlyPost

PostAppend(j) ==
    /\ Ask(j, "append")
    /\ IF Unchanged(conv, post[j].conv)
       THEN /\ conv' = Append1(post[j].conv, <<j, "user">>)
            /\ Asks(j, [post[j] EXCEPT !.pc = "queue"])
       ELSE /\ Asks(j, [post[j] EXCEPT !.pc = IF post[j].tries = 2 THEN "done" ELSE "read",
                                       !.tries = @ + 1])
            /\ UNCHANGED conv
    /\ UNCHANGED <<Game, jobs, Clock, queue, worker, runs, changes, review, faults>>

PostQueue(j) ==
    /\ Ask(j, "queue") /\ queue' = [queue EXCEPT ![j] = @ + 1]
    /\ Asks(j, [post[j] EXCEPT !.pc = "done"])
    /\ UNCHANGED <<Game, conv, jobs, Clock, worker, runs, changes, review, faults>>

\* The call that queues the worker fails, whether or not it was carried out.
PostQueueFails(j) ==
    /\ Ask(j, "queue") /\ Fault
    /\ \E n \in {0, 1} : queue' = [queue EXCEPT ![j] = @ + n]
    /\ Asks(j, [post[j] EXCEPT !.pc = "undo"])
    /\ UNCHANGED <<Game, conv, jobs, Clock, worker, runs, changes, review>>

\* The job, as it was put, becomes failed unless a worker has taken it.
PostUndo(j) ==
    /\ Ask(j, "undo")
    /\ jobs' = IF jobs[j].version = 1
               THEN [jobs EXCEPT ![j] = [Updated(@) EXCEPT !.status = "failed"]] ELSE jobs
    /\ Asks(j, [post[j] EXCEPT !.pc = "done"])
    /\ UNCHANGED <<Game, conv, Clock, queue, worker, runs, changes, review, faults>>

PostDies(j) ==
    /\ post[j].pc \notin {"idle", "done"} /\ Fault
    /\ Asks(j, [post[j] EXCEPT !.pc = "done"])
    /\ UNCHANGED <<Game, conv, jobs, Clock, queue, worker, runs, changes, review>>
-----------------------------------------------------------------------------
(* A worker: runCopilotJob                                                  *)
Works(w, pc) == worker[w].pc = pc
Work(w, s) == worker' = [worker EXCEPT ![w] = s]
OnlyWorker == UNCHANGED <<Game, conv, jobs, Clock, post, queue, runs, changes, review, faults>>
JobOf(w) == worker[w].job

\* Slip: the record is put without its condition.
PersistAnyway(w, patched, s) ==
    LET j == JobOf(w) IN
    /\ jobs' = [jobs EXCEPT ![j] = [patched EXCEPT !.version = jobs[j].version + 1]]
    /\ silent' = silent \ {j}
    /\ Work(w, [s EXCEPT !.cur = jobs'[j]])

\* persist: the worker's copy of the record with a change, a sign of life; a
\* conflict is an error, and an error ends the worker.
Persist(w, patched, s) ==
    LET j == JobOf(w) IN
    IF Unchanged(jobs[j], worker[w].cur)
    THEN /\ jobs' = [jobs EXCEPT ![j] = Updated(patched)] /\ silent' = silent \ {j}
         /\ Work(w, [s EXCEPT !.cur = Updated(patched)])
    ELSE /\ Work(w, [s EXCEPT !.pc = "fail"]) /\ UNCHANGED <<jobs, silent>>

OnlyPersist == UNCHANGED <<Game, conv, old, post, queue, runs, changes, review, faults>>

\* The invocation reaches a host, which reads the job; delivered twice at times.
Deliver(w, j) ==
    /\ Works(w, "idle") /\ queue[j] > 0
    /\ \/ queue' = [queue EXCEPT ![j] = @ - 1] /\ UNCHANGED repeated
       \/ UNCHANGED queue /\ repeated' = repeated \cup {j}
          /\ j \notin repeated /\ Cardinality(repeated) < MaxRepeats
    /\ Work(w, IF jobs[j].status = "running"
               THEN [Gone EXCEPT !.pc = "start", !.job = j, !.cur = jobs[j]] ELSE Gone)
    /\ UNCHANGED <<rev, applied, conv, jobs, Clock, post, runs, changes, review, faults>>

Start(w) ==
    /\ Works(w, "start")
    /\ Persist(w, worker[w].cur,
               [worker[w] EXCEPT !.pc = IF JobOf(w) \in old THEN "fail" ELSE "connect"])
    /\ OnlyPersist

\* A successor picks up where its predecessor detached; otherwise a run begins,
\* and its agent is told the current revision.
Resumes(w) == worker[w].cur.resume.run # None
Connect(w) ==
    /\ Works(w, "connect")
    /\ IF Resumes(w)
       THEN Work(w, [worker[w] EXCEPT !.pc = "stream", !.at = worker[w].cur.resume])
            /\ UNCHANGED runs
       ELSE /\ runs' = Append(runs, [job |-> JobOf(w), events |-> <<>>, answered |-> 0,
                                     knows |-> rev])
            /\ Work(w, [worker[w] EXCEPT !.pc = "stream",
                          !.at = [run |-> Len(runs) + 1, after |-> 0, seen |-> rev]])
    /\ UNCHANGED <<Game, conv, jobs, Clock, post, queue, changes, review, faults>>

At(w) == worker[w].at
Event(w) == runs[At(w).run].events[At(w).after + 1]
HasEvent(w) == Works(w, "stream") /\ Len(runs[At(w).run].events) > At(w).after

\* A tool request is noted in the job first.
TakeRequest(w) ==
    /\ HasEvent(w) /\ Event(w).kind # "final"
    /\ Persist(w, worker[w].cur, [worker[w] EXCEPT !.pc = "judge"])
    /\ OnlyPersist

\* Slip: reading an older revision counts as having seen the current one.
JudgeRebases(w) ==
    LET refused == worker[w].cur.mode = "read-only" \/ rev # At(w).seen
        kind == Event(w).kind
    IN  /\ Works(w, "judge")
        /\ Work(w, CASE kind \in {"current", "older"} ->
                          [worker[w] EXCEPT !.pc = "answer", !.ok = TRUE, !.at.seen = rev]
                     [] kind = "write" /\ refused -> [worker[w] EXCEPT !.pc = "answer", !.ok = FALSE]
                     [] OTHER -> [worker[w] EXCEPT !.pc =
                                    IF worker[w].cur.mode = "manual" THEN "propose" ELSE "save"])
        /\ OnlyWorker

\* Reads are answered; a change is refused in a conversation that is read-only
\* and when the project is not the one that this run has seen.
Judge(w) ==
    LET refused == worker[w].cur.mode = "read-only" \/ rev # At(w).seen
        kind == Event(w).kind
    IN  /\ Works(w, "judge")
        /\ Work(w, CASE kind = "current" -> [worker[w] EXCEPT !.pc = "answer", !.ok = TRUE, !.at.seen = rev]
                     [] kind = "older" -> [worker[w] EXCEPT !.pc = "answer", !.ok = TRUE]
                     [] kind = "write" /\ refused -> [worker[w] EXCEPT !.pc = "answer", !.ok = FALSE]
                     [] OTHER -> [worker[w] EXCEPT !.pc =
                                    IF worker[w].cur.mode = "manual" THEN "propose" ELSE "save"])
        /\ OnlyWorker

Request(w) == <<At(w).run, At(w).after + 1>>

\* A change for the creator to decide about.
Propose(w) ==
    /\ Works(w, "propose")
    /\ changes' = changes \cup {[id |-> Cardinality(changes) + 1, of |-> Request(w), version |-> 1, status |-> "pending",
                                 base |-> At(w).seen, knew |-> Event(w).knew]}
    /\ Work(w, [worker[w] EXCEPT !.pc = "answer", !.ok = TRUE])
    /\ UNCHANGED <<Game, conv, jobs, Clock, post, queue, runs, review, faults>>

\* executeArcadeCopilotTool: the project is read and compared with the revision
\* expected, the game is tried, its snapshot put, and the project put if it is
\* still the one that was read.
Applies(expected, by, of, knew) ==
    /\ rev = expected /\ rev < MaxRevision /\ rev' = rev + 1
    /\ applied' = applied \cup {[by |-> by, of |-> of, on |-> rev, knew |-> knew]}
    /\ UNCHANGED repeated

SaveChange(w) ==
    /\ Works(w, "save") /\ Applies(At(w).seen, None, Request(w), Event(w).knew)
    /\ Work(w, [worker[w] EXCEPT !.pc = "answer", !.ok = TRUE, !.at.seen = rev'])
    /\ UNCHANGED <<conv, jobs, Clock, post, queue, runs, changes, review, faults>>

\* The project or its notes changed meanwhile, or the game does not work.
SaveFails(w) ==
    /\ Works(w, "save") /\ Work(w, [worker[w] EXCEPT !.pc = "answer", !.ok = FALSE])
    /\ OnlyWorker

\* The result is posted, and the agent knows what it says; an answer that comes
\* second is ignored.
Answer(w) ==
    LET r == At(w).run
        first == runs[r].answered = At(w).after
        news == worker[w].ok /\ \/ Event(w).kind = "current"
                                \/ Event(w).kind = "write" /\ worker[w].cur.mode = "automatic"
    IN  /\ Works(w, "answer")
        /\ runs' = IF first THEN [runs EXCEPT ![r].answered = @ + 1,
                                              ![r].knows = IF news THEN At(w).seen ELSE @]
                            ELSE runs
        /\ Work(w, [worker[w] EXCEPT !.pc = "note"])
        /\ UNCHANGED <<Game, conv, jobs, Clock, post, queue, changes, review, faults>>

\* Commons does not take the answer: the job fails.
AnswerFails(w) ==
    /\ Works(w, "answer") /\ Fault /\ Work(w, [worker[w] EXCEPT !.pc = "fail"])
    /\ UNCHANGED <<Game, conv, jobs, Clock, post, queue, runs, changes, review>>

\* The activity is noted, and the event is done with.
NoteDone(w) ==
    /\ Works(w, "note")
    /\ Persist(w, worker[w].cur, [worker[w] EXCEPT !.pc = "stream", !.at.after = @ + 1])
    /\ OnlyPersist

\* The stream is lost and five attempts to get it back fail, or the run fails.
StreamFails(w) ==
    /\ Works(w, "stream") /\ Fault /\ Work(w, [worker[w] EXCEPT !.pc = "fail"])
    /\ UNCHANGED <<Game, conv, jobs, Clock, post, queue, runs, changes, review>>

\* Slip: it saves where it started.
HandOffStart(w) ==
    /\ Works(w, "stream") /\ worker[w].cur.version < MaxVersion
    /\ Persist(w, [worker[w].cur EXCEPT !.resume = [At(w) EXCEPT !.after = worker[w].cur.resume.after]],
               [worker[w] EXCEPT !.pc = "handoff"])
    /\ OnlyPersist

\* Near the stop of its host the worker detaches: it saves where it is, ...
HandOff(w) ==
    /\ Works(w, "stream") /\ worker[w].cur.version < MaxVersion
    /\ Persist(w, [worker[w].cur EXCEPT !.resume = At(w)], [worker[w] EXCEPT !.pc = "handoff"])
    /\ OnlyPersist

\* ... and queues a successor; if that fails, so does the job.
QueueNext(w) ==
    /\ Works(w, "handoff") /\ queue' = [queue EXCEPT ![JobOf(w)] = @ + 1] /\ Work(w, Gone)
    /\ UNCHANGED <<Game, conv, jobs, Clock, post, runs, changes, review, faults>>
QueueNextFails(w) ==
    /\ Works(w, "handoff") /\ Fault /\ Work(w, [worker[w] EXCEPT !.pc = "fail"])
    /\ \E n \in {0, 1} : queue' = [queue EXCEPT ![JobOf(w)] = @ + n]
    /\ UNCHANGED <<Game, conv, jobs, Clock, post, runs, changes, review>>

\* The run is over: the outcome is recorded, then the answer is appended.
Finish(w) ==
    /\ HasEvent(w) /\ Event(w).kind = "final"
    /\ Persist(w, [worker[w].cur EXCEPT !.status = "ready", !.resume = Afresh],
               [worker[w] EXCEPT !.pc = "read"])
    /\ OnlyPersist

ReadHistory(w) ==
    /\ Works(w, "read")
    /\ Work(w, IF Said(<<JobOf(w), "assistant">>) THEN Gone
               ELSE [worker[w] EXCEPT !.pc = "append", !.conv = conv])
    /\ OnlyWorker

\* Slip: the answer is appended to the conversation as it was.
AppendHistoryAnyway(w) ==
    /\ Works(w, "append")
    /\ conv' = Append1(worker[w].conv, <<JobOf(w), "assistant">>) /\ Work(w, Gone)
    /\ UNCHANGED <<Game, jobs, Clock, post, queue, runs, changes, review, faults>>

AppendHistory(w) ==
    /\ Works(w, "append")
    /\ IF Unchanged(conv, worker[w].conv)
       THEN conv' = Append1(worker[w].conv, <<JobOf(w), "assistant">>) /\ Work(w, Gone)
       ELSE /\ Work(w, [worker[w] EXCEPT !.pc = IF worker[w].tries = 2 THEN "fail" ELSE "read",
                                         !.tries = @ + 1])
            /\ UNCHANGED conv
    /\ UNCHANGED <<Game, jobs, Clock, post, queue, runs, changes, review, faults>>

\* Any error ends here; a conflict of this last put is swallowed.
Fail(w) ==
    LET j == JobOf(w) IN
    /\ Works(w, "fail") /\ Work(w, Gone)
    /\ IF Unchanged(jobs[j], worker[w].cur)
       THEN /\ jobs' = [jobs EXCEPT ![j] = [Updated(worker[w].cur) EXCEPT !.status = "failed"]]
            /\ silent' = silent \ {j}
       ELSE UNCHANGED <<jobs, silent>>
    /\ OnlyPersist

WorkerDies(w) ==
    /\ ~Works(w, "idle") /\ Fault /\ Work(w, Gone)
    /\ UNCHANGED <<Game, conv, jobs, Clock, post, queue, runs, changes, review>>
-----------------------------------------------------------------------------
(* POST .../copilot-changes/:changeId/:action                               *)
Reviewing(v, pc) == review[v].pc = pc
Goes(v, s) == review' = [review EXCEPT ![v] = s]
Others == <<conv, jobs, Clock, post, queue, worker, runs>>
Change(v) == CHOOSE c \in changes : c.id = review[v].id
Puts(v, status) ==
    changes' = (changes \ {Change(v)}) \cup {[Updated(Change(v)) EXCEPT !.status = status]}

\* The change and the project are read.
ReviewOpen(v, c, action) ==
    /\ Reviewing(v, "idle")
    /\ \/ action = "claim" /\ c.status = "pending" /\ rev = c.base
       \/ action = "reject" /\ c.status \in {"pending", "failed"}
    /\ Goes(v, [Unread EXCEPT !.pc = action, !.id = c.id, !.version = c.version])
    /\ UNCHANGED <<Game, Others, changes, faults>>

Reject(v) ==
    /\ Reviewing(v, "reject")
    /\ IF Change(v).version = review[v].version THEN Puts(v, "rejected") ELSE UNCHANGED changes
    /\ Goes(v, Unread) /\ UNCHANGED <<Game, Others, faults>>

\* Slip: the claim is not saved.
ClaimUnsaved(v) ==
    /\ Reviewing(v, "claim") /\ Change(v).version = review[v].version
    /\ Goes(v, [review[v] EXCEPT !.pc = "apply"])
    /\ UNCHANGED <<Game, Others, changes, faults>>

\* An approval is claimed before the change is carried out.
Claim(v) ==
    /\ Reviewing(v, "claim")
    /\ IF Change(v).version = review[v].version
       THEN Puts(v, "applying") /\ Goes(v, [review[v] EXCEPT !.pc = "apply", !.version = @ + 1])
       ELSE UNCHANGED changes /\ Goes(v, Unread)
    /\ UNCHANGED <<Game, Others, faults>>

ApplyChange(v) ==
    /\ Reviewing(v, "apply") /\ Applies(Change(v).base, Change(v).id, Change(v).of, Change(v).knew)
    /\ Goes(v, [review[v] EXCEPT !.pc = "settle", !.ok = TRUE])
    /\ UNCHANGED <<Others, changes, faults>>

ApplyFails(v) ==
    /\ Reviewing(v, "apply") /\ Goes(v, [review[v] EXCEPT !.pc = "settle", !.ok = FALSE])
    /\ UNCHANGED <<Game, Others, changes, faults>>

Settle(v) ==
    /\ Reviewing(v, "settle")
    /\ IF Change(v).version = review[v].version
       THEN Puts(v, IF review[v].ok THEN "applied" ELSE "failed") ELSE UNCHANGED changes
    /\ Goes(v, Unread) /\ UNCHANGED <<Game, Others, faults>>

ReviewDies(v) ==
    /\ ~Reviewing(v, "idle") /\ Fault /\ Goes(v, Unread)
    /\ UNCHANGED <<Game, Others, changes>>
-----------------------------------------------------------------------------
(* The world around                                                         *)
\* The creator, or another conversation, saves the game.
SomebodyEdits ==
    /\ rev < MaxRevision /\ rev' = rev + 1
    /\ UNCHANGED <<conv, jobs, Clock, post, queue, worker, runs, changes, review, applied, repeated, faults>>

\* The agent of a run goes on when it has its answer: it asks for the current or
\* an older revision, drafts a change of the game that it knows, or concludes.
AgentActs(r, kind) ==
    /\ Len(runs[r].events) = runs[r].answered
    /\ Len(runs[r].events) < MaxEvents \/ (kind = "final" /\ Len(runs[r].events) = MaxEvents)
    /\ runs' = [runs EXCEPT ![r].events = Append(@, [kind |-> kind, knew |-> runs[r].knows])]
    /\ UNCHANGED <<Game, conv, jobs, Clock, post, queue, worker, changes, review, faults>>

\* Time passes.
GrowOld(j) ==
    /\ jobs[j].status = "running" /\ j \notin old /\ old' = old \cup {j}
    /\ UNCHANGED <<Game, conv, jobs, silent, post, queue, worker, runs, changes, review, faults>>
FallSilent(j) ==
    /\ jobs[j].status = "running" /\ j \notin silent /\ queue[j] = 0 /\ Ask(j, "done")
    /\ \A w \in Workers : ~(worker[w].pc # "idle" /\ JobOf(w) = j)
    /\ silent' = silent \cup {j}
    /\ UNCHANGED <<Game, conv, jobs, old, post, queue, worker, runs, changes, review, faults>>

LoseInvocation(j) ==
    /\ queue[j] > 0 /\ Fault /\ queue' = [queue EXCEPT ![j] = @ - 1]
    /\ UNCHANGED <<Game, conv, jobs, Clock, post, worker, runs, changes, review>>
-----------------------------------------------------------------------------
Post(j) ==
    \/ PostOpen(j) \/ PostSession(j) \/ (\E mode \in Modes : PostCheck(j, mode))
    \/ PostClaim(j) \/ PostRead(j) \/ PostAppend(j) \/ PostQueue(j) \/ PostQueueFails(j)
    \/ PostUndo(j) \/ PostDies(j)
    \/ GrowOld(j) \/ FallSilent(j) \/ LoseInvocation(j)

Step(w) ==
    \/ \E j \in Jobs : Deliver(w, j)
    \/ Start(w) \/ Connect(w) \/ TakeRequest(w) \/ Judge(w) \/ Propose(w) \/ SaveChange(w)
    \/ SaveFails(w) \/ Answer(w) \/ AnswerFails(w) \/ NoteDone(w) \/ StreamFails(w)
    \/ HandOff(w) \/ QueueNext(w) \/ QueueNextFails(w) \/ Finish(w) \/ ReadHistory(w)
    \/ AppendHistory(w) \/ Fail(w) \/ WorkerDies(w)

Decide(v) ==
    \/ \E c \in changes, action \in {"claim", "reject"} : ReviewOpen(v, c, action)
    \/ Reject(v) \/ Claim(v) \/ ApplyChange(v) \/ ApplyFails(v) \/ Settle(v) \/ ReviewDies(v)

Next ==
    \/ \E j \in Jobs : Post(j)
    \/ \E w \in Workers : Step(w)
    \/ \E v \in Reviews : Decide(v)
    \/ \E r \in DOMAIN runs, kind \in {"current", "older", "write", "final"} : AgentActs(r, kind)
    \/ SomebodyEdits

Spec == Init /\ [][Next]_vars
-----------------------------------------------------------------------------
TypeOK ==
    /\ rev \in 1..MaxRevision
    /\ conv \in [version : Nat, active : DOMAIN jobs \cup {None},
                 messages : SUBSET ((DOMAIN jobs) \X {"user", "assistant"})]
    /\ \A j \in DOMAIN jobs : jobs[j].status \in {"none", "running", "ready", "failed"}
    /\ \A r \in DOMAIN runs : /\ runs[r].answered \in {Len(runs[r].events), Len(runs[r].events) - 1}
                              /\ jobs[runs[r].job].status # "none"
    /\ \A c, d \in changes : c.id = d.id => c = d
    /\ faults \in 0..MaxFaults

(* What a tool request asks for is done once, though its run is followed by *)
(* one worker after another, and a creator may approve a change twice ("so  *)
(* retries cannot apply it twice").  Not so if a hand-off is invoked twice: *)
(* the later successor replays what the other has done since.               *)
AppliedOnce ==
    \A a, b \in applied : a.of = b.of => a = b \/ runs[a.of[1]].job \in repeated

(* Each change of the game is made to the very revision that the agent knew *)
(* when it drafted it ("Each invocation must build on a revision it has     *)
(* actually seen"): no edit of another conversation is lost in it.  The     *)
(* same exception: a read that is replayed returns a newer revision.        *)
EditsBuildOnWhatWasSeen ==
    \A a \in applied : a.on = a.knew \/ runs[a.of[1]].job \in repeated

(* Two workers never carry two jobs of one conversation at the same time,   *)
(* but for a job that has gone on for an hour.  (One whose record another   *)
(* has written since can save nothing in it any more.)                      *)
Busy(w) ==
    /\ worker[w].pc \in {"connect", "stream", "judge", "propose", "save", "answer", "note"}
    /\ Unchanged(jobs[JobOf(w)], worker[w].cur)
OneJobAtATime ==
    \A w, x \in Workers : Busy(w) /\ Busy(x) /\ JobOf(w) # JobOf(x)
                             => {JobOf(w), JobOf(x)} \cap old # {}

(* In manual mode the creator decides: a change is saved only for a change  *)
(* under approval, and what a record says was applied, rejected or has      *)
(* failed is what happened to the game.                                     *)
ReviewIsObeyed ==
    /\ \A c \in changes :
          LET done == \E a \in applied : a.by = c.id
          IN  /\ c.status \in {"pending", "rejected", "failed"} => ~done
              /\ c.status = "applied" => done
    /\ \A a \in applied : jobs[runs[a.of[1]].job].mode = "manual" => a.by # None

(* A failure that was recorded is not taken back, also not by a worker that *)
(* was on its way when the failure to queue it was recorded.                *)
FailureIsFinal == [][\A j \in DOMAIN jobs : jobs[j].status = "failed" => jobs'[j].status = "failed"]_vars

(* No message of the conversation is lost, though requests and workers put  *)
(* whole copies of it.                                                      *)
MessagesAreKept == [][conv.messages \subseteq conv'.messages]_vars
=============================================================================
