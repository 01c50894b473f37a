--------------------------- MODULE StudioWorkspace ---------------------------
(***************************************************************************)
(* The studio's page of one project:                                       *)
(* apps/web/app/components/game-studio.tsx (save, publish, notes, runs of  *)
(* the Copilot) with copilot-sessions.tsx (a run taken up after a reload,  *)
(* the review of a proposed change) and arcadeCopilot of web/lib/api.ts.   *)
(*                                                                         *)
(* The creator's draft is edited at any time, also while a request is      *)
(* under way; the project that the page knows is replaced by what requests *)
(* answer; other people and the Copilot save revisions of their own. A     *)
(* handler goes on with the document and the project of the rendering that *)
(* it was clicked in, and tells a changed draft by its identity.           *)
(*                                                                         *)
(* Simplifications: a browser game, whose source text follows its document;*)
(* contents are numbers in the order they were made; one conversation,     *)
(* with changes applied at once or proposed and reviewed.                  *)
(***************************************************************************)
EXTENDS Naturals

CONSTANTS MaxContents, MaxClicks, MaxMishaps

WorkspaceBounds == {MaxContents, MaxClicks, MaxMishaps} \subseteq Nat

VARIABLES
    server,     \* the project: its revision and content
    release,    \* the content that was published last, 0: none
    job,        \* the Copilot's
    proposal,   \* revision that a change waiting for review is for, 0: none
    page,       \* the project that the page knows, its draft, what it is busy with
    task,       \* the request of the page that makes it busy
    recovery,   \* the page's look at a run that has ended without it
    typed,      \* what the creator typed last and has not asked to save, 0: nothing
    clicked,    \* what the creator had before when publishing
    contents, refs, clicks, mishaps

vars == <<server, release, job, proposal, page, task, recovery, typed, clicked,
          contents, refs, clicks, mishaps>>

NoTask == [pc |-> "none"]
NoRecovery == [pc |-> "none"]

Init ==
    /\ server = [revision |-> 1, content |-> 1]
    /\ release = 0 /\ job = "none" /\ proposal = 0
    /\ page = [project |-> server, draft |-> 1, ref |-> 1, busy |-> FALSE, follows |-> FALSE]
    /\ task = NoTask /\ recovery = NoRecovery
    /\ typed = 0 /\ clicked = {}
    /\ contents = 1 /\ refs = 1 /\ clicks = 0 /\ mishaps = 0

-----------------------------------------------------------------------------
Dirty == page.draft # page.project.content

\* Something new is written.
Fresh == contents < MaxContents /\ contents' = contents + 1
NewRevision(content) == [revision |-> server.revision + 1, content |-> content]
Mishap == mishaps < MaxMishaps /\ mishaps' = mishaps + 1

\* setProject and setDocument: the draft becomes the project's, as a new object.
Showing(p, shown) ==
    IF shown THEN page' = [page EXCEPT !.project = p, !.draft = p.content, !.ref = refs + 1]
                  /\ refs' = refs + 1
    ELSE page' = [page EXCEPT !.project = p] /\ UNCHANGED refs

Edit ==
    /\ Fresh /\ typed' = contents'
    /\ refs' = refs + 1
    /\ page' = [page EXCEPT !.draft = contents', !.ref = refs']
    /\ UNCHANGED <<server, release, job, proposal, task, recovery, clicked, clicks, mishaps>>

\* Somebody else saves a revision.
OthersSave ==
    /\ Mishap /\ Fresh /\ server' = NewRevision(contents')
    /\ UNCHANGED <<release, job, proposal, page, task, recovery, typed, clicked, refs, clicks>>

-----------------------------------------------------------------------------
(* Tasks of the page, one at a time.                                       *)

\* Slip: only the save button saves.
SavedOnDemand(kind) == kind = "save"

\* What has to be saved before a task can do its work.
Unsaved(kind) == kind = "save" \/ Dirty

\* The first thing that a task asks of the server. The Copilot is not asked
\* while a run of it is followed.
Click(kind) ==
    /\ ~page.busy /\ clicks < MaxClicks /\ clicks' = clicks + 1
    /\ kind = "copilot" => ~page.follows
    /\ page' = [page EXCEPT !.busy = TRUE]
    /\ task' = [pc |-> IF Unsaved(kind) THEN "put" ELSE kind, kind |-> kind, ref |-> page.ref,
                content |-> page.draft, project |-> page.project]
    /\ typed' = IF Unsaved(kind) THEN 0 ELSE typed
    /\ clicked' = IF kind = "publish" THEN clicked \cup {page.draft} ELSE clicked
    /\ UNCHANGED <<server, release, job, proposal, recovery, contents, refs, mishaps>>

\* A task that has ended, well or badly.
Ends == task' = NoTask
NotBusy == [page EXCEPT !.busy = FALSE]

Put ==
    /\ task.pc = "put"
    /\ IF server.revision = task.project.revision
       THEN /\ server' = NewRevision(task.content)
            /\ task' = [task EXCEPT !.pc = "saved", !.project = server']
            /\ UNCHANGED page
       ELSE Ends /\ page' = NotBusy /\ UNCHANGED server
    /\ UNCHANGED <<release, job, proposal, recovery, typed, clicked, contents, refs, clicks, mishaps>>

\* save: the draft is replaced by what was saved.
Saved ==
    /\ task.pc = "saved"
    /\ refs' = refs + 1
    /\ page' = [page EXCEPT !.project = task.project, !.draft = task.project.content,
                            !.ref = refs', !.busy = task.kind # "save"]
    /\ task' = IF task.kind = "save" THEN NoTask ELSE [task EXCEPT !.pc = task.kind]
    /\ UNCHANGED <<server, release, job, proposal, recovery, typed, clicked, contents, clicks, mishaps>>

\* The answer of a request is lost; what it did is done.
Lost ==
    /\ Mishap /\ task.pc \notin {"none", "put"} /\ Ends /\ page' = NotBusy
    /\ UNCHANGED <<server, release, job, proposal, recovery, typed, clicked, contents, refs, clicks>>

Publish ==
    /\ task.pc = "publish"
    /\ IF server.revision = task.project.revision
       THEN release' = server.content /\ page' = [NotBusy EXCEPT !.project = task.project]
       ELSE page' = NotBusy /\ UNCHANGED release
    /\ Ends
    /\ UNCHANGED <<server, job, proposal, recovery, typed, clicked, contents, refs, clicks, mishaps>>

\* Notes, their status and the team: the answer is the project as it is now.
Annotate ==
    /\ task.pc = "note" /\ Ends
    /\ page' = [NotBusy EXCEPT !.project = server]
    /\ UNCHANGED <<server, release, job, proposal, recovery, typed, clicked, contents, refs, clicks, mishaps>>

-----------------------------------------------------------------------------
(* The Copilot.                                                            *)

Ask ==
    /\ task.pc = "copilot" /\ job # "running" /\ job' = "running"
    /\ task' = [task EXCEPT !.pc = "polling"]
    /\ UNCHANGED <<server, release, proposal, page, recovery, typed, clicked, contents, refs, clicks, mishaps>>

CopilotWrites ==
    /\ job = "running" /\ Fresh
    /\ \/ server' = NewRevision(contents') /\ UNCHANGED proposal
       \/ proposal' = server.revision /\ UNCHANGED server
    /\ UNCHANGED <<release, job, page, task, recovery, typed, clicked, refs, clicks, mishaps>>
CopilotEnds ==
    /\ job = "running" /\ job' = "ended"
    /\ UNCHANGED <<server, release, proposal, page, task, recovery, typed, clicked, contents, refs,
                   clicks, mishaps>>

\* Slip: what the Copilot wrote is shown in any case.
ShownAnyway(ref) == TRUE

\* The draft is the object that it was at the click.
Untouched(ref) == page.ref = ref

Polled ==
    /\ task.pc = "polling" /\ job = "ended"
    /\ task' = [task EXCEPT !.pc = "latest", !.project = server]
    /\ UNCHANGED <<server, release, job, proposal, page, recovery, typed, clicked, contents, refs,
                   clicks, mishaps>>
ShowLatest ==
    /\ task.pc = "latest" /\ Ends
    /\ IF Untouched(task.ref)
       THEN /\ refs' = refs + 1
            /\ page' = [NotBusy EXCEPT !.project = task.project, !.draft = task.project.content,
                                       !.ref = refs']
       ELSE page' = [NotBusy EXCEPT !.project = task.project] /\ UNCHANGED refs
    /\ UNCHANGED <<server, release, job, proposal, recovery, typed, clicked, contents, clicks, mishaps>>

\* A proposal is approved while nothing is unsaved.
Approve ==
    /\ ~page.busy /\ ~page.follows /\ ~Dirty /\ proposal # 0
    /\ clicks < MaxClicks /\ clicks' = clicks + 1
    /\ proposal' = 0
    /\ IF proposal = server.revision
       THEN /\ Fresh /\ server' = NewRevision(contents')
            /\ page' = [page EXCEPT !.busy = TRUE]
            /\ task' = [pc |-> "approved", ref |-> page.ref]
       ELSE UNCHANGED <<server, page, task, contents>>
    /\ UNCHANGED <<release, job, recovery, typed, clicked, refs, mishaps>>
Approved ==
    /\ task.pc = "approved"
    /\ task' = [pc |-> "latest", ref |-> task.ref, project |-> server]
    /\ UNCHANGED <<server, release, job, proposal, page, recovery, typed, clicked, contents, refs,
                   clicks, mishaps>>

-----------------------------------------------------------------------------
(* A reload forgets the draft and what was under way; a run is followed.   *)

Reload ==
    /\ Mishap
    /\ refs' = refs + 1
    /\ page' = [project |-> server, draft |-> server.content, ref |-> refs', busy |-> FALSE,
                follows |-> job = "running"]
    /\ task' = NoTask /\ recovery' = NoRecovery /\ typed' = 0
    /\ UNCHANGED <<server, release, job, proposal, clicked, contents, clicks>>

\* The run has ended at a revision that the page does not know: it looks, and
\* looks again when it learns of another revision meanwhile.
Notices ==
    /\ page.follows /\ job = "ended"
    /\ page' = [page EXCEPT !.follows = FALSE]
    /\ recovery' = IF server.revision > page.project.revision
                   THEN [pc |-> "asked", ref |-> page.ref, dirty |-> Dirty, to |-> server.revision,
                         from |-> page.project.revision]
                   ELSE NoRecovery
    /\ UNCHANGED <<server, release, job, proposal, task, typed, clicked, contents, refs, clicks, mishaps>>

\* Slip: a draft that is as it was is replaced, unsaved or not.
MayReplaceAny == page.ref = recovery.ref

MayReplace == ~recovery.dirty /\ page.ref = recovery.ref

Recovered ==
    /\ recovery.pc = "asked"
    /\ IF recovery.from = page.project.revision
       THEN Showing(server, MayReplace) /\ recovery' = NoRecovery
       ELSE /\ recovery' = IF recovery.to > page.project.revision
                           THEN [recovery EXCEPT !.ref = page.ref, !.dirty = Dirty,
                                                 !.from = page.project.revision]
                           ELSE NoRecovery
            /\ UNCHANGED <<page, refs>>
    /\ UNCHANGED <<server, release, job, proposal, task, typed, clicked, contents, clicks, mishaps>>

Next ==
    \/ Edit \/ OthersSave \/ Put \/ Saved \/ Lost \/ Publish \/ Annotate
    \/ \E kind \in {"save", "publish", "note", "copilot"} : Click(kind)
    \/ Ask \/ CopilotWrites \/ CopilotEnds \/ Polled \/ ShowLatest \/ Approve \/ Approved
    \/ Reload \/ Notices \/ Recovered

\* The creator does not type while a save is under way.
SavesUndisturbed == task.pc \in {"put", "saved"} => typed' \in {0, typed}

-----------------------------------------------------------------------------
TypeOK ==
    /\ page.draft \in 1..MaxContents /\ page.ref \in 1..refs
    /\ server.content \in 1..MaxContents /\ release \in 0..MaxContents
    /\ page.project.revision \in 1..server.revision
    /\ job \in {"none", "running", "ended"} /\ proposal \in 0..server.revision
    /\ clicks <= MaxClicks /\ mishaps <= MaxMishaps

(* What the creator types stays in the draft until it is saved, whatever    *)
(* answers come in meanwhile: of the Copilot's run, of one taken up after a *)
(* reload, of a review, of notes and publications.                          *)
EditsAreKept == typed # 0 => page.draft = typed

(* What was published is what the creator had before when publishing, saved *)
(* first if it was not.                                                     *)
PublishedAsSeen == release # 0 => release \in clicked
=============================================================================
