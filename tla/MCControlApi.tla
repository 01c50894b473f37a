---------------------------- MODULE MCControlApi ----------------------------
(***************************************************************************)
(* The control API's records, the studio's page of a project and of a      *)
(* playtest, the matches that it creates on a worker, and the entries into *)
(* a lobby of the payment service, one component per behaviour: they share *)
(* no documents. `focus` names the component, and the size at which it is  *)
(* explored; the others stay as they begin.                                *)
(***************************************************************************)
EXTENDS StudioProject, Naturals, Sequences, TLC

CONSTANTS a1, a2, r1, r2, ann, bob, \* requests and workers, reviews, people
    pay1, pay2, pay3, nobody       \* payments; a seat's owner when it has none

VARIABLES
    focus,
    rev, conv, jobs, old, silent, post, queue, worker, runs, changes, review, applied, faults, repeated,
    run, log, strategies, lapsed, decide, coach, asked, cutOff, answers, word,
    newest, confirmed, pool, relayed, lobby, request, line, told, posts, mishaps,
    server, release, job, proposal, page, task, recovery, typed, clicked, contents, refs, clicks,
    hitches,
    managed, saved, open, installed, frame, playing, deciding, move, coaching, upsets,
    matches, live, upkeep, creation, beside, unsaved, seated, creations, losses,
    recording, listed, uploaded, key, keyIndex, copilot, agents, testRun, call, calls, lost, said

Two == {a1, a2}

\* A job that goes on from one worker to the next.
Drive == INSTANCE CopilotJobs WITH
    Workers <- Two, Reviews <- {r1}, Modes <- {"automatic"}, MaxJobs <- 1, MaxRevision <- 3,
    MaxEvents <- 2, MaxVersion <- 6, MaxRepeats <- 0, MaxFaults <- 1
\* Changes that the creator approves or rejects.
Review == INSTANCE CopilotJobs WITH
    Workers <- Two, Reviews <- {r1, r2}, Modes <- {"manual", "read-only"}, MaxJobs <- 1,
    MaxRevision <- 2, MaxEvents <- 1, MaxVersion <- 3, MaxRepeats <- 0, MaxFaults <- 1
\* Two jobs for one conversation.
Converse == INSTANCE CopilotJobs WITH
    Workers <- Two, Reviews <- {r1}, Modes <- {"read-only"}, MaxJobs <- 2, MaxRevision <- 1,
    MaxEvents <- 0, MaxVersion <- 3, MaxRepeats <- 0, MaxFaults <- 1
\* A worker that is invoked twice.
Repeat == INSTANCE CopilotJobs WITH
    Workers <- Two, Reviews <- {r1}, Modes <- {"automatic"}, MaxJobs <- 1, MaxRevision <- 3,
    MaxEvents <- 1, MaxVersion <- 3, MaxRepeats <- 1, MaxFaults <- 0

Preview == INSTANCE Playtest WITH
    Deciders <- Two, Coaches <- Two, MaxSteps <- 2, MaxRequests <- 3, MaxCrashes <- 1

Records == INSTANCE StudioRecords WITH
    Callers <- Two, MaxCalls <- 4, MaxLost <- 1, MaxTurns <- 2

Entry == INSTANCE SeatEntry WITH
    Requests <- Two, Seats <- {1, 2}, Players <- {ann, bob}, Nobody <- nobody, Asked <- {},
    Nonces <- {pay1, pay2, pay3}, Signer <- pay1 :> ann @@ pay2 :> ann @@ pay3 :> bob,
    Funds <- 2, MaxPosts <- 2, MaxMishaps <- 2, made <- relayed, record <- lobby

Workspace == INSTANCE StudioWorkspace WITH
    MaxContents <- 4, MaxClicks <- 3, MaxMishaps <- 1, mishaps <- hitches
PlayPage == INSTANCE PlaytestPage WITH
    Sessions <- {1, 2}, MaxSteps <- 2, MaxCoaching <- 1, MaxMishaps <- 1,
    task <- move, mishaps <- upsets

Owns(k) == IF k = 3 THEN bob ELSE ann
Hosting == INSTANCE MatchHosting WITH
    Calls <- Two, Keys <- 1..3, Owner <- Owns, Limit <- 2, OwnerLimit <- 1,
    SeatsOf <- 2, LastRound <- 2, MaxCalls <- 3, MaxMishaps <- 1, saved <- matches,
    call <- creation, told <- seated, calls <- creations, mishaps <- losses

ASSUME SmallInstances ==
    /\ StudioBounds /\ OwnerIsNoMember
    /\ Drive!CopilotBounds /\ Review!CopilotBounds /\ Converse!CopilotBounds /\ Repeat!CopilotBounds
    /\ Preview!PlaytestBounds /\ Records!RecordsAssumption /\ Entry!EntryBounds
    /\ Workspace!WorkspaceBounds /\ PlayPage!PageBounds /\ Hosting!HostingBounds

OfCopilot == <<rev, conv, jobs, old, silent, post, queue, worker, runs, changes, review, applied, faults, repeated>>
OfPreview == <<run, log, strategies, lapsed, decide, coach, asked, cutOff, answers, word>>
OfRecords == <<recording, listed, uploaded, key, keyIndex, copilot, agents, testRun, call, calls, lost, said>>
OfEntry == <<newest, confirmed, pool, relayed, lobby, request, line, told, posts, mishaps>>
OfWorkspace == <<server, release, job, proposal, page, task, recovery, typed, clicked, contents, refs, clicks, hitches>>
OfPlayPage == <<managed, saved, open, installed, frame, playing, deciding, move, coaching, upsets>>
OfHosting == <<matches, live, upkeep, creation, beside, unsaved, seated, creations, losses>>
OfPages == <<OfWorkspace, OfPlayPage>>
everything == <<focus, vars, OfPages, OfEntry, OfHosting, OfCopilot, OfPreview, OfRecords>>

AnyInit ==
    /\ Init /\ Preview!Init /\ Entry!Init /\ Records!Init
    /\ Workspace!Init /\ PlayPage!Init /\ Hosting!Init
    /\ \/ focus \in {"project", "drive", "playtest", "records", "entry", "hosting", "workspace", "playPage"}
          /\ Drive!Init
       \/ focus = "review" /\ Review!Init
       \/ focus = "converse" /\ Converse!Init
       \/ focus = "repeat" /\ Repeat!Init
    /\ focus # "entry" => lobby.open
    /\ focus # "playPage" => managed

ApiStep ==
    \/ focus = "project" /\ Next /\ UNCHANGED <<OfCopilot, OfPreview, OfRecords>>
    \/ focus = "playtest" /\ Preview!Next /\ UNCHANGED <<vars, OfCopilot, OfRecords>>
    \/ focus = "records" /\ Records!Next /\ UNCHANGED <<vars, OfCopilot, OfPreview>>
    \/ /\ \/ focus = "drive" /\ Drive!Next
          \/ focus = "review" /\ Review!Next
          \/ focus = "converse" /\ Converse!Next
          \/ focus = "repeat" /\ Repeat!Next
       /\ UNCHANGED <<vars, OfPreview, OfRecords>>

PageStep ==
    \/ focus = "workspace" /\ Workspace!Next /\ Workspace!SavesUndisturbed /\ UNCHANGED OfPlayPage
    \/ focus = "playPage" /\ PlayPage!Next /\ PlayPage!ResumedAtRest /\ UNCHANGED OfWorkspace

AnyNext ==
    /\ UNCHANGED focus
    /\ \/ ApiStep /\ UNCHANGED <<OfPages, OfEntry, OfHosting>>
       \/ PageStep /\ UNCHANGED <<vars, OfCopilot, OfPreview, OfRecords, OfEntry, OfHosting>>
       \/ focus = "entry" /\ Entry!Next /\ Entry!TransfersLast
          /\ UNCHANGED <<OfPages, vars, OfCopilot, OfPreview, OfRecords, OfHosting>>
       \/ focus = "hosting" /\ Hosting!Next
          /\ UNCHANGED <<OfPages, vars, OfCopilot, OfPreview, OfRecords, OfEntry>>

AnySpec == AnyInit /\ [][AnyNext]_everything

\* Requests and workers are alike.
Alike == Permutations(Two)
-----------------------------------------------------------------------------
\* Every component's variables have their types.
AllTypesOK ==
    /\ TypeOK /\ Drive!TypeOK /\ Preview!TypeOK /\ Records!TypeOK /\ Entry!TypeOK
    /\ Workspace!TypeOK /\ PlayPage!TypeOK /\ Hosting!TypeOK

(* The co-pilot's changes: each tool request is carried out once, on the     *)
(* very revision that the agent knew, and as the creator decided; and a      *)
(* conversation has one job at work. What the creator types meanwhile stays, *)
(* and what is published is what the creator saw.                            *)
ChangesAreSafe ==
    /\ Drive!AppliedOnce
    /\ Drive!EditsBuildOnWhatWasSeen
    /\ Drive!OneJobAtATime
    /\ Drive!ReviewIsObeyed
    /\ Workspace!EditsAreKept
    /\ Workspace!PublishedAsSeen

(* The co-pilot's conversation: no message is lost, and a job that has       *)
(* failed is not revived by a worker that was on its way.                    *)
ConversationIsKept == Drive!FailureIsFinal /\ Drive!MessagesAreKept

(* Decisions and coaches of a playtest: no decision is committed under a     *)
(* strategy that was replaced, no late plan over a newer instruction, and a  *)
(* request's lock is not taken off by another's failure.                     *)
StrategiesTakeTurns ==
    /\ Preview!DecidedUnderItsStrategy
    /\ Preview!LastWordHolds
    /\ Preview!LockIsRespected

(* What is written under two keys, or by two requests, agrees: a complete    *)
(* recording is listed, a key is listed as it works, an account has one      *)
(* co-pilot, and a step of a test run is answered once. A playtest is        *)
(* decided once per step, for everybody who asks, its log holds what was     *)
(* committed, all of it unless a request was cut off, and its page plays a   *)
(* part of that log. A lobby's record says of its seats what is for good on  *)
(* the chain, and a paid seat was paid once, however often its player asked. *)
(* Creations of matches that overlap stay within the limits, keep what is    *)
(* stored, and bring players together.                                       *)
RecordsAgree ==
    /\ Records!CompleteIsListed
    /\ Records!KeysAreListed
    /\ Records!OneCopilot
    /\ Records!StepsAreTakenOnce
    /\ Preview!SameStepSameAnswer
    /\ Preview!LogIsTrue
    /\ PlayPage!FrameIsTheLog
    /\ Entry!EntriesHold
    /\ Entry!SeatsAreBacked
    /\ Hosting!HostingHolds
=============================================================================
