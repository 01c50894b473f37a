---------------------------- MODULE StudioProject ----------------------------
(***************************************************************************)
(* One project of the studio API (studio.ts, project-access.ts,            *)
(* publication.ts): its record, the immutable snapshots of its revisions,  *)
(* the memberships of collaborators, its releases and its publication      *)
(* record.  Every request is a process of its own (a Lambda, or a handler  *)
(* of one server) that reads documents, and later puts copies of them with *)
(* its changes.  Requests interleave at every call of the store and may    *)
(* stop between any two.                                                   *)
(*                                                                         *)
(* A revision's digest is a function of its document, so a document stands *)
(* for both.  Documents are accepted by the schema and live-ready and have *)
(* a thumbnail; refusals by size, scope or schema change nothing.          *)
(***************************************************************************)
EXTENDS DocumentStore, FiniteSets

CONSTANTS Callers, Owner, Members, Docs,  \* Callers: the requests under way
          Permissions,     \* what a collaborator may be granted: sets of names
          MaxRequests,     \* bound on the requests made
          MaxCrashes       \* bound on the requests that are cut off

\* Whoever is no collaborator is permitted nothing.
StudioBounds == MaxRequests \in Nat /\ MaxCrashes \in Nat /\ {} \in Permissions
OwnerIsNoMember == Owner \notin Members

VARIABLES
    project,     \* owner:<id>/<project>: document, revision, notes, members, release
    snapshots,   \* revisions:<project>: pairs of a revision and its document
    membership,  \* project-memberships:<actor>/<project>
    releases,    \* releases of this project, by revision and document
    publication, \* game-publications/<project>
    req,         \* the requests: where each one is and what it has read
    made, crashes, \* requests begun, requests cut off
    outdated     \* requests that read the publication before it was last switched off

vars == <<project, snapshots, membership, releases, publication, req, made, crashes, outdated>>

Actors == Members \cup {Owner}
Edit == "edit"
Note == "comment"
NoMembers == [m \in Members |-> {}]
Absent == [version |-> 0, rev |-> 0, doc |-> 0, notes |-> {}, members |-> NoMembers, release |-> 0]
Stranger == [version |-> 0, active |-> FALSE]
Unlisted == [version |-> 0, on |-> FALSE]
Idle == [pc |-> "idle", kind |-> "none", who |-> Owner, seen |-> Absent,
         next |-> Absent, avail |-> Unlisted, todo |-> {}, of |-> Owner, card |-> Stranger]

Kinds == {"create", "edit", "note", "resolve", "share", "publish", "unpublish"}
Needs(kind) == IF kind \in {"note", "resolve"} THEN Note ELSE Edit

Init ==
    /\ project = Absent /\ snapshots = {} /\ releases = {}
    /\ membership = [m \in Members |-> Stranger]
    /\ publication = Unlisted
    /\ req = [r \in Callers |-> Idle] /\ made = 0 /\ crashes = 0 /\ outdated = {}
-----------------------------------------------------------------------------
\* grants of project-access.ts.
Grants(p, who, permission) == who = Owner \/ permission \in p.members[who]

At(r, pc) == req[r].pc = pc
Go(r, q) == req' = [req EXCEPT ![r] = q]
Finish(r) == Go(r, Idle) /\ outdated' = outdated \ {r}
Documents == <<project, snapshots, membership, releases, publication>>
OnlyReq == UNCHANGED <<Documents, made, crashes, outdated>>

\* The request is answered with an error, and nothing is stored.
Refuse(r) == Finish(r) /\ UNCHANGED <<Documents, made, crashes>>

Ask(r, q) ==
    /\ At(r, "idle") /\ made < MaxRequests /\ made' = made + 1
    /\ Go(r, q)
    /\ UNCHANGED <<Documents, crashes, outdated>>

\* PUT .../collaborators: everybody who is or was a collaborator is told first.
Shared(q, p) ==
    {[q EXCEPT !.pc = "sync", !.seen = p,
               !.next = [Updated(p) EXCEPT !.members = g],
               !.todo = {m \in Members : p.members[m] # {} \/ g[m] # {}}]
       : g \in [Members -> Permissions]}

\* Where a request goes on with the project it has opened: the changes that a
\* request makes to the record are known when it has read it (If-Match is the
\* revision in it; other values are refused).
Opened(q, p) ==
    CASE q.kind = "edit" ->
           {[q EXCEPT !.pc = "snapshot", !.seen = p,
                      !.next = [Updated(p) EXCEPT !.doc = d, !.rev = p.rev + 1]] : d \in Docs}
      [] q.kind = "note" ->
           {[q EXCEPT !.pc = IF v = p.rev THEN "save" ELSE "target", !.seen = p,
                      !.next = [Updated(p) EXCEPT !.notes =
                                  @ \cup {[rev |-> v, doc |-> p.doc, open |-> TRUE]}]]
              : v \in 1..p.rev}
      [] q.kind = "resolve" ->
           {[q EXCEPT !.pc = "save", !.seen = p,
                      !.next = [Updated(p) EXCEPT !.notes =
                                  (@ \ {n}) \cup {[n EXCEPT !.open = ~@]}]] : n \in p.notes}
      [] q.kind = "share" -> Shared(q, p)
      [] q.kind \in {"publish", "unpublish"} -> {[q EXCEPT !.pc = "avail", !.seen = p]}

\* POST /v1/projects, and the example that an empty list of projects is given:
\* its id is derived from the owner, so that two lists make the same project.
Create(r, d) ==
    Ask(r, [Idle EXCEPT !.pc = "snapshot", !.kind = "create",
                        !.next = [Absent EXCEPT !.version = 1, !.rev = 1, !.doc = d]])

\* projectAccess for the owner: one read.
OwnerOpens(r, kind) ==
    /\ project.version > 0
    /\ \E q \in Opened([Idle EXCEPT !.kind = kind], project) : Ask(r, q)

\* projectAccess for a collaborator: the membership first, then the project.
MemberAsks(r, kind, m) ==
    /\ kind \notin {"create", "share", "publish", "unpublish"}
    /\ membership[m].active
    /\ Ask(r, [Idle EXCEPT !.pc = "open", !.kind = kind, !.who = m])

MemberOpens(r) ==
    /\ At(r, "open") /\ Grants(project, req[r].who, Needs(req[r].kind))
    /\ \E q \in Opened(req[r], project) : Go(r, q)
    /\ OnlyReq

MemberIsRefused(r) ==
    /\ At(r, "open") /\ ~Grants(project, req[r].who, Needs(req[r].kind))
    /\ Refuse(r)
-----------------------------------------------------------------------------
\* Slip: the record is saved before the snapshot of its revision.
SnapshotLater(r) ==
    /\ At(r, "snapshot") /\ Go(r, [req[r] EXCEPT !.pc = "save"])
    /\ OnlyReq

\* revision: an existing snapshot of the same revision and digest is kept.
Snapshot(r) ==
    /\ At(r, "snapshot")
    /\ snapshots' = snapshots \cup {<<req[r].next.rev, req[r].next.doc>>}
    /\ Go(r, [req[r] EXCEPT !.pc = "save"])
    /\ UNCHANGED <<project, membership, releases, publication, made, crashes, outdated>>

\* An annotation of an older revision: any listed snapshot with its number.
FindTarget(r) ==
    /\ At(r, "target")
    /\ \E n \in req[r].next.notes \ req[r].seen.notes :
          \E s \in {t \in snapshots : t[1] = n.rev} :
             Go(r, [req[r] EXCEPT !.pc = "save",
                       !.next.notes = (@ \ {n}) \cup {[n EXCEPT !.doc = s[2]]}])
    /\ OnlyReq

\* Slip: the record is read again, and the changes are put over it.
SaveOverLatest(r) ==
    /\ At(r, "save") /\ project.version >= req[r].seen.version
    /\ project' = [req[r].next EXCEPT !.version = project.version + 1]
    /\ IF req[r].kind = "publish"
       THEN Go(r, [req[r] EXCEPT !.pc = "announce"]) /\ UNCHANGED outdated
       ELSE Finish(r)
    /\ UNCHANGED <<snapshots, membership, releases, publication, made, crashes>>

\* save, and the put that creates a project.
Save(r) ==
    /\ At(r, "save") /\ Unchanged(project, req[r].seen)
    /\ project' = req[r].next
    /\ IF req[r].kind = "publish"
       THEN Go(r, [req[r] EXCEPT !.pc = "announce"]) /\ UNCHANGED outdated
       ELSE Finish(r)
    /\ UNCHANGED <<snapshots, membership, releases, publication, made, crashes>>

SaveConflicts(r) ==
    /\ At(r, "save") /\ ~Unchanged(project, req[r].seen)
    /\ Refuse(r)
-----------------------------------------------------------------------------
\* syncProjectMemberships: each collaborator's record is read and put in turn.
SyncRead(r, m) ==
    /\ At(r, "sync") /\ m \in req[r].todo
    /\ Go(r, [req[r] EXCEPT !.pc = "syncPut", !.of = m, !.card = membership[m]])
    /\ OnlyReq

SyncPut(r) ==
    LET m == req[r].of
        left == req[r].todo \ {m}
    IN  /\ At(r, "syncPut") /\ Unchanged(membership[m], req[r].card)
        /\ membership' = [membership EXCEPT ![m] =
                [Updated(req[r].card) EXCEPT !.active = req[r].next.members[m] # {}]]
        /\ Go(r, [req[r] EXCEPT !.pc = IF left = {} THEN "save" ELSE "sync", !.todo = left])
        /\ UNCHANGED <<project, snapshots, releases, publication, made, crashes, outdated>>

SyncConflicts(r) ==
    /\ At(r, "syncPut") /\ ~Unchanged(membership[req[r].of], req[r].card)
    /\ Refuse(r)

\* Nobody was or becomes a collaborator.
SyncNobody(r) ==
    /\ At(r, "sync") /\ req[r].todo = {}
    /\ Go(r, [req[r] EXCEPT !.pc = "save"])
    /\ OnlyReq
-----------------------------------------------------------------------------
ReleaseOf(q) == <<q.seen.rev, q.seen.doc>>

\* publish and unpublish note the publication first; it is the condition of
\* their last put.
ReadPublication(r) ==
    /\ At(r, "avail")
    /\ Go(r, [req[r] EXCEPT !.avail = publication,
                            !.pc = IF req[r].kind = "publish" THEN "lookup" ELSE "announce"])
    /\ OnlyReq

\* The game is compiled and its rules are tried before the release is looked up.
LookUpRelease(r) ==
    /\ At(r, "lookup")
    /\ Go(r, IF ReleaseOf(req[r]) \in releases
             THEN [req[r] EXCEPT !.pc = "announce"]
             ELSE [req[r] EXCEPT !.pc = "release"])
    /\ OnlyReq

PutRelease(r) ==
    /\ At(r, "release") /\ ReleaseOf(req[r]) \notin releases
    /\ releases' = releases \cup {ReleaseOf(req[r])}
    /\ Go(r, [req[r] EXCEPT !.pc = "save",
                            !.next = [Updated(req[r].seen) EXCEPT !.release = req[r].seen.rev]])
    /\ UNCHANGED <<project, snapshots, membership, publication, made, crashes, outdated>>

ReleaseConflicts(r) ==
    /\ At(r, "release") /\ ReleaseOf(req[r]) \in releases
    /\ Refuse(r)

\* The publishing requests that have read the publication record.
Informed == {o \in Callers : /\ req[o].kind = "publish"
                              /\ req[o].pc \in {"lookup", "release", "save", "announce"}}

\* Slip: the publication is put over whatever is there.
AnnounceBlindly(r) ==
    LET on == req[r].kind = "publish"
    IN  /\ At(r, "announce")
        /\ publication' = [version |-> publication.version + 1, on |-> on]
        /\ Go(r, Idle) /\ outdated' = IF publication.on /\ ~on THEN Informed ELSE outdated \ {r}
        /\ UNCHANGED <<project, snapshots, membership, releases, made, crashes>>

\* setPublication: nothing to do if the record that was read says so already.
Announce(r) ==
    LET q == req[r]
        on == q.kind = "publish"
        same == q.avail.version > 0 /\ q.avail.on = on
    IN  /\ At(r, "announce") /\ (same \/ Unchanged(publication, q.avail))
        /\ publication' = IF same THEN publication ELSE [Updated(q.avail) EXCEPT !.on = on]
        /\ Go(r, Idle) /\ outdated' = IF publication.on /\ ~on THEN Informed ELSE outdated \ {r}
        /\ UNCHANGED <<project, snapshots, membership, releases, made, crashes>>

AnnounceConflicts(r) ==
    LET q == req[r]
    IN  /\ At(r, "announce") /\ ~(q.avail.version > 0 /\ q.avail.on = (q.kind = "publish"))
        /\ ~Unchanged(publication, q.avail)
        /\ Refuse(r)

\* The function instance that carries the request stops.
Crash(r) ==
    /\ ~At(r, "idle") /\ crashes < MaxCrashes /\ crashes' = crashes + 1
    /\ Finish(r) /\ UNCHANGED <<Documents, made>>
-----------------------------------------------------------------------------
Next ==
    \E r \in Callers :
        \/ \E d \in Docs : Create(r, d)
        \/ \E kind \in Kinds \ {"create"} :
              OwnerOpens(r, kind) \/ \E m \in Members : MemberAsks(r, kind, m)
        \/ MemberOpens(r) \/ MemberIsRefused(r)
        \/ Snapshot(r) \/ FindTarget(r) \/ Save(r) \/ SaveConflicts(r)
        \/ SyncNobody(r) \/ SyncPut(r) \/ SyncConflicts(r)
        \/ \E m \in Members : SyncRead(r, m)
        \/ ReadPublication(r) \/ LookUpRelease(r) \/ PutRelease(r) \/ ReleaseConflicts(r)
        \/ Announce(r) \/ AnnounceConflicts(r)
        \/ Crash(r)

Spec == Init /\ [][Next]_vars
-----------------------------------------------------------------------------
Notes == [rev : Nat \ {0}, doc : Docs, open : BOOLEAN]

TypeOK ==
    /\ project \in [version : Nat, rev : Nat, doc : Docs \cup {0}, notes : SUBSET Notes,
                    members : [Members -> Permissions], release : Nat]
    /\ snapshots \subseteq Nat \X Docs /\ releases \subseteq Nat \X Docs
    /\ membership \in [Members -> [version : Nat, active : BOOLEAN]]
    /\ publication \in [version : Nat, on : BOOLEAN]
    /\ made \in 0..MaxRequests /\ crashes \in 0..MaxCrashes /\ outdated \subseteq Callers

(* The history has what it needs: every revision that is the project's and  *)
(* every release has its immutable snapshot, whatever was cut off or lost   *)
(* a race ("immutable snapshots are written first", studio.ts).             *)
HistoryIsKept ==
    /\ project.version > 0 => <<project.rev, project.doc>> \in snapshots
    /\ releases \subseteq snapshots

(* Notes of others, ignoring whether they are resolved. *)
Marks(notes) == {[rev |-> n.rev, doc |-> n.doc] : n \in notes}

(* No update is lost: what one request saves keeps what every other request *)
(* saved before it, though each puts a whole copy of the record.            *)
NothingIsOverwritten ==
    [][project.version > 0 =>
         /\ project'.rev \in {project.rev, project.rev + 1}
         /\ project'.doc # project.doc => project'.rev > project.rev
         /\ Marks(project.notes) \subseteq Marks(project'.notes)
         /\ Cardinality({part \in {"document", "notes", "members", "release"} :
                CASE part = "document" -> project'.rev # project.rev
                  [] part = "notes" -> project'.notes # project.notes
                  [] part = "members" -> project'.members # project.members
                  [] part = "release" -> project'.release # project.release}) <= 1]_vars

(* A collaborator who was removed, or whose permission was taken away,      *)
(* saves nothing any more, also with a request that was let in before: each *)
(* change is made by somebody who may make it in the very version replaced. *)
SavesAreAuthorised ==
    [][project.version > 0 /\ project' # project =>
         \E r \in Callers : /\ At(r, "save") /\ req'[r].pc # "save"
                            /\ Grants(project, req[r].who, Needs(req[r].kind))]_vars

(* A game that was taken down is put up again only by a request to publish  *)
(* that knew: one that read the publication after it was switched off.      *)
TakenDownStaysDown ==
    [][publication.version > 0 /\ ~publication.on /\ publication'.on =>
         \E r \in Callers \ outdated : At(r, "announce") /\ req'[r].pc = "idle"]_vars

(* Concurrent saves of a project: what one puts keeps what every other put   *)
(* before it; only who may change the version that is replaced changes it,   *)
(* and a game that was taken down is put up only by who knew.                *)
SavesAreSafe == NothingIsOverwritten /\ SavesAreAuthorised /\ TakenDownStaysDown
=============================================================================
