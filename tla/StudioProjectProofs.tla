-------------------------- MODULE StudioProjectProofs --------------------------
(***************************************************************************)
(* Theorems about a project of the studio: its history, what concurrent    *)
(* requests save over each other, who may change it, and who puts it up    *)
(* again after it was taken down, for any number of requests under way, of *)
(* collaborators, documents and cut-off requests.                          *)
(***************************************************************************)
EXTENDS StudioProject, FiniteSetTheorems, TLAPS

ProjectRecords ==
    [version : Nat, rev : Nat, doc : Docs \cup {0}, notes : SUBSET Notes,
     members : [Members -> Permissions], release : Nat]
Cards == [version : Nat, active : BOOLEAN]
Publications == [version : Nat, on : BOOLEAN]
Publishing == {"lookup", "release", "announce"}
Drafting == {"snapshot", "target", "sync", "syncPut", "save"}
RequestRecords ==
    [pc : {"idle", "open", "avail"} \cup Drafting \cup Publishing, kind : Kinds \cup {"none"}, who : Actors,
     seen : ProjectRecords, next : ProjectRecords, avail : Publications,
     todo : SUBSET Members, of : Actors, card : Cards]

\* What a request is about where it stands.
KindFits(q) ==
    /\ q.pc = "open" => q.kind \in {"edit", "note", "resolve"} /\ q.who \in Members
    /\ q.pc = "snapshot" => q.kind \in {"create", "edit"}
    /\ q.pc = "target" => q.kind = "note"
    /\ q.pc \in {"sync", "syncPut"} => q.kind = "share"
    /\ q.pc \in {"lookup", "release"} => q.kind = "publish"
    /\ q.kind \in {"publish", "unpublish"} => q.who = Owner
    /\ q.pc \in {"avail"} \cup Publishing => q.kind \in {"publish", "unpublish"} /\ q.seen.version > 0

\* The record as a request has read it is no newer than what is stored.
SeenFits(q, stored, taken) ==
    /\ q.seen.version <= stored.version
    /\ q.seen.version = stored.version => q.seen = stored
    /\ q.seen.version > 0 =>
          q.seen.rev >= 1 /\ q.seen.doc \in Docs /\ <<q.seen.rev, q.seen.doc>> \in taken

\* One request changes one part of the record.
OnePart(kind, old, new) ==
    /\ kind = "edit" => new.rev = old.rev + 1
    /\ kind # "edit" => new.rev = old.rev /\ new.doc = old.doc
    /\ kind = "note" => old.notes \subseteq new.notes
    /\ kind = "resolve" => Marks(old.notes) \subseteq Marks(new.notes)
    /\ kind \notin {"note", "resolve"} => new.notes = old.notes
    /\ kind # "share" => new.members = old.members
    /\ kind # "publish" => new.release = old.release

\* What a request is about to save.
DraftFits(q, taken) ==
    q.pc \in Drafting =>
       /\ q.next.version = q.seen.version + 1 /\ q.next.rev >= 1 /\ q.next.doc \in Docs
       /\ q.kind = "create" => q.seen.version = 0
       /\ q.kind # "create" => /\ q.seen.version > 0 /\ Grants(q.seen, q.who, Needs(q.kind))
                               /\ OnePart(q.kind, q.seen, q.next)
       /\ q.pc = "save" /\ q.kind \in {"create", "edit"} => <<q.next.rev, q.next.doc>> \in taken

Fits(q, stored, taken, listed) ==
    /\ q \in RequestRecords /\ KindFits(q) /\ SeenFits(q, stored, taken) /\ DraftFits(q, taken)
    /\ q.avail.version <= listed.version

RequestsFit == DOMAIN req = Callers /\ \A r \in Callers : Fits(req[r], project, snapshots, publication)

ProjectFits ==
    /\ project \in ProjectRecords
    /\ project.version = 0 => project = Absent
    /\ project.version > 0 => project.rev >= 1 /\ project.doc \in Docs

\* Who read the publication before it was switched off would put over an older one.
OutdatedFits ==
    /\ outdated \subseteq Informed
    /\ \A r \in outdated : req[r].avail.version < publication.version \/ publication.on

StudioInv == TypeOK /\ ProjectFits /\ HistoryIsKept /\ RequestsFit /\ OutdatedFits
-----------------------------------------------------------------------------
(* Records.                                                                *)
LEMMA Empty ==
    ASSUME StudioBounds
    PROVE  /\ NoMembers \in [Members -> Permissions] /\ Absent \in ProjectRecords
           /\ Absent.version = 0 /\ Absent.rev = 0
           /\ Stranger \in Cards /\ Unlisted \in Publications /\ Unlisted.version = 0
           /\ Idle \in RequestRecords /\ Idle.pc = "idle" /\ Idle.seen = Absent /\ Idle.next = Absent
           /\ Idle.avail = Unlisted /\ Idle.kind = "none"
<1>1. NoMembers \in [Members -> Permissions]
  BY DEF StudioBounds, NoMembers
<1>2. Absent \in ProjectRecords
  BY <1>1 DEF Absent, ProjectRecords
<1>3. Stranger \in Cards /\ Unlisted \in Publications
  BY DEF Stranger, Cards, Unlisted, Publications
<1>4. Idle \in RequestRecords
  BY <1>2, <1>3 DEF Idle, RequestRecords, Actors
<1> QED  BY <1>1, <1>2, <1>3, <1>4 DEF Absent, Unlisted, Idle

LEMMA RecordFields ==
    ASSUME NEW p \in ProjectRecords
    PROVE  /\ p.version \in Nat /\ p.rev \in Nat /\ p.doc \in Docs \cup {0} /\ p.notes \subseteq Notes
           /\ p.members \in [Members -> Permissions] /\ p.release \in Nat
  BY DEF ProjectRecords

LEMMA RequestFields ==
    ASSUME NEW q \in RequestRecords
    PROVE  /\ q.who \in Actors /\ q.seen \in ProjectRecords /\ q.next \in ProjectRecords
           /\ q.avail \in Publications /\ q.todo \subseteq Members /\ q.card \in Cards
           /\ q.seen.version \in Nat /\ q.next.version \in Nat /\ q.avail.version \in Nat
           /\ q.avail.on \in BOOLEAN
  BY DEF RequestRecords, ProjectRecords, Publications

\* What fits the documents as they are fits them when they have gone on.
LEMMA FitsLater ==
    ASSUME NEW q, NEW stored \in ProjectRecords, NEW taken, NEW listed \in Publications,
           NEW later \in ProjectRecords, NEW more, NEW relisted \in Publications,
           Fits(q, stored, taken, listed), taken \subseteq more,
           later = stored \/ later.version > stored.version, relisted.version >= listed.version
    PROVE  Fits(q, later, more, relisted)
<1>1. q \in RequestRecords /\ KindFits(q) /\ SeenFits(q, stored, taken) /\ DraftFits(q, taken)
      /\ q.avail.version <= listed.version
  BY DEF Fits
<1>2. /\ q.seen.version \in Nat /\ q.avail.version \in Nat /\ stored.version \in Nat
      /\ later.version \in Nat /\ listed.version \in Nat /\ relisted.version \in Nat
  BY <1>1, RequestFields, RecordFields DEF Publications
<1>3. SeenFits(q, later, more)
  BY <1>1, <1>2 DEF SeenFits
<1>4. DraftFits(q, more)
  BY <1>1 DEF DraftFits
<1>5. q.avail.version <= relisted.version
  BY <1>1, <1>2
<1> QED  BY <1>1, <1>3, <1>4, <1>5 DEF Fits

LEMMA IdleFits ==
    ASSUME StudioBounds, NEW stored \in ProjectRecords, NEW taken, NEW listed \in Publications,
           stored.version = 0 => stored = Absent
    PROVE  Fits(Idle, stored, taken, listed)
<1>1. stored.version \in Nat /\ listed.version \in Nat
  BY RecordFields DEF Publications
<1>2. KindFits(Idle) /\ DraftFits(Idle, taken)
  BY Empty DEF KindFits, DraftFits, Publishing, Drafting
<1>3. SeenFits(Idle, stored, taken)
  BY <1>1, Empty DEF SeenFits
<1>4. Idle.avail.version <= listed.version
  BY <1>1, Empty
<1> QED  BY <1>2, <1>3, <1>4, Empty DEF Fits

LEMMA InitStudio ==
    ASSUME StudioBounds, Init
    PROVE  StudioInv
<1>1. project = Absent /\ snapshots = {} /\ releases = {} /\ publication = Unlisted
      /\ membership = [m \in Members |-> Stranger] /\ req = [r \in Callers |-> Idle]
      /\ made = 0 /\ crashes = 0 /\ outdated = {}
  BY DEF Init
<1>2. TypeOK
  BY <1>1, Empty DEF TypeOK, ProjectRecords, Cards, Publications, StudioBounds
<1>3. ProjectFits /\ HistoryIsKept
  BY <1>1, Empty DEF ProjectFits, HistoryIsKept
<1>4. RequestsFit
  BY <1>1, IdleFits, Empty DEF RequestsFit
<1>5. OutdatedFits
  BY <1>1 DEF OutdatedFits
<1> QED  BY <1>2, <1>3, <1>4, <1>5 DEF StudioInv
-----------------------------------------------------------------------------
(* One request takes a step.                                               *)
\* What a step may do to the documents, beside the record of the project.
Grows ==
    /\ project' \in ProjectRecords /\ publication' \in Publications
    /\ project' = project \/ project'.version > project.version
    /\ snapshots \subseteq snapshots' /\ publication'.version >= publication.version

LEMMA RequestSteps ==
    ASSUME StudioBounds, StudioInv, NEW r \in Callers, NEW new, Grows, req' = [req EXCEPT ![r] = new],
           Fits(new, project', snapshots', publication'), TypeOK', ProjectFits', HistoryIsKept', OutdatedFits'
    PROVE  StudioInv'
<1>1. DOMAIN req = Callers /\ \A o \in Callers : Fits(req[o], project, snapshots, publication)
  BY DEF StudioInv, RequestsFit
<1>2. DOMAIN req' = Callers /\ req'[r] = new /\ \A o \in Callers : o # r => req'[o] = req[o]
  BY <1>1
<1>3. project \in ProjectRecords /\ publication \in Publications
  BY DEF StudioInv, ProjectFits, TypeOK, Publications
<1>4. ASSUME NEW o \in Callers
      PROVE  Fits(req'[o], project', snapshots', publication')
  <2>1. CASE o = r
    BY <1>2, <2>1
  <2>2. CASE o # r
    BY <1>1, <1>2, <1>3, <2>2, FitsLater DEF Grows
  <2> QED  BY <2>1, <2>2
<1>5. RequestsFit'
  BY <1>2, <1>4 DEF RequestsFit
<1> QED  BY <1>5 DEF StudioInv

\* A request goes on; of the documents at most a snapshot is added.
LEMMA OutdatedStays ==
    ASSUME StudioInv, NEW r \in Callers, NEW new, req' = [req EXCEPT ![r] = new],
           outdated' = outdated, publication' = publication,
           r \in outdated => /\ new.kind = "publish" /\ new.pc \in {"lookup", "release", "save", "announce"}
                             /\ new.avail = req[r].avail
    PROVE  OutdatedFits'
<1>1. outdated \subseteq Informed /\ DOMAIN req = Callers
      /\ \A o \in outdated : req[o].avail.version < publication.version \/ publication.on
  BY DEF StudioInv, OutdatedFits, RequestsFit
<1>2. req'[r] = new /\ \A o \in Callers : o # r => req'[o] = req[o]
  BY <1>1
<1>3. ASSUME NEW o \in outdated
      PROVE  o \in Informed' /\ (req'[o].avail.version < publication.version \/ publication.on)
  <2>1. o \in Callers /\ o \in Informed
    BY <1>1 DEF Informed
  <2> QED  BY <1>1, <1>2, <2>1 DEF Informed
<1> QED  BY <1>3 DEF OutdatedFits

LEMMA OutdatedFinishes ==
    ASSUME StudioInv, NEW r \in Callers, NEW new, req' = [req EXCEPT ![r] = new],
           outdated' = outdated \ {r},
           publication' = publication \/ (publication'.version > publication.version /\ publication'.on),
           publication' \in Publications
    PROVE  OutdatedFits'
<1>1. outdated \subseteq Informed /\ DOMAIN req = Callers
      /\ \A o \in outdated : req[o].avail.version < publication.version \/ publication.on
  BY DEF StudioInv, OutdatedFits, RequestsFit
<1>2. \A o \in Callers : o # r => req'[o] = req[o]
  BY <1>1
<1>3. ASSUME NEW o \in outdated'
      PROVE  o \in Informed' /\ (req'[o].avail.version < publication'.version \/ publication'.on)
  <2>1. o \in Callers /\ o \in Informed /\ o # r
    BY <1>1 DEF Informed
  <2> QED  BY <1>1, <1>2, <2>1 DEF Informed
<1> QED  BY <1>3 DEF OutdatedFits

\* Nothing but requests changes.
LEMMA OnlyRequest ==
    ASSUME StudioBounds, StudioInv, NEW r \in Callers, NEW new, req' = [req EXCEPT ![r] = new],
           Fits(new, project, snapshots, publication), UNCHANGED Documents,
           made' \in 0..MaxRequests, crashes' \in 0..MaxCrashes, OutdatedFits', outdated' \subseteq Callers
    PROVE  StudioInv'
<1>1. UNCHANGED <<project, snapshots, membership, releases, publication>>
  BY DEF Documents
<1>2. TypeOK' /\ ProjectFits' /\ HistoryIsKept'
  BY <1>1 DEF StudioInv, TypeOK, ProjectFits, HistoryIsKept
<1>3. project \in ProjectRecords /\ publication \in Publications
  BY DEF StudioInv, ProjectFits, TypeOK, Publications
<1>4. publication.version >= publication.version
  BY <1>3 DEF Publications
<1>5. Grows
  BY <1>1, <1>3, <1>4 DEF Grows
<1> QED  BY <1>1, <1>2, <1>5, RequestSteps

LEMMA RefuseKeeps ==
    ASSUME StudioBounds, StudioInv, NEW r \in Callers, Finish(r), UNCHANGED Documents,
           made' \in 0..MaxRequests, crashes' \in 0..MaxCrashes
    PROVE  StudioInv'
<1>1. req' = [req EXCEPT ![r] = Idle] /\ outdated' = outdated \ {r}
  BY DEF Finish, Go
<1>2. UNCHANGED publication /\ publication \in Publications /\ project \in ProjectRecords
  BY DEF Documents, StudioInv, TypeOK, Publications, ProjectFits
<1>3. OutdatedFits'
  BY <1>1, <1>2, OutdatedFinishes
<1>4. Fits(Idle, project, snapshots, publication)
  BY <1>2, IdleFits DEF StudioInv, ProjectFits
<1>5. outdated' \subseteq Callers
  BY <1>1 DEF StudioInv, TypeOK
<1> QED  BY <1>1, <1>3, <1>4, <1>5, OnlyRequest

-----------------------------------------------------------------------------
(* A request opens the project.                                            *)
LEMMA UpdatedFields ==
    ASSUME NEW p \in ProjectRecords
    PROVE  /\ Updated(p) \in ProjectRecords /\ Updated(p).version = p.version + 1
           /\ Updated(p).rev = p.rev /\ Updated(p).doc = p.doc /\ Updated(p).notes = p.notes
           /\ Updated(p).members = p.members /\ Updated(p).release = p.release
<1>1. p.version + 1 \in Nat /\ Updated(p) = [p EXCEPT !.version = p.version + 1]
  BY RecordFields DEF Updated
<1>2. Updated(p) \in ProjectRecords
  BY <1>1 DEF ProjectRecords
<1>3. /\ Updated(p).version = p.version + 1
      /\ Updated(p).rev = p.rev /\ Updated(p).doc = p.doc /\ Updated(p).notes = p.notes
      /\ Updated(p).members = p.members /\ Updated(p).release = p.release
  BY <1>1 DEF ProjectRecords
<1> QED  BY <1>2, <1>3

\* Who asks for the project, before it has been read.
Asking(q) ==
    /\ q \in RequestRecords /\ q.kind \in Kinds \ {"create"}
    /\ Grants(project, q.who, Needs(q.kind))
    /\ q.kind \in {"share", "publish", "unpublish"} => q.who = Owner
    /\ q.avail.version <= publication.version

LEMMA DraftOpens ==
    ASSUME StudioInv, project.version > 0, NEW q, Asking(q), NEW next \in ProjectRecords,
           NEW pc \in Drafting, NEW todo \in SUBSET Members, NEW new,
           new = [q EXCEPT !.pc = pc, !.seen = project, !.next = next, !.todo = todo],
           next.version = project.version + 1, next.rev >= 1, next.doc \in Docs,
           OnePart(q.kind, project, next),
           pc = "snapshot" => q.kind = "edit", pc = "target" => q.kind = "note",
           pc \in {"sync", "syncPut"} => q.kind = "share", pc = "save" => q.kind # "edit"
    PROVE  Fits(new, project, snapshots, publication)
<1>1. q \in RequestRecords /\ project \in ProjectRecords
  BY DEF Asking, StudioInv, ProjectFits
<1>2. new \in RequestRecords
  BY <1>1 DEF RequestRecords
<1>3. /\ new.pc = pc /\ new.seen = project /\ new.next = next /\ new.kind = q.kind /\ new.who = q.who
      /\ new.avail = q.avail
  BY <1>1 DEF RequestRecords
<1>4. project.version \in Nat
  BY <1>1, RecordFields
<1>5. KindFits(new)
  BY <1>3 DEF Asking, KindFits, Drafting, Publishing
<1>6. SeenFits(new, project, snapshots)
  BY <1>3, <1>4 DEF SeenFits, StudioInv, ProjectFits, HistoryIsKept
<1>7. DraftFits(new, snapshots)
  BY <1>3 DEF DraftFits, Asking
<1> QED  BY <1>2, <1>3, <1>5, <1>6, <1>7 DEF Fits, Asking

LEMMA SameTodo ==
    ASSUME NEW q \in RequestRecords, NEW pc, NEW seen, NEW next
    PROVE  [q EXCEPT !.pc = pc, !.seen = seen, !.next = next]
           = [q EXCEPT !.pc = pc, !.seen = seen, !.next = next, !.todo = q.todo]
  BY DEF RequestRecords

LEMMA OpenedFits ==
    ASSUME StudioInv, project.version > 0, NEW q, Asking(q), NEW new \in Opened(q, project)
    PROVE  Fits(new, project, snapshots, publication)
<1> DEFINE p == project
<1>1. q \in RequestRecords /\ p \in ProjectRecords /\ p.rev >= 1 /\ p.doc \in Docs /\ p.version \in Nat
      /\ p.rev \in Nat /\ p.notes \subseteq Notes
  BY RecordFields DEF Asking, StudioInv, ProjectFits
<1>2. /\ Updated(p) \in ProjectRecords /\ Updated(p).version = p.version + 1
      /\ Updated(p).rev = p.rev /\ Updated(p).doc = p.doc /\ Updated(p).notes = p.notes
      /\ Updated(p).members = p.members /\ Updated(p).release = p.release
  BY <1>1, UpdatedFields
<1> DEFINE u == Updated(p)
<1> HIDE DEF u
<1>3. /\ u \in ProjectRecords /\ u.version = p.version + 1 /\ u.rev = p.rev /\ u.doc = p.doc
      /\ u.notes = p.notes /\ u.members = p.members /\ u.release = p.release
  BY <1>2 DEF u
<1>4. q.todo \in SUBSET Members
  BY <1>1, RequestFields
<1>5. CASE q.kind = "edit"
  <2>1. PICK d \in Docs : new = [q EXCEPT !.pc = "snapshot", !.seen = p,
                                          !.next = [u EXCEPT !.doc = d, !.rev = p.rev + 1]]
    BY <1>5 DEF Opened, u
  <2> DEFINE next == [u EXCEPT !.doc = d, !.rev = p.rev + 1]
  <2>2. next \in ProjectRecords
    <3>1. p.rev + 1 \in Nat /\ d \in Docs \cup {0}
      BY <1>1
    <3> QED  BY <1>3, <3>1 DEF ProjectRecords
  <2>3. /\ next.version = p.version + 1 /\ next.rev = p.rev + 1 /\ next.doc = d /\ next.notes = p.notes
        /\ next.members = p.members /\ next.release = p.release
    BY <1>3 DEF ProjectRecords
  <2> HIDE DEF next
  <2>4. new = [q EXCEPT !.pc = "snapshot", !.seen = p, !.next = next, !.todo = q.todo]
    BY <1>1, <2>1, SameTodo DEF next
  <2>5. OnePart(q.kind, p, next) /\ next.rev >= 1
    BY <1>1, <1>5, <2>3 DEF OnePart
  <2> QED  BY <1>4, <1>5, <2>2, <2>3, <2>4, <2>5, DraftOpens DEF Drafting
<1>6. CASE q.kind = "note"
  <2>1. PICK v \in 1..p.rev :
           new = [q EXCEPT !.pc = IF v = p.rev THEN "save" ELSE "target", !.seen = p,
                           !.next = [u EXCEPT !.notes = @ \cup {[rev |-> v, doc |-> p.doc, open |-> TRUE]}]]
    BY <1>6 DEF Opened, u
  <2> DEFINE notes == p.notes \cup {[rev |-> v, doc |-> p.doc, open |-> TRUE]}
             next == [u EXCEPT !.notes = notes]
             pc == IF v = p.rev THEN "save" ELSE "target"
  <2>2. notes \subseteq Notes /\ p.notes \subseteq notes
    <3>1. v \in Nat \ {0}
      BY <1>1
    <3>2. [rev |-> v, doc |-> p.doc, open |-> TRUE] \in Notes
      BY <1>1, <3>1 DEF Notes
    <3> QED  BY <1>1, <3>2
  <2> HIDE DEF notes
  <2>3. next \in ProjectRecords
    BY <1>3, <2>2 DEF ProjectRecords
  <2>4. /\ next.version = p.version + 1 /\ next.rev = p.rev /\ next.doc = p.doc /\ next.notes = notes
        /\ next.members = p.members /\ next.release = p.release
    BY <1>3 DEF ProjectRecords
  <2>5. [u EXCEPT !.notes = @ \cup {[rev |-> v, doc |-> p.doc, open |-> TRUE]}] = next
    BY <1>3 DEF notes
  <2> HIDE DEF next
  <2>6. new = [q EXCEPT !.pc = pc, !.seen = p, !.next = next, !.todo = q.todo]
    BY <1>1, <2>1, <2>5, SameTodo
  <2>7. OnePart(q.kind, p, next)
    BY <1>6, <2>2, <2>4 DEF OnePart
  <2>8. pc \in Drafting /\ pc \in {"save", "target"}
    BY DEF Drafting
  <2> HIDE DEF pc
  <2> QED  BY <1>1, <1>4, <1>6, <2>3, <2>4, <2>6, <2>7, <2>8, DraftOpens
<1>7. CASE q.kind = "resolve"
  <2>1. PICK n \in p.notes :
           new = [q EXCEPT !.pc = "save", !.seen = p,
                           !.next = [u EXCEPT !.notes = (@ \ {n}) \cup {[n EXCEPT !.open = ~@]}]]
    BY <1>7 DEF Opened, u
  <2> DEFINE other == [n EXCEPT !.open = ~@]
             notes == (p.notes \ {n}) \cup {other}
             next == [u EXCEPT !.notes = notes]
  <2>2. n \in Notes
    BY <1>1
  <2>3. other \in Notes
    BY <2>2 DEF Notes
  <2>4. other.rev = n.rev /\ other.doc = n.doc
    BY <2>2 DEF Notes
  <2> HIDE DEF other
  <2>5. notes \subseteq Notes
    BY <1>1, <2>3
  <2>6. Marks(p.notes) \subseteq Marks(notes)
    <3> SUFFICES ASSUME NEW m \in p.notes
                 PROVE  [rev |-> m.rev, doc |-> m.doc] \in Marks(notes)
      BY DEF Marks
    <3>1. CASE m = n
      <4>1. other \in notes /\ [rev |-> m.rev, doc |-> m.doc] = [rev |-> other.rev, doc |-> other.doc]
        BY <2>4, <3>1
      <4> QED  BY <4>1 DEF Marks
    <3>2. CASE m # n
      BY <3>2 DEF Marks
    <3> QED  BY <3>1, <3>2
  <2>7. [u EXCEPT !.notes = (@ \ {n}) \cup {[n EXCEPT !.open = ~@]}] = next
    BY <1>3 DEF other
  <2> HIDE DEF notes
  <2>8. next \in ProjectRecords
    BY <1>3, <2>5 DEF ProjectRecords
  <2>9. /\ next.version = p.version + 1 /\ next.rev = p.rev /\ next.doc = p.doc /\ next.notes = notes
        /\ next.members = p.members /\ next.release = p.release
    BY <1>3 DEF ProjectRecords
  <2> HIDE DEF next
  <2>10. new = [q EXCEPT !.pc = "save", !.seen = p, !.next = next, !.todo = q.todo]
    BY <1>1, <2>1, <2>7, SameTodo
  <2>11. OnePart(q.kind, p, next)
    BY <1>7, <2>6, <2>9 DEF OnePart
  <2> QED  BY <1>1, <1>4, <1>7, <2>8, <2>9, <2>10, <2>11, DraftOpens DEF Drafting
<1>8. CASE q.kind = "share"
  <2>1. PICK g \in [Members -> Permissions] :
           new = [q EXCEPT !.pc = "sync", !.seen = p, !.next = [u EXCEPT !.members = g],
                           !.todo = {m \in Members : p.members[m] # {} \/ g[m] # {}}]
    BY <1>8 DEF Opened, Shared, u
  <2> DEFINE next == [u EXCEPT !.members = g]
             todo == {m \in Members : p.members[m] # {} \/ g[m] # {}}
  <2>2. next \in ProjectRecords
    BY <1>3 DEF ProjectRecords
  <2>3. /\ next.version = p.version + 1 /\ next.rev = p.rev /\ next.doc = p.doc /\ next.notes = p.notes
        /\ next.members = g /\ next.release = p.release
    BY <1>3 DEF ProjectRecords
  <2>4. OnePart(q.kind, p, next) /\ todo \in SUBSET Members
    BY <1>8, <2>3 DEF OnePart
  <2> HIDE DEF next, todo
  <2>5. new = [q EXCEPT !.pc = "sync", !.seen = p, !.next = next, !.todo = todo]
    BY <2>1 DEF next, todo
  <2> QED  BY <1>1, <1>8, <2>2, <2>3, <2>4, <2>5, DraftOpens DEF Drafting
<1>9. CASE q.kind \in {"publish", "unpublish"}
  <2>1. new = [q EXCEPT !.pc = "avail", !.seen = p]
    BY <1>9 DEF Opened
  <2>2. new \in RequestRecords
    BY <1>1, <2>1 DEF RequestRecords
  <2>3. new.pc = "avail" /\ new.seen = p /\ new.kind = q.kind /\ new.who = q.who /\ new.avail = q.avail
    BY <1>1, <2>1 DEF RequestRecords
  <2>4. KindFits(new) /\ DraftFits(new, snapshots)
    BY <1>9, <2>3 DEF KindFits, DraftFits, Drafting, Publishing, Asking
  <2>5. SeenFits(new, p, snapshots)
    BY <1>1, <2>3 DEF SeenFits, StudioInv, HistoryIsKept
  <2> QED  BY <2>2, <2>3, <2>4, <2>5 DEF Fits, Asking
<1> QED  BY <1>5, <1>6, <1>7, <1>8, <1>9 DEF Asking, Kinds

-----------------------------------------------------------------------------
(* A request is made.                                                      *)
LEMMA Knows ==
    ASSUME StudioInv, NEW r \in Callers
    PROVE  /\ req[r] \in RequestRecords /\ KindFits(req[r]) /\ SeenFits(req[r], project, snapshots)
           /\ DraftFits(req[r], snapshots) /\ req[r].avail.version <= publication.version
           /\ project \in ProjectRecords /\ publication \in Publications
           /\ project.version = 0 => project = Absent
           /\ made \in 0..MaxRequests /\ crashes \in 0..MaxCrashes /\ outdated \subseteq Callers
           /\ r \in outdated => /\ req[r].kind = "publish"
                                /\ req[r].pc \in {"lookup", "release", "save", "announce"}
<1>1. Fits(req[r], project, snapshots, publication)
  BY DEF StudioInv, RequestsFit
<1>2. r \in outdated => /\ req[r].kind = "publish"
                        /\ req[r].pc \in {"lookup", "release", "save", "announce"}
  BY DEF StudioInv, OutdatedFits, Informed
<1> QED  BY <1>1, <1>2 DEF StudioInv, ProjectFits, TypeOK, Publications, Fits

LEMMA AskKeeps ==
    ASSUME StudioBounds, StudioInv, NEW r \in Callers, NEW q, Ask(r, q),
           Fits(q, project, snapshots, publication)
    PROVE  StudioInv'
<1>1. /\ req' = [req EXCEPT ![r] = q] /\ UNCHANGED Documents /\ UNCHANGED <<crashes, outdated>>
      /\ req[r].pc = "idle" /\ made < MaxRequests /\ made' = made + 1
  BY DEF Ask, Go, At
<1>2. made' \in 0..MaxRequests
  BY <1>1, Knows DEF StudioBounds
<1>3. r \notin outdated
  BY <1>1, Knows
<1>4. OutdatedFits'
  BY <1>1, <1>3, OutdatedStays DEF Documents
<1> QED  BY <1>1, <1>2, <1>4, Knows, OnlyRequest

LEMMA CreateKeeps ==
    ASSUME StudioBounds, StudioInv, NEW r \in Callers, NEW d \in Docs, Create(r, d)
    PROVE  StudioInv'
<1> DEFINE next == [Absent EXCEPT !.version = 1, !.rev = 1, !.doc = d]
           q == [Idle EXCEPT !.pc = "snapshot", !.kind = "create", !.next = next]
<1>1. Ask(r, q)
  BY DEF Create
<1>2. next \in ProjectRecords
  BY Empty DEF ProjectRecords
<1>3. next.version = 1 /\ next.rev = 1 /\ next.doc = d
  BY Empty DEF ProjectRecords
<1> HIDE DEF next
<1>4. q \in RequestRecords
  BY <1>2, Empty DEF RequestRecords, Drafting, Kinds
<1>5. q.pc = "snapshot" /\ q.kind = "create" /\ q.next = next /\ q.seen = Absent /\ q.avail = Unlisted
  BY Empty DEF RequestRecords
<1> HIDE DEF q
<1>6. Fits(Idle, project, snapshots, publication)
  BY IdleFits, Knows
<1>7. KindFits(q) /\ SeenFits(q, project, snapshots) /\ q.avail.version <= publication.version
  BY <1>5, <1>6, Empty DEF KindFits, SeenFits, Fits, Publishing
<1>8. DraftFits(q, snapshots)
  BY <1>3, <1>5, Empty DEF DraftFits
<1>9. Fits(q, project, snapshots, publication)
  BY <1>4, <1>7, <1>8 DEF Fits
<1> QED  BY <1>1, <1>9, AskKeeps

LEMMA OwnerOpensKeeps ==
    ASSUME StudioBounds, StudioInv, NEW r \in Callers, NEW kind \in Kinds \ {"create"}, OwnerOpens(r, kind)
    PROVE  StudioInv'
<1> DEFINE q == [Idle EXCEPT !.kind = kind]
<1>1. project.version > 0
  BY DEF OwnerOpens
<1>2. PICK new \in Opened(q, project) : Ask(r, new)
  BY DEF OwnerOpens
<1>3. q \in RequestRecords
  BY Empty DEF RequestRecords
<1>4. q.kind = kind /\ q.who = Owner /\ q.avail = Unlisted
  BY DEF Idle
<1> HIDE DEF q
<1>5. q.avail.version <= publication.version
  BY <1>4, Empty, Knows DEF Publications
<1>6. Asking(q)
  BY <1>3, <1>4, <1>5 DEF Asking, Grants
<1>7. Fits(new, project, snapshots, publication)
  BY <1>1, <1>6, OpenedFits
<1> QED  BY <1>2, <1>7, AskKeeps

LEMMA MemberAsksKeeps ==
    ASSUME StudioBounds, StudioInv, NEW r \in Callers, NEW kind \in Kinds \ {"create"}, NEW m \in Members,
           MemberAsks(r, kind, m)
    PROVE  StudioInv'
<1> DEFINE q == [Idle EXCEPT !.pc = "open", !.kind = kind, !.who = m]
<1>1. Ask(r, q) /\ kind \in {"edit", "note", "resolve"}
  BY DEF MemberAsks, Kinds
<1>2. q \in RequestRecords
  BY Empty DEF RequestRecords, Actors
<1>3. q.pc = "open" /\ q.kind = kind /\ q.who = m /\ q.seen = Absent /\ q.avail = Unlisted
  BY DEF Idle
<1> HIDE DEF q
<1>4. Fits(Idle, project, snapshots, publication)
  BY IdleFits, Knows
<1>5. Fits(q, project, snapshots, publication)
  BY <1>1, <1>2, <1>3, <1>4, Empty DEF Fits, KindFits, SeenFits, DraftFits, Drafting, Publishing
<1> QED  BY <1>1, <1>5, AskKeeps

\* A request that goes on without changing any document.
LEMMA GoKeeps ==
    ASSUME StudioBounds, StudioInv, NEW r \in Callers, NEW q, Go(r, q), OnlyReq,
           Fits(q, project, snapshots, publication),
           r \in outdated => /\ q.kind = "publish" /\ q.pc \in {"lookup", "release", "save", "announce"}
                             /\ q.avail = req[r].avail
    PROVE  StudioInv'
<1>1. req' = [req EXCEPT ![r] = q] /\ UNCHANGED Documents /\ UNCHANGED <<made, crashes, outdated>>
  BY DEF Go, OnlyReq
<1>2. OutdatedFits'
  BY <1>1, OutdatedStays DEF Documents
<1> QED  BY <1>1, <1>2, Knows, OnlyRequest

LEMMA MemberOpensKeeps ==
    ASSUME StudioBounds, OwnerIsNoMember, StudioInv, NEW r \in Callers, MemberOpens(r)
    PROVE  StudioInv'
<1> DEFINE q == req[r]
<1>1. q.pc = "open" /\ Grants(project, q.who, Needs(q.kind)) /\ OnlyReq
  BY DEF MemberOpens, At
<1>2. PICK new \in Opened(q, project) : Go(r, new)
  BY DEF MemberOpens
<1>3. q \in RequestRecords /\ q.kind \in {"edit", "note", "resolve"} /\ q.who \in Members
      /\ q.avail.version <= publication.version /\ r \notin outdated
  BY <1>1, Knows DEF KindFits
<1>4. project.version > 0
  <2>1. project.version # 0
    <3>1. SUFFICES ASSUME project.version = 0 PROVE FALSE
      OBVIOUS
    <3>2. project.members[q.who] = {}
      BY <1>3, <3>1, Knows DEF Absent, NoMembers
    <3> QED  BY <1>1, <1>3, <3>2 DEF Grants, OwnerIsNoMember
  <2> QED  BY <2>1, Knows, RecordFields
<1>5. Asking(q)
  BY <1>1, <1>3 DEF Asking, Kinds
<1> HIDE DEF q
<1>6. Fits(new, project, snapshots, publication)
  BY <1>4, <1>5, OpenedFits
<1> QED  BY <1>1, <1>2, <1>3, <1>6, GoKeeps

LEMMA RefusesKeeps ==
    ASSUME StudioBounds, StudioInv, NEW r \in Callers, Refuse(r)
    PROVE  StudioInv'
<1>1. Finish(r) /\ UNCHANGED Documents /\ made' = made /\ crashes' = crashes
  BY DEF Refuse
<1> QED  BY <1>1, Knows, RefuseKeeps

LEMMA CrashKeeps ==
    ASSUME StudioBounds, StudioInv, NEW r \in Callers, Crash(r)
    PROVE  StudioInv'
<1>1. Finish(r) /\ UNCHANGED Documents /\ made' = made /\ crashes < MaxCrashes /\ crashes' = crashes + 1
  BY DEF Crash
<1>2. crashes' \in 0..MaxCrashes
  BY <1>1, Knows DEF StudioBounds
<1> QED  BY <1>1, <1>2, Knows, RefuseKeeps

-----------------------------------------------------------------------------
(* Snapshots and the record.                                               *)
\* A request whose draft stays goes to another place.
LEMMA Repositioned ==
    ASSUME StudioInv, NEW r \in Callers, NEW pc \in {"idle", "open", "avail"} \cup Drafting \cup Publishing,
           NEW q, q = [req[r] EXCEPT !.pc = pc]
    PROVE  /\ q \in RequestRecords /\ q.pc = pc /\ q.kind = req[r].kind /\ q.who = req[r].who
           /\ q.seen = req[r].seen /\ q.next = req[r].next /\ q.avail = req[r].avail
<1>1. req[r] \in RequestRecords
  BY Knows
<1>2. q \in RequestRecords
  BY <1>1 DEF RequestRecords
<1>3. /\ q.pc = pc /\ q.kind = req[r].kind /\ q.who = req[r].who
      /\ q.seen = req[r].seen /\ q.next = req[r].next /\ q.avail = req[r].avail
  BY <1>1 DEF RequestRecords
<1> QED  BY <1>2, <1>3

LEMMA SnapshotKeeps ==
    ASSUME StudioBounds, StudioInv, NEW r \in Callers, Snapshot(r)
    PROVE  StudioInv'
<1> DEFINE q == [req[r] EXCEPT !.pc = "save"]
           pair == <<req[r].next.rev, req[r].next.doc>>
<1>1. /\ req[r].pc = "snapshot" /\ snapshots' = snapshots \cup {pair} /\ req' = [req EXCEPT ![r] = q]
      /\ UNCHANGED <<project, membership, releases, publication, made, crashes, outdated>>
  BY DEF Snapshot, At, Go
<1>2. /\ q \in RequestRecords /\ q.pc = "save" /\ q.kind = req[r].kind /\ q.who = req[r].who
      /\ q.seen = req[r].seen /\ q.next = req[r].next /\ q.avail = req[r].avail
  BY Repositioned DEF Drafting
<1>3. req[r].kind \in {"create", "edit"} /\ KindFits(req[r])
  BY <1>1, Knows DEF KindFits
<1>4. /\ req[r].next.version = req[r].seen.version + 1 /\ req[r].next.rev >= 1 /\ req[r].next.doc \in Docs
      /\ req[r].kind = "create" => req[r].seen.version = 0
      /\ req[r].kind # "create" => /\ req[r].seen.version > 0
                                   /\ Grants(req[r].seen, req[r].who, Needs(req[r].kind))
                                   /\ OnePart(req[r].kind, req[r].seen, req[r].next)
  BY <1>1, Knows DEF DraftFits, Drafting
<1> HIDE DEF q
<1>5. KindFits(q)
  BY <1>2, <1>3 DEF KindFits, Publishing
<1>6. SeenFits(q, project, snapshots')
  BY <1>1, <1>2, Knows DEF SeenFits
<1>7. DraftFits(q, snapshots')
  BY <1>1, <1>2, <1>4 DEF DraftFits
<1>8. Fits(q, project', snapshots', publication')
  BY <1>1, <1>2, <1>5, <1>6, <1>7, Knows DEF Fits
<1>9. pair \in Nat \X Docs
  <2>1. req[r].next.rev \in Nat
    BY Knows, RequestFields, RecordFields
  <2> QED  BY <1>4, <2>1
<1>10. TypeOK'
  BY <1>1, <1>9 DEF StudioInv, TypeOK
<1>11. ProjectFits' /\ HistoryIsKept'
  BY <1>1 DEF StudioInv, ProjectFits, HistoryIsKept
<1>12. r \notin outdated
  BY <1>1, Knows
<1>13. OutdatedFits'
  BY <1>1, <1>12, OutdatedStays
<1>14. Grows
  BY <1>1, Knows DEF Grows, Publications
<1> QED  BY <1>1, <1>8, <1>10, <1>11, <1>13, <1>14, RequestSteps

LEMMA FindTargetKeeps ==
    ASSUME StudioBounds, StudioInv, NEW r \in Callers, FindTarget(r)
    PROVE  StudioInv'
<1>1. req[r].pc = "target" /\ OnlyReq
  BY DEF FindTarget, At
<1>2. PICK n \in req[r].next.notes \ req[r].seen.notes, s \in snapshots :
         Go(r, [req[r] EXCEPT !.pc = "save", !.next.notes = (@ \ {n}) \cup {[n EXCEPT !.doc = s[2]]}])
  BY DEF FindTarget
<1> DEFINE old == req[r].next
           other == [n EXCEPT !.doc = s[2]]
           notes == (old.notes \ {n}) \cup {other}
           next == [old EXCEPT !.notes = notes]
           q == [req[r] EXCEPT !.pc = "save", !.next = next]
<1>3. req[r] \in RequestRecords /\ old \in ProjectRecords /\ old.notes \subseteq Notes
  BY Knows, RequestFields, RecordFields
<1>4. s[2] \in Docs /\ n \in Notes
  BY <1>2, <1>3 DEF StudioInv, TypeOK
<1>5. notes \subseteq Notes
  <2>1. other \in Notes
    BY <1>4 DEF Notes
  <2> QED  BY <1>3, <2>1
<1>6. [req[r] EXCEPT !.pc = "save", !.next.notes = (@ \ {n}) \cup {[n EXCEPT !.doc = s[2]]}] = q
  BY <1>3 DEF RequestRecords, ProjectRecords
<1>7. /\ req[r].kind = "note"
      /\ old.version = req[r].seen.version + 1 /\ old.rev >= 1 /\ old.doc \in Docs
      /\ req[r].seen.version > 0 /\ Grants(req[r].seen, req[r].who, Needs("note"))
      /\ OnePart("note", req[r].seen, old)
  BY <1>1, Knows DEF DraftFits, KindFits, Drafting
<1>8. req[r].seen.notes \subseteq notes
  BY <1>2, <1>7 DEF OnePart
<1> HIDE DEF other, notes
<1>9. next \in ProjectRecords
  BY <1>3, <1>5 DEF ProjectRecords
<1>10. /\ next.version = old.version /\ next.rev = old.rev /\ next.doc = old.doc /\ next.notes = notes
       /\ next.members = old.members /\ next.release = old.release
  BY <1>3 DEF ProjectRecords
<1>11. OnePart("note", req[r].seen, next)
  BY <1>7, <1>8, <1>10 DEF OnePart
<1> HIDE DEF next
<1>12. q \in RequestRecords
  BY <1>3, <1>9 DEF RequestRecords, Drafting
<1>13. /\ q.pc = "save" /\ q.kind = req[r].kind /\ q.who = req[r].who
       /\ q.seen = req[r].seen /\ q.next = next /\ q.avail = req[r].avail
  BY <1>3 DEF RequestRecords
<1> HIDE DEF q, old
<1>14. KindFits(q) /\ SeenFits(q, project, snapshots) /\ q.avail.version <= publication.version
  BY <1>7, <1>13, Knows DEF KindFits, SeenFits, Publishing
<1>15. DraftFits(q, snapshots)
  BY <1>7, <1>10, <1>11, <1>13 DEF DraftFits
<1>16. Fits(q, project, snapshots, publication)
  BY <1>12, <1>14, <1>15 DEF Fits
<1>17. r \notin outdated
  BY <1>1, Knows
<1> QED  BY <1>1, <1>2, <1>6, <1>16, <1>17, GoKeeps

\* What a save that is not refused puts.
LEMMA SaveFacts ==
    ASSUME StudioBounds, StudioInv, NEW r \in Callers, Save(r)
    PROVE  /\ project' = req[r].next /\ project' \in ProjectRecords
           /\ project'.version = project.version + 1 /\ req[r].seen = project
           /\ project'.rev >= 1 /\ project'.doc \in Docs /\ <<project'.rev, project'.doc>> \in snapshots
           /\ project.version > 0 => /\ req[r].kind # "create"
                                     /\ Grants(project, req[r].who, Needs(req[r].kind))
                                     /\ OnePart(req[r].kind, project, project')
<1>1. req[r].pc = "save" /\ project.version = req[r].seen.version /\ project' = req[r].next
  BY DEF Save, At, Unchanged
<1>2. req[r].seen = project /\ project' \in ProjectRecords
  BY <1>1, Knows, RequestFields DEF SeenFits
<1>3. /\ req[r].next.version = req[r].seen.version + 1 /\ req[r].next.rev >= 1 /\ req[r].next.doc \in Docs
      /\ req[r].kind = "create" => req[r].seen.version = 0
      /\ req[r].kind # "create" => /\ req[r].seen.version > 0
                                   /\ Grants(req[r].seen, req[r].who, Needs(req[r].kind))
                                   /\ OnePart(req[r].kind, req[r].seen, req[r].next)
      /\ req[r].kind \in {"create", "edit"} => <<req[r].next.rev, req[r].next.doc>> \in snapshots
  BY <1>1, Knows DEF DraftFits, Drafting
<1>4. project.version \in Nat
  BY Knows, RecordFields
<1>5. <<project'.rev, project'.doc>> \in snapshots
  <2>1. CASE req[r].kind \in {"create", "edit"}
    BY <1>1, <1>3, <2>1
  <2>2. CASE req[r].kind \notin {"create", "edit"}
    <3>1. project'.rev = project.rev /\ project'.doc = project.doc /\ project.version > 0
      BY <1>1, <1>2, <1>3, <2>2 DEF OnePart
    <3> QED  BY <3>1 DEF StudioInv, HistoryIsKept
  <2> QED  BY <2>1, <2>2
<1>6. project.version > 0 => /\ req[r].kind # "create"
                             /\ Grants(project, req[r].who, Needs(req[r].kind))
                             /\ OnePart(req[r].kind, project, project')
  BY <1>1, <1>2, <1>3, <1>4
<1> QED  BY <1>1, <1>2, <1>3, <1>5, <1>6

LEMMA SaveKeeps ==
    ASSUME StudioBounds, StudioInv, NEW r \in Callers, Save(r)
    PROVE  StudioInv'
<1>1. /\ req[r].pc = "save"
      /\ UNCHANGED <<snapshots, membership, releases, publication, made, crashes>>
  BY DEF Save, At
<1>2. project.version \in Nat /\ project'.version \in Nat /\ project'.rev \in Nat
  BY SaveFacts, Knows, RecordFields
<1>3. TypeOK'
  <2>1. project' \in ProjectRecords
    BY SaveFacts
  <2>2. outdated' \subseteq Callers
    BY Knows DEF Save, Finish
  <2> QED  BY <1>1, <2>1, <2>2 DEF StudioInv, TypeOK, ProjectRecords
<1>4. ProjectFits' /\ HistoryIsKept'
  BY <1>1, <1>2, SaveFacts DEF StudioInv, ProjectFits, HistoryIsKept
<1>5. Grows
  BY <1>1, <1>2, SaveFacts, Knows DEF Grows, Publications
<1>6. CASE req[r].kind = "publish"
  <2> DEFINE q == [req[r] EXCEPT !.pc = "announce"]
  <2>1. req' = [req EXCEPT ![r] = q] /\ outdated' = outdated
    BY <1>6 DEF Save, Go
  <2>2. /\ q \in RequestRecords /\ q.pc = "announce" /\ q.kind = req[r].kind /\ q.who = req[r].who
        /\ q.seen = req[r].seen /\ q.next = req[r].next /\ q.avail = req[r].avail
    BY Repositioned DEF Publishing
  <2>3. req[r].seen.version > 0
    BY <1>1, <1>6, Knows DEF DraftFits, Drafting
  <2> HIDE DEF q
  <2>4. KindFits(q) /\ DraftFits(q, snapshots')
    BY <1>6, <2>2, <2>3, Knows DEF KindFits, DraftFits, Drafting, Publishing
  <2>5. SeenFits(q, project', snapshots')
    BY <1>1, <1>2, <2>2, SaveFacts, Knows DEF SeenFits
  <2>6. Fits(q, project', snapshots', publication')
    BY <1>1, <2>2, <2>4, <2>5, Knows DEF Fits
  <2>7. OutdatedFits'
    BY <1>1, <1>6, <2>1, <2>2, OutdatedStays
  <2> QED  BY <1>3, <1>4, <1>5, <2>1, <2>6, <2>7, RequestSteps
<1>7. CASE req[r].kind # "publish"
  <2>1. req' = [req EXCEPT ![r] = Idle] /\ outdated' = outdated \ {r}
    BY <1>7 DEF Save, Finish, Go
  <2>2. OutdatedFits'
    BY <1>1, <2>1, Knows, OutdatedFinishes
  <2>3. Fits(Idle, project', snapshots', publication')
    BY <1>1, <1>4, SaveFacts, Knows, IdleFits DEF ProjectFits
  <2> QED  BY <1>3, <1>4, <1>5, <2>1, <2>2, <2>3, RequestSteps
<1> QED  BY <1>6, <1>7

-----------------------------------------------------------------------------
(* Memberships.                                                            *)
\* A request of the owner's to share the project goes on telling members.
LEMMA SyncFits ==
    ASSUME StudioInv, NEW r \in Callers, req[r].pc \in {"sync", "syncPut"}, NEW q \in RequestRecords,
           q.pc \in {"sync", "syncPut", "save"}, q.kind = req[r].kind, q.who = req[r].who,
           q.seen = req[r].seen, q.next = req[r].next, q.avail = req[r].avail
    PROVE  Fits(q, project, snapshots, publication) /\ r \notin outdated
<1>1. req[r].kind = "share" /\ r \notin outdated
  BY Knows DEF KindFits
<1>2. KindFits(q) /\ SeenFits(q, project, snapshots) /\ q.avail.version <= publication.version
  BY <1>1, Knows DEF KindFits, SeenFits, Publishing
<1>3. DraftFits(req[r], snapshots) /\ req[r].pc \in Drafting
  BY Knows DEF Drafting
<1>4. DraftFits(q, snapshots)
  BY <1>1, <1>3 DEF DraftFits
<1> QED  BY <1>1, <1>2, <1>4 DEF Fits

LEMMA SyncReadKeeps ==
    ASSUME StudioBounds, StudioInv, NEW r \in Callers, NEW m \in Members, SyncRead(r, m)
    PROVE  StudioInv'
<1> DEFINE q == [req[r] EXCEPT !.pc = "syncPut", !.of = m, !.card = membership[m]]
<1>1. req[r].pc = "sync" /\ Go(r, q) /\ OnlyReq
  BY DEF SyncRead, At
<1>2. membership[m] \in Cards /\ req[r] \in RequestRecords
  BY Knows DEF StudioInv, TypeOK, Cards
<1>3. q \in RequestRecords
  BY <1>2 DEF RequestRecords, Drafting, Actors
<1>4. /\ q.pc = "syncPut" /\ q.kind = req[r].kind /\ q.who = req[r].who
      /\ q.seen = req[r].seen /\ q.next = req[r].next /\ q.avail = req[r].avail
  BY <1>2 DEF RequestRecords
<1> HIDE DEF q
<1>5. Fits(q, project, snapshots, publication) /\ r \notin outdated
  BY <1>1, <1>3, <1>4, SyncFits
<1> QED  BY <1>1, <1>5, GoKeeps

LEMMA SyncNobodyKeeps ==
    ASSUME StudioBounds, StudioInv, NEW r \in Callers, SyncNobody(r)
    PROVE  StudioInv'
<1> DEFINE q == [req[r] EXCEPT !.pc = "save"]
<1>1. req[r].pc = "sync" /\ Go(r, q) /\ OnlyReq
  BY DEF SyncNobody, At
<1>2. /\ q \in RequestRecords /\ q.pc = "save" /\ q.kind = req[r].kind /\ q.who = req[r].who
      /\ q.seen = req[r].seen /\ q.next = req[r].next /\ q.avail = req[r].avail
  BY Repositioned DEF Drafting
<1> HIDE DEF q
<1>3. Fits(q, project, snapshots, publication) /\ r \notin outdated
  BY <1>1, <1>2, SyncFits
<1> QED  BY <1>1, <1>3, GoKeeps

LEMMA SyncPutKeeps ==
    ASSUME StudioBounds, StudioInv, NEW r \in Callers, SyncPut(r)
    PROVE  StudioInv'
<1> DEFINE m == req[r].of
           left == req[r].todo \ {m}
           card == [Updated(req[r].card) EXCEPT !.active = req[r].next.members[m] # {}]
           pc == IF left = {} THEN "save" ELSE "sync"
           q == [req[r] EXCEPT !.pc = pc, !.todo = left]
<1>1. /\ req[r].pc = "syncPut" /\ req' = [req EXCEPT ![r] = q]
      /\ membership' = [membership EXCEPT ![m] = card]
      /\ UNCHANGED <<project, snapshots, releases, publication, made, crashes, outdated>>
  BY DEF SyncPut, At, Go
<1>2. req[r] \in RequestRecords /\ left \subseteq Members /\ req[r].card \in Cards
  BY Knows, RequestFields
<1>3. card \in Cards
  <2>1. req[r].card.version + 1 \in Nat /\ (req[r].next.members[m] # {}) \in BOOLEAN
    BY <1>2 DEF Cards
  <2> DEFINE active == req[r].next.members[m] # {}
  <2> HIDE DEF active
  <2>2. card = [req[r].card EXCEPT !.version = req[r].card.version + 1, !.active = active]
    BY <1>2 DEF Updated, Cards, active
  <2> QED  BY <1>2, <2>1, <2>2 DEF Cards, active
<1>4. pc \in {"save", "sync"}
  OBVIOUS
<1> HIDE DEF card, pc, left, m
<1>5. q \in RequestRecords
  BY <1>2, <1>4 DEF RequestRecords, Drafting
<1>6. /\ q.pc = pc /\ q.kind = req[r].kind /\ q.who = req[r].who
      /\ q.seen = req[r].seen /\ q.next = req[r].next /\ q.avail = req[r].avail
  BY <1>2 DEF RequestRecords
<1> HIDE DEF q
<1>7. Fits(q, project, snapshots, publication) /\ r \notin outdated
  BY <1>1, <1>4, <1>5, <1>6, SyncFits
<1>8. membership' \in [Members -> Cards]
  BY <1>1, <1>3 DEF StudioInv, TypeOK, Cards
<1>9. TypeOK' /\ ProjectFits' /\ HistoryIsKept'
  BY <1>1, <1>8 DEF StudioInv, TypeOK, Cards, ProjectFits, HistoryIsKept
<1>10. OutdatedFits'
  BY <1>1, <1>7, OutdatedStays
<1>11. Grows
  BY <1>1, Knows DEF Grows, Publications
<1> QED  BY <1>1, <1>7, <1>9, <1>10, <1>11, RequestSteps
-----------------------------------------------------------------------------
(* Releases and the publication.                                           *)
\* A request to publish or to unpublish goes on with what it has read.
LEMMA PublishingFits ==
    ASSUME StudioInv, NEW r \in Callers, req[r].pc \in {"avail"} \cup Publishing, NEW q \in RequestRecords,
           q.pc \in Publishing, q.pc = "release" \/ q.pc = "lookup" => q.kind = "publish",
           q.kind = req[r].kind, q.who = req[r].who,
           q.seen = req[r].seen, q.avail.version <= publication.version
    PROVE  Fits(q, project, snapshots, publication)
<1>1. KindFits(q) /\ SeenFits(q, project, snapshots)
  BY Knows DEF KindFits, SeenFits, Publishing
<1>2. DraftFits(q, snapshots)
  BY DEF DraftFits, Drafting, Publishing
<1> QED  BY <1>1, <1>2 DEF Fits

LEMMA ReadPublicationKeeps ==
    ASSUME StudioBounds, StudioInv, NEW r \in Callers, ReadPublication(r)
    PROVE  StudioInv'
<1> DEFINE pc == IF req[r].kind = "publish" THEN "lookup" ELSE "announce"
           q == [req[r] EXCEPT !.avail = publication, !.pc = pc]
<1>1. req[r].pc = "avail" /\ Go(r, q) /\ OnlyReq
  BY DEF ReadPublication, At
<1>2. pc \in Publishing /\ pc # "release" /\ (pc = "lookup" => req[r].kind = "publish")
  BY DEF Publishing
<1>3. req[r] \in RequestRecords /\ publication \in Publications
  BY Knows
<1> HIDE DEF pc
<1>4. q \in RequestRecords
  BY <1>2, <1>3 DEF RequestRecords
<1>5. /\ q.pc = pc /\ q.kind = req[r].kind /\ q.who = req[r].who
      /\ q.seen = req[r].seen /\ q.avail = publication
  BY <1>3 DEF RequestRecords
<1> HIDE DEF q
<1>6. q.avail.version <= publication.version
  BY <1>3, <1>5 DEF Publications
<1>7. Fits(q, project, snapshots, publication)
  BY <1>1, <1>2, <1>4, <1>5, <1>6, PublishingFits
<1>8. r \notin outdated
  BY <1>1, Knows
<1> QED  BY <1>1, <1>7, <1>8, GoKeeps

LEMMA LookUpReleaseKeeps ==
    ASSUME StudioBounds, StudioInv, NEW r \in Callers, LookUpRelease(r)
    PROVE  StudioInv'
<1>1. req[r].pc = "lookup" /\ OnlyReq
  BY DEF LookUpRelease, At
<1>2. PICK pc \in {"announce", "release"} : Go(r, [req[r] EXCEPT !.pc = pc])
  BY DEF LookUpRelease
<1> DEFINE q == [req[r] EXCEPT !.pc = pc]
<1>3. /\ q \in RequestRecords /\ q.pc = pc /\ q.kind = req[r].kind /\ q.who = req[r].who
      /\ q.seen = req[r].seen /\ q.next = req[r].next /\ q.avail = req[r].avail
  BY Repositioned DEF Publishing
<1>4. req[r].kind = "publish" /\ req[r].avail.version <= publication.version
  BY <1>1, Knows DEF KindFits
<1> HIDE DEF q
<1>5. Fits(q, project, snapshots, publication)
  BY <1>1, <1>3, <1>4, PublishingFits DEF Publishing
<1> QED  BY <1>1, <1>2, <1>3, <1>4, <1>5, GoKeeps DEF q

LEMMA PutReleaseKeeps ==
    ASSUME StudioBounds, StudioInv, NEW r \in Callers, PutRelease(r)
    PROVE  StudioInv'
<1> DEFINE seen == req[r].seen
           u == Updated(seen)
           next == [u EXCEPT !.release = seen.rev]
           q == [req[r] EXCEPT !.pc = "save", !.next = next]
           pair == <<seen.rev, seen.doc>>
<1>1. /\ req[r].pc = "release" /\ releases' = releases \cup {pair} /\ req' = [req EXCEPT ![r] = q]
      /\ UNCHANGED <<project, snapshots, membership, publication, made, crashes, outdated>>
  BY DEF PutRelease, At, Go, ReleaseOf
<1>2. req[r] \in RequestRecords /\ seen \in ProjectRecords /\ seen.rev \in Nat
  BY Knows, RequestFields, RecordFields
<1>3. req[r].kind = "publish" /\ req[r].who = Owner /\ seen.version > 0
  BY <1>1, Knows DEF KindFits, Publishing
<1>4. seen.rev >= 1 /\ seen.doc \in Docs /\ pair \in snapshots
  BY <1>3, Knows DEF SeenFits
<1>5. /\ u \in ProjectRecords /\ u.version = seen.version + 1
      /\ u.rev = seen.rev /\ u.doc = seen.doc /\ u.notes = seen.notes
      /\ u.members = seen.members /\ u.release = seen.release
  BY <1>2, UpdatedFields
<1> HIDE DEF u
<1>6. next \in ProjectRecords
  BY <1>2, <1>5 DEF ProjectRecords
<1>7. /\ next.version = seen.version + 1 /\ next.rev = seen.rev /\ next.doc = seen.doc
      /\ next.notes = seen.notes /\ next.members = seen.members
  BY <1>5 DEF ProjectRecords
<1>8. OnePart("publish", seen, next)
  BY <1>7 DEF OnePart
<1> HIDE DEF next
<1>9. q \in RequestRecords
  BY <1>2, <1>6 DEF RequestRecords, Drafting
<1>10. /\ q.pc = "save" /\ q.kind = "publish" /\ q.who = Owner
       /\ q.seen = seen /\ q.next = next /\ q.avail = req[r].avail
  BY <1>2, <1>3 DEF RequestRecords
<1> HIDE DEF q
<1>11. KindFits(q) /\ SeenFits(q, project, snapshots) /\ q.avail.version <= publication.version
  BY <1>10, Knows DEF KindFits, SeenFits, Publishing
<1>12. DraftFits(q, snapshots)
  BY <1>3, <1>4, <1>7, <1>8, <1>10 DEF DraftFits, Grants
<1>13. Fits(q, project, snapshots, publication)
  BY <1>9, <1>11, <1>12 DEF Fits
<1>14. TypeOK' /\ ProjectFits' /\ HistoryIsKept'
  BY <1>1, <1>2, <1>4 DEF StudioInv, TypeOK, ProjectFits, HistoryIsKept
<1>15. OutdatedFits'
  BY <1>1, <1>10, OutdatedStays
<1>16. Grows
  BY <1>1, Knows DEF Grows, Publications
<1> QED  BY <1>1, <1>13, <1>14, <1>15, <1>16, RequestSteps

\* The publication after an announcement.
LEMMA AnnounceFacts ==
    ASSUME StudioBounds, StudioInv, NEW r \in Callers, Announce(r)
    PROVE  /\ publication' \in Publications
           /\ \/ publication' = publication
              \/ /\ publication'.version = publication.version + 1
                 /\ (publication'.on <=> req[r].kind = "publish")
                 /\ publication.version = req[r].avail.version
<1> DEFINE q == req[r]
           on == q.kind = "publish"
           new == [Updated(q.avail) EXCEPT !.on = on]
<1>1. q.avail \in Publications /\ publication \in Publications
  BY Knows, RequestFields
<1>2. publication' = publication \/ (publication' = new /\ publication.version = q.avail.version)
  BY DEF Announce, Unchanged
<1>3. q.avail.version + 1 \in Nat /\ on \in BOOLEAN
  BY <1>1 DEF Publications
<1>4. new = [q.avail EXCEPT !.version = q.avail.version + 1, !.on = on]
  BY <1>1 DEF Updated, Publications
<1> HIDE DEF new, on
<1>5. new \in Publications
  BY <1>1, <1>3, <1>4 DEF Publications
<1>6. new.version = q.avail.version + 1 /\ (new.on <=> on)
  BY <1>1, <1>4 DEF Publications
<1> QED  BY <1>1, <1>2, <1>5, <1>6 DEF on

LEMMA AnnounceKeeps ==
    ASSUME StudioBounds, StudioInv, NEW r \in Callers, Announce(r)
    PROVE  StudioInv'
<1>1. /\ req[r].pc = "announce" /\ req' = [req EXCEPT ![r] = Idle]
      /\ UNCHANGED <<project, snapshots, membership, releases, made, crashes>>
      /\ outdated' = IF publication.on /\ req[r].kind # "publish" THEN Informed ELSE outdated \ {r}
  BY DEF Announce, At, Go
<1>2. publication \in Publications /\ publication.version \in Nat /\ publication'.version \in Nat
  BY Knows, AnnounceFacts DEF Publications
<1>3. publication'.version >= publication.version
  BY <1>2, AnnounceFacts
<1>4. outdated' \subseteq Callers
  BY <1>1, Knows DEF Informed
<1>5. TypeOK' /\ ProjectFits' /\ HistoryIsKept'
  BY <1>1, <1>4, AnnounceFacts DEF StudioInv, TypeOK, Publications, ProjectFits, HistoryIsKept
<1>6. Grows
  BY <1>1, <1>3, AnnounceFacts, Knows DEF Grows
<1>7. Fits(Idle, project', snapshots', publication')
  BY <1>1, <1>5, AnnounceFacts, Knows, IdleFits
<1>8. OutdatedFits'
  <2>1. CASE publication.on /\ req[r].kind # "publish"
    <3>1. outdated' = Informed /\ r \notin Informed
      BY <1>1, <2>1 DEF Informed
    <3>2. \A o \in Callers : o # r => req'[o] = req[o]
      BY <1>1 DEF StudioInv, RequestsFit
    <3>3. ASSUME NEW o \in Informed
          PROVE  o \in Informed' /\ (req'[o].avail.version < publication'.version \/ publication'.on)
      <4>1. o \in Callers /\ req'[o] = req[o]
        BY <3>1, <3>2, <3>3 DEF Informed
      <4>2. o \in Informed'
        BY <3>3, <4>1 DEF Informed
      <4>3. req[o].avail.version <= publication.version /\ req[o].avail.version \in Nat
        BY <4>1, Knows, RequestFields
      <4>4. publication' = publication \/ req[o].avail.version < publication'.version
        BY <1>2, <4>3, AnnounceFacts
      <4> QED  BY <2>1, <4>1, <4>2, <4>4
    <3> QED  BY <3>1, <3>3 DEF OutdatedFits
  <2>2. CASE req[r].kind = "publish"
    <3>1. outdated' = outdated \ {r}
      BY <1>1, <2>2
    <3>2. publication' = publication \/ (publication'.version > publication.version /\ publication'.on)
      BY <1>2, <2>2, AnnounceFacts
    <3> QED  BY <1>1, <3>1, <3>2, AnnounceFacts, OutdatedFinishes
  <2>3. CASE ~publication.on /\ req[r].kind # "publish"
    <3>1. outdated' = outdated \ {r}
      BY <1>1, <2>3
    <3>2. \A o \in Callers : o # r => req'[o] = req[o]
      BY <1>1 DEF StudioInv, RequestsFit
    <3>3. ASSUME NEW o \in outdated'
          PROVE  o \in Informed' /\ (req'[o].avail.version < publication'.version \/ publication'.on)
      <4>1. o \in Callers /\ o \in Informed /\ o \in outdated /\ req'[o] = req[o]
        BY <3>1, <3>2, <3>3, Knows DEF StudioInv, OutdatedFits
      <4>2. o \in Informed'
        BY <4>1 DEF Informed
      <4>3. req[o].avail.version < publication.version /\ req[o].avail.version \in Nat
        BY <2>3, <4>1, Knows, RequestFields DEF StudioInv, OutdatedFits
      <4> QED  BY <1>2, <1>3, <4>1, <4>2, <4>3
    <3> QED  BY <3>3 DEF OutdatedFits
  <2> QED  BY <2>1, <2>2, <2>3
<1> QED  BY <1>1, <1>5, <1>6, <1>7, <1>8, RequestSteps

-----------------------------------------------------------------------------
(* Every step.                                                             *)
LEMMA StudioStep ==
    ASSUME StudioBounds, OwnerIsNoMember, StudioInv, Next
    PROVE  StudioInv'
<1>1. PICK r \in Callers :
        \/ \E d \in Docs : Create(r, d)
        \/ \E kind \in Kinds \ {"create"} :
              OwnerOpens(r, kind) \/ \E m \in Members : MemberAsks(r, kind, m)
        \/ MemberOpens(r) \/ MemberIsRefused(r)
        \/ Snapshot(r) \/ FindTarget(r) \/ Save(r) \/ SaveConflicts(r)
        \/ SyncNobody(r) \/ SyncPut(r) \/ SyncConflicts(r)
        \/ \E m \in Members : SyncRead(r, m)
        \/ ReadPublication(r) \/ LookUpRelease(r) \/ PutRelease(r) \/ ReleaseConflicts(r)
        \/ Announce(r) \/ AnnounceConflicts(r)
        \/ Crash(r)
  BY DEF Next
<1>2. CASE \E d \in Docs : Create(r, d)
  BY <1>2, CreateKeeps
<1>3. CASE \E kind \in Kinds \ {"create"} :
              OwnerOpens(r, kind) \/ \E m \in Members : MemberAsks(r, kind, m)
  BY <1>3, OwnerOpensKeeps, MemberAsksKeeps
<1>4. CASE MemberIsRefused(r) \/ SaveConflicts(r) \/ SyncConflicts(r) \/ ReleaseConflicts(r)
           \/ AnnounceConflicts(r)
  <2>1. Refuse(r)
    BY <1>4 DEF MemberIsRefused, SaveConflicts, SyncConflicts, ReleaseConflicts, AnnounceConflicts
  <2> QED  BY <2>1, RefusesKeeps
<1>5. CASE MemberOpens(r) \/ Snapshot(r) \/ FindTarget(r) \/ Save(r) \/ Crash(r)
  BY <1>5, MemberOpensKeeps, SnapshotKeeps, FindTargetKeeps, SaveKeeps, CrashKeeps
<1>6. CASE SyncNobody(r) \/ SyncPut(r) \/ \E m \in Members : SyncRead(r, m)
  BY <1>6, SyncNobodyKeeps, SyncPutKeeps, SyncReadKeeps
<1>7. CASE ReadPublication(r) \/ LookUpRelease(r) \/ PutRelease(r) \/ Announce(r)
  BY <1>7, ReadPublicationKeeps, LookUpReleaseKeeps, PutReleaseKeeps, AnnounceKeeps
<1> QED  BY <1>1, <1>2, <1>3, <1>4, <1>5, <1>6, <1>7

LEMMA StudioStutters ==
    ASSUME StudioInv, UNCHANGED vars
    PROVE  StudioInv'
<1>1. UNCHANGED <<project, snapshots, membership, releases, publication, req, made, crashes, outdated>>
  BY DEF vars
<1>2. TypeOK' /\ ProjectFits' /\ HistoryIsKept'
  BY <1>1 DEF StudioInv, TypeOK, ProjectFits, HistoryIsKept
<1>3. RequestsFit' /\ OutdatedFits'
  BY <1>1 DEF StudioInv, RequestsFit, OutdatedFits, Informed
<1> QED  BY <1>2, <1>3 DEF StudioInv

LEMMA StudioIsInvariant == StudioBounds /\ OwnerIsNoMember => (Spec => []StudioInv)
<1> SUFFICES ASSUME StudioBounds, OwnerIsNoMember PROVE Spec => []StudioInv
  OBVIOUS
<1>1. Init => StudioInv
  BY InitStudio
<1>2. StudioInv /\ [Next]_vars => StudioInv'
  BY StudioStep, StudioStutters
<1> QED  BY <1>1, <1>2, PTL DEF Spec

\* Only a save changes the record, only an announcement the publication.
LEMMA WhoChanges ==
    ASSUME Next
    PROVE  \/ \E r \in Callers : Save(r)
           \/ \E r \in Callers : Announce(r) /\ project' = project
           \/ project' = project /\ publication' = publication
<1>1. PICK r \in Callers :
        \/ \E d \in Docs : Create(r, d)
        \/ \E kind \in Kinds \ {"create"} :
              OwnerOpens(r, kind) \/ \E m \in Members : MemberAsks(r, kind, m)
        \/ MemberOpens(r) \/ MemberIsRefused(r)
        \/ Snapshot(r) \/ FindTarget(r) \/ Save(r) \/ SaveConflicts(r)
        \/ SyncNobody(r) \/ SyncPut(r) \/ SyncConflicts(r)
        \/ \E m \in Members : SyncRead(r, m)
        \/ ReadPublication(r) \/ LookUpRelease(r) \/ PutRelease(r) \/ ReleaseConflicts(r)
        \/ Announce(r) \/ AnnounceConflicts(r)
        \/ Crash(r)
  BY DEF Next
<1>2. CASE \/ \E d \in Docs : Create(r, d)
           \/ \E kind \in Kinds \ {"create"} :
                 OwnerOpens(r, kind) \/ \E m \in Members : MemberAsks(r, kind, m)
  BY <1>2 DEF Create, OwnerOpens, MemberAsks, Ask, Documents
<1>3. CASE \/ MemberIsRefused(r) \/ SaveConflicts(r) \/ SyncConflicts(r) \/ ReleaseConflicts(r)
           \/ AnnounceConflicts(r) \/ Crash(r)
  BY <1>3 DEF MemberIsRefused, SaveConflicts, SyncConflicts, ReleaseConflicts, AnnounceConflicts,
              Refuse, Crash, Documents
<1>4. CASE \/ MemberOpens(r) \/ Snapshot(r) \/ FindTarget(r) \/ SyncNobody(r) \/ SyncPut(r)
           \/ \E m \in Members : SyncRead(r, m)
           \/ ReadPublication(r) \/ LookUpRelease(r) \/ PutRelease(r)
  BY <1>4 DEF MemberOpens, Snapshot, FindTarget, SyncNobody, SyncPut, SyncRead, ReadPublication,
              LookUpRelease, PutRelease, OnlyReq, Documents
<1>5. CASE Announce(r)
  BY <1>5 DEF Announce
<1> QED  BY <1>1, <1>2, <1>3, <1>4, <1>5

\* The parts of the record in which two versions of it differ.
Parts(old, new) ==
    {part \in {"document", "notes", "members", "release"} :
        CASE part = "document" -> new.rev # old.rev
          [] part = "notes" -> new.notes # old.notes
          [] part = "members" -> new.members # old.members
          [] part = "release" -> new.release # old.release}

LEMMA OnePartDiffers ==
    ASSUME NEW kind, NEW old, NEW new, OnePart(kind, old, new)
    PROVE  Cardinality(Parts(old, new)) <= 1
<1> DEFINE part == CASE kind = "edit" -> "document"
                     [] kind = "share" -> "members"
                     [] kind = "publish" -> "release"
                     [] OTHER -> "notes"
<1>1. Parts(old, new) \subseteq {part}
  BY DEF Parts, OnePart
<1>2. IsFiniteSet({part}) /\ Cardinality({part}) = 1
  BY FS_Singleton
<1>3. Cardinality(Parts(old, new)) <= Cardinality({part})
  BY <1>1, <1>2, FS_Subset
<1> QED  BY <1>2, <1>3

LEMMA NoPartDiffers ==
    ASSUME NEW p
    PROVE  Cardinality(Parts(p, p)) <= 1
<1>1. Parts(p, p) = {}
  BY DEF Parts
<1> QED  BY <1>1, FS_EmptySet
-----------------------------------------------------------------------------
(* Theorems.                                                               *)
(* The records of a project, its requests and its publication are always of *)
(* the shape that the schemas give them.                                     *)
THEOREM StudioTyped == StudioBounds /\ OwnerIsNoMember => (Spec => []TypeOK)
<1>1. StudioInv => TypeOK
  BY DEF StudioInv
<1> QED  BY <1>1, StudioIsInvariant, PTL

(* The revision that a project has, and every release, has its immutable     *)
(* snapshot, whichever requests were cut off or lost a race (revision of     *)
(* studio.ts is written before the record).                                  *)
THEOREM RevisionsHaveSnapshots == StudioBounds /\ OwnerIsNoMember => (Spec => []HistoryIsKept)
<1>1. StudioInv => HistoryIsKept
  BY DEF StudioInv
<1> QED  BY <1>1, StudioIsInvariant, PTL

(* No update is lost: requests put whole copies of the record, and yet each  *)
(* changes one part of it and keeps what every other has put before.         *)
THEOREM NoUpdateIsLost == StudioBounds /\ OwnerIsNoMember => (Spec => NothingIsOverwritten)
<1> SUFFICES ASSUME StudioBounds, OwnerIsNoMember PROVE Spec => NothingIsOverwritten
  OBVIOUS
<1> DEFINE Kept == project.version > 0 =>
         /\ project'.rev \in {project.rev, project.rev + 1}
         /\ project'.doc # project.doc => project'.rev > project.rev
         /\ Marks(project.notes) \subseteq Marks(project'.notes)
         /\ Cardinality({part \in {"document", "notes", "members", "release"} :
                CASE part = "document" -> project'.rev # project.rev
                  [] part = "notes" -> project'.notes # project.notes
                  [] part = "members" -> project'.members # project.members
                  [] part = "release" -> project'.release # project.release}) <= 1
<1>1. StudioInv /\ [Next]_vars => [Kept]_vars
  <2> SUFFICES ASSUME StudioInv, Next, project.version > 0 PROVE Kept
    BY DEF Kept
  <2>1. CASE project' = project
    BY <2>1, NoPartDiffers DEF Parts
  <2>2. CASE \E r \in Callers : Save(r)
    <3>1. PICK r \in Callers : Save(r)
      BY <2>2
    <3>2. OnePart(req[r].kind, project, project')
      BY <3>1, SaveFacts
    <3>3. Cardinality(Parts(project, project')) <= 1
      BY <3>2, OnePartDiffers
    <3>4. project.rev \in Nat
      BY <3>1, Knows, RecordFields
    <3>5. /\ project'.rev \in {project.rev, project.rev + 1}
          /\ project'.doc # project.doc => project'.rev > project.rev
      BY <3>2, <3>4 DEF OnePart
    <3>6. Marks(project.notes) \subseteq Marks(project'.notes)
      BY <3>2 DEF OnePart, Marks
    <3> QED  BY <3>3, <3>5, <3>6 DEF Parts
  <2> QED  BY <2>1, <2>2, WhoChanges
<1> QED  BY <1>1, StudioIsInvariant, PTL DEF Spec, NothingIsOverwritten

(* Each change is made by somebody who may make it in the very version that  *)
(* it replaces: who was removed as a collaborator while a request of theirs  *)
(* was under way saves nothing (projectAccess, save).                        *)
THEOREM OnlyWhoMaySaves == StudioBounds /\ OwnerIsNoMember => (Spec => SavesAreAuthorised)
<1> SUFFICES ASSUME StudioBounds, OwnerIsNoMember PROVE Spec => SavesAreAuthorised
  OBVIOUS
<1>1. StudioInv /\ [Next]_vars
      => [project.version > 0 /\ project' # project =>
            \E r \in Callers : /\ At(r, "save") /\ req'[r].pc # "save"
                               /\ Grants(project, req[r].who, Needs(req[r].kind))]_vars
  <2> SUFFICES ASSUME StudioInv, Next, project.version > 0, project' # project
               PROVE  \E r \in Callers : /\ At(r, "save") /\ req'[r].pc # "save"
                                         /\ Grants(project, req[r].who, Needs(req[r].kind))
    OBVIOUS
  <2>1. PICK r \in Callers : Save(r)
    BY WhoChanges
  <2>2. At(r, "save") /\ Grants(project, req[r].who, Needs(req[r].kind))
    BY <2>1, SaveFacts DEF Save
  <2>3. req' = [req EXCEPT ![r] = [req[r] EXCEPT !.pc = "announce"]] \/ req' = [req EXCEPT ![r] = Idle]
    BY <2>1 DEF Save, Go, Finish
  <2>4. req'[r] = [req[r] EXCEPT !.pc = "announce"] \/ req'[r] = Idle
    BY <2>3 DEF StudioInv, RequestsFit
  <2>5. req'[r].pc # "save"
    <3>1. CASE req'[r] = [req[r] EXCEPT !.pc = "announce"]
      BY <3>1, Repositioned DEF Publishing
    <3>2. CASE req'[r] = Idle
      BY <3>2 DEF Idle
    <3> QED  BY <2>4, <3>1, <3>2
  <2> QED  BY <2>2, <2>5
<1> QED  BY <1>1, StudioIsInvariant, PTL DEF Spec, SavesAreAuthorised

(* A game that was taken down is put up again only by a request to publish   *)
(* that read the publication after it was switched off (setPublication).     *)
THEOREM TakenDownGamesStayDown == StudioBounds /\ OwnerIsNoMember => (Spec => TakenDownStaysDown)
<1> SUFFICES ASSUME StudioBounds, OwnerIsNoMember PROVE Spec => TakenDownStaysDown
  OBVIOUS
<1>1. StudioInv /\ [Next]_vars
      => [publication.version > 0 /\ ~publication.on /\ publication'.on =>
            \E r \in Callers \ outdated : At(r, "announce") /\ req'[r].pc = "idle"]_vars
  <2> SUFFICES ASSUME StudioInv, Next, ~publication.on, publication'.on
               PROVE  \E r \in Callers \ outdated : At(r, "announce") /\ req'[r].pc = "idle"
    OBVIOUS
  <2>1. publication' # publication
    OBVIOUS
  <2>2. PICK r \in Callers : Announce(r)
    BY <2>1, WhoChanges DEF Save
  <2>3. publication.version = req[r].avail.version /\ publication.version \in Nat
    BY <2>1, <2>2, AnnounceFacts, Knows DEF Publications
  <2>4. r \notin outdated
    BY <2>3 DEF StudioInv, OutdatedFits
  <2>5. At(r, "announce") /\ req' = [req EXCEPT ![r] = Idle]
    BY <2>2 DEF Announce, Go
  <2>6. req'[r].pc = "idle"
    BY <2>5 DEF StudioInv, RequestsFit, Idle
  <2> QED  BY <2>4, <2>5, <2>6
<1> QED  BY <1>1, StudioIsInvariant, PTL DEF Spec, TakenDownStaysDown

(* All three, as the run checks them on a small instance.                    *)
THEOREM ConcurrentSavesAreSafe == StudioBounds /\ OwnerIsNoMember => (Spec => SavesAreSafe)
  BY NoUpdateIsLost, OnlyWhoMaySaves, TakenDownGamesStayDown DEF SavesAreSafe
=============================================================================
