------------------------------- MODULE Upload -------------------------------
(***************************************************************************)
(* POST /api/alpha/repository/collection/:collectionId/version: the whole  *)
(* upload handler of pkg/http/collection.go with the parts of pkg/storage  *)
(* it calls, for concurrent requests to one collection, on any number of   *)
(* replicas that share the SQL database and the object storage.            *)
(*                                                                         *)
(* A client of Locks is one upload request, and also names the version the *)
(* request creates (UploadedVersion.Id is a fresh UUID).  A step ends at   *)
(* every statement sent to the database and every call to the storage.     *)
(***************************************************************************)
EXTENDS Locks, Rotation

CONSTANTS
    Collection,  \* the collection, as a lock id
    Specs,       \* what the collection's document can say (see Rotation), and
                 \* whether its filenameTemplate is `versioned`
    Sizes,       \* lengths in bytes that a request body can have
    Faults,      \* what may go wrong in a run, a subset of AllFaults
    HeedsContext \* whether the storage driver's Exists and Attributes give up
                 \* on a context that has ended: those of object stores do, the
                 \* driver of local directories does not look at it

AllFaults == {
    "crash",       \* the server process dies
    "cancel",      \* the client closes the connection
    "timeout",     \* the request timeout fires; the handler goroutine goes on
    "overrun",     \* the handler goes on for so long that its lease ends
    "close",       \* closing the object fails (an error, the I/O timeout)
    "examine",     \* Exists or Attributes fails (an error, the I/O timeout)
    "dbCreate",    \* the INSERT of the version reports an error
    "dbDelete",    \* the soft delete of a version fails
    "blobDelete"}  \* deleting an object fails

ASSUME ClientsAssumption == IsFiniteSet(Clients)
ASSUME CollectionAssumption == Ids = {Collection}
ASSUME SpecsAssumption ==
    Specs # {} /\ \A s \in Specs : IsSpec(s) /\ s.versioned \in BOOLEAN
ASSUME UploadSizesAssumption == Sizes \subseteq Nat \ {0}
ASSUME FaultsAssumption == Faults \subseteq AllFaults /\ HeedsContext \in BOOLEAN

VARIABLES
    spec,        \* the collection's document as it is now
    coll,        \* the document as each request has read it
    pc,          \* where each request is in the handler
    ctx,         \* what has become of each request's context
    outcome,     \* what the handler has answered
    num,         \* version.VersionNumber
    file,        \* version.Filename
    size,        \* version.Filesize: what CopyStream has written
    maxAllowed,  \* limit in the quota middleware
    toDelete,    \* versionsToDelete not yet gone through
    row,         \* uploaded_versions: the row of each version
    objects      \* the object storage

config == <<spec, coll>>
version == <<num, file, size>>
plan == <<maxAllowed, toDelete>>
stores == <<row, objects>>
uploadVars == <<config, pc, ctx, outcome, version, plan, stores>>
vars == <<lockVars, uploadVars>>

Stages == {"new", "locking", "locked", "numbered", "planned", "streaming",
           "written", "closed", "uploaded", "registering", "undoRow",
           "undoObject", "rotating", "rotatingObject", "releasing", "done"}

\* Before a request has read the document
Unread == CHOOSE s \in Specs : TRUE

\* An object knows who wrote it and how much; it is stored at the path of its
\* writer's version (GetTargetPath).
Object == [by : Clients, bytes : Nat]

UploadTypeOK ==
    /\ LockTypeOK
    /\ spec \in Specs
    /\ coll \in [Clients -> Specs]
    /\ pc \in [Clients -> Stages]
    /\ ctx \in [Clients -> {"live", "cancelled", "timedOut"}]
    /\ outcome \in [Clients -> {"none", "ok", "error", "corrupted"}]
    /\ num \in [Clients -> Nat]
    /\ file \in [Clients -> Nat]
    /\ size \in [Clients -> Nat]
    /\ maxAllowed \in [Clients -> Nat]
    /\ toDelete \in [Clients -> SUBSET Clients]
    /\ row \in [Clients -> {"none", "active", "deleted"}]
    /\ objects \subseteq Object

Active == {v \in Clients : row[v] = "active"}
At(path) == {o \in objects : file[o.by] = path}

Init ==
    /\ LockInit
    /\ spec \in Specs
    /\ coll = [r \in Clients |-> Unread]
    /\ pc = [r \in Clients |-> "new"]
    /\ ctx = [r \in Clients |-> "live"]
    /\ outcome = [r \in Clients |-> "none"]
    /\ num = [r \in Clients |-> 0]
    /\ file = [r \in Clients |-> 0]
    /\ size = [r \in Clients |-> 0]
    /\ maxAllowed = [r \in Clients |-> 0]
    /\ toDelete = [r \in Clients |-> {}]
    /\ row = [r \in Clients |-> "none"]
    /\ objects = {}

Goto(r, stage) == pc' = [pc EXCEPT ![r] = stage]

\* The goroutine is gone and its local variables with it.  The version's number
\* and size live on where its row or its object does.
Leave(r) ==
    /\ Goto(r, "done")
    /\ coll' = [coll EXCEPT ![r] = Unread]
    /\ ctx' = [ctx EXCEPT ![r] = "live"]
    /\ maxAllowed' = [maxAllowed EXCEPT ![r] = 0]
    /\ toDelete' = [toDelete EXCEPT ![r] = {}]
    /\ IF row[r] = "none" /\ \A o \in objects : o.by # r
       THEN /\ num' = [num EXCEPT ![r] = 0]
            /\ file' = [file EXCEPT ![r] = 0]
            /\ size' = [size EXCEPT ![r] = 0]
       ELSE UNCHANGED version
    /\ UNCHANGED <<spec, stores>>

\* Write the response; what is left to do is the deferred Unlock.
Respond(r, answer) ==
    /\ Goto(r, "releasing")
    /\ outcome' = [outcome EXCEPT ![r] = answer]

-----------------------------------------------------------------------------
(* Admission and the lock *)

\* 404 or 403 before the lock is asked for
Refuse(r) ==
    /\ pc[r] = "new"
    /\ Goto(r, "done")
    /\ outcome' = [outcome EXCEPT ![r] = "error"]
    /\ UNCHANGED <<lockVars, config, ctx, version, plan, stores>>

\* Collection found, CanUploadToMe, backup window: go on to Locks.Lock.
Admit(r) ==
    /\ pc[r] = "new"
    /\ Goto(r, "locking")
    /\ coll' = [coll EXCEPT ![r] = spec]
    /\ Select(r, Collection)
    /\ UNCHANGED <<spec, ctx, outcome, version, plan, stores>>

\* Inside Lock; a failure answers "cannot upload to same collection in parallel".
LockStep(r) ==
    /\ pc[r] = "locking"
    /\ LockCall(r)
    /\ \/ phase'[r] = "adding" /\ UNCHANGED uploadVars
       \/ /\ phase'[r] = "held"
          /\ Goto(r, "locked")
          /\ UNCHANGED <<config, ctx, outcome, version, plan, stores>>
       \/ /\ phase'[r] = "idle"
          /\ Leave(r)
          /\ outcome' = [outcome EXCEPT ![r] = "error"]

\* defer lock.Unlock()
Release(r) ==
    /\ pc[r] = "releasing"
    /\ Unlock(r) \/ UnlockFails(r)
    /\ Leave(r)
    /\ UNCHANGED outcome

-----------------------------------------------------------------------------
(* Numbering, rotation plan and limits *)

\* What the template makes of the number; without ${version} always the same.
GenerateNextVersionFilename(s, number) == IF s.versioned THEN number ELSE 0

CreateNewVersion(r) ==
    /\ pc[r] = "locked"
    /\ Goto(r, "numbered")
    /\ num' = [num EXCEPT ![r] = NextVersionNumber(Active, num)]
    /\ file' = [file EXCEPT ![r] =
                   GenerateNextVersionFilename(coll[r], NextVersionNumber(Active, num))]
    /\ UNCHANGED <<lockVars, config, ctx, outcome, size, plan, stores>>

\* CreateRotationStrategyCase reads the versions; the ones to delete are
\* derived later from that reading and nothing else.
CreateRotationStrategyCase(r) ==
    /\ pc[r] = "numbered"
    /\ Goto(r, "planned")
    /\ \E doomed \in VersionsToDelete(coll[r], Active, num) :
          toDelete' = [toDelete EXCEPT ![r] = doomed]
    /\ UNCHANGED <<lockVars, config, ctx, outcome, version, maxAllowed, stores>>

\* A query fails, the strategy is unknown, the form has no file, or there is a
\* panic (a form file that cannot be opened; maxBackupsCount 0).
EarlyReturn(r) ==
    /\ pc[r] \in {"locked", "numbered", "planned"}
    /\ Respond(r, "error")
    /\ UNCHANGED <<lockVars, config, ctx, version, plan, stores>>

\* CreateStandardMiddleWares reads the versions a second time.
CreateStandardMiddleWares(r) ==
    /\ pc[r] = "planned"
    /\ ~IsCorrupted(coll[r], Active, toDelete[r], size)
    /\ Goto(r, "streaming")
    /\ maxAllowed' = [maxAllowed EXCEPT ![r] =
                         MaximumAllowedFilesize(coll[r], Active, toDelete[r], size)]
    /\ UNCHANGED <<lockVars, config, ctx, outcome, version, toDelete, stores>>

\* "weird thing happened, maxExtraSpace-usedExtraSpace gave minus result."
CollectionIsCorrupted(r) ==
    /\ pc[r] = "planned"
    /\ IsCorrupted(coll[r], Active, toDelete[r], size)
    /\ Respond(r, "corrupted")
    /\ UNCHANGED <<lockVars, config, ctx, version, plan, stores>>

-----------------------------------------------------------------------------
(* UploadFile *)

Put(r, n) == (objects \ At(file[r])) \cup {[by |-> r, bytes |-> n]}

\* CopyStream to the end of the body, within the quota.  It looks at the
\* context before every read.  After a timeout the gin context has been given
\* to another request, so a handler that gets here late may see either.
CopyStream(r) ==
    /\ pc[r] = "streaming"
    /\ ctx[r] # "cancelled"
    /\ \E n \in Sizes :
          /\ n <= maxAllowed[r]
          /\ size' = [size EXCEPT ![r] = n]
    /\ Goto(r, "written")
    /\ UNCHANGED <<lockVars, config, ctx, outcome, num, file, plan, stores>>

\* CopyStream stops: empty or too large body, no GPG header or footer, a read
\* or a write error, the context or the I/O timeout.  The deferred Close runs
\* before the deferred cancellation, so it commits what has been written so
\* far; only a context that is already cancelled makes Close discard it.
CopyStreamFails(r) ==
    /\ pc[r] = "streaming"
    /\ Goto(r, "undoRow")
    /\ outcome' = [outcome EXCEPT ![r] = "error"]
    /\ \/ objects' = objects
       \/ /\ ctx[r] # "cancelled"
          /\ \E n \in Sizes \cup {0} : n <= maxAllowed[r] /\ objects' = Put(r, n)
    /\ UNCHANGED <<lockVars, config, ctx, version, plan, row>>

\* _ = writeStream.Close(): a failure is not noticed here.  With a context that
\* has ended Close discards what was written, and a driver that heeds the
\* context then fails at Exists too.
CloseWriter(r) ==
    /\ pc[r] = "written"
    /\ \/ /\ ctx[r] # "cancelled"
          /\ objects' = Put(r, size[r])
          /\ Goto(r, "closed") /\ UNCHANGED outcome
       \/ /\ "close" \in Faults \/ (ctx[r] # "live" /\ ~HeedsContext)
          /\ objects' = objects
          /\ Goto(r, "closed") /\ UNCHANGED outcome
       \/ /\ ctx[r] # "live" /\ HeedsContext
          /\ objects' = objects
          /\ Goto(r, "undoRow") /\ outcome' = [outcome EXCEPT ![r] = "error"]
    /\ UNCHANGED <<lockVars, config, ctx, version, plan, row>>

\* Mutant of SizeMatches: the stored object is not examined.
NotExamined(r) == TRUE

\* Exists and Attributes look at the path, not at what this request wrote.
SizeMatches(r) == \E o \in At(file[r]) : o.bytes = size[r]

\* Exists or Attributes reports an error.
ExamineMayFail(r) == "examine" \in Faults \/ (HeedsContext /\ ctx[r] # "live")

CheckObject(r) ==
    /\ pc[r] = "closed"
    /\ SizeMatches(r)
    /\ HeedsContext => ctx[r] # "cancelled"
    /\ Goto(r, "uploaded")
    /\ UNCHANGED <<lockVars, config, ctx, outcome, version, plan, stores>>

\* "storage error": Exists fails or finds nothing, or the size is another.
CheckObjectFails(r) ==
    /\ pc[r] = "closed"
    /\ ~SizeMatches(r) \/ ExamineMayFail(r)
    /\ Goto(r, "undoRow")
    /\ outcome' = [outcome EXCEPT ![r] = "error"]
    /\ UNCHANGED <<lockVars, config, ctx, version, plan, stores>>

\* NewWriter has failed (Close of a nil writer), or Attributes has, after Exists
\* found the object (Size of nil attributes).
NilDereference(r) ==
    \/ pc[r] = "streaming"
    \/ pc[r] = "closed" /\ ExamineMayFail(r) /\ At(file[r]) # {}

\* Mutant of UploadFilePanics: the Unlock is not deferred.
PanicHoldingLock(r) ==
    /\ NilDereference(r)
    /\ Goto(r, "done")
    /\ outcome' = [outcome EXCEPT ![r] = "error"]
    /\ UNCHANGED <<lockVars, config, ctx, version, plan, stores>>

\* The handler panics past the Delete, but not past the Unlock.
UploadFilePanics(r) ==
    /\ NilDereference(r)
    /\ Respond(r, "error")
    /\ UNCHANGED <<lockVars, config, ctx, version, plan, stores>>

-----------------------------------------------------------------------------
(* Registration and rotation *)

\* Mutant of ContextIsLive: the context is not looked at.
ContextIgnored(r) ==
    /\ pc[r] = "uploaded"
    /\ Goto(r, "registering")
    /\ UNCHANGED <<lockVars, config, ctx, outcome, version, plan, stores>>

\* After the two seconds of sleep: the last look at the context.  c.Request of
\* a request that timed out may be another request's by now.
ContextIsLive(r) ==
    /\ pc[r] = "uploaded"
    /\ ctx[r] # "cancelled"
    /\ Goto(r, "registering")
    /\ UNCHANGED <<lockVars, config, ctx, outcome, version, plan, stores>>

\* Mutant of ContextIsCancelled: the file is not deleted.
CancelledWithoutDelete(r) ==
    /\ pc[r] = "uploaded"
    /\ ctx[r] # "live"
    /\ Respond(r, "error")
    /\ UNCHANGED <<lockVars, config, ctx, version, plan, stores>>

ContextIsCancelled(r) ==
    /\ pc[r] = "uploaded"
    /\ ctx[r] # "live"
    /\ Goto(r, "undoRow")
    /\ outcome' = [outcome EXCEPT ![r] = "error"]
    /\ UNCHANGED <<lockVars, config, ctx, version, plan, stores>>

\* Mutant of RegisterVersion: the row is not inserted.
RegisterNothing(r) ==
    /\ pc[r] = "registering"
    /\ Goto(r, "rotating")
    /\ UNCHANGED <<lockVars, config, ctx, outcome, version, plan, stores>>

RegisterVersion(r) ==
    /\ pc[r] = "registering"
    /\ Goto(r, "rotating")
    /\ row' = [row EXCEPT ![r] = "active"]
    /\ UNCHANGED <<lockVars, config, ctx, outcome, version, plan, objects>>

\* The INSERT reports an error: the row may be there or not (the reply can be
\* what was lost).  The handler deletes the version and does not return.
RegisterVersionFails(r) ==
    /\ "dbCreate" \in Faults
    /\ pc[r] = "registering"
    /\ Goto(r, "undoRow")
    /\ \E inserted \in {"none", "active"} : row' = [row EXCEPT ![r] = inserted]
    /\ UNCHANGED <<lockVars, config, ctx, outcome, version, plan, objects>>

\* Service.Delete is a soft delete of the row by id ...
DeleteRow(v) ==
    \/ row' = [row EXCEPT ![v] = IF @ = "active" THEN "deleted" ELSE @]
    \/ "dbDelete" \in Faults /\ row' = row

\* ... and then, whatever became of it, a delete of the object by path.
DeleteObject(v) ==
    \/ objects' = objects \ At(file[v])
    \/ "blobDelete" \in Faults /\ objects' = objects

\* Delete(&version) of the request's own version
UndoRow(r) ==
    /\ pc[r] = "undoRow"
    /\ Goto(r, "undoObject")
    /\ DeleteRow(r)
    /\ UNCHANGED <<lockVars, config, ctx, outcome, version, plan, objects>>

\* No answer has been written yet only where registering failed.
UndoObject(r) ==
    /\ pc[r] = "undoObject"
    /\ Goto(r, IF outcome[r] = "none" THEN "rotating" ELSE "releasing")
    /\ DeleteObject(r)
    /\ UNCHANGED <<lockVars, config, ctx, outcome, version, plan, row>>

\* The versions to delete are sorted, the oldest first.
OldestOf(versions) ==
    CHOOSE v \in versions : \A w \in versions : num[v] <= num[w]

\* CleanUpOlderVersions, one version; an error is logged and the next one tried.
RotateRow(r) ==
    /\ pc[r] = "rotating"
    /\ toDelete[r] # {}
    /\ Goto(r, "rotatingObject")
    /\ DeleteRow(OldestOf(toDelete[r]))
    /\ UNCHANGED <<lockVars, config, ctx, outcome, version, plan, objects>>

RotateObject(r) ==
    /\ pc[r] = "rotatingObject"
    /\ Goto(r, "rotating")
    /\ DeleteObject(OldestOf(toDelete[r]))
    /\ toDelete' = [toDelete EXCEPT ![r] = @ \ {OldestOf(@)}]
    /\ UNCHANGED <<lockVars, config, ctx, outcome, version, maxAllowed, row>>

Uploaded(r) ==
    /\ pc[r] = "rotating"
    /\ toDelete[r] = {}
    /\ Respond(r, "ok")
    /\ UNCHANGED <<lockVars, config, ctx, version, plan, stores>>

-----------------------------------------------------------------------------
(* The environment *)

\* An administrator edits the BackupCollection.
ConfigurationChanges ==
    /\ \E s \in Specs \ {spec} : spec' = s
    /\ UNCHANGED <<lockVars, coll, pc, ctx, outcome, version, plan, stores>>

InHandler(r) == pc[r] \notin {"new", "done"}

Crash(r) ==
    /\ "crash" \in Faults
    /\ InHandler(r)
    /\ Die(r)
    /\ Leave(r)
    /\ outcome' = [outcome EXCEPT ![r] = IF @ = "none" THEN "error" ELSE @]

ClientCancels(r) ==
    /\ "cancel" \in Faults
    /\ InHandler(r)
    /\ ctx[r] = "live"
    /\ ctx' = [ctx EXCEPT ![r] = "cancelled"]
    /\ UNCHANGED <<lockVars, config, pc, outcome, version, plan, stores>>

\* The timeout middleware answers 408 and returns; the handler goroutine runs on.
RequestTimesOut(r) ==
    /\ "timeout" \in Faults
    /\ InHandler(r)
    /\ ctx[r] = "live"
    /\ ctx' = [ctx EXCEPT ![r] = "timedOut"]
    /\ UNCHANGED <<lockVars, config, pc, outcome, version, plan, stores>>

\* The lease is as long as the request timeout and starts later, so it ends
\* after the holder's request has timed out or was over before.
LeaseEnds ==
    /\ LeaseExpires(Collection)
    /\ LET owner == table[Collection].owner IN
          Holds(owner, Collection) => ctx[owner] = "timedOut" /\ "overrun" \in Faults
    /\ UNCHANGED uploadVars

-----------------------------------------------------------------------------

\* Every request has been answered.
Finished == (\A r \in Clients : pc[r] = "done") /\ UNCHANGED vars

Handler(r) ==
    \/ LockStep(r)
    \/ CreateNewVersion(r) \/ CreateRotationStrategyCase(r) \/ EarlyReturn(r)
    \/ CreateStandardMiddleWares(r) \/ CollectionIsCorrupted(r)
    \/ CopyStream(r) \/ CopyStreamFails(r) \/ CloseWriter(r)
    \/ CheckObject(r) \/ CheckObjectFails(r) \/ UploadFilePanics(r)
    \/ ContextIsLive(r) \/ ContextIsCancelled(r)
    \/ RegisterVersion(r) \/ RegisterVersionFails(r)
    \/ UndoRow(r) \/ UndoObject(r)
    \/ RotateRow(r) \/ RotateObject(r) \/ Uploaded(r)
    \/ Release(r)

Next ==
    \/ \E r \in Clients :
          \/ Refuse(r) \/ Admit(r) \/ Handler(r)
          \/ Crash(r) \/ ClientCancels(r) \/ RequestTimesOut(r)
    \/ ConfigurationChanges
    \/ LeaseEnds
    \/ Finished

Spec == Init /\ [][Next]_vars

-----------------------------------------------------------------------------
(* Properties *)

\* Between Lock and the deferred Unlock
InUpload(r) == phase[r] = "held"

\* The object at the version's path is the one its own request wrote, whole.
Intact(v) == [by |-> v, bytes |-> size[v]] \in objects

NewerThan(v) == {w \in Active : num[w] > num[v]}

\* As many copies as the collection is there to keep, whichever way its document
\* is edited
Limit == Min({s.maxBackupsCount : s \in Specs})

Newest == {v \in Active : Cardinality(NewerThan(v)) < Limit}

\* collection.go: "Do not allow parallel uploads to the same collection".  The
\* SELECT, the clean-up and the INSERT of several requests interleave, and
\* requests crash and time out; without an overrun the handler's body never
\* runs twice at a time.
NoParallelUploads ==
    \A r, s \in Clients : InUpload(r) /\ InUpload(s) => r = s

\* Even where a handler overruns its lease, requests that are themselves within
\* their time must not be in the handler's body together.
NoParallelLiveUploads ==
    \A r, s \in Clients :
        /\ InUpload(r) /\ ctx[r] = "live"
        /\ InUpload(s) /\ ctx[s] = "live"
        => r = s

\* Each of the newest versions in the registry, as many as are kept, can be
\* downloaded as it was sent: wherever an upload crashes, is cancelled, fails
\* to delete or stops half-way through its rotation, neither its undo nor its
\* rotation touches an object of theirs, and none was registered on the
\* strength of an object that an earlier failed upload left at its path.
NewestAreIntact == \A v \in Newest : Intact(v)

\* An answer 200 is a promise: with k of them given, min(k, maxBackupsCount)
\* intact versions are in the collection at every moment, also while later
\* uploads are rotating, failing or crashing.
AnsweredCopiesAreKept ==
    LET answered == {r \in Clients : outcome[r] = "ok"}
        intact == {v \in Active : Intact(v)}
    IN  Cardinality(intact) >= Min({Limit, Cardinality(answered)})

\* The sizes of the newest maxBackupsCount versions together stay within
\* maxCollectionSize, although each upload computes its limit before it
\* streams, with the versions it means to delete taken as deleted.
QuotaIsHeld == Total(size, Newest) <= Max({s.maxCollectionSize : s \in Specs})

\* "weird thing happened ... Corrupted collection" is never reached: what the
\* crashes and failed deletions of earlier uploads leave behind never makes
\* the extra space negative, which would refuse every later upload too.
NeverCorrupted == \A r \in Clients : outcome[r] # "corrupted"

\* Rotation makes up for what earlier uploads left undone: when an upload has
\* answered 200 there are at most maxBackupsCount versions, even if previous
\* ones crashed between registering and rotating.
RotationCatchesUp ==
    \A r \in Clients : pc[r] = "releasing" /\ outcome[r] = "ok"
        => Cardinality(Active) <= coll[r].maxBackupsCount

\* collection.go: "delete file from storage if not uploaded successfully".  With
\* no upload in the handler's body, every stored object is the intact object of
\* a registered version, where requests time out, objects cannot be closed and
\* rows not deleted.  It is so as long as examining a stored object does not
\* fail: with ExamineMayFail an upload panics past the Delete.
NoOrphanObjects ==
    (\A r \in Clients : ~InUpload(r)) =>
        objects \subseteq {[by |-> v, bytes |-> size[v]] : v \in Active}

\* The collection behaves like a fifo with numbers that are never reused, as
\* seen in the registry.  Numbers of deleted versions count as given out.
Retained == INSTANCE Retention WITH
    Limit <- Limit,
    kept <- {num[v] : v \in Active},
    latest <- HighestNumber({v \in Clients : row[v] # "none"}, num)

IsRetention == Retained!Spec

\* A version of a finished upload leaves the registry in this step.
GivesUp(v) == row[v] = "active" /\ row'[v] # "active" /\ pc[v] = "done"

\* docs/api/collections/README.md on fifo: "When a new backup copy is uploaded,
\* then oldest is deleted - IF .spec.maxBackupsCount limit was reached".  After
\* the deletion the other maxBackupsCount copies are there.
RotatesOnlyForStoredCopy ==
    [][\A v \in Clients : GivesUp(v) =>
          Cardinality({w \in Active \ {v} : Intact(w)}) >= Limit]_vars

-----------------------------------------------------------------------------
(* Liveness *)

\* Goroutines are scheduled, and calls to the database and to the storage
\* return, with a result or an error.
FairSpec == Spec /\ \A r \in Clients : WF_vars(Handler(r))

\* Unless the process dies, the collection's lock comes free again: every path
\* out of the handler, errors and panics included, unlocks, and no overlap of
\* overrunning uploads leaves a row behind.
LockComesFree == Stored(Collection) ~> ~Stored(Collection)
=============================================================================
