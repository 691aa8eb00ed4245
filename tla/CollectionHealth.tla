-------------------------- MODULE CollectionHealth --------------------------
(***************************************************************************)
(* GET /api/stable/repository/collection/:collectionId/health (pkg/health) *)
(* beside the uploads it is about: does the collection get its backups in  *)
(* its backup windows, and is it within its limits?                        *)
(*                                                                         *)
(* Uploads are seen through the registry only: Upload has their details.   *)
(* A version is its number.                                                *)
(* The check takes no lock: it reads the highest number, the row, the      *)
(* clock, and the rows twice more, in this order.                          *)
(***************************************************************************)
EXTENDS BackupWindow, Rotation, Sequences

CONSTANTS
    Windows,      \* spec.windows, a sequence
    Limits,       \* the collection's limits (see Rotation)
    Sizes,        \* lengths in bytes that an uploaded file can have
    ZeroTime,     \* time.Time{}: before every run of every window
    MaxTime,      \* bound of the clock
    MaxVersions   \* bound of the versions uploaded

ASSUME WindowsAssumption ==
    /\ Windows \in Seq([runs : SUBSET Int, duration : Nat])
    /\ \A i \in DOMAIN Windows :
          /\ \A r \in Windows[i].runs : ZeroTime <= r
          /\ \A r, s \in Windows[i].runs : r < s => r + Minute <= s
ASSUME HealthBoundsAssumption ==
    IsSpec(Limits) /\ Sizes \subseteq Nat /\ ZeroTime \in Int /\ ZeroTime < 0
    /\ MaxTime \in Nat /\ MaxVersions \in Nat

VARIABLES
    now,     \* the clock
    rows,    \* the active rows: CreatedAt and Filesize of a version
    latest,  \* number of the version registered last
    upload,  \* the upload that holds the lock
    check    \* the health check under way

registry == <<rows, latest>>
healthVars == <<now, registry, upload, check>>

Kept == DOMAIN rows
Number == [v \in Kept |-> v]
Size == [v \in Kept |-> rows[v].size]

NoUpload == [stage |-> "none", number |-> 0, allowed |-> 0, toDelete |-> {}]
NoCheck == [stage |-> "none", number |-> 0, created |-> ZeroTime, healthy |-> TRUE]

HealthTypeOK ==
    /\ now \in 0..MaxTime
    /\ latest \in 0..MaxVersions
    /\ Kept \subseteq 1..latest
    /\ rows \in [Kept -> [created : 0..now, size : Sizes]]
    /\ upload \in [stage : {"none", "streaming", "rotating"}, number : Nat,
                   allowed : Nat, toDelete : SUBSET (1..latest)]
    /\ check \in [stage : {"none", "numbered", "found", "window", "sizes"},
                  number : 0..latest, created : (0..now) \cup {ZeroTime},
                  healthy : BOOLEAN]

HealthInit ==
    /\ now = 0
    /\ rows = [v \in {} |-> 0]
    /\ latest = 0
    /\ upload = NoUpload
    /\ check = NoCheck

Tick ==
    /\ now < MaxTime
    /\ now' = now + 1
    /\ UNCHANGED <<registry, upload, check>>

-----------------------------------------------------------------------------
(* Uploads *)

\* A window whose start cannot be found is logged and passed over.
ValidateIsBackupWindowAllowingToUpload(t) ==
    \/ Windows = <<>>
    \/ \E i \in DOMAIN Windows : IsInWindowNow(Windows[i], t)

\* Into the handler's body, up to the limit of the stream: the new version is
\* numbered by the rows there are, before anything is streamed.  A user with
\* the role uploadsAnytime is not bound to the windows.
BeginUpload(anytime) ==
    /\ upload.stage = "none"
    /\ latest < MaxVersions
    /\ anytime \/ ValidateIsBackupWindowAllowingToUpload(now)
    /\ \E doomed \in VersionsToDelete(Limits, Kept, Number) :
          /\ ~IsCorrupted(Limits, Kept, doomed, Size)
          /\ upload' = [stage |-> "streaming", toDelete |-> doomed,
                        number |-> NextVersionNumber(Kept, Number),
                        allowed |-> MaximumAllowedFilesize(Limits, Kept, doomed, Size)]
    /\ UNCHANGED <<now, registry, check>>

\* gorm fills in CreatedAt when the row is inserted, after the streaming.
RegisterUpload(bytes) ==
    /\ upload.stage = "streaming"
    /\ bytes <= upload.allowed
    /\ latest' = upload.number
    /\ rows' = [v \in Kept \cup {upload.number} |->
                   IF v = upload.number THEN [created |-> now, size |-> bytes] ELSE rows[v]]
    /\ upload' = [upload EXCEPT !.stage = "rotating"]
    /\ UNCHANGED <<now, check>>

RotateUpload(v) ==
    /\ upload.stage = "rotating"
    /\ v \in upload.toDelete
    /\ \A w \in upload.toDelete : v <= w
    /\ rows' = [w \in Kept \ {v} |-> rows[w]]
    /\ upload' = [upload EXCEPT !.toDelete = @ \ {v}]
    /\ UNCHANGED <<now, latest, check>>

\* Answered, or failed, or the server died; what is undone stays undone.
EndUpload ==
    /\ upload.stage # "none"
    /\ upload' = NoUpload
    /\ UNCHANGED <<now, registry, check>>

-----------------------------------------------------------------------------
(* The health check *)

\* The collection is found and the code is right.  FindLatestVersion: first the
\* highest number, 0 in an empty collection.
FindHighestNumber ==
    /\ check.stage = "none"
    /\ check' = [NoCheck EXCEPT !.stage = "numbered",
                                !.number = HighestNumber(Kept, Number)]
    /\ UNCHANGED <<now, registry, upload>>

\* Mutant of FindLatestRow: a version without a row was created just now.
FindLatestRowOrNow ==
    /\ check.stage = "numbered"
    /\ check' = [check EXCEPT !.stage = "found",
                    !.created = IF check.number \in Kept THEN rows[check.number].created ELSE now]
    /\ UNCHANGED <<now, registry, upload>>

\* FindLatestVersion: then the row; no row is an empty version and no error.
FindLatestRow ==
    /\ check.stage = "numbered"
    /\ check' = [check EXCEPT !.stage = "found",
                    !.created = IF check.number \in Kept THEN rows[check.number].created ELSE @]
    /\ UNCHANGED <<now, registry, upload>>

\* Validators.Validate: the next validator runs whatever this one says.
Validated(stage, good) ==
    check' = [NoCheck EXCEPT !.stage = stage, !.healthy = check.healthy /\ good]

\* "cannot find any backup in the collection": one of the two queries failed.
FindLatestVersionFails ==
    /\ check.stage = "numbered"
    /\ Windows # <<>>
    /\ Validated("window", FALSE)
    /\ UNCHANGED <<now, registry, upload>>

HasStart(i) == GetStartingDateOfPreviousScheduledRun(Windows[i], now) # {}

\* Mutant of WindowMatches: also while a slot is open the version must be in it.
WindowMatchesStrictly(i) == IsInPreviousWindowTimeSlot(Windows[i], now, check.created)

WindowMatches(i) ==
    \/ IsInPreviousWindowTimeSlot(Windows[i], now, check.created)
    \/ IsInPreviousWindowTimeSlot(Windows[i], now, now)

\* Mutant of BackupWindowValidates: the version must be in the slots of all windows.
EveryWindowValidates ==
    \A i \in DOMAIN Windows : HasStart(i) /\ WindowMatches(i)

\* In order of the windows; one without a start is an error and ends the search.
BackupWindowValidates ==
    \/ Windows = <<>>
    \/ \E i \in DOMAIN Windows :
          /\ WindowMatches(i)
          /\ \A j \in 1..i : HasStart(j)

ValidateWindows ==
    /\ check.stage = "found"
    /\ Validated("window", BackupWindowValidates)
    /\ UNCHANGED <<now, registry, upload>>

\* A query that fails is a failure here ...
ValidateSizes(answers) ==
    /\ check.stage = "window"
    /\ Validated("sizes", answers /\ \A v \in Kept : Size[v] <= Limits.maxOneVersionSize)
    /\ UNCHANGED <<now, registry, upload>>

SumOfVersionsValidates == Total(Size, Kept) <= Limits.maxCollectionSize

\* ... and is ignored here: no versions are 0 bytes.  The answer is 200 if all
\* three were good, and 500 with the list of them otherwise.
ValidateSum(answers) ==
    /\ check.stage = "sizes"
    /\ Validated("none", answers => SumOfVersionsValidates)
    /\ UNCHANGED <<now, registry, upload>>

-----------------------------------------------------------------------------

HealthNext ==
    \/ Tick
    \/ \E anytime \in BOOLEAN : BeginUpload(anytime)
    \/ \E bytes \in Sizes : RegisterUpload(bytes)
    \/ \E v \in 1..latest : RotateUpload(v)
    \/ EndUpload
    \/ FindHighestNumber \/ FindLatestRow \/ FindLatestVersionFails
    \/ ValidateWindows
    \/ \E answers \in BOOLEAN : ValidateSizes(answers) \/ ValidateSum(answers)

HealthSpec == HealthInit /\ [][HealthNext]_healthVars

-----------------------------------------------------------------------------
(* Properties *)

\* model.go: "checks if given time is between BackupWindow time slot".  At every
\* moment the search backwards through the cron expression finds the start of
\* the latest slot, if it is within the months searched, and uploads are let in
\* exactly from the start of a slot to its end.  The first second of a slot is
\* an exception: the slot before is found then, and its time is what counts.
SlotsAreFound ==
    \A i \in DOMAIN Windows :
        LET window == Windows[i]
            found == GetStartingDateOfPreviousScheduledRun(window, now)
        IN  IF Starting(window, now)
            THEN /\ found = SettledStart(window, now)
                 /\ IsInWindowNow(window, now) <=>
                       \E r \in found : now < r + window.duration
            ELSE /\ found = LatestStart(window, now)
                 /\ IsInWindowNow(window, now) <=> InSlot(window, now)

\* In time for the latest slot of a window.  A slot that is not yet a second old
\* does not count here nor in the properties below: see SlotsAreFound.
Timely(time) ==
    \E i \in DOMAIN Windows : \E start \in SettledStart(Windows[i], now) :
        start < time /\ time < start + Windows[i].duration

Alarms == check.stage = "found" /\ check'.stage = "window" /\ ~check'.healthy

\* The window check stays quiet outside the slots only over a collection whose
\* newest copy is no older than the latest slot of a window, whatever has been
\* registered and rotated away since the check read the number and the row.
QuietOnlyOverFreshCopies ==
    [][check.stage = "found" /\ check'.stage = "window" /\ check'.healthy =>
          \/ Timely(now)
          \/ \E i \in DOMAIN Windows, v \in Kept :
                \E start \in SettledStart(Windows[i], now) : start < rows[v].created]_healthVars

\* The window check raises an alarm only outside the slots, and over a copy that
\* was the newest when the check began and was in time only if the copy was
\* rotated away meanwhile: as many newer ones as the collection keeps were
\* registered while the check was running.  (A window whose start is too long
\* ago is an alarm in itself.)
NoFalseAlarm ==
    [][Alarms /\ (\A i \in DOMAIN Windows : SettledStart(Windows[i], now) # {}) =>
          /\ ~Timely(now)
          /\ IF check.number \in Kept
             THEN ~Timely(rows[check.number].created)
             ELSE check.number = 0 \/ latest - check.number >= Limits.maxBackupsCount]_healthVars

\* "Summary of all files is ... while collection hard limit is ..." can be
\* reported only while an upload's rotation is pending or was broken off: the
\* limits that uploads compute beforehand keep the sum below it otherwise.
SumAlarmMeansRotationPending ==
    ~SumOfVersionsValidates => Cardinality(Kept) > Limits.maxBackupsCount

\* docs/api/collections/README.md on windows: "If slot is defined, but there was
\* no backup copy stored in at least one of those slots, then collection's
\* health check will raise an alert".  When the window check is quiet, a copy
\* was stored since the start of the slot before the latest one, if the
\* collection is that old.
MissedSlotsAreReported ==
    [][check.stage = "found" /\ check'.stage = "window" /\ check'.healthy =>
          \E i \in DOMAIN Windows : \E start \in SettledStart(Windows[i], now) :
             \E before \in SettledStart(Windows[i], start) :
                before < 0 \/ \E v \in Kept : before < rows[v].created]_healthVars
=============================================================================
