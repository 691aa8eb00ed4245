# Formal model of backup-repository

TLA+ models of the server in `src/`: the lock table, the upload handler with
version registry, object storage and rotation, the quota, the copying of the
request body through its validators, downloads beside all that, backup windows and
the health check of a collection, sessions with the permissions they carry, and
the reading of the passwords that open them.
TLC checks them on small instances; TLAPS proves every safety property that the
passing runs check, the refinement of `Retention` included, for every size.

## 1. The system

backup-repository is an HTTP server that stores encrypted backups in versioned
*collections*. A collection is configured by a document (a Kubernetes custom
resource or a YAML file): how many versions to keep, how large one version and
the whole collection may be, when uploads are allowed, and who may do what.
Versions are rows of a SQL table plus objects in an object storage. Several
replicas may run against the same database and storage.

| Component | State | Operations | Interacts with |
|---|---|---|---|
| Locks service (`pkg/concurrency`) | table `locks`: id, expiry; primary key on id | `Lock` (SELECT, one time in five a clean-up, INSERT), `Unlock` (DELETE by id) | shared by all replicas; called by the upload handler |
| Upload handler (`pkg/http/collection.go`) | one goroutine per request, with the request's context | admission, lock, numbering, rotation plan, limits, streaming, registration, rotation, unlock | everything below; timeout and recovery middlewares around it |
| Version registry (`pkg/storage/repository.go`, `entity.go`) | table `uploaded_versions`, soft-deleted rows | next number, list, create, delete | upload, download, listing, health |
| Object storage (`pkg/storage/io.go`) | objects by path | write through a buffered writer committed by `Close`, `Exists`, `Attributes`, `Delete`, read | upload, download |
| Rotation and quota (`pkg/storage/rotation.go`, `service.go`) | none | versions to delete, extra space, maximum file size | pure functions of registry and configuration |
| Stream copy and validators (`io.go`, `validation.go`) | one read buffer, running total, number of reads | read, validate, write | request body, object writer |
| Access control (`pkg/security`, `pkg/users`) | none | `DecideCanDo`, roles, access keys, session scope | every handler |
| Sessions (`pkg/http/auth.go`, `pkg/security`) | table of granted accesses; signed tokens | login, refresh, logout, lookup, listing | every authenticated handler |
| Backup windows (`pkg/collections/model.go`) | none | is the window open now, was a time in its last slot | admission, health |
| Collection health (`pkg/health`, `pkg/http/collection.go`) | none | time, size and sum validators, each with its own reading | registry, clock, configuration |
| Server health (`pkg/http/health.go`) | none | probes of database, storage and configuration | external services |
| Download and listing | none | number, row, then object | registry, storage |
| Configuration providers (`pkg/config`) | documents and Secrets, edited outside | get one document | users, collections |
| Passwords and secrets (`pkg/users`, `pkg/security/crypto.go`) | none | document, then Secrets, then comparison | login, every context user, collection health |
| JWT parsing, start-up, deployment | — | — | — |

What is hard here:

* **Interleaving.** A lock is taken with three statements, an upload is some
  fifteen calls to two stores, and requests of all replicas interleave between
  any two of them.
* **Timeouts.** The timeout middleware answers the client but cannot stop the
  handler; the lease is as long as the timeout, and nothing tells a holder that
  its lease has ended.
* **Crashes.** Nothing undoes a half-done upload after a restart: lock rows,
  objects without rows and rows not yet rotated stay.
* **Partial failure.** Errors of the SELECT, of `Close`, of deletions and of
  `Unlock` are dropped or only logged.
* **Stale reads.** Rotation plan and size limit are computed before the stream
  and used after it.
* **Aliasing.** The "previous hunk" of the stream shares the read buffer.
* **A clock that only looks forward.** The cron library has no "previous", so the
  start of a slot is searched backwards minute by minute, for 360 days at most.
* **Configuration under way.** Documents and Secrets are read in separate calls and
  never cached; an edit can fall between any two of them, and between an upload's
  admission and its end.
* **Two records of one session.** The signed token and its row in the database
  are written, refreshed, expired and revoked separately, while users and
  collections are reconfigured under open sessions. A request's claims are read
  twice, too: by the middleware from the token it accepted, and for the context user
  from the Authorization header.

What makes each part correct: uploads of one collection do not overlap; the
newest `maxBackupsCount` registered versions are downloadable exactly as they
were sent, at every moment; a 200 answer is a kept copy; versions leave the
registry oldest first and only for newer ones, and numbers are not reused; the
quota holds; a failed upload leaves nothing behind; the lock comes free again;
an accepted body is stored whole and bears header and footer; a download sends a
version as it was uploaded and misses none that should be there; uploads are let in
exactly during the slots, and the health check raises an alarm when the copies are
too old and only then; nobody logs in without a password that is configured; a
session is served from login to logout or expiry, and never does more than
its user, its access key and its scope allow.

The list of places where this could go wrong, each with its line and the
properties that watch it, is `hazards` in `PROJECT.json`.

## 2. Modules

```
Locks ----------+                    Rotation ------ CollectionHealth --- MCHealth
  |             |                       |                  |
LocksProofs     +------- Upload --------+             BackupWindow
  |                      |    |
  +----- UploadProofs ---+    +-- Download --- MCDownload
              |                       |
              +---- DownloadProofs ---+

Rotation --- SetLemmas --- UploadProofs, HealthProofs
Retention: refined by Upload (IsRetention)
CollectionHealth --- HealthProofs          CopyStream --- CopyStreamProofs
AccessControl --- Sessions --- SessionsProofs
Credentials --- CredentialsProofs
MCLocks, MCUpload, MCDownload, MCHealth, MCSessions: TLC instances
```

**Locks** — `pkg/concurrency/locking.go`. `table` is the SQL table; `phase` and
`target` say where each client is between `Lock()` and `Unlock()`. One action per
SQL statement. A statement may fail without effect when `DbMayFail`, and the code's
reaction is modelled: a failed SELECT reads as "not locked", a failed DELETE is
ignored. `Die` ends a client anywhere; `LeaseExpires` is the clock. `owner` of a
row and `overrun` are history: no guard of the code's actions reads them.
The expiry timestamp is only ever compared with now, so a row is live or expired.

**Rotation** — the pure functions: next number, versions to delete, extra space,
maximum allowed size, with Go's comparisons and their edge cases (extra space 0
is a case of its own; a negative remainder is the "corrupted" error).
`Oldest` returns the set of possible results: they differ only between versions
with equal numbers, where the order is whatever SQL returned. With
`maxBackupsCount` 0 the Go slice is one longer than its operand; depending on its
capacity that is a panic or an empty version among the ones to delete.

**Upload** — `addUploadRoute` with everything it calls in `pkg/storage`, composed
with Locks by EXTENDS: a client of Locks is an upload request. A request also
names the version it creates, so `num[r]`, `size[r]` and `row[r]` are the columns
of that version. An action ends at every call to the database or the storage:

| Action | Code |
|---|---|
| `Refuse`, `Admit` | collection lookup, `CanUploadToMe`, backup window, then `Locks.Lock` |
| `LockStep`, `Release` | inside `Lock`; the deferred `Unlock` |
| `CreateNewVersion` | `FindNextVersionForCollectionId` |
| `CreateRotationStrategyCase` | reads the versions; `VersionsToDelete` is derived from that reading |
| `CreateStandardMiddleWares`, `CollectionIsCorrupted` | limits, from a second reading |
| `CopyStream`, `CopyStreamFails`, `CloseWriter`, `CheckObject`, `CheckObjectFails`, `UploadFilePanics` | `UploadFile` |
| `ContextIsLive`, `ContextIsCancelled` | the check after the two seconds of sleep |
| `RegisterVersion`, `RegisterVersionFails` | the INSERT of the version |
| `UndoRow`, `UndoObject` | `Delete(&version)` |
| `RotateRow`, `RotateObject`, `Uploaded` | `CleanUpOlderVersions`, the 200 answer |
| `ConfigurationChanges` | an edit of the collection's document: `spec` is the document now, `coll[r]` what request `r` has read |
| `Crash`, `ClientCancels`, `RequestTimesOut`, `LeaseEnds` | environment |

Modelling decisions:

* A process crash is a crash of single requests: with several replicas any subset
  of the requests in progress can die together, which is a sequence of `Crash`.
* `Close` of the writer commits the object; the deferred `Close` runs before the
  deferred `cancel`, so a refused stream commits what it had written. A context
  that is already cancelled makes `Close` discard it.
* After a timeout the gin context object is recycled, so a late handler may see
  its own, finished context or another request's live one: both outcomes are
  allowed wherever `ctx[r] = "timedOut"`.
* The object's path is a number (`file`): that of the version when the filename
  template is `versioned`, and 0 when it has no `${version}`.
* A timed-out request may do all that a cancelled one does (its context may have
  ended or been recycled), so runs with *timeout* cover *cancel*.
* `HeedsContext` tells two kinds of storage drivers apart. Those of object stores give
  up at `Exists` and `Attributes` when the context has ended; the driver of local
  directories does not look at it there. `Exists` that fails leads to the undo,
  `Attributes` that fails to a nil dereference past it (`NilDereference`); both are
  possible when `ExamineMayFail`: the context has ended with a driver of the first
  kind, or the fault *examine* (an error, or the I/O timeout). *close* is `Close` alone.
* `Leave` resets the locals of a finished goroutine, which merges states that
  differ in nothing observable.
* Admission is nondeterministic; who is admitted is access control's question.

**Retention** — the promise of the fifo strategy without servers or storage: two
variables and two actions. `Upload!IsRetention` says that Upload implements it
under the mapping "numbers of the active rows, highest number ever registered".

**Download** — `addDownloadRoute` beside Upload, which it extends with readers. One
action per reading: `AskForNumber` or `AskForLatest`, `GetByVersionNum` (no row is an
empty version and no error), `ReadFile` or `ObjectIsMissing`, `SendFile`. Every step
of Upload leaves the readers alone and the other way round; downloads take no lock.

**BackupWindow** — `pkg/collections/model.go` on a clock of ticks. A cron expression
is the set of the times it names, a missing time is an empty set.
`GetStartingDateOfPreviousScheduledRun` is the loop of the code: `Probe[k]` is what
the library answers when asked from `k` minutes back, and the first answer that is
not the next run is the start. `LatestStart` and `InSlot` say without a search what
it is for: the latest run up to now, and from a start up to its end. In the first
second of a slot the code answers otherwise; that second is `Starting`, and
`SettledStart` is the latest start that is at least a second old. Times are compared with minute precision in the code (`RFC822`); cron
times are full minutes, so this is equality.

**CollectionHealth** — the health route and its three validators beside uploads,
with the clock that both read. Uploads are seen through the registry only (begin,
register, rotate one version, end or break off at any point), with Rotation's
decisions; the version is numbered when the upload begins, by the highest active row; the check takes a step for the highest number, the row, the verdict on
the windows with the clock read then, the sizes, and the sum. `ZeroTime` is the
`CreatedAt` of the empty version.

**Credentials** — `Authenticator`, `pkg/users`, `FillPasswordFromKindSecret`, and the
code of the collection's health check. A request reads the document, then every
Secret the document refers to, then compares. `EditDocument` and `EditSecret` fall
between any two of these. `was` is history: what has been true of the configuration
since the request began. Precedence is the code's: the Secret of a user goes before
the password in its document, that of an access key after it.

**CopyStream** — `Service.CopyStream` and the standard middlewares, for any cut
of the body into reads. A symbol stands for a run of bytes: the header is one
symbol, the footer two, so that a read can end inside it. `buff` is the one
buffer, `prevLen` the length of the slice `previousBuff` that points into it.
In Upload the whole stream is two actions, `CopyStream` and `CopyStreamFails`,
which rely on what is checked here: `WrittenIsBody`.

**AccessControl** — `pkg/security/decision.go`, the two tables of
`actions_definition.go`, `roles.go` and the access control list. `Expanded` is the
recursion of `expandRoles` as a recursive function. An access key and a scope are
sequences because their order counts: of a key, the *first* object that names the
collection is used; of a scope, the *last* (the loop overwrites its verdict).
`DecideCanDo` is the conjunction of the three checks of the code.

**Sessions** — `pkg/http/auth.go`, `pkg/security/service.go` and `repository.go`,
`pkg/users`, and the checks at the head of the handlers. A token is its claims:
who logged in (user, access key, scope), the second of issue and the small random
number. Equal claims are equal tokens and equal hashes, so two logins of a second
can collide. `rows` and `revoked` are the table, `known` the tokens in clients'
hands, `open` is history.

| Action | Code |
|---|---|
| `Login` | `Authenticator`, `PayloadFunc`, `LoginResponse`, `StoreJWTAsGrantedAccess` |
| `RefreshToken` | gin-jwt's handler: a new token without a row, which is refused later |
| `Arrive` | the middleware: `exp` strictly ahead, `IsTokenStillValid`; a failing query is a 401 of its own (`"unread"`) |
| `GetContextUser`, `ContextUserMissing` | the claims of the Authorization header, and reading their user and access key anew |
| `CollectionRequest`, `LookupUser` | the permission checks of upload, download, listing, user |
| `LogOut`, `LogOutSession` | revoking the own session, or any one by its id; both may fail at a statement |
| `Tick`, `ConfigurationChanges` | the clock; edits of users and of the collection |

A request has two inputs: `token`, which the middleware accepts from the header, the
query parameter or the cookie, and `header`, what the Authorization header decodes to
(`NoHeader` when there is none). gin-jwt goes on to the other places only when the
header is not of the form it expects, while `GetContextUser` decodes the header in
every case and does not verify it. So the two are independent in the model, and
`Agrees(q)` says that they are the same claims, as for every token in the header.
What the session of a request promises about its limits can be stated for such
requests only; the others are bounded by what their header claims.

A request takes a step for each reading, so a logout or a new configuration can
come between being let in and being served: such a request is still served, with
the profile it has read and the access list as it is now. A removed access key
leaves its sessions without that key's limit (`currentAccessKey` is nil); the
properties say "while that key is configured".

**SetLemmas** — facts about finite sets, least elements and sums, and about what the
operators of Rotation return, that several of the proofs need. **LocksProofs**,
**UploadProofs**, **DownloadProofs**, **CopyStreamProofs**, **SessionsProofs**,
**CredentialsProofs**, **HealthProofs** — theorems, section 5.

## 3. Runs

| Run | Question | Bounds | Result |
|---|---|---|---|
| `locks` | Is a lock exclusive within its lease, its holder backed by its own row, and does the row of a dead holder go away? | 3 clients, 2 ids, failing statements | holds |
| `upload_crash` | Newest copies intact, 200 kept, never "corrupted", limit restored after crashes before rotation and after edits of the limit, fifo refinement; under crash, failing examination of the stored object (the undo or a panic), failing object deletions and failing lock statements | 4 requests, documents with 2 and with 3 copies, bodies of 2 and 3 | holds |
| `upload_live` | Does the lock come free? | 2 requests, every fault but crash and failing deletions, documents with 0 copies at one path and with 2 | holds |
| `download` | Does a download send what was uploaded and miss only what was overtaken; and for the uploads beside it: newest copies intact, 200 kept, quota, fifo refinement, no orphaned object; under timeouts, an unnoticed failure of `Close` and failing row deletions | 4 uploads, 1 download, 2 copies, a driver that does not look at the context | holds |
| `copy_stream` | Is the written object the body, within quota, with header and footer? | bodies up to 5 symbols, buffer 3, quota 4 | holds |
| `sessions` | Are only open sessions let in, and refused only when the row cannot be read; is what a request performs under its token's claims within every limit; does a session end only by its own logout or by one that acts for its user or an administrator? | 2 requests, 2 tokens, 3 kinds of login, any of them or none in the header, clock 0–2 | holds |
| `collection_health` | Are slots found where they are, is the check quiet only over fresh copies and loud only over old ones, is an excess of the sum due to a pending rotation? | clock 0–10, 3 versions, 2 windows | holds |
| `credentials` | Does only a configured password let in, while documents and Secrets are edited; is the answer right without edits? | 2 passwords, a user with a key, a collection | holds |
| `parallel_uploads` | "Do not allow parallel uploads" for requests within their time | 3 requests | violated |
| `rotation_without_upload` | Rotation only for a stored copy | 3 requests, 2 copies | violated |
| `split_footer` | Footer found across the last two hunks | bodies up to 4 symbols | violated |
| `missed_slots` | Missed slots raise an alert | one window without gaps, clock 0–10 | violated |

Why the bounds are enough for the cases in question. With two copies to keep and
four requests, two uploads rotate: the third may crash after registering, and the
fourth then has two versions to delete, as it has when the limit goes from three to
two. Body sizes 2 and 3 lie at and one above `maxOneVersionSize`
2, with extra space 1: one version may use the extra space and a second one may
not. In `upload_live` a version of 4 bytes, allowed at first, is two above the limit,
and the other document has extra space 1 only: the way to `CollectionIsCorrupted`. In the
safety runs all numbers among the versions to delete are distinct, so `OldestOf` is
a function of the numbers and request symmetry is sound; the runs with overruns use
no symmetry. One download is enough, as downloads do not see each other.
A buffer of three symbols against a body of five gives reads that end before,
inside and after the two-symbol footer. Two tokens are every pair that matters for
sessions: a login and its refresh, two sessions of one user, sessions of two users,
two logins in one second, which with one value of the random number are the same
token if they are of the same kind. A lifetime of 1
and a clock to 2 let tokens expire while their refreshed copies do not. Of the three
kinds of login one has an access key and one a scope, both naming the collection
twice with different roles, and each user has a configuration with and one without
its roles and keys.

A second of two ticks and a minute of three make the moments that decide: on a run,
within its first second, at its end, between minutes. The search goes back four
minutes (`Retries` 3); one window runs every two minutes, with gaps between its
slots, the other every five, so that its start is found at some times and out of reach
at others. Three versions against two copies let one rotation fall into a check.
Two passwords are the right and the wrong one; the third value is the empty one.

Fault sets. Each run states its `Faults` and its kind of driver. The two large safety
runs do not take all of them together, because the code does not survive the
combinations: an object orphaned by a *crash*, or by a panic at *examine*, can pass for
the one whose `Close` failed (*close*, or a context that timed out with a driver that
does not look at it), see section 4; *dbCreate* is `rotation_without_upload`; *overrun*
is `parallel_uploads`. `NoOrphanObjects` excludes crash, failing object deletions, and
failing examinations: with them the code does leave objects behind (section 4), and
nothing cleans up later. Hence the driver of `download`, with which a timeout does not
make `Attributes` fail. `upload_live` has the other kind, with timeouts and *examine*;
what it asks is that all these ways out free the lock.
`RotationCatchesUp` excludes failing row deletions (*dbDelete*), which leave rows;
`QuotaIsHeld` is about one document, as a larger limit lets in what a smaller one
would not. *Crash* is excluded from `upload_live`: what frees the row of a dead
holder is the clean-up, `AbandonedRowGoes`.

Deadlock is checked everywhere. `Finished` and `Done` are explicit stuttering
steps for the states where every request has been answered.

Every property comes with a mutant in `PROJECT.json`: a plausible slip in the code
(a dropped guard, an off-by-one, a missing reset) under which the same run finds
the property violated. The mutated operators stand before the originals, marked
`Mutant of`.

## 4. Findings

1. **Late `Unlock` releases the successor's lock** (`locking.go:39`). The DELETE
   names only the id. A handler that outlived its lease (its request has timed
   out, but the goroutine runs on) deletes the row of the request that replaced
   it, and a third request enters beside the second. Run `parallel_uploads`.
2. **Rotation after a failed registration** (`collection.go:132`). No return
   after the failed INSERT: the oldest copy is deleted and 200 is answered
   although nothing was stored. Run `rotation_without_upload`. With one copy to
   keep this deletes the only one, and numbering restarts at 1
   (`repository.go:15`) although `docs/api/collections/README.md:122` says that it
   does not decrease.
3. **Split footer is not found** (`io.go:84`): `previousBuff` aliases the read
   buffer. Run `split_footer`. The same aliasing can also make a footer appear
   that the body does not have, from bytes left over in the buffer.

4. **Missed slots are not reported** (`health/backupwindow.go:43`): an open slot
   silences the window check whatever the newest copy is. With slots that follow
   each other without a gap, like the documentation's own example, an empty
   collection is healthy forever. Run `missed_slots`.

Seen in the model, without a run of its own:

* `collection.go:109` says "delete file from storage if not uploaded successfully",
  and every path but one does. An error of `Attributes` is ignored and its nil result
  used (`io.go:36-37`); the panic goes past the deletion, and the object stays without
  a version (`UploadFilePanics`). It takes no more than the I/O timeout, or the end of
  the request's context with the driver of an object store, between `Exists` and
  `Attributes`. `NoOrphanObjects` is checked and proved for the remaining cases.
* The error of `Close` is dropped (`io.go:29`), so that after a *crash* a leftover of
  equal size at the same path is registered as the new version when *close* fails
  (`NewestAreIntact`; hence the hypotheses (S) and (N) below).
* `collections/model_test.go:20` says of the start of a slot "when date equals start
  date, then return that start date", and `model.go:69` that `IsInWindowNow` tells
  whether a time is between start and end. The code returns the start of the slot
  before, as the assertion under that comment also does: a run within the last second
  counts as the next one (`model.go:86`). In its first second a slot that follows a
  gap is closed to uploads, and the health check can raise an alarm over the slot
  before although a slot is open. `SlotsAreFound` states both: the slots as described
  after their first second, and what the code does within it.
* `utils.go:13` says that `GetContextUser` "returns a User{} that is authenticated in
  current request". It returns the one the Authorization header names, which is the
  same only when the token came in that header; `auth.go:133` accepts it from a query
  parameter and a cookie as well. `WithinEveryLimit` has `Agrees` for this reason, and
  `RevokedByOwnerOrAdmin` speaks of the user a request acts for.
* A request whose row in `granted_accesses` cannot be read is told 401, as if its
  session were over (`security/service.go:31`).
* A download of a number that does not exist answers 500 instead of 404, since a query
  without a row is no error (`ObjectIsMissing`).

Noticed while translating, without a run: `docs/api/users/README.md:42` calls the
scope an allowlist, but of several elements for one collection only the last
counts; `docs/api/permissions.md` describes `backupDownloader` and
`backupUploader` the wrong way round. In the readiness probe `errors.Wrap` of a nil error is nil, so
the mismatches it looks for (`config/filesystem.go:37`, `health/db.go:22`) count as
healthy.

## 5. Proofs

*Locks and uploads*

| Theorem | Statement | Beyond the modules' assumptions |
|---|---|---|
| `LockInvariance` | `LockSpec => [](LockTypeOK /\ HeldIsBacked)` | |
| `LockTypeCorrect` | `LockSpec => []LockTypeOK` | |
| `LockExclusive` | `LockSpec => []ExclusiveWithinLease` | |
| `UploadImplementsLocks` | `Spec => LockSpec` | |
| `UploadExclusiveWithinLease` | `Spec => []ExclusiveWithinLease` | |
| `UploadTypeCorrect` | `Spec => []UploadTypeOK` | |
| `UploadsAreNotParallel` | `Spec => []NoParallelUploads` | no *overrun* |
| `RegistryInvariance`, `RegistryIsRetention` | `Spec => []RegistryInv`, `Spec => IsRetention` | no *overrun*, *dbCreate* |
| `UploadCatchesUp` | `Spec => []RotationCatchesUp` | no *overrun*, *dbCreate*, *dbDelete*; at least one copy to keep |
| `StoreInvariance`, `NewestStayIntact`, `AnswersAreKept` | `Spec => []NewestAreIntact`, `[]AnsweredCopiesAreKept` | no *overrun*, *dbCreate*; versioned paths; (S) or (N) |
| `NothingIsOrphaned` | `Spec => []NoOrphanObjects` | the same, with (N) |
| `SpaceInvariance`, `UploadNeverCorrupted`, `UploadHoldsQuota` | `Spec => []NeverCorrupted`, `[]QuotaIsHeld` | no *overrun*, *dbCreate*; `SameAllowance` |

*Downloads, stream, sessions, passwords, health*

| Theorem | Statement | Beyond the modules' assumptions |
|---|---|---|
| `DownloadsOnlyRead` | `DownloadSpec => Spec` | |
| `DownloadTypeCorrect` | `DownloadSpec => []DownloadTypeOK` | |
| `ReadInvariance`, `DownloadsSendWhatWasUploaded`, `DownloadsMissOnlySuperseded` | `DownloadSpec => SendsWhatWasUploaded`, `MissesOnlySuperseded` | as `NewestStayIntact` |
| `CopyInvariance`, `CopyTypeCorrect` | `Spec => []CopyInv`, `[]TypeOK` | |
| `CopyWritesTheBody`, `CopyHasHeader`, `CopyFindsWholeFooter` | `Spec => []WrittenIsBody`, `[]WrittenHasHeader`, `[]WholeFooterIsFound` | |
| `ActorInvariance`, `SessionsTypeCorrect` | `Spec => []ActorInv`, `[]SessionsTypeOK` | |
| `OnlyOpenSessionsAreServed` | `Spec => AdmitsOpenSessions` | |
| `OnlyOwnerOrAdminRevokes` | `Spec => RevokedByOwnerOrAdmin` | |
| `PerformedIsWithinLimits` | `Spec => WithinEveryLimit` | |
| `LimitsOnlyNarrow` | whatever `DecideCanDo` allows an actor, it allows the same user without access key and scope | |
| `CredentialsTypeCorrect` | `CredentialsSpec => []CredentialsTypeOK` | |
| `OnlyCredentialsAreGranted` | `CredentialsSpec => []GrantedByCredential` | |
| `UneditedAnswersAreRight` | `CredentialsSpec => []UneditedAnswerIsRight` | |
| `SearchFindsLatestStart` | the search of the code is `LatestStart`, and `SettledStart` in the first second of a slot | runs a minute apart |
| `OpenExactlyInSlots`, `SlotsAreAlwaysFound` | `IsInWindowNow` is `InSlot` after the first second of a slot; `HealthSpec => []SlotsAreFound` | slots within the reach of the search |
| `HealthInvariance`, `HealthTypeCorrect` | `HealthSpec => []HealthInv`, `[]HealthTypeOK` | |
| `SumAlarmIsPendingRotation` | `HealthSpec => []SumAlarmMeansRotationPending` | |
| `QuietIsFresh`, `AlarmsAreTrue` | `HealthSpec => QuietOnlyOverFreshCopies`, `NoFalseAlarm` | for the first, at least one window |

They hold for every set of clients, ids, readers, users, sizes, limits, faults,
passwords, bodies and schedules.

### Assumptions

On the constants, in the modules: `NobodyAssumption` (the owner of the empty row
is not a client); for Upload `CollectionAssumption` (the lock id is that of the
collection), `SpecsAssumption` (documents are documents) and `ClientsAssumption`
(finitely many requests: every behaviour up to any point has only those); for
Download `NoVersionAssumption` (the empty row is no version); for Sessions
`LifetimeAssumption` and `MaxTimeAssumption` (times are naturals, a token lives for
at least a second), `LoginsAssumption` (somebody can log in) and
`ProfilesAssumption` (profiles list roles); for Credentials `NoneAssumption` and
`FetchAssumption` (absence and "still to be read" are no passwords); for the windows
`TicksAssumption`, `RetriesAssumption` and `WindowsAssumption` (a second is positive
and not longer than a minute; runs are integers at least a minute apart and not
before Go's zero time). The remaining ones give bounds and limits their types.

The hypotheses of single theorems, each met by the run that checks the property:

* No *overrun* and no *dbCreate*: under these the code does not keep the promise,
  which is what the runs `parallel_uploads` and `rotation_without_upload` show.
* No *dbDelete* for `UploadCatchesUp`: a row that cannot be deleted stays. At least
  one copy: with `maxBackupsCount` 0 the new version itself is one too many, and
  rotation was planned before it existed.
* Versioned paths: at a constant path every upload overwrites the last.
* (S) `StorageIsSound`: no *close*, and no *timeout* unless the driver looks at the
  context; an error of `Close` is dropped (`io.go:29`), and only `Exists` of such a
  driver would notice. (N) `NothingLeftBehind`: no *crash*, *examine* or *blobDelete*,
  and no *timeout* or *cancel* if the driver looks at the context, since `Attributes`
  may then fail. With neither, a leftover of equal size passes for the object whose
  `Close` failed, section 4.
* `SameAllowance`: all documents have the same size limit of one version and the
  same, not negative, extra space, and their numbers of copies differ by one at
  most. The last is needed: from three copies to one, a crash between INSERT and
  rotation, and back to three, and the rotation plan keeps two versions that were
  never counted together; if both use the extra space the collection is reported
  corrupted although no limit of size was touched.
* Slots within the reach of the search: the code does not enforce it; a slot of
  more than 360 days would close early.
* At least one window for `QuietIsFresh`: without windows the check has nothing to
  compare with and is always quiet.

### Arguments

*Locks.* `ExclusiveWithinLease` is not inductive: it does not mention the
table, so a state with a holder and no row satisfies it, and the next INSERT
breaks it. `HeldIsBacked` adds the missing link: as long as an id is not overrun,
each of its holders owns the live row of that id. One row has one owner, hence
exclusion (`BackedIsExclusive`). `BackedStep` shows it preserved, one step per
statement: `CleanUp` deletes expired rows only; `AddLock` meets the primary key;
`Unlock` by another client would need a second holder of the same row;
`LeaseExpires` on the holder's row marks the id overrun; `HolderLeft` keeps the
mark while any holder remains. `UploadStepIsLockStep` then shows that each step of
the handler is a step of the lock protocol or leaves it alone, and
`UploadsAreNotParallel` adds to the invariant that without the fault nothing is
ever overrun.

*Uploads.* Four invariants, each resting on the ones before. That only one request
is in the body at a time (`SerialInv`) makes the rest provable one request at a
time: a step of the request in the body is examined conjunct by conjunct, and for all
other requests only that they are outside the body (`Still`, `Passes`).

* `RegistryInv`: the computed number is above every number ever registered
  (`IsNext`), which needs that a version with the highest number is always still
  active (`NumbersAreDistinct`), since the query of the code sees active rows only;
  and each version in a plan has, the request's own included, as many newer ones
  that stay as are kept (`PlanFits`). `RegistryIsRetention` then maps
  `RegisterVersion` to Retention's upload, `RotateRow` to its rotation, and the rest
  to a stutter; the undo of an upload never finds a row to delete.
* `CatchInv`: what remains after the rest of the plan is counted at each stage:
  below the limit before the INSERT, within it after. `PlanIsFifo` of SetLemmas says
  what `VersionsToDelete` leaves.
* `StoreInv`: whose object is at whose path. As no number is given out twice, no two
  versions share a path, and what is found at the path of a request is its own or a
  leftover of equal path, excluded by (N), or mistaken for its own only by way of a
  failed `Close`, excluded by (S). A registered version without its object has
  enough newer ones, since rotation deletes the row, and plans, first.
* `SpaceInv`: the newest versions together fit in the extra space. `QuotaIsHeld`
  alone is not inductive: the limit is computed without the versions in the plan,
  while after a crash these are still there. What helps is that the versions a plan
  leaves are among the newest (`PlanLeavesNewest`), whose sum fits by induction, and
  that sums grow with their set (`TotalIsMonotonic`).

*Downloads.* `DownloadsOnlyRead` lifts all of this to `DownloadSpec`. A row found by
a download stays registered under its number, active or deleted, and keeps its size
(`RegistryIsKept`); what is opened at its path is, by `StoreInv`, that version's own
object. A row or an object missed is one that `RegistryInv` and `StoreInv` know to be
superseded.

*Stream.* `CopyInv` relates position, output and reads: what was read is what was
written, only the last read can be empty, and before each read the slice
`previousBuff` shows the hunk read last (`PreviousFits`), which is what the empty read
of the end leaves untouched. It is exactly what does not hold after a read with data,
the finding of `split_footer`.

*Sessions.* The middleware reads the table while the property speaks of the
history of logins and logouts. The invariant that joins them is `SessionInv`:
`open` is `rows` without `revoked`, and only stored sessions are revoked. It needs
both halves: a row deactivated before it is stored would open a session that is
closed at birth. Only `Login`, `LogOut` and `LogOutSession` touch these variables;
a refreshed token has no row and is in neither set. `ActorInv` adds that the context
user of a request is the one its header claims, with the scope claimed there: with
it, what `DecideCanDo` granted to the actor is within the limits of that claim, which
for a request that `Agrees` is the login of its session, and a session other than the
request's own is ended for the user or the administrator that the header names.

*Passwords.* `GrantedByCredential` speaks of the verdict only. `BackedInv` says
what is known of the hash that will decide while Secrets are still being read: one to
be fetched was referred to, one equal to the given password was configured there.
`was` only grows, so an edit takes nothing away (`EditKeepsBacked`); each reading adds
a hash that is evidence at that moment. `RightInv` is its counterpart without edits:
each hash is the one in force or is still to be read, so a missing Secret means that
nobody deserved to be let in (`MissingIsNeeded`), and when nothing is missing the
comparison is with the right one (`AllIsRead`).

*Windows.* There is no induction over steps of the search: `Found(w, t, k, r)`
says that step `k` is the first whose answer is not the next run. A found run is the
latest start, since a later one would have been met a step earlier
(`FoundIsLatest`); and the latest start is found in the first step that goes back
before it, which exists because a non-empty set of naturals has a least element
(`LatestIsFound`, `LeastExists`). Both directions need runs a minute apart, the length
of a step. All this is about `SettledStart`; `SettledIsLatest` adds that after the
first second of a slot it is `LatestStart`.

*Health check.* The verdict uses a number, a row and a clock from different moments.
`CheckFits` says what survives of them: the row found is no newer than any version
from its number on, and versions are never created before older ones (`RowsFit`), so a
fresh row vouches for a fresh newest copy even when it was rotated away itself. A
number without a row was overtaken often enough. For the sum, `SpaceFits`
keeps a witness: some set of leftovers, without which the versions fit in the extra
space; when not more versions are there than are kept, it is empty.

Only model-checked: the liveness properties `AbandonedRowGoes` and `LockComesFree`,
which are outside the prover (fairness and ENABLED); that the properties of the runs
`parallel_uploads`, `rotation_without_upload`, `split_footer` and `missed_slots` are
violated; and what the recursion `Expanded` over the roles computes.

## 6. Fairness

* `LockFairness`: statements return (weak fairness of each client's call), the
  clock advances (weak fairness of each expiry), and the clean-up, an independent
  draw with probability 1/5 on every call, is not avoided forever by calls that
  keep happening (strong fairness). That requests keep arriving is a hypothesis of
  `AbandonedRowGoes`, not an assumption: nothing else would ever clean up.
* `FairSpec` of Upload: each handler goroutine is scheduled and its calls return,
  with a result or an error (weak fairness of `Handler`). That a read of a stalled
  request body returns is the request timeout's doing: once its middleware has
  answered, net/http finishes the request and aborts the pending read. No fairness on arrivals,
  cancels, timeouts or on which outcome a call has.

## 7. Not modelled

* Server health: the readiness endpoint calls database, storage and configuration
  provider one after the other and keeps nothing; nothing interleaves with it. A
  probe that fails half-way leaves its `.health-*` object in the storage.
* The inside of Argon2 and SHA-256, JWT signing and the decoding of its parts, YAML
  decoding: functions over strings, no state.
* Time zones and daylight saving in cron expressions: a window is a set of times.
* `StoreDocument`, which nothing calls, and `cache.go`, which is empty.
* Start-up, migrations, routing, rate limits, logging, metrics, the Helm chart.

## 8. Plan

1. Fewer hypotheses: what still holds of the registry when an INSERT fails
   (*dbCreate*), and of the newest copy when all versions share one path.
2. `CredentialsProofs` and `SessionsProofs` share how a reading becomes stale; common
   lemmas if they shorten both.
3. Lemmas on `DecideCanDo` for the order of the objects of a key and of a scope.
4. An upload's admission beside its `CreatedAt` in the properties of the health check.

The set of runs is kept small: a new question joins an existing run where its fault
set allows.
