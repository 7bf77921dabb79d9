# DysonFS in TLA+

DysonFS is a file service: a Go server over Postgres (rows), object storage
pools (bytes) and NATS JetStream (events), with workers that analyse uploads
and make derivatives, and REST, gRPC, WebDAV, WOPI and S3 front ends.  Nearly
every rule it keeps is kept by the order of single statements: there are few
transactions, few row locks, and several processes run the same code.  These
modules model those orders, check them with TLC on small instances, and prove
the central invariants with TLAPS for every instance.

Source paths below are relative to `src/internal/` unless they begin with `src/`.

## The system

| Component | State | Operations | Where it is hard |
| --- | --- | --- | --- |
| Direct upload (`handler/routes.go`, `service/transfer.go`) | `persistent_tasks`, `cloud_files`, `file_objects` rows; the blob and the multipart session in the pool | prepare, resume, part presign, complete, cancel, hourly expiry | handlers, cancel and sweep race on one row; the bytes and the rows fail apart |
| Upload events (`eventbus`, `dispatch`) | a durable JetStream consumer, or a channel in memory | publish, deliver, ack, nak | redelivery, loss with the process, backpressure |
| Processing worker (`worker/worker.go`) | the message in hand, a temporary copy of the bytes | process an upload, mark it completed or failed | the file changes between the read and the write |
| Files and objects (`service/service.go`) | the file tree, object rows, recycle marks, flags of derived children, blobs | create, move, delete, recycle, restore, purge, overwrite | purging counts references; moves check before they update |
| Chunked upload (`handler/routes.go`) | a staged file on disk, `upload_chunks` rows | create, chunk, resume, complete | the rows follow the bytes in another step; complete has no claim and removes the staged file in any case |
| Locks and in-place writes (`service/lock.go`, `service/patch.go`, `service/wopi.go`, `handler/webdav*.go`) | `file_locks` rows with an expiry, and no unique constraint | lock, refresh, unlock, patch, PUT, save | the check and the write are apart; a lock expires under its holder |
| Pool migration and replicas (`worker/worker.go`, `service/service.go`) | a task row with a list of files, blobs in two pools | create, copy, switch, delete | a crash between copy, switch and delete |
| Reanalysis and rehash (`worker/worker.go`, `service/service.go`) | flags on object rows | schedule, poll, process, clear | a flag raised again while it is processed |
| Permissions (`service/service.go`) | `file_permissions` rows, a shared cache with groups | grant, inherit, look up, invalidate | a lookup that fills the cache after the invalidation |
| Quota (`service/service.go`) | sums over file rows, a short-lived cache | check, charge | check and upload are apart, nothing is reserved |
| Media cache (`media/cache.go`) | an LRU in memory, files on disk, a pool | get, put, evict, sweep | byte budget, idle time, shared temporary names |
| Module resolution (`module/resolve.go`) | none | select, cascade, order | dependency closure and order |
| S3 server (`s3server/`) | multipart sessions in memory | initiate, part, complete, abort | one lock, sessions lost with the process |
| gRPC services (`grpcsvc/`) | the rows of the REST handlers | uploads in parts and streams, moves, publishing | they repeat what the handlers do with other checks |
| Administration, wiring, analysis, tools, web front end | configuration and rows | CRUD | nothing concurrent of their own |

What makes each part correct, in one line: an upload makes one file and keeps
its bytes; an event is processed until the upload ends; a row that refers to an
object keeps the object and its blob; a file tree is a tree; every received
chunk counts and a file is made once; a lock has one holder; a migrated file is
readable throughout; a raised flag is served; a revoked grant stops being
honoured; the cache stays in its budget.

## The modules

Each component has its module, and an `MC` module that instantiates it for TLC.

| Module | Models | Composes |
| --- | --- | --- |
| `DirectUpload`, `DirectUploadProofs` | the upload protocol through presigned URLs, with the queue, the worker, the expiry sweep and the overwrite transaction | handlers, sweep, queue, worker, pool |
| `FileTree`, `FileTreeProofs` | rows, objects and blobs under create, move, delete, purge and the recycle bin | handlers, the worker that makes derivatives, the bundled action queue |
| `ContentEdit`, `ExclusiveLocks`, `ContentEditProofs` | the lock table and everything that edits bytes in place; `ExclusiveLocks` is what the table promises, and `ContentEdit` is shown to implement it | WebDAV, WOPI, REST and upload handlers, the rehash worker |
| `ChunkedUpload`, `Quota`, `ChunkedUploadProofs` | uploads whose bytes pass through the server; `Quota` is what they are charged and admitted by | HTTP and gRPC handlers, the worker that processes the staged file |
| `PoolMigration`, `PoolMigrationProofs` | migration tasks, their workers, and writers next to them | workers, handlers, pools |
| `Reanalysis`, `ReanalysisProofs` | metadata of uploads, the queue that replaces it, repairs by administrators | upload completion, queue, administrators, subscribers |
| `FileAccess`, `FileAccessProofs` | inherited permissions and the shared cache of their lookups | REST and gRPC handlers, the cache |
| `MediaCache`, `MediaCacheProofs` | image transforms and their three caches | requests, sweeper, editor, rehash worker |

They are written to be proved about: sets and functions, one action per
statement or call, invariants as named conjuncts, no recursive operators.
Every module but `DirectUpload` takes a constant `Worlds`, a set of
deployments: `Init` picks one, no step changes it, and so one run covers
several instances that differ in who sends what and in what may go wrong.  The
properties name the modes they assume, and every mode occurs in a world.

`IInv`, in every module, is an inductive invariant that TLC checks and TLAPS
proves: the type invariant, the plainer safety invariants and what the proofs
carry from step to step, each a definition of its own.

What comes next: models of the parts listed as not modelled or partly modelled
that have state worth it (the recycle bin's children, two migration tasks over
one bucket).

## DirectUpload

### State

| Variable | In the code |
| --- | --- |
| `task` | `persistent_tasks`: `up` = `upload_status`, `status`, `src`/`mpid` = whether `source_key`/`upload_id` are stored, `assist` = the client sends metadata and a derivative, `created` = `created_file_id`, `idle` = `updated_at` is past `uploadTaskExpiryAge` |
| `file` | `cloud_files`: `up` = `upload_status`, `key` = the object, `live` = not soft-deleted, `derived` = the bytes its derivatives were made from |
| `object` | `file_objects` rows, named by the key of their blob |
| `blob`, `derivBlob`, `mpu`, `parts` | what the pool holds: sources, client-made derivatives, the multipart session and its parts |
| `url` | presigned URLs that have not expired |
| `queue` | `filesystem.file.uploaded.v1` events not acknowledged |
| `req`, `cancel`, `sweep`, `work` | the local variables of running handlers, sweeps and workers; `pc` names the next statement |
| `cancelled`, `dropped` | history: tasks with an accepted cancel; blobs deleted inside a transaction that has not committed |

The key of a task's blob is `uploads/<task id>/source`, so the model uses the
task as the key.  A request is a process in `Req`; it picks an endpoint and a
task, takes one action per database statement or storage call, and becomes idle
again.  Endpoints that refuse a request change nothing and have no action.

### Actions

`PrepareNew` ... `PrepareReturn` follow `prepareDirectUpload`; `PrepareResume`,
`ResumeTouch`, `ResumeReturn` its resume branch; `PresignRead`, `PresignReturn`
`presignUploadPart`.  `CompleteRead` ... `CompletePublish` follow
`completeDirectUpload` with `TaskService.MarkProcessing` as the claim
(`CompleteClaim`, `CompleteLost`), and `CompleteFail` its `MarkFailed` branches.
`OverwriteRead`, `OverwriteSwap`, `OverwriteCommit`, `OverwriteReload` are the
transaction of `OverwriteFile` under READ COMMITTED: the row is read without a
lock, the UPDATE locks it (`Unlocked`), `purgeObjectIfDereferenced` deletes the
blob at once, everything else appears at the commit.  `Cancel*` follow
`cancelUpload`, `Sweep*` `ExpireStaleUploadTasks`, `Work*` and `ProcessDerived`
the worker, `WorkTake` and `WorkAck` the consumer.  `ClientPut*`, `UrlsExpire`
and `GoIdle` are the client, the pool and the clock.

`trouble` is what may go wrong in a behaviour, chosen at its start from
`Troubles`: with `Crashes` a process may die between two steps (an open
transaction is rolled back), with `Faults` a storage, database or publish call
may fail, and takes the branch the code takes then.  `Durable` selects the JetStream queue, where an
event stays until it is acknowledged and may be delivered again, or the bundled
channel, where it is gone once taken.

### Runs

| Run | Instance | Shows |
| --- | --- | --- |
| `DirectUpload_race` | 1 task, 2 files, 2 handlers, 1 sweep, 1 worker, durable queue, faults and crashes | `OneFilePerTask`, `SweepSparesCommitted`, `ExpiredStaysFailed` and the inductive invariant `IInv`, which contains the type invariant |
| `DirectUpload_overwrite` | 2 tasks that overwrite one file, 2 handlers, 1 worker, in-memory queue, crashes, a user who deletes the file | `CommittedBytesKept`, `CompletedHasFile` |
| `DirectUpload_live` | 1 task, 1 handler, 1 cancel, 1 sweep, 1 worker, a user who deletes the file; with faults and crashes, and with neither | `AbandonedUploadsEnd` in both, `ProcessingEnds` and `CompletedTogether` where nothing fails |

Bounds: two handlers are enough for a race on the claim, since a third meets
the same row; one task is enough where nothing relates two tasks, and the
overwrite run, where two do, has two; one part stands for "all parts arrived"
or not.  Nothing is counted, so no counter is capped.  The instances are
symmetric in handlers, sweeps, workers and fresh files; the liveness run
uses no symmetry.  Deadlock is not checked: a system in which every upload ended and
no client comes back is at rest.

Fairness: a handler that started runs to its end (`WF` on its next step: Go
schedules every goroutine and gin does not cancel it), the sweep runs every
hour for as long as the process lives, time passes (`UrlsExpire`, `GoIdle`),
and the consumer loop takes what the queue holds (`SF`, because a busy worker
disables the taking).  Nothing is assumed of a client, of a cancel handler, or
of a start of any request.  `AbandonedUploadsEnd` is conditional on nobody
touching the task again, since a client may refresh it for ever.

### Proofs (`DirectUploadProofs`)

For every value of the constants, under `Distinct`, `TargetFile` and
`ModesAreSet` (tasks and files are different ids, a target is a file, the modes
are Booleans):

- `Invariance`: `Spec => []IInv`; `TypeCorrect`, `AtMostOneFile`, `BytesKept`,
  `SweepSafe`, `FileIsNamed` (`CompletedHasFile`) and `BothComplete`
  (`CompletedTogether`) follow from it;
- `ExpiredForever`: no step takes an expired task out of `Failed`.

`OneFilePerTask` alone is not inductive: it needs that two handlers never are
past the claim of one task (`OneClaimer`), that no file has the task's bytes
while a handler is about to make one (`NotYetMade`), and that whatever shows a
completion - a handler past the claim, a file, a stale read of one, an event, a
worker - is found only when the task left `Uploading` (`ClaimEndsUploading`).
The sweep's safety adds that an expired or swept task has no such trace
(`ExpiredAlone`), and the survival of the bytes adds that what `Stat` saw stays
until the row refers to it (`BytesAwaitFile`).  These are
`ClaimInv`.  Most steps disturb none of it:
the lemma `UndisturbingKeeps` shows once that a step which creates no new trace
of a completion and takes nothing away keeps `ClaimInv`, and the other steps (the
claim, the file's creation, the overwrite, the deletes) get a proof of their
own, one lemma per group of actions.

`CompletedHasFile` needs that handler, event, worker and row speak of one file:
while a handler is past the claim nobody works on its task (`ClaimerFirst`,
which `ClaimEndsUploading` gives at the claim), and from the link on all of them
name the file of `created_file_id` (`FilesLinked`).  So a repeated link, or a
link after a redelivery, cannot change the file under a worker.

`CompletedTogether` is about two rows that no transaction covers.  The worker
writes the file first, the handler of a client with its own derivative the task
first, and in between the two disagree.  That they agree in the end is only true
where every call succeeds and no process dies (`Untroubled`), and where no other
upload overwrites the file: a second overwrite that fails marks the file
`Failed` under the first one's completed task.  These are conditions of the
property, and `SameTask` shows what the last is for: two tasks with one file both
overwrite it.  `LastSteps` is the rest of the invariant: one worker for a task,
no handler before its last step and no event but an acknowledged one once the
task is `Completed`, and the file before the task or right after it.  Its run has
behaviours without trouble; in those of the run that checks `IInv` calls fail,
and `LastSteps` is what the proof alone shows.

Only model-checked: the liveness properties.

### Left out

The validation of request fields, quota and permission checks of prepare (they
refuse before anything is written), metadata events, the analysis results
themselves, the temporary files of the worker, and the backpressure of the
bundled channel.

## FileTree

### State

| Variable | In the code |
| --- | --- |
| `row` | `cloud_files`: `st` = unused id, live, soft-deleted (`deleted_at`), purged; `parent` = `parent_id`; `obj` = `object_id` (a row without one is a folder); `marked` = `is_marked_recycle` |
| `object` | `file_objects`: `st`, and `key` = `storage_key` |
| `blob` | the keys the pool holds: an upload's key is named after its object, a derivative's after the file it was made from (`storageKey`) |
| `op` | the local variables of a request; `pc` names its next statement |
| `work`, `hand` | the upload goroutine and the action goroutine of a worker |
| `queue` | `actionQueue` of `dispatch/bundled.go`, with its capacity |
| `wish`, `lost` | history: what the owner asked for last; blobs deleted by a purge that died before its commit |
| `world` | fixed in `Init`: which requests each client makes, whether workers make derivatives, whether processes die, which rows a legacy import left sharing one object |

### Actions

Creation is `Create`, `ensureParent`, `CreateInsert`: an upload stores its
object first, then looks at the parent, then inserts the row, so the parent may
go in between and the object stay behind.  `DeriveStart`, `DerivePut`,
`DeriveObject`, `DeriveInsert` follow the worker through `upsertChild` and
`CreateDerivedFile`.  `MoveCheck` and `MoveWrite` are the two halves of
`MoveBatch`, `UpdateParent` the move of the gRPC `UpdateFile`, which has no
check.  `DeleteRead`, `DeleteWrite` are `DeleteFile`; `PurgeRead`,
`PurgeDelete`, `PurgeObject`, `PurgeCommit` are `PurgeFile`, whose
transaction keeps the rows it deleted locked (`Gone`, `Unlocked`) and deletes
each blob at once.  `RecycleBatch` and `RestoreBatch` write the mark and then
`Publish` an action for each file, waiting while the queue is full; `TakeAction`
and `ApplyAction` write the mark again.  `Closure` is the recursive query: the
least set that holds the selection and the children of its members.

Row locks are modelled where they outlast a statement, that is for the rows of
an open purge; the foreign keys of `cloud_files` (a parent that exists, no
child left behind) where a statement could break them.  Reads that only decide
whether a request is accepted are merged with the statement before or after
them when the rows they read are locked or the result is not used again: the
account check of the batch handlers with the first statement, the child query
of `PurgeFile`'s foreign key with its delete.

### Runs

| Run | Instance | Shows |
| --- | --- | --- |
| `FileTree_worlds` | 3 files, 2 objects, 2 clients, 1 worker, a queue of 2, selections of up to 2 files, in six deployments (`AllWorlds`) | `OneMoverAcyclic`, `RowsKeepSource`, `SettledMarks` and the inductive invariant `IInv`, which contains the type invariant |

`AllWorlds` is one run over several instances: `Init` picks the deployment and
no step changes it.  `Moving` moves files while the tree is built, deleted and
purged around them; `Emptying` while a bin is emptied; `Sharing` purges rows
that share an imported object next to uploads; `Deriving` makes and purges
derivatives; `Binning` is one client with its bin and the worker that repeats
its requests; `Updating` uses the unchecked move.

Bounds: a cycle through a move needs a moved file, a file below it and one more
level for a check that looks one level down only, hence three files; two
objects let one be shared or purged while another is made; a queue of two holds an action and its opposite.
Ids are used once.  A cycle needs two movers, which is why `OneMoverAcyclic` is
conditional (`LiveAcyclic`, without the condition, does not hold: see Divergences); `SettledMarks`
assumes one client that waits for its answers, one action worker and no death,
because with two of either the order is the scheduler's.  No liveness is stated
of this module and no fairness assumed; a system whose clients are done is at
rest, so deadlock is not checked.

### Proofs (`FileTreeProofs`)

For every value of the constants, under `IdsAreDistinct`, `QueueHasRoom`,
`WorldsAreSo`, `SelectionsAreSo` and `NoneIsNoAction` (ids of files and objects
differ, the queue holds an action, a deployment and a selection are what their
names say, an empty hand holds no action):

- `Invariance`: `Spec => []IInv`;
- `TypeCorrect`, `SourcesAreKept` (`RowsKeepSource`), `MovesMakeNoCycle`
  (`OneMoverAcyclic`) and `MarksAreWishes` (`SettledMarks`) follow from it.

The invariant is `TreeInv`, which is inductive by itself and has two halves that
do not depend on each other, and `MarksSettle`.

*The store.*  That a row keeps its object is not inductive: a purge deletes the
object and its blob long before its commit takes the rows away.  `PurgesApart`
says what makes that safe: an open purge holds rows no other purge holds, and
an object it deleted is referred to by its own rows only.  `BlobsKept` then
says that a blob which is gone belongs to the rows of such a purge (or of one
that died, `lost`).  A new row could still name a deleted object, so
`PendingIsFresh` and `PendingApart` add that the object of a creation in
progress is stored, that no row refers to it yet and that nobody else is about
to insert one, and `KeysAreOwn` that no other object has the key of an uploaded
one, so deleting a derivative's blob hits no upload.  Most steps touch none of
this and are dealt with once (`UndisturbingKeeps`).

*The tree.*  `LiveTree` is the least closed set, and the proof never computes
it: the files a move may not go to are those inside every set that holds the
moved files and the live children of its members (`Holds`).  A step that makes
no row live and gives none a new parent leaves every such set such
(`ShrinkingKeeps`), a new row is a leaf and can be added to it (`GrowingKeeps`),
and after the update of a move a cycle would lie wholly outside the set, where
nothing changed, or meet it, and then leave it through the target
(`MoveKeeps`).  `MovesStaySafe` carries the check of a move to its update.

*The marks.*  `SettledMarks` speaks of states in which nothing is under way, so
by itself it says nothing of the way there.  `LastIsWish` does: of all that is
still to be done to a file's mark, what is done last (an action to publish,
else the last of the file in the queue, else the one in hand, else the mark as
it stands) is what the owner asked for last.  Publishing appends
(`PublishKeeps`), taking moves the head into an empty hand, which is the last
only when no other follows (`TakeKeeps`), and applying writes it to the row
(`ApplyKeeps`); every other step leaves marks and actions alone
(`MarksLeftKeep`), except a new request, which overrides what is queued by
having its own actions still to publish (`MarkKeeps`).  That last step needs the
one client: it has published everything before it asks again.

### Left out

Names, workspaces and ownership (they only refuse a request), permissions,
the derivative flags of an object, in-place writes and overwrites, listing, and
file actions over NATS.

## ContentEdit

### State

| Variable | In the code |
| --- | --- |
| `lock`, `first`, `aged` | `file_locks`: the rows of each key, the one with the lowest id, the tokens whose `expires_at` has passed |
| `row` | `cloud_files`: folder, file or deleted, name and object |
| `blob`, `sized`, `hashed`, `flagged` | objects with bytes; whose row has the size and the hash of these bytes; whose row says `needs_rehash` |
| `op`, `held`, `sent` | the request of each client, the lock token it was given, whether it has sent one |
| `rehash` | the batch of a rehash pass and what it has read |

A lock row is found by its key, a file id or a WebDAV path that named no file
when it was locked.  No unique constraint protects the table, so a key may have
several rows, and a query takes the first.  Of bytes, sizes and hashes only
this is kept: whether one is that of the bytes stored now.

### Actions

`AcquireRead`, `AcquireInsert`, `AcquireDone` are the transaction of
`AcquireLock`, whose read and insert others may come between; `Age` and `CleanExpiredLocks` the clock and the cleaning;
`RefreshLock` and `ReleaseLock` the rest of `lock.go`.  `DavRequest` starts a
WebDAV request with the temporary locks of x/net/webdav (`LockCreate`,
`Confirm`, `Release`), which then opens, streams and commits (`LockOpen`,
`OpenForWrite`, `StreamToStorage`, `CloseNewFile`), deletes, makes a folder or
moves (`MoveOver` removes the destination, `FindSource` and `Rename` follow).  `WopiLock` covers LOCK and UNLOCK_AND_RELOCK; `EditCheck`,
`PatchRead`, `OverwritePut`, `OverwriteFails` and `OverwriteUpdate` the saves,
patches and content updates; `FastOverwritePut` and `FastOverwriteCommit` an
upload that writes in place; `OpenForRead`, `EnsureOpen`, `Served` a reader.
`RehashScan`, `RehashRead`, `RehashWrite` are the rehash queue.  `Crash` ends
the requests with the process.

### Run

`ContentEdit_worlds`: 2 names, 3 files, 3 objects, 3 tokens, 2 clients, 1
worker with a batch of 2.  `Naming` is WebDAV clients that create, delete, make
folders and rename; `Editing` editors that lock what they edit; `Failing` locks
that overlap or time out, tokens in an `If` header and a death; `Replacing`
uploads in place next to readers, of files that share an object or do not;
`Settling` one request each, whose edits are then rehashed, also with entries in
the queue that no file needs (`backlog`).  Two modes narrow what may interleave
with a lock: `serial` keeps the transactions of `AcquireLock` on one key apart,
`steady` keeps everybody else still from the lookup of a lock or a path to the
end of the transaction.  The code ensures neither; deployments without them are
in the run, and the properties that need them say so.  It shows

- `LocksAreExclusive`: the lock rows implement `ExclusiveLocks`, with the holder
  of a key the first of its rows.  Where transactions overlap, a token may join
  a key that is held: one of the two is the holder, the other stays behind it
  and follows when the holder goes.  Where they do not (`serial`), a key that is
  held stays with its holder alone until it is given back or times out.  In
  either case a token has one key at most, and a row goes only with its token;
- `OneFilePerName`: the temporary locks keep names unique, although neither
  `openForWrite` nor the schema checks them.  That holds under `NamesGuarded`:
  no MKCOL or MOVE, which take no look at the name, and either locks that are
  taken one at a time (`serial` and `steady`) and outlive their requests, or a
  single client that makes files, under any locks.  The condition is not for convenience: two PUTs whose temporary locks
  time out under them leave two files of one name;
- `NoLostEdit`: an editor under the lock of the file replaces the bytes it read;
- `IInv`, the inductive invariant of the proofs with the type invariant,
  `SizesFollow` (the row has the size of the bytes, once their write is done)
  and `FlagCoversStale` (it has their hash or the flag);
- `EditsSettle`: every edit of a file that stays is rehashed in the end, so its
  row has the hash of the bytes and no flag, provided that the flagged objects
  no file refers to, which each pass skips and leaves in the queue, do not fill
  a batch.  With a batch of 2 one of them leaves room and two do not; a flag
  that was cleared for other bytes does not count as settled.

`NoLostEdit` and `SizesFollow` hold under `EditsGuarded`: clients edit only
under a lock, locks are taken one at a time (`serial` and `steady`) and do not
time out, and no object starts out shared.  It leaves out what writes without a lock or under one
that says nothing of the file: an upload that overwrites in place, and a PUT
whose `If` header names the token of a lock taken while the path was free.
`FlagCoversStale` needs no lock, only that no write overlaps a rehash, no
process dies between Put and UPDATE, and no upload overwrites in place, which
stores the size and the hash after the bytes and raises no flag.

`Doc_unified` is one WebDAV client and one WOPI client (`Unifying`): see
Divergences.  Fairness: a request and a rehash pass that have started go on.
Two clients and one name are enough for every race on a key; the third token is
for a lock taken while two are held; a batch of 2 next to 3 objects leaves one
waiting.

### Proofs (`ContentEditProofs`)

`Spec => []IInv` (`Invariance`), and from it `LocksRefine`
(`LocksAreExclusive`), `NamesAreUnique` (`OneFilePerName`) and `EditsAreNotLost`
(`NoLostEdit`), for any number of paths, files, objects, tokens, clients and
rehash workers; `SizesFollow` and `FlagCoversStale` are parts of `IInv`.
Assumed are that paths and file ids differ and `None` is none of the values
(`KeysDisjoint`), that the files there are at first can have objects of their
own (`ObjectsEnough`), and the types of the deployments.  Nothing is assumed of
how the transactions of `AcquireLock` interleave: the deployments include those
in which they overlap and in which anybody acts in the middle of one.

*Locks.* The mapping takes the first row of a key for its holder and the others
for what stays behind it.  `OneRow` says that the holder is one of the rows if
there are any, that a token locks one key, and what a transaction knows: the
token it is about to insert locks no key.  Only where transactions do not
overlap does it add that a key has no second row, and that the key is free at
the insert.  `InTransaction` shows what a request that is in the transaction has
got there by, and what others leave alone; `StillApart` that nobody else adds
its token.  Every write of the table is then one of three (`LockSteps`): none,
one row comes (`OneComes`, `Acquire` or `Join` of the table), or the rows of
some keys go (`SomeGo`, `GiveBack`).  `Writers` says which actions
write which variable, so that types are shown only where something is written;
`LocalsSet` types the locals, which `TypeOK` needs.

*Names.* `NamesApart` is the property together with what a maker relies on: its
name is free until it makes the row.  A step that makes or deletes a row is one
of those in `MakesNames` and `DeletesNames`.  With one maker nobody else can
take the name.  With several, where locks are taken one at a time, `PathsGuarded` says what
keeps them out: a request
that has its locks holds the path, or the file that is there while the path is
free (`Guards`), and one that is taking them is on its way to that
(`WillGuard`).  Two requests cannot both guard one name (`OneGuard`), because no
two clients have a token in common (`RequestsFit`), and a guard goes only by its
owner's steps (`HolderGoes`, `GuardsStay`): a release names a token of the
request itself.

*Bytes.* `ObjectsApart` says that objects that do not start out shared never
become so: `FreshObject` is no row's, and one that is recorded is one request's.
`EditsApart` is the heart of it: a request between its check and its last write
holds the lock of the file, so two are never in there for one file (`OneEdits`),
and what it read or wrote is what is stored (`now`).  `NoLostEdit` is the case
of a patch at its write, and `SizesFollow` that of a write at its UPDATE.
`BytesGo` lists the ways in which a request changes bytes, sizes, hashes and flags.
For `FlagCoversStale` it is the rehash that might clear a flag for bytes it did
not read: `RehashApart` says that in a deployment without overlap it never has
an outdated copy.

The invariant found what the conditions of these properties had left out: the
run had no deployment in which two clients make files under locks that time
out, or one in which an upload in place meets an edit under a lock, so weaker
conditions than the ones stated had passed it.

### Left out

Listing, dead properties and quota of WebDAV, nested folders (paths are flat
names), the contents of a patch, WOPI's tokens and file names, locks of
different depth.

## ChunkedUpload and Quota

### State

`task` is the task with its `upload_chunks` rows and the older column with a
list; `staged` the file in the temporary directory, for each chunk a hole, the
client's bytes or others, and its size; `files` the files a task made, in order;
`events` the events not handled; `req` the requests; `client` what the client
believes.  `Quota` has no state: levels, perks, the usage that an account, a
workspace owner and an organization are billed, and the two checks.  Accounts
have a level, a perk and what Valve says of their quota (0: no answer); the
limit of a drive is what Valve says of its owner, and without an answer the
leveling and the perk of whoever uploads (`DriveTotal`).

### Actions

`CreateUploadTask` and `CreateMultipartUpload` insert a task that was admitted;
`UploadChunk`, `UploadMultipartPart` write at the offset (`WriteUploadChunk`,
`WriteOversized`, `WriteFails`), and then the row (`UpdateUploadedChunk`,
`RefusePart`, `RowFails`).  `CompleteUpload` and `CompleteMultipartUpload` load
the task, check it (`Accept`, or `Refuse` and `RefuseMultipart`, of which the
former removes the staged file), and go through `Inspect`, `Put`, `RecordFile`,
`PublishFileUploaded` and `MarkCompleted`; `Abandon` and `MarkFails` are their
error branches.  `UploadForm` and `UploadStream` upload in one request.
`ProcessUploadedFile` and `RemoveProcessed` are the worker, which also marks the
task as completed, `ProcessFails` its errors, which mark it as failed or leave
it; `CleanupTempArtifacts` the hourly cleaning, `Restart` a restart.

### Run

`ChunkedUpload_worlds`: 3 uploads, 3 chunks, 2 requests at a time, at most 3
files of one task (`MaxFiles`).  `HttpClients` and `GrpcClients` have one upload
whose client resends, completes early, again or after a pause, sends a byte too
many, or cancels; `Failing` one failing call, a restart, or both, also with a
client that completes again; `Racing` completions that overlap; `Sharing` three
uploads that do not all fit the quota of a drive, by its owner or by another
member of a higher level, with and without Valve, `Organized` that of an
organization's plan.  It shows

- `FilesWhole`: a file has all of the client's bytes and their hash;
- `SingleFile`: a task makes one file.  Neither protocol claims the task, so it
  is stated for completions that do not overlap, and over HTTP for clients that
  do not complete again;
- `QuotaKept`: the plan is kept as long as completions do not overlap.  The
  charge of a drive is kept within its limit as long as uploads come one after
  the other: the owner's quota by Valve, and without its answer that of one of
  the accounts that upload.  That it is not the owner's then is `Doc_fallback`;
- `UploadsEnd`: a client that goes on is told of its success in the end, also
  after a failure or a restart.  Over gRPC it may be refused for good instead:
  once the worker has marked the task, parts and completions are answered with
  an error; what is left to the client then is that the file exists;
- `IInv`, the inductive invariant of the proofs, with the type invariant,
  `RowsStaged` (a chunk that has a row is staged, until the file exists) and
  `DerivedFromFile` (derivatives are of the file's bytes).

`Careful` names the clients of whom the code can keep the promise.  An upload in
one request always is.  An upload in chunks is, if completions do not overlap,
nobody pauses for half an hour, and over HTTP no completion comes early and no
chunk is a byte too long (the one removes the staged file and leaves the rows,
the other has written into its neighbour before it is refused); and then either
nothing fails and an HTTP client completes once (`Once`), or the client sends
just what it takes for missing (`Strict`): it survives a failed call over HTTP,
or a restart.  Weaker conditions fail, as TLC shows when one of the worlds is
added: a client that resends may do so while the worker removes the staged
file, and a second completion then stores a file with holes.

Fairness: handlers and workers go on (`WF`), and a client goes on
with an upload it began (`SF`, since two requests serve three uploads); no
client has to come back after a pause.  Three chunks distinguish the first,
a neighbour and the last, which sets the size.

### Proofs (`ChunkedUploadProofs`)

`Spec => []IInv` (`Invariance`), and from it `FilesHoldTheBytes` (`FilesWhole`),
`OneFilePerTask` (`SingleFile`), `RowsAreStaged`, `DerivedFromTheBytes` and
`QuotaIsKept` (`QuotaKept`), for any number of tasks, chunks and requests, any
sizes, rates and plans.  Assumed are the types of the worlds, at least one
chunk, finitely many tasks (their bytes are summed), and that `None` is none of
the values (`Bounds`, `WorldsTyped`, `TaskFinite`, `NoneIsNone`).

That files are whole is not inductive, because a completion checks the rows and
the size of the staged file, not its bytes.  What it needs differs with the
client, so the invariant has a part for each regime: in one request the staged
file is whole from the start (`Recorded`); when nothing fails it stays whole
until the worker has read it (`StaysStaged`, with `Claimed`, that no second
completion or event is on its way); and a strict client keeps in step with the
server: what it has been told of is staged, what it is sending it has not been
told of, and nothing is sent while a completion or an event is under way
(`CompletesInStep`, `SendsInStep`, `EventsInStep`).  `ReadsGood` carries what a
completion has read to its file.  `QuotaKept` needs that an admitted completion
stays admitted (`StaysAdmitted`) and that the one upload under way fits
(`HasRoom`, which also keeps track of who has marked the task); the lemmas on sums show that `Quota`'s folds over the rows grow by
the charge of the file that is added, by induction over the number of tasks.
The proof has a lemma for each action and a part of `IInv`, and two for what an
action leaves alone.  It found two errors of this module that TLC's first worlds
did not: `FilesWhole` was stated for more clients than the code serves, and a
conjunct of the invariant did not cover the completion's last steps.

### Left out

The rounding of bytes to MiB, the usage cache, the usage of an organization as
reported by another service (`sharedQuotaClient`), quota records that are set over
gRPC, the other fields of a file request.

## PoolMigration

### State

`pool` and `live` are the columns of the rows, `stored` and `latest` the bytes
under a pool and a key and whether they are the last written, `task` the
`persistent_tasks`, `work` and `write` the locals of workers and writers.  A row
has a storage key in its own column (`own`) or goes by that of its object.
Pools with the same configuration are one place (`twin`).

### Actions

`CreatePoolMigrationTask` is the endpoint; `Claim` the conditional update of a
worker, `Pick`, `Get`, `PutTarget`, `UpdatePool`, `CountRefs`, `DeleteSource`,
`Progress`, `Finish` are `migratePool` and `moveFileToPool` statement by
statement, `Fault` their error branches, `ResetStale` and `GoIdle` the reset of
tasks that have been idle for 15 minutes, `WorkerDies` a death.  `WriteRead` and
`WritePut` are a write in place, `DeleteFile` a delete.

### Run

`PoolMigration_worlds`: 2 files, 3 pools, 2 tasks, 2 workers, 1 writer.
`Moving` moves files that share an object while workers die and calls fail;
`Stalling` gives a task to a second worker while the first goes on; `Writing`
writes between the runs, also between pools of one configuration.  It shows

- `RowsReadable`: the bytes of every row are in the pool it names, at every
  moment.  Two assumptions are named: `KeysCounted` (rows that share a key have
  it in their own column, which the count before the delete looks at) and
  `OneWay` (no task fills what another one empties): without either the code
  deletes bytes that a row needs;
- `WritesSurvive`: they are the bytes written last, if no write overlaps a move
  and no two rows share an object (`KeysApart`);
- `TasksEnd`: a task that was created ends;
- `IInv`, the inductive invariant of the proofs, with the type invariant,
  `OneRunner` (one worker runs a task, unless one stalls) and `CompletedMoved`
  (a completed task left no file behind).

Fairness: workers and writers go on, the ticker starts passes, the clock runs.
Two files show a run that is half done; two rows of one key and two tasks the
cases the count is for.

### Proofs (`PoolMigrationProofs`)

`Spec => []IInv` (`Invariance`), and from it `FilesReadable` (`RowsReadable`),
`OneRun` (`OneRunner`) and `WritesKept` (`WritesSurvive`), for any number of files, keys, pools, tasks, workers
and writers, and any mix of deaths, stalls, faults, writes and deletes.  Assumed
are the types of the worlds, that there are finitely many files (`File` is
counted when a task is created) and that `None` is none of the values
(`FilesFinite`, `NoneIsNone`).

`RowsReadable` is not inductive: that a delete takes nobody's bytes depends on
what the worker found some statements before.  `MovesAreSafe` keeps that: at
`update` the copy exists, at `count` the row has left the source, at `delete` no
live row of the key is in the source pool.  The last is what the count of
references gives, with `KeysCounted` for the rows it does not look at, and what
other workers keep, since by `OneWay` no row enters a source pool.  That no
other pool lies in the store that is deleted from is the lemma `OnlyItself`.
`LocalsSet` types the locals of a busy worker; `RunsAreMarked` (the task of a
worker is `processing` and not idle) makes `OneRunner` inductive, because a claim
needs a pending task and a reset an idle one.  `CompletedMoved` follows from the
lemma `LeftShrinks`.  Steps that only add bytes, and workers that withdraw, are
one lemma (`AddingIsSafe`); `StepSafe` goes through the statements.

`WritesSurvive` needs to know that a worker copies the bytes written last and not
a stale copy, such as a dead worker leaves in a target pool.  `CopiesAreLatest`
says so: a writer runs beside no worker and puts where the row still is; what a
worker is about to get is the latest if it is there at all, what it puts is what
it got, and what it is about to name in the row is the latest.  `OneWay` again
makes it inductive: while one worker copies, nobody puts into the pool it reads,
so the stale copy a worker leaves behind is never read back.  `RowsLatest`,
`Quiet` and `Copied` are its parts, `CopyStays` the case of another worker's put
or delete, `StepCopies` the statements in order.

### Left out

Replicas, which nothing in the code reads back, the progress a client polls, and
derivatives, whose rows are moved like others.

## Reanalysis

### State

`object` is the metadata of an object (whose it is, its EXIF tags), its flag and
its attempts; `thumbs` the derived children; `ripe` objects whose `updated_at` is
30 seconds old; `seen` what the last snapshot sent to other services said;
`upload` how far the completion got; `work` and `repair` the locals of queue
workers and of administrators' repairs.

### Actions

`StoreClientSourceMetadata`, `ScheduleSourceReanalysis` and
`StoreSourceAnalysis` are the completion of an upload with and without the
client's metadata.  `Scan`, `Take`, `Retire`, `Download`, `DownloadFails`,
`ApplyRead`, `ApplyWrite`, `Reload`, `Publish`, `ClearReanalysis` are a pass of
the queue.  Any of its calls may fail (`DownloadFails`, with `FailReanalysis`,
which counts the attempt), and the update that counts or clears may fail too
(`UpdateLost`).  `RepairStart` ... `RepairStore` are the repair over the files an
administrator selected; `RepairRead` reads the metadata that `RepairStore`
writes back.
`WorkerDies`, `DeleteFile` and `Ripen` are the world.

### Run

`Reanalysis_worlds`: 2 objects and a batch of 2, 2 tags, 2 workers, 2
administrators.  `Queueing` runs two workers with deaths, failures and lost
updates, `Breaking` one worker with an object that cannot be analysed,
`Repairing` repairs next to the queue.  It shows

- `ClearedWasPublished`: an object leaves the queue with success only after a
  snapshot with the server's metadata was sent, unless somebody repairs;
- `TagsKept`: the queue loses no tag, unless somebody repairs;
- `QueueDrains`: it gets empty, whatever dies, fails, is lost or cannot be
  analysed; each worker may lose one update;
- `IInv`, the inductive invariant of the proofs, with the type invariant,
  `TriesBounded` (three attempts, with one worker that lives and loses no
  update) and `OneVariant` (repairs that do not overlap make one child).

`Republished` says what `ClearedWasPublished` does without the exception, and
fails in the `Repairing` deployments: see Divergences.  Fairness: workers
go on and time passes.  Attempts are bounded by the code.

### Proofs (`ReanalysisProofs`)

`Spec => []IInv` (`Invariance`), and from it `Published` (`ClearedWasPublished`),
`GivenUp` (`TriesBounded`), `OneThumbnail` (`OneVariant`) and `NoTagLost`
(`TagsKept`), for any number of objects, workers and administrators and any
batch (`BatchPositive`, `WorldsTyped`).

Each property rests on what somebody found some statements ago.  `Working` keeps
what a worker has done to get where it is: that the object it publishes has the
server's metadata, that the object it clears was published, so the flag can only
go then (`QueuedRow` says who may have a flag at all).  A repair next to it
takes the first of these away, since it writes old metadata back.  `Counted` ties the
attempts in the row to those in the worker's copy and to the downloads there
were, which holds because a single worker takes an object once.  `TagsMerged`
says which sets of tags there can be: the client's, with or without the
server's; since both are the same for every pass, a pass that writes what it
merged from an old read still writes no less.  `OneChild` says that a repair
which found no child meets none when it creates one.

### Left out

What an analysis reads, video and audio, the scan that schedules candidates in
bulk (its limit is taken before its filter, so a run of it may schedule none).

## FileAccess

### State

`parent`, `live`, `rows` and `pool` are the database; `cached` and `groups` the
shared cache, with an entry for each file and permission and a group for each
file; `request` the requests; `excused` is a history variable, the cached
lookups that no invalidation has to reach.

### Actions

`fileInfo`, `listFilesMetadata`, `listChildren` start a lookup, `LoadSource`,
`LoadRows`, `LoadChain` (or `LoadChainFails`) are its three queries, `Store` and
`AddToGroup` its entries (`StoreFails` and `AddToGroupFails`, whose errors the
code ignores).  `UpdateFilePermissions`, `SetFilePublicDelete`,
`InsertRow`, `Move`, `DeleteFile` write, `LoadDescendants` (or
`LoadDescendantsFails`) and `Drop` (or `DropFails`, ignored as well) invalidate.  `UpdatePool` changes a pool,
`Expire` is the five minutes of an entry, `Die` a death.

### Run

`FileAccess_worlds`: a file in a folder and a folder beside it, 2 requests, at
most 2 updates (`MaxWrites`).  `Listing` lists next to updates and moves,
`Managing` takes a manager's grant away, `Publishing` publishes from another
service, `Pools` goes through all permissions of pools, and `Lost` loses the
invalidation of a move.  In the deployments with `faults` any query of the tree
and any call of the cache may fail.  It shows

- `CacheIsFresh`: after an update has invalidated its groups, no cached lookup
  is stale, except the excused: one that overlapped an update, that misses a
  group after a failed query or call of the cache, or that was in a group which
  an update would have invalidated if it or its call of the cache had not failed
  or died after its commit;
- `StaleEnds`: such an entry does not survive either;
- `GrantsHold`: `GrantsWereReal`, a lookup found what the database said at one
  moment (with at most one update meanwhile), and `ManagersOnly`, who replaces
  rows by a grant still has it (with none);
- `IInv`: the inductive invariant of the proofs, with the type invariant and
  `HiddenIsDenied` and `ListedPoolsUsable`, what is shown of files and pools is
  what the checks decide.

Fairness: requests go on and entries expire.  Two updates are needed to make a
grant that never existed, and one to make an entry stale.

### Proofs (`FileAccessProofs`)

`Spec => []IInv` (`Invariance`), and from it `Freshness` (`CacheIsFresh`) and
`GrantsAreKept` (`GrantsHold`), for any number of files and requests, any tree
and any number of updates (`WorldsTyped`, `MaxWritesNatural`, `NoneIsNoFile`).

`CacheIsFresh` says nothing while an invalidation is pending, so it is not
inductive.  `CacheTracked` is: a cached lookup is excused; or it is true and in
the group of every folder above its file, or its request is about to add it
there (`Registering`); or it is in a group that an update under way is going to
invalidate (`Doomed`).  An update keeps this because it is going to invalidate
every place it changes, and a lookup that comes from none of these places is
not changed by it.  The last is a fact about the tree: the ancestors of a file
are the least set that is closed upwards, as in `FileTree`, so the lemmas need
no path and no depth (`AncestorsSame`, `Nearest`, `TruthSame`).  Of each request
under way `Looking` says what its queries have found while nothing was
committed, `Real` what its second query is going to find after one update,
`Granted` what an update's check rests on.

The proof found an exception too narrow: a lookup was excused only if it was
stale already when an invalidation was lost.  But an entry that is true keeps
its old groups as well: when a move of a file under a folder is not invalidated,
a later update of that folder does not reach the file's entry.  TLC confirms it
in `Lost`.

### Left out

Superusers and scopes (they are subjects like others), ownership of workspaces,
the `write` permission (looked up like the others), uploads and purges.

## MediaCache

### State

`bytes`, `row`, `edit`, `rehash` are the image, its row and the edits with their
late rehash; `memory` and `size` the LRU and its counter; `name`, `inode`,
`recency`, `sweep` the directory of the disk cache, what its files hold, their
times and the sweeper's walk; `bucket` the S3 cache; `request` the requests.

### Actions

`ParseParams` chooses the variant, `Acquire` and `Cancel` are the semaphore,
`Fetch` reads the source and escalates, `MemoryGet`, `DiskGet`, `BucketGet` and
`NoCache` look the derivative up, `Render` makes it, `MemoryPut`, `DiskOpen` /
`DiskWrite` / `DiskRename` and `BucketPut` store it.  `SweepWalk` and
`SweepEvict` are the sweeper, `EditBytes`, `EditRow`, `RehashRead`,
`RehashWrite` the edits, `Die` a death.  An open file keeps its inode when its
name is replaced or removed, which is what the atomic rename rests on.

### Run

`MediaCache_worlds`: 1 image with a compressed child, 2 versions of its bytes,
3 requests, at most 3 asks (`MaxAsks`) and 2 edits (`MaxEdits`), 4 inodes
(`Inode`, more than the asks can open, so that no put waits for one), a budget
of 3 bytes and an output limit of 4.  `Places` has no cache and more requests
than places; `Memory`, `Disk` and `Bucket` one tier each, with edits,
overlapping requests and a death.  On the disk two requests read and write next
to each other; only where the mode `twice` allows it do both write one
derivative at once.  It shows

- `NoPartServed`: nobody gets a part of a derivative, neither beside a request
  that writes it nor after a death in a write, unless two requests write it at
  once, which share the temporary name;
- `DerivativesMatch`: what is cached under a key with the hash of the bytes as
  they are is made from these bytes, whatever edits and rehashes came between
  the hash and the read, as long as the image is not edited back to what it was
  (`revert`);
- `DiskFits`: a directory that outgrew its budget is brought back;
- `RequestsEnd`: no place is lost;
- `IInv`: the inductive invariant of the proofs, with the type invariant,
  `BudgetKept` (the counter of the memory cache is the size of its entries) and
  `Bounded` (no more renders than places).

Fairness: requests and the sweeper go on, and who waits for a place gets one
that is free again and again (`SF` on `Acquire`).  Three bytes hold two small
derivatives or a small and a large one, so that puts evict, replace and refuse.

### Proofs (`MediaCacheProofs`)

`Spec => []IInv` (`Invariance`), and from it `PartsUnserved` (`NoPartServed`)
and `CachedIsCurrent` (`DerivativesMatch`), for any number of requests,
versions, edits and inodes, any budget and any deployment (`WorldsTyped`,
`BoundsTyped`).

- The budget.  The total of a sequence is the last of its sums, so `TotalOf`
  gets along without recursion over sequences, and `TotalConcat` is an induction
  over places, for which a set takes the role of the predicate
  (`NatSetInduction`).  From it follow the totals of a new entry, of an entry
  that is taken out (`LengthsWithout`) and of what an eviction keeps
  (`EvictStep`), so the counter is exact after every put and lookup.
- Whole files.  `NamesApart` says that no two names have one inode, and that an
  inode that is being written has the names of its writer's key only;
  `WholeWhenNamed`, where no two requests write one derivative at once, that a
  key has one writer, that what has its final name is whole, and what is about
  to be renamed as well.
- Matching derivatives.  `HashesPast`: a version still to be written has no hash
  in the row, in a rehash under way, in a cache or with a request.  So an edit
  makes no key current that something is cached under already; every other step
  stores only what a request has read, under its key (`StoredStep`), and
  `ReadsMatch` says that of what has been read what `DerivativesMatch` says of
  what is cached.

`Becomes` says once what any step may do to a request (`AllMove`), and
`DiskCases` what it may do to the directory; the lemmas of the invariant's parts
split on these and not on the actions.  The proof asked for more than had been
checked before: the old property spoke of keys in use once edits had settled,
which is not inductive; and a put needs a free inode, which the model had taken
for granted.

### Left out

The other parameters of a transform, formats, presigned URLs of the redirect,
the size of a half written file (it counts whole).

## Divergences

What the documentation, a comment or a test says and the code does not keep.
Each is a definition of its module, and TLC refutes it when it is checked as an
invariant or a property of the deployment that reaches it; for the first two the
runs `Doc_unified` and `Doc_fallback` do so.

| Definition | The code | What is said |
| --- | --- | --- |
| `ContentEdit!LocksAreUnified` | a WebDAV lock on a path that names no file yet is a lock of the path; the file that appears there is locked by its id (`handler/webdav_lock.go:62`) | `src/memo/WEBDAV.md:89` |
| `ChunkedUpload!DriveHasOwnersQuota` | without Valve the limit of a drive is that of the account that uploads (`service/service.go:4016`) | `service/service.go:3945`, `service/service.go:3991` |
| `ContentEdit!LocksExclude` | two overlapping transactions of `AcquireLock` both insert a lock, and both clients are answered with it (`service/lock.go:39`) | `src/memo/WEBDAV.md:85`, `src/memo/CONTENT_EDIT_API.md:29` |
| `Reanalysis!Republished` | a repair writes the metadata it has read back over what the queue wrote, which then publishes it (`service/service.go:2142`) | `worker/worker.go:104` |
| `DirectUpload!CancelMarksFailed` | cancel leaves `upload_status` alone (`handler/routes.go:3276`) | `src/memo/UPLOAD_FLOW.md:552` |
| `DirectUpload!RetryRemainsPossible` | a complete that dies after the multipart session was assembled cannot be repeated (`handler/routes.go:2402`) | `src/memo/UPLOAD_FLOW.md:269` |
| `DirectUpload!CompletedIsProcessed` | an overwritten file stays `Completed` while its new bytes are processed (`service/service.go:3100`) | `src/memo/UPLOAD_FLOW.md:25` |
| `DirectUpload!ReferencedBytesKept` | a blob is deleted inside a transaction that may not commit (`service/service.go:1955`) | `service/service.go:1931` |
| `FileTree!LiveAcyclic` | the check and the update of a move are two statements (`service/service.go:1842`) | `service/service.go:1830`, `service/service_test.go:825` |
| `FileTree!RowsKeepBytes` (with a third object) | all derivatives of a file have one key (`worker/worker.go:797`) | `service/service.go:1931` |
| `FileTree!RestoredSurvive` | a queued recycle is applied after the restore (`worker/worker.go:418`) | `src/web/src/locales/en/drive.ts:141` |
| `Reanalysis!RepairKeepsTags` | a repair replaces the EXIF map (`service/service.go:2127`) | `analysis/analysis.go:370` |
| `ChunkedUpload!ResumeListsChunks` | resume loads the task without its chunk rows (`handler/routes.go:3252`) | `src/memo/CONTENT_EDIT_API.md:203` |
| `FileAccess!PrivateIsPrivate` | publishing over gRPC and making a file private leaves rows beside each other (`grpcsvc/file_service.go:289`) | `src/README.md:508` |

Others are outside what is modelled, or need no model: a disabled transform is
answered with 400, not with the source (`src/README.md:320`); a limit of one
render means no limit (`media/service.go:84`); `poolVisibleTo` shows pools
without an owner that `CanUsePool` refuses (`service/service.go:518`).

More that is hard to test, and that no property covers because the code promises
nothing: a rehash clears the flag by id, also one raised after it read the bytes
(`worker/worker.go:393`); events of the bundled mode are lost with the process
(`dispatch/bundled.go:49`); a failed completion leaves its file `Processing`
(`handler/routes.go:2460`); two purges of the last two rows of an object both
leave it to the other (`service/service.go:1934`); a purge takes a file that has
just been moved out of its tree (`service/service.go:1719`); the derivative flags
are counted and then written (`service/service.go:2009`); a death between the
update of a migrated row and the delete leaves the source's bytes
(`worker/worker.go:296`); two renders of one derivative share a temporary name
(`media/cache.go:151`), so that one may rename what the other has just begun to
write; a GET announces a length and reads the bytes later
(`handler/webdav_file.go:74`).

## Proved and model-checked

Proved for every value of the constants: the theorems of `DirectUploadProofs`,
`FileTreeProofs`, `PoolMigrationProofs`, `ContentEditProofs`,
`ChunkedUploadProofs`, `ReanalysisProofs`, `FileAccessProofs` and
`MediaCacheProofs`.  They state every safety property of the passing runs; only
checked on the instances above is every liveness property, which the prover does
not reach.

## Not modelled

- The S3 server of storage nodes: sessions of multipart uploads in one map under
  one lock, over one backend; request signing is string formatting.
- Module resolution, registries, the failure log: pure computations or lookup
  tables, filled once or read by one page.
- Administration of pools and storage nodes: CRUD with no interleaving of its
  own; what it changes of a running migration is in `PoolMigration`.
- Analysis and rendering: ffprobe, libvips and EXIF parsing are functions of the
  bytes that the modules take as given.
- Legacy migration and repair tools: one-shot programs against a stopped
  service; `FileTree` starts from what they leave.
- Configuration, wiring, authentication and the web front end.
- Within modelled parts: metadata events and file actions over NATS, replicas,
  the usage cache and quota records set over gRPC, derivative flags, listings.
