# BinFlow: a TLA+ verification project

BinFlow is an artifact repository server: one Go process, a SQL metadata store (sqlite or
postgres), a content-addressed blob store on disk (or S3), thirteen package formats on top.
This directory holds TLA+ models of the parts of it where ordering, concurrency and failure
decide whether an artifact survives: the life of a blob from upload to garbage collection,
the dual-write to S3, the resumable upload sessions, the node tree with its quota and trash can,
the pull-through cache, the two outgoing queues (webhooks and push replication), and the scheduler
that starts the maintenance jobs.  TLC checks the models on small instances; TLAPS proves their
safety properties, and the two refinements, for every value of the constants.

## The system and its parts

| Part | Where | State it keeps | Operations | What is hard |
|---|---|---|---|---|
| Blob store | `internal/storage` (`session.go` Commit, `singleflight.go`, `hold.go`, `gc.go`) | files `blobs/<sha>`, in-memory holds (count, TTL) and flights | commit, GC sweep (dry, apply), delete | a sweep decides on a blob while an upload of the same bytes is in flight |
| Reference writes | `internal/repo/service.go` | `blobs` ledger rows, `nodes` rows | put, checksum deploy, delete of a node | file, ledger row and node row appear in separate steps |
| GC faces | `internal/httpapi/system_gc.go`, `internal/repo/cleanup.go`, the CLI | none of their own; the data lock | run a sweep, tear down ledger rows | partial failure of a sweep |
| Upload sessions | `internal/storage/session.go`, `engine.go`; `metadata/substores_upload.go` | `uploads/<id>/data`, the session row, running digests, the live table | begin, append, commit, abort, resume, expiry sweep, close | poisoned appends, restarts, sweeps against live sessions |
| Docker upload registry | `internal/adapter/docker/uploads.go` | `byID`, one lock and two flags per upload, rebuild flights | POST, PATCH, PUT, DELETE, GET, idle eviction | concurrent rebuilds, eviction of a busy upload |
| Scheduler | `internal/scheduler`, `metadata/substores_schedules.go`, the config faces of `internal/httpapi` | `schedules` rows, the kick channel | tick, kick, run, write-back, re-arm; save and delete of a schedule | read-modify-write from two sides, missed windows, clock set back |
| Replication | `internal/replication` | configs, task rows, the brake and its snapshot | enqueue, full sync, drain, claim, HEAD/PUT, retry, revive, brake, stop | lost answers, a crash after the claim, a brake that comes between check and claim |
| Webhooks | `internal/webhook` | subscriptions, delivery rows, the worker pool | emit, claim, send, settle, replay, startup sweep, drain | workers racing for rows, a crash between send and mark, edits in between |
| Remote cache | `internal/remote` | node row and `remote_cache` row, flights, the offline window | lookup, join a flight, revalidate, land, invalidate | coalescing, two rows that must agree, when the window opens |
| Dual-write storage | `internal/storage` (`migration.go`, `failopen.go`, `s3.go`) | S3 objects, the failure window, the replay queue on disk and its index, S3's holds | upload to both, degrade, enqueue, drain, reconcile, migrate, GC on both | two stores that must agree while one fails, a crash between them, goroutines joined by a pipe |
| Node tree, quota, trash, operations | `internal/repo` | `nodes`, `node_props`, `repo_usage` | deploy, delete with capture, copy, move, restore, purge, prune, retention | check-then-act on quota and on empty folders, operations cut short |
| Auth, license, build, bundle, search, audit, keypair, adapters, console, CLIs | the other packages | mostly rows read and written inside one request | | little interleaving of their own |

How they interact: an adapter or the REST face opens an upload session, appends the body and
commits it; Commit takes a *hold* on the digest, publishes the file, and the repository service
then writes the ledger row and the node row and releases the hold.  The GC face (REST, cleanup
engine, CLI or the scheduler) reads the node references, walks the blob directory and deletes what
is old, unreferenced and not held.  Every deploy also checks the quota, creates its ancestor
folders and emits an event, which becomes webhook deliveries and replication tasks; a remote
repository's miss is fetched and landed as a deploy.  The scheduler starts GC, cleanup, backup,
trash retention and replication runs in one serial loop.  All of them share the metadata store,
where every statement is atomic and nothing spans two statements.

`PROJECT.json` lists every part with its status, and under `hazards` what a test of this code
would hardly reach, each at its line.

## Modules

| Module | Models |
|---|---|
| `BlobGC` | Commit from its hold to its rename, the service's reference writes, the sweep and its faces |
| `BlobGCProofs` | its inductive invariant and the theorems |
| `MCBlobGC` | instances for TLC |
| `UploadSessions` | one docker upload: session files, row, handles, registry, evictor, sweeps, restarts |
| `UploadSessionsProofs` | the invariants of its tables and files, and the theorems |
| `MCUploadSessions` | instances |
| `DualWrite` | the migration engine in dual-write mode: sessions, window, replay queue, drain, migration, GC on both backends |
| `DualWriteProofs` | its invariant and the theorems |
| `MCDualWrite` | instance |
| `TeeAppend` | one Append of a dual-write session: two goroutines, a pipe and a mutex |
| `Scheduler` | the dispatch loop, the ledger, the backup face and carrier, clock and process |
| `SchedulerProofs` | its invariants and the theorems |
| `MCScheduler` | instances |
| `Outbox` | the abstract specification of a durable queue: written once, delivered before it is done, nothing sent for a settled entry |
| `Webhooks` | Emit, the delivery rows, the dispatcher's workers, drain, boot, the REST face; implements `Outbox` |
| `WebhooksProofs` | its invariants, the theorems and the proof that it implements `Outbox` |
| `MCWebhooks` | instances |
| `Replication` | task rows, the drain worker with its push protocol, the brake, full sync, stop and boot; implements `Outbox` |
| `ReplicationProofs` | the same for the replication ledger |
| `MCReplication` | instances |
| `RemoteCache` | one path of a remote repository: lookup, flight, contact, landing, offline window, invalidation |
| `RemoteCacheProofs` | its invariants and the theorems |
| `MCRemoteCache` | instance |
| `NodeTree` | deploy, delete, copy, move, restore, purge and retention, statement by statement |
| `NodeTreeProofs` | its invariants and the theorems, with the lemmas on listings and sums |
| `MCNodeTree` | instances |

In all of them every statement on the store, every file-system call that another actor can
observe and every lock acquisition is a step of its own; a section under a mutex is one step.
An operator whose comment starts with "Mutant of" or "Slip:" is a plausible bug of a definition;
it is not used by the specification and shows that a property notices the bug.

### BlobGC

State: for every upload its place in the code (`pc`) and how it came by its blob (`via`: it
published it, a dedup hit, or a checksum deploy); `flight` is the singleflight table; `count`
and `expired` are the hold set; `disk` and `old` the files and which of them passed the grace
period; `ledger` and `nodes` the two tables; the remaining variables are the sweep's locals.
`late`, `lost` and `fresh` are history: an upload that outlived its hold's TTL; one whose count in
the entry is gone or may be, because the entry was purged or a release took off a count that was not
its own; and a node whose reference came from an upload whose flight published the blob.

Actions follow the source top to bottom: `CommitAcquire`, `JoinFlight`, `FlightStat`,
`FlightRename`, `FlightSyncDir`, `FlightEnds` and their failures are `uploadSession.Commit`
with `singleflight.do`; `LedgerPut`, `NodePut`, `ReleaseGCHold` are `putNode` and
`releaseGCHold`; `ChecksumOpen`, `ChecksumLedger` are `PutFromBlob`, which takes no hold;
`StartSweep` to `TeardownDone` are `gcSweep` and the teardown of the faces; `Crash` loses
memory and keeps files and rows.  The digest function is abstracted: `Content` says which
digest an upload's bytes have, `ShardOf` in which directory it lies.  The age of a file is one
bit that is set at any time after the file appeared, so a grace period of any length, zero
included, is covered.

`Spec` lets a hold expire at any time.  `TimelySpec` lets it expire only when the uploads that
hold it are past the TTL on their own account: it is the assumption of `hold.go` that an upload
commits its reference within the TTL, and what the guarantees of `gc.go` rest on.  `OnTimeHolderIsHeld`
is stated and proved under `Spec`, with late uploads: `giveBack` follows a release that takes off
another upload's count, and the property says that nothing else strips a holder inside its TTL.

### UploadSessions

One upload id and everything that touches it.  `path` and `dir` are the directory entry,
`file` the bytes of each inode, `row` the session row.  A *handle* is one `uploadSession`
object; the first comes from BeginSession, later ones from a rebuild (ResumeSession), each with
its descriptor `fd`, running digest `sum` and poison flag.  `reg` is the engine's table of live
sessions, `byID` and `flyer` the docker registry and its rebuild flight, `upLock`, `upDone`,
`upPoisoned` the registry's per-upload state.  Bytes are a small set and a digest is the
sequence of bytes hashed, so "the digest of another content" is representable.

Requests arrive in any order and number and drive PATCH, PUT and DELETE; the evictor and the
expiry sweep (at boot, and online from the cleanup engine) run beside them; Close and a crash
may come at any point.  `RowOutlivesIdle` says whether `storage.session_ttl_hours` exceeds the
registry's idle TTL (the default does not); `OnlineSweep` whether the cleanup leg runs.  A PUT with
a body gives the session's mutex back between Append and Commit or Abort (`PutGoesOn`), keeping the
registry's lock: a handle detached in that gap is left alone.

`overtaken` is history.  ResumeSession reads and hashes the data file first and detaches the handle
it replaces last (`engine.go:325-378`); a file that handle writes or publishes in between, and what
a handle of such a file publishes, is in `overtaken`.  `BlobMatchesDigest`, `OffsetIsFileLength` and
`AckedBytesSurvive` except exactly these files; `BlobIsWhole`, which does not, is what `session.go`
promises and fails (`MCUploadSessionsOvertaken`).

### DualWrite and TeeAppend

`disk`, `s3` and `refs` are the blobs on each backend and those a node row references; `index` and
`files` are the replay queue in memory and its directory, which an enqueue and a remove write in
opposite orders; `window` is the breaker.  A request walks BeginSession, Append and Commit of
`migrationSession` (with or without its S3 arm, or as a resumed session of the disk engine alone),
`enqueueReplay`, the service's reference and `ReleaseGCHold`, or a checksum deploy, which takes no
hold.  The worker is `replayWorker`: passes over a snapshot, `copyBlob` per blob, then the
reconciliation of `diskList` and `s3Set`.  Any S3 call may fail, and a commit that fails may have
stored the blob.  A sweep of one backend is one step here (BlobGC has its gates); `s3Hold` counts
the S3 engine's holds, because a degraded session releases one it never took.  `acked` is history
(what Commit reported and GC has not reclaimed) and so is `excused`: blobs whose debt the code
knowingly or unknowingly does not record, each case of which has its line at the action that adds
it.  The worker's own enqueue of what a reconciliation found missing publishes the file (`Requeue`)
and then the index entry (`RequeueIndex`), and one that fails after the rename leaves the file.  A
node row that cannot be written ends the upload with its hold in place (`Link`).  One of the
excuses is `Unfile`: `remove` drops the index entry under its mutex and the file after it, and an
`enqueue` of the same sha that published its file in between loses it.

`TeeAppend` opens the step `AppendBody`: the request's goroutine feeds the pipe through
`detachWriter`, whose mutex is held while the pipe blocks, and the S3 goroutine reads, flushes
parts, and ends with `detach` and the close of the pipe.

### Scheduler

`rows` is the schedules table, `payload` the backups table, `batch` the rows of the sweep not
yet dispatched *as they were listed*, `hand` the row in hand.  An expression is the set of
instants it triggers at and `NextRun` the least one after a given instant, which is what
`next.go` computes; the calendar search itself is not modelled.  A run is the backup carrier:
read the payload, tombstone, skip or export.  Requests save (validate, payload row, validate
again, read run state, replace the row) and delete (payload row, schedule row).  The clock may
be set back, the process may stop or crash and boot again.

### Outbox, Webhooks and Replication

`Outbox` has two variables: `box`, what became of each entry, and `reached`, the entries whose
receiver confirmed them.  It lets a group of entries appear together, an entry be confirmed only
while it is queued (or was removed while the send was under way), be finished only after it was
confirmed, be given up and queued again, and be removed with its owner.

`Webhooks` names a delivery row by its event and its subscription.  `emitPc` and `picked` are
`Bus.Emit` between its match and its batch insert; `wpc`, `cand`, `dueAt`, `job`, `att`, `out` are
the workers' locals in `ClaimDueDelivery` (scan, compare-and-set, read back) and `deliver` (lookup,
limiter, send, landing).  The dispatcher boots with the stale-claim sweep, stops by draining, and
may crash.  Time is one bit per row, set at any time after its `next_attempt_at` was written.
The refinement maps pending and delivering to "queued", delivered to "done" and takes the history
variable `acked` for `reached`.

`Replication` numbers the task rows in creation order.  `feed` holds the rows Enqueue and
TriggerFullSync are about to append; `pc`, `todo`, `list`, `cur`, `base`, `att` are the single
worker inside `drain` and `processTask`; `brake` is the gate's snapshot and `brakeRow` the stored
value, written in two steps.  `target` is what the target instance holds; a PUT may land and its
answer be lost.  The mapping is the same, with failed as "dead", from which revival takes a row.

### RemoteCache

One path of a repository whose breaker all paths share.  `node` is the cached copy and `entry` the
`remote_cache` row, read and written in separate steps; a copy is the number of the upstream
version it came from and its validator the same number, also when the upstream goes back to an
earlier version (`Publish`; `returned` records that it did).  `flight` is the slot of `e.flights`,
`offline` and `faults` the breaker, which is kept per repository: `OtherPath` stands for what
requests of its other paths report to it.  A request walks `Fetch`: negative entry, node row, cache
row, window and brake, flight, double check, contact, and the landing of a 200, a 304 or a 404,
each write of which may fail.  `vouched`, `real` and `past` are history: when the upstream last
confirmed a version, how many real faults it had, and who was beyond the window check when it
opened.

### NodeTree

`rows` is the nodes table with the trash mark of each row, for a library, a staging repository and
the can; `usage` is `repo_usage`; `hand` is one record per request with its program counter and
locals.  A deploy is the quota check, the ancestor rows one by one and the landing, which charges
usage in the same transaction; a delete is the capture into the can (a copy with `MarkTrash`), the
drops and the pruning of empty parents; copy and move walk a listing item by item, with
`failFast`; restore, purge and the retention pass follow.  `flag` is the active can of a delete or
the failFast of a copy or move.  A statement may fail and the process may end between any two; the
probe of a target swallows its error and goes on as if the path were free (`BlindItem`), and a folder
whose properties are refused keeps its row while the item fails (`FolderPropsFail`).
`torn` is history: folder rows taken from under a file while two requests overlapped, or by a
folder delete; `alone` says that a request has met no other.

## Runs

| Run | Result | Shows |
|---|---|---|
| `gc` | holds | a reference written within its hold's TTL keeps its blob; no rename replaces a blob |
| `gc_live` | holds | with late uploads and a crash: a holder inside its TTL is stripped by nothing but the chain of releases a purged upload began; an unreferenced blob is collected; a waiter of a flight returns |
| `sessions` | holds | what is published under a digest has that digest; offset equals file length; acknowledged bytes survive a restart |
| `sessions_join` | holds | one handle writes at a time; a joined rebuild ends |
| `sched` | holds | an enabled schedule is armed; a fire has its trigger |
| `sched_live` | holds | a due row is fired or re-armed |
| `webhooks` | holds | no row is shared by two workers or sent beyond its budget, an event's rows appear together, every row settles, and the plane implements `Outbox` |
| `replication` | holds | a recorded success stays true on the target, the brake lets at most one claim pass, a clean stop leaves no claim, every row converges (in a scan window that holds them all), and the ledger implements `Outbox` |
| `remote` | holds | one contact at a time, none for what is known or silenced, no old copy under a fresh clock (where the upstream went back to an earlier version: if the row's validators are the copy's), every request returns |
| `tree` | holds | the usage counter is exact; one request at a time never passes the quota nor takes the folder from a file; nothing is dropped before it was copied; the can empties |
| `failopen` | holds | what a Commit reported stays on disk and is on S3 or in the durable queue, whatever fails; what the drain holds in its passes reaches S3 |
| `append` | violated | an S3 arm that fails while the tee is blocked in the pipe deadlocks with it: `detach` (`migration.go:870`) waits for the mutex of the blocked write, and the close that would release the write, as the comment above it says, comes after |

### Deviations kept as configurations

Each of these states what a line of the repository promises, and TLC shows a behaviour of the code
without it.  They are not in the run list; the command is the same.

| Configuration | Property | The line | What happens |
|---|---|---|---|
| `MCBlobGCReturned` | `TornRowsWereDeleted` | `storage/gc.go:164` "the deleted list in apply mode" | a failed apply sweep returns its candidates, and the cleanup pass drops ledger rows of blobs it kept |
| `MCBlobGCLateRelease` | `LateReleaseIsHarmless` | `storage/hold.go:120` "post-TTL releases are no-ops" | when a newer upload has taken a hold on the same sha, the late release takes that one away |
| `MCUploadSessionsOrphan` | `LiveSessionKeepsItsFile` | `storage/api.go:163` "Live sessions of this process are never reclaimed" | the orphan-directory scan removes a session that begins between its checks |
| `MCUploadSessionsLeak` | `ResidueIsReclaimed` | the eviction of `docker/uploads.go` | with two requests, DELETE's `remove(id)` (443) drops the entry another request rebuilt, and directory and row outlive it; `MCUploadSessionsLive` passes with one |
| `MCSchedulerEdit` | `WriteBackKeepsEdits` | `scheduler/scheduler.go:380` "never clobbered by a stale snapshot" | an edit between the write-back's read and its write is overwritten |
| `MCWebhooksStop` | `CleanStopSettlesRows` | `webhook/dispatcher.go:343` "no row is ever left delivering by a clean shutdown" | the stop cancels the read back after the claim |
| `MCReplicationTimeout` | `TriedRowsAreCycled` | `replication/engine.go:613` "drives one task to a terminal state" | a target's timeout is taken for the shutdown: back to pending, no backoff, never failed |
| `MCReplicationWindow` | `EventuallyReplicated` | as above, with `ScanLimit = 1` | settled rows fill the scan window, an older row is never listed again |
| `MCRemoteCacheHit` | `HitIsInsideTTL` | `remote/cachestate.go:24` "a local copy within its TTL window" | the lookup joins a node row and a cache row of different times |
| `MCRemoteCacheRollback` | `CopyIsVouched` | `remote/cachestate.go:32` "the upstream confirmed the expired copy still stands" | the node row of version 2 landed, its state row did not, and the upstream went back to version 1: the old validator gets a 304, and version 2 is refreshed (`fetcher.go:974`, `1061-1081`) |
| `MCRemoteCacheCancel` | `OnlyUpstreamOpensWindow` | `remote/fetcher.go:1546` "CONSECUTIVE configured-upstream transport faults" | callers that give up count as faults of a healthy upstream |
| `MCNodeTreeOrphan` | `FoldersExist` | `DECISIONS.md:268`, never a file row without its parent directory row | a folder delete drops the folder row first; cut short, it leaves the files |
| `MCUploadSessionsOvertaken` | `BlobIsWhole` | `storage/session.go:55` on a file that does not match its digest entering the store: "must never happen" | a rebuild hashes the file of a handle that is still appending to it or about to publish it; with the default TTLs this takes a removal that failed (best effort) and a DELETE that dropped the rebuilt entry, so that a third handle is made beside a working one |
| `MCDualWriteMirror` | `IndexMirrorsFiles` | `storage/failopen.go:203` "index is the in-process mirror" | `remove` unlinks by name the file that an enqueue published since its `delete(index)`: the index has an entry without a file, which a crash then forgets |
| `MCDualWriteResumed` | `DebtIsRecorded` | `DECISIONS.md:864` (ADR-0040), one seam covers all write paths | `ResumeSession` returns the disk engine's session: its Commit neither writes S3 nor queues the debt; the next reconciliation or migration finds it |
| `MCDualWriteWakeup` | `DebtIsPaid` | `storage/failopen.go:542` "exits (restarted by the next enqueue)" | an enqueue during the last reconciliation still sees `workerRun` and starts nobody |
| `MCDualWriteWindow` | `WindowCloses` | `storage/failopen.go:338` "S3's own responses are the only recovery signal" | a read, or an upload that then fails on disk, opens the window with an empty queue: no worker runs, and nobody talks to S3 until the next upload |
| `MCDualWriteSuperset` | `DiskIsSuperset` | `storage/failopen.go:18` "disk is the superset", "no holes" | a checksum deploy that looked before the disk's sweep, or that found the S3 copy after it, references a blob only S3 has |

`TeeAppendArm` (`KeptArmIsWhole`: an arm the session keeps has the whole body) is a further instance
that passes.  With longer files, without the online sweep, and with rows that outlive the idle TTL
(`RowOutlivesIdle`), where an eviction alone makes a rebuild beside a running PATCH, the invariants
of `sessions` hold by the theorems of `UploadSessionsProofs`.

### Bounds

`gc` has three uploads of one digest to two paths (leader, waiter and late comer of a flight; two
uploads share a path, so a node is overwritten), one sweep at a time (the data lock), any number of
sweeps one after the other, and one crash.  A second digest adds nothing to these invariants, which
are per digest; `MCBlobGCReturned` has two, because it is about a list.  `gc_live` uses two
uploads, since its properties are about one of them being left alone or stripped by the other;
holds expire at any time in it, and the process may end once.  `sessions` has two requests and two
handles (a rebuild beside the session it replaces) with files of one byte; with the default TTLs it
takes three handles to overtake a rebuild, which `MCUploadSessionsOvertaken` has.  `sched` has two
schedules, so that the second row of a sweep is stale while the first runs, and three instants, so
that a trigger can be missed; `sched_live` adds the rollback, the restart and the kick for one
schedule.

`webhooks` has one event for two subscriptions and two workers (a race for each row and a batch
that can fail as a whole), a retry budget of two, one delivery in flight, and one turn: an edit, a
replay, a stop, a crash or a failing store call, at any point.  `replication` has two contents of
one path, so that a later success can be undone by an earlier row; a window that holds both rows;
cycles of two tries; and three turns, enough for a brake, a stop and a failure together.  Its
revival cap of nine is above what three turns can use up, which `EventuallyReplicated` needs: a
row at its cap is given up for good.  `remote` has two request slots and three requests (an owner,
a waiter, and one that comes after), TTLs of one second on a clock of two instants, and one turn:
an invalidation, the brake, a report of another path, a restart, or a change upstream from the second
of three versions, forward or back.  `MCRemoteCacheRollback` has two turns, for a version and its
return.  `tree` has two requests out of nine jobs beside the retention pass, two
of the three at once, one crash or failing statement, two files of sizes one and two in one
folder under a quota of two: overlapping uploads can pass the quota, one alone cannot.

`failopen` has one blob, since entries of different blobs meet only in the window, and two requests
for it, so that one is acknowledged while the other fails; one round of reconciliation; and three
turns, enough for a failed copy, a sweep and a crash together.  `append` has three chunks: the
deadlock needs two, and an arm that fails before, between and after them.

Symmetry is used only for invariants.  `CHECK_DEADLOCK FALSE` appears where the system may end:
where requests are bounded, and where an engine without an online sweep is closed for good.

### Fairness

A goroutine that can run does (weak fairness of each request's, upload's or worker's steps: bodies
are finite, or their connection breaks; the clients of webhooks, replication and remote have
timeouts).  Sweeps are started again and again by the scheduler or the cleanup ticker, and I/O
errors stop eventually (`<>[][~SweepMishap]_vars`, `<>[]~sweepErr`, `<>[]~fault`; the last two
variables record that the latest step of a sweep or ledger write failed): with an error at every
attempt nothing is reclaimed and nothing could be.  In the later modules the turns bound the
failures, which says the same.  Holds and rows expire, failed rows age and backed-off rows become
due with time.  The scheduler's `select` chooses among ready cases at random, hence strong fairness
of `Sweep`.  A stopped server is started again (`Boot`, `Start`), a stop ends (`Exit`,
`ProcessEnds`), and a request that wrote the brake's row swaps the snapshot (`BlockSwap`).  The
retention pass of `NodeTree` is a cron that keeps coming.  In `failopen` the worker and every
started request keep moving; in `append` both goroutines do, the body ends and every upload of a
part returns.  No fairness is assumed of clients, edits, upstream versions or the clock beyond
expiry, except in `MCUploadSessionsLive`: there some client starts an upload in every process,
because the eviction ticker is started by the first POST only.

## Proofs

Eight modules hold proofs; `tlapm` checks each to the last leaf.  In all of them the constants
are arbitrary: any sets of requests, workers, blobs, events or keys, and any value of every bound,
so that the bounds of the models only say that a behaviour has finitely many failures and restarts,
not how many.  The assumptions on the constants are the `ASSUME` of each component's module: types,
distinctness of the markers (`None`, `NoReq`, `NoKey`) from the elements, and what the configuration
enforces (a positive retry count, scan limit and offline window; `ReviveCap >= MaxAttempts`; a cron
expression has a trigger).  Every inductive invariant was first checked by TLC on the instances of
its runs.

| Theorem | States | For |
|---|---|---|
| `BlobGCProofs!TypeCorrect`, `GCInvariant` | `TypeOK` under `Spec`; `IInv` under `TimelySpec` | |
| `FreshReferencesAreSafe`, `BlobsAreWrittenOnce` | `FreshReferenceIsBacked`, `RenameNeverOverwrites` | `TimelySpec` |
| `HoldersAreProtected` | `OnTimeHolderIsHeld` | `Spec`: late uploads included |
| `UploadSessionsProofs!TypeCorrect`, `OneWriterOnly`, `BlobsMatch`, `OffsetsMatch`, `AckedBytesStay` | `TypeOK`, `OneWriter`, `BlobMatchesDigest`, `OffsetIsFileLength`, `AckedBytesSurvive` | both orders of the TTLs, with and without the online sweep |
| `WebhooksProofs!TypeCorrect`, `NoTwoWorkersPerRow`, `SendsAreBudgeted`, `QueueIsImplemented` | `TypeOK`, `OneWorkerPerRow`, `SendsWithinBudget`, `ImplementsOutbox` | `Spec` |
| `ReplicationProofs!TypeCorrect`, `SuccessStaysOnTarget`, `HaltsAreObeyed`, `QueueIsImplemented` | `TypeOK`, `SuccessIsOnTarget`, `HaltIsObeyed`, `ImplementsOutbox` | `Spec` |
| `RemoteCacheProofs!TypeCorrect`, `OneContact`, `FreshIsVouched`, `ContactsAreNeeded` | `TypeOK`, `OneContactPerPath`, `FreshCopyIsVouched`, `ContactIsNeeded` (an action property) | `Spec` |
| `DualWriteProofs!TypeCorrect`, `AckedStaysKept` | `TypeOK`, `AckedIsKept` | `Spec` |
| `SchedulerProofs!TypeCorrect`, `EnabledStaysArmed`, `FiresAreTriggered` | `TypeOK`, `EnabledIsArmed`, `FireHasItsTrigger` | `Spec` |
| `NodeTreeProofs!TypeCorrect`, `UsageExact`, `OrphansExplained`, `QuotaHolds`, `DroppedIsCopied`, `TreeInvariant` | `TypeOK`, `UsageIsExact`, `OrphanIsExplained`, `OnlyOverlapExceedsQuota` and `DropsOnlyCopied` (action properties), `TreeInv` | `Spec` |

### BlobGC

`BlobGCProofs` proves, for every set of uploads, digests, paths and shards and any bound on
crashes:

- `TypeCorrect`: `Spec => []TypeOK`, late expiry included;
- `GCInvariant`: `TimelySpec => []IInv`;
- from it `FreshReferencesAreSafe` and `BlobsAreWrittenOnce`, the safety invariants of the run `gc`;
- `HoldersAreProtected`: `Spec => []OnTimeHolderIsHeld`, without timeliness.

The assumptions are `UploadsFinite`, `ConstantTypes` (every upload has a digest and a target,
every digest a shard), `NoShaFresh` and `NoUploadFresh`, and, for the first two, the timeliness
built into `TimelySpec`.

The argument.  `FreshReferenceIsBacked` is not inductive: a sweep that has already passed a
blob's gates could delete it while its node row appears.  `IInv` adds what rules that out:

- `FlightInv`: a registered leader per digest, and whoever is between stat and directory sync is
  it; with `RenameNeverOverwrites`, one rename per file.
- `ViaInv`: a checksum deploy carries no hold and releases none.
- `CountInv` and `TimelyInv`: a hold's count is at least the number of its holders, and a digest
  with a holder has an unexpired entry.  So no release takes away another upload's protection;
  this is the part that fails without timeliness, and what `MCBlobGCLateRelease` exhibits.
- `ScanInv`: what the sweep has listed is on disk and is looked at once.
- `BackedInv`: an upload that published and has not yet written its node (`Published`) has its
  file on disk, and so has every node it wrote.
- `GateInv`: past the hold gate no published upload has the digest in hand, because it would be
  held, and none can start: the file is still there, so a new upload of the same bytes is a
  dedup hit.  Past the live gate no fresh node has it either.  The unlink then removes nothing
  that `BackedInv` needs.

`HoldersAreProtected` has an invariant of its own, `HInv`, because `CountInv` is false once an upload
is late.  It counts only the holders whose own count is still in the entry (`Kept`): their number is at
most the entry's count (`KeptInv`), and who relies on an expired entry was there when it expired
(`LateInv`).  A purge makes every holder `lost`; a release by a lost upload takes off somebody else's
count, and makes all remaining holders lost, since which of them it was cannot be told.

### UploadSessions

`BlobMatchesDigest` is not inductive twice over: it says nothing of the file before it is published,
and nothing of who else may write that file.  `TableInv` settles who: `LiveIsTabled` (a live or
working handle is the engine's table entry, or the one Close or a rebuild is about to detach),
`FlightIsPrivate` (a rebuild's handle is in nobody else's hands until it is published),
`LocksAreHeld` (the two mutexes are held by the verb they name), `OneFlyer`, `WorkersAreLive`,
`OpenedIsHeld`, `TablesAreLive`, and `BeforeGrant` and `HandlesAreMade` for the start.  Two busy
handles would both be in the table or about to be detached, and a rebuild that detaches has its own
handle, with nobody's lock, in the table: that is `OneWriter`, and (`Beside`) that beside a handle
that is appended to or committed only the handle of a rebuild in flight is open.  `FileInv` says what
the files are: `HandlesHaveFiles` (no digest is ahead of its file), `FileIsTheUploads` (a handle that
may still write has the upload's data file, or that is gone with its directory, and it is no blob),
`DigestsFollowFile`; each up to `overtaken`, which is exactly what a rebuild in flight beside a writer
feeds.  `NothingIsLost` carries the confirmed content as a prefix of the file, together with what a
boot sweep may still remove.

### The two queues

Webhooks: `HeldIsDelivering` ties a worker's job to a row in `delivering`, so that the compare-and-set
of a second claim fails, except for a row whose subscription is gone; `RowsFollowEmit` and
`LandedIsAcked` give the refinement.  For the budget a stop is the hard case: `TryToSpare` says that
a row that can be sent again has a try to spare, that a stop adds one for what it interrupts, and that
the rows in hand of a stopping dispatcher do not use it up.

Replication has one worker, and the invariant is about the row in its hand: `HandIsOpen` (not yet
finished), `PushIsTrue` (what HEAD and PUT said of the target still holds, since nobody else pushes),
`BrakeCounts`, `ClaimsAreHeld`.  A success then stays true because a PUT only follows a HEAD that found
the path free.

Both refinements are proved step by step: the initial states map to `Outbox`'s, and each action of the
code is one of its actions or leaves `Box` and `reached` alone.

### RemoteCache, DualWrite, Scheduler

RemoteCache: `FlyingOwns` for the flight slot; `ExpiryIsVouched`, `AnswerIsVouched` and
`RowsFollowUpstream` for the two rows that are written one after the other: an expiry never counts
from later than the instant the upstream vouched for the copy beside it, and a validator is never
newer than its copy, so that a 304 speaks of the copy it refreshes; `CheckStillHolds` and `PastIsKnown`
carry the winner's double check to the contact.  That order is lost when the upstream goes back: from
then on the argument is carried by `Matching` validators alone (none, or those of the copy in the node
row), for which a 304 still speaks of the copy it refreshes.

DualWrite: from a commit on disk to the release of its hold the blob stays (`InFlightOnDisk`); an upload
that is about to return has its blob on S3 or its debt in the directory (`DebtBeforeAck`); the index runs
ahead of the directory for excused entries alone (`IndexIsFiled`); and the drain removes an entry only of
a blob S3 has (`SettledIsStored`).  The attempt to prove `IndexIsFiled` without the excuse is how the
race of `MCDualWriteMirror` was found.

Scheduler: `EnabledIsArmed` needs that no instant in anybody's hand is later than the clock ever was
(`InstantsAreShown`): a next run computed from it exists whenever one after `top` does.
`FireHasItsTrigger` needs `SweepIsLater` (nobody but the loop moves a last run forward, so the sweep's
instant is not behind the rows it has yet to fire) and `RowsAreTriggered`.  `NextRun` is a minimum; that
a nonempty set of naturals has one (`HasLeast`) is proved from well-foundedness.

### NodeTree

Beside types and distinctness the proofs assume of the tree only what paths give: the folders above a
folder above `p` are above `p`, the can's top folder has none above it, `Order` lists every path, the
can has no quota (`NodeTreeConstants`).  Nothing is assumed of how many paths, requests or failures
there are.

`TreeInv` is the inductive invariant, in three layers.

- `HandInv` is about what one request carries, whatever the others do: each statement belongs to
  certain requests (`Route`), has the row or the folder it is about in hand (`Loaded`), and what was
  listed lies under the root (`Listed`).  `Settled` accounts for every file the capture of a delete
  listed: it is copied, failed or still to do, and the delete itself starts when all are copied.
  `DropsOnlyCopied` follows from it without a look at the tables.
- `TablesOK` and `UsageIsExact` are about the tables.  Every statement is one of five kinds
  (`TableStep`): nothing but stamps and marks, a folder row put or dropped, a file row put or dropped;
  each moves the counter by what it moves the sum (`SizesMove`).
- `SoloInv` is about both.  `Landing` holds for every request: a folder above the path about to be
  written is still to be written, is there, or was torn by somebody.  The rest is promised as long as a
  request runs alone: the files it has yet to clear are those in hand (`Clearing`), the folders it
  is about to drop have no file (`Emptied`), and what it is about to write passed the quota against the
  row that is there (`Priced`).  `Company` says that no two requests under way are both alone, so a
  step of one never has to preserve `Clearing`, `Emptied` or `Priced` of another.

`OrphanIsExplained` is then kept by every kind of statement: a file lands with its folders covered
(`Landing`), and a folder row goes with nothing under it (`Emptied`) or is put into `torn`.
`OnlyOverlapExceedsQuota` follows from `Priced`, since only the landing of a file raises the counter.

Two facts rest on recursion, over a listing and over a sum: `ListingOf` (a listing has the rows asked
for and nothing else) and `SizesMove` (a sum changes by what one of its terms changes).  Both are
proved by induction on a number written as a set of numbers that has 0 and all successors
(`AllNumbers`, from `HasLeast`: a nonempty set of naturals has a least element), and so is that the
recursive functions exist (`ListingExists`, `SumExists`).

### Only model-checked

Liveness (TLAPS has no support for fairness and ENABLED here): `OrphanIsReclaimed`, `WaiterReturns`,
`JoinedRebuildEnds`, `DueRowIsServed`, `EveryRowSettles`, `EventuallyReplicated`, `EveryRequestReturns`,
`DrainPays`, `CanEmpties`, `AppendReturns`.  And
`KeptArmIsWhole` of `TeeAppend`, a closed system of two goroutines whose state space TLC exhausts.

## What the models say about the code beyond the runs

- A dedup hit and a checksum deploy do not publish, so nothing anchors their hold before the
  sweep's scan; `gc.go` documents that residual race, and `FreshReferenceIsBacked` is limited to
  publishing uploads for this reason.
- A REST run whose sweep fails part way returns before the teardown: ledger rows of the blobs it
  did delete stay, and no later sweep sees those blobs again.
- With session rows that outlive the idle TTL (`RowOutlivesIdle = TRUE`, not the default) an
  upload evicted during a long PATCH is rebuilt over a file still being written: one eviction is
  enough for what `MCUploadSessionsOvertaken` shows.
- An upload resumed after a restart and abandoned is not evicted until another upload starts.
- After a clock rollback a row can fire again for a trigger it already ran for, once the clock
  reaches its last run: the guard compares strictly.
- DualWrite: `ReleaseGCHold` of a degraded session reaches the S3 engine too and takes the hold of
  another upload of the same bytes, or of a copy; the drain's own S3 sessions are never released
  and hold until the TTL.  A blob GC took is dropped from the queue by name, also when the same
  bytes were uploaded again meanwhile; the reconciliation repairs it, a crash before it does not.
  `AckedIsKept` excuses these.
- Webhooks: a replay resets a row but wakes no worker, so it waits for the poll.
- Replication: two updates of the brake at once may leave row and snapshot different until the next
  boot; a stop noticed at the top of `processTask`'s loop reverts the row as it was listed, so the
  tries since then are not counted, as its comment says they are; the not-retryable marker is looked for in an error text cut at 512 characters.
- RemoteCache: the answer that opens a body restarts the repository's fault count, so bodies that
  break off, one after the other, never open the offline window; together with faults of other
  paths they can.
- NodeTree: a file uploaded between a folder's capture and its delete is dropped without a copy;
  with the can on, a folder delete that was cut short cannot be repeated, since the capture needs
  the folder's row; a move deletes its source by path whatever is there by then, and removes the
  emptied source folders without looking whether they are empty; a retention pass between capture
  and marking judges by the carried `updated_at`; with three or more uploads at once the quota can
  be passed by more than the one racing upload its comment speaks of; deleting a whole repository
  (`service.go:3078`) removes rows by prefix past the usage counter.

## Not modelled

The S3 engine below its calls (multipart uploads, resumed S3 sessions, its own sweep of sessions),
the bypass and completed modes of the migration engine (both delegate to one engine), its `Delete`
(no caller), a disk engine without a queue directory; virtual repositories;
authentication, licensing, formats, search, build info and bundles, console and clients: mostly one
request reading and writing its own rows, or parsing and formatting; panics; the calendar
arithmetic of cron expressions; the second-granularity of timestamps beyond what
`FireHasItsTrigger` needs.  In BlobGC the retention policies of the cleanup engine and Delete's
subtree walk are reduced to the removal of one node.  In NodeTree permissions and path patterns
are a free refusal of an item, a copy keeps its path, and archives, properties other than the trash
time and the deletion of a repository are left out.  In Replication the pushes are those of the
generic plane (no format-specific replay, no pull), in Webhooks payload and signature are left out,
in RemoteCache reads of the store do not fail.  Three assumptions on a replication target are stated
at the head of `Replication`: it answers HEAD with a digest (without one `engine.go:975-978` goes on to
the PUT, which is what the slip `PushHeadOverwrites` does and `SuccessIsOnTarget` refutes), a PUT the
client gave up is stored by then or never, and nobody else writes its paths.

The modelled part is a small share of the repository's lines: most of them are format adapters,
HTTP handlers, SQL access and clients without state of their own.

## Plan

1. An abstract content-addressed store that BlobGC and DualWrite both implement; the S3 session
   with its resumed form.
2. A proof of `KeptArmIsWhole` of TeeAppend for any number of chunks.
3. Cron expressions as operators checked against a reference definition over a small calendar.

## Running

`tlc -config MCBlobGC.cfg MCBlobGC` and so on for the other configurations;
`tlapm BlobGCProofs.tla` and so on for the proofs, each a few minutes at most.
