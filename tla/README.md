# Vaultaire in TLA+

Vaultaire is an S3-compatible object store written in Go. This directory holds
TLA+ specifications of the parts whose correctness depends on concurrency,
failures and ordering, TLC configurations that check them on small instances,
and TLAPS proofs that hold for every size of the system.

## 1. Inventory

The server is one Go process in front of Postgres and of one or more storage
backends. S3 requests run in goroutines of their own; background jobs run on
tickers. Nearly all shared state is in Postgres, so what keeps two requests
apart is a row lock, an advisory lock, a unique or foreign key, or nothing.

| Component | State | Operations | Interacts with |
|---|---|---|---|
| Global Content Index (`crypto/gci.go`) | `global_content_index` rows (ref_count, mark, last access, encoding), `tenant_chunk_refs` manifests, the in-memory `gciCache` | lookup, insert, increment, decrement, replace and delete a manifest | chunked PUT, copy, DELETE, dedup GC |
| Chunked PUT (`api/s3_engine_adapter.go`, `api/s3_chunked_put_pool.go`) | per-upload pool: chunks in flight, duplicates waiting, references taken | dispatch, look up, store under the advisory lock, join, install, compensate | index, backend, head row |
| Dedup GC (`api/dedup_gc.go`) | candidates of the running cycle, session-level advisory lock | reconcile, scan, sweep one chunk | index, backend; two cycles may overlap (ticker and admin trigger) |
| Head rows (`object_head_cache`) | one row per key: size, ETag, is_chunked | upsert under `FOR UPDATE`, `DELETE ... RETURNING` | every write; quota; GET and HEAD |
| Quota (`api/quota_accounting.go`, `usage/quota_manager.go`) | `tenant_quotas.storage_used_bytes`, limit | check-and-reserve, settle, release, reconcile | every write and DELETE; billing |
| CopyObject, batch DELETE (`api/s3_copy.go`, `api/s3_batch.go`) | none of their own | read source then write destination; delete keys one by one | all of the above |
| Multipart (`api/s3_multipart.go`, `api/multipart_reaper.go`) | upload and part rows, part files on local disk | initiate, upload part, complete, abort, reap | head rows, quota |
| Versions and object lock (`api/s3_versioning.go`, `api/s3_lock.go`) | `object_versions` with `is_latest`, `object_locks`, bucket settings | mark latest, delete marker, delete version, retention, legal hold | PUT, DELETE, batch DELETE, copy |
| Storage engine (`engine`) | drivers, primary, circuit breakers, in-process map, `object_locations` | put, get, delete with failover; hints; change of the primary | every data path |
| Storage drivers (`drivers`) | remote services, local disk | put, get, delete, list | engine |
| Auth, RBAC, flags, tenants | sessions, keys, MFA state, flag cache | sign-in, signature check, flag refresh | request admission |
| Metering (`api/bandwidth.go`, `billing/metered.go`) | buffer of egress events, `bandwidth_usage_daily`, `metered_usage_reports` | record, flush, report a day, check spending caps | every GET; process start and stop; Stripe |
| Webhooks, plans, alerts, e-mail | Stripe customers, subscriptions | webhook, alert | quota |
| Stand-alone libraries (`ratelimit`, `queue`, `ha`, `gateway`, ...) | in-memory | | not linked into the server binary |

What is hard, and what correctness means there:

* **Index and GC.** Deleting a chunk that somebody still needs loses data of
  every object that shares it. Uploads hold references that no manifest shows;
  the sweep deletes row and blob in two steps; lookups are cached. Correct
  means: no count falls below the references in use, no installed manifest
  names a missing chunk, and chunks nobody uses do go away.
* **Writes of one key.** A PUT stores data first and the head row afterwards;
  a DELETE removes data first and the head row afterwards; neither holds a
  lock across both. A row that does not exist yet cannot be locked.
* **Quota.** Reservation, head row and settlement are separate statements, any
  of which may fail. Correct means that no byte is released twice and that the
  limit holds under concurrent writes.
* **Multipart.** Completion, abort, late parts and the reaper share rows and
  files without a lock. Correct means that an acknowledged completion is whole
  and that part files do not pile up on the hub's disk.
* **Engine.** A request walks candidates while breakers open, the primary is
  changed, clients go away and three records of the artifact's place go stale. Correct
  means: no truncated body, no healthy backend shut out, no silent write to local disk,
  no 404 for what a healthy backend holds, and a read answers the last write.
* **Versions and lock.** A flag that marks one row of many is kept by two
  statements; a lock is read once and relied on later.
* **Metering.** What was served is billed once and in time, although the process
  stops, calls fail and answers get lost.

`PROJECT.json` lists every component with its status and every hazard at its
line.

## 2. Plan

Modules, in this order:

1. `ChunkStore`: index, chunked PUT, copy, DELETE and overwrite, dedup GC. (done, proved)
2. `ObjectLedger`: head rows, whole-object blobs and quota under concurrent
   PUT, copy, multipart completion and DELETE, with the cleanup of blobs after a
   chunked commit. (done, proved)
3. `Multipart`: upload states and part files, with completion, abort and the
   reaper. (done, proved)
4. `Engine`: routing, failover, circuit breakers and the records of where an artifact
   is. (done, proved)
5. `Versions`: `object_versions` with its `is_latest` flag, and object lock. (done, proved)
6. `Metering`: from a served byte to a meter event, through restarts. (done, proved)
7. Left: flag cache, session and MFA state, idempotency keys and webhooks, as small
   modules; a composition of `ObjectLedger` and `ChunkStore` over the shared head row.

Theorems still worth having:

* the lock order of `ChunkStore` (head row, then manifest rows): which lock cycles can arise,
  and that a request is never in one with itself or with a GC cycle;
* under which condition on the requests each of the violated properties holds
  (`ManifestReadable` with one encoding, `OneVersion` once the key has a head row);
* the composition of `ObjectLedger` and `ChunkStore`, if it is written.

## 3. `ChunkStore`

### State and actions

A *chunk* is a pair (dedup scope, plaintext hash). A *request* runs once and
carries a job: a chunked PUT with a sequence of chunks, a plain write (whole
PUT, plain copy, multipart completion: they all end in the same head upsert), a
DELETE of an unversioned key, a DELETE in a versioned bucket (`marker`), or a
copy. A reference is named by the request and chunk index that took it, so
manifests and open references are sets and counting is cardinality.

| TLA+ | Code |
|---|---|
| `indexed, refCount, marked, markedAge, accessAge, rowEnc` | columns of `global_content_index` |
| `blob` | the chunk's object under `_chunks/`, and in which encoding |
| `lock` | the advisory lock of the chunk: `Free`, its holder, or `Pooled` (left on an idle pooled connection) |
| `cached`, `loads` | `gciCache` and lookups that read the row and have not stored the entry yet |
| `head, headLock` | `object_head_cache` row and who holds it `FOR UPDATE` |
| `manifest, rowLock` | `tenant_chunk_refs` rows of the key and who holds them |
| `job, body, pc, task, seen` | a request: input, its chunks, control state, progress per chunk, manifest rows its transaction read |
| `gcPc, cand, cur` | one GC cycle |

| Actions | Code |
|---|---|
| `LookupChunk, NoteDuplicate, IncrementRef` | dispatcher loop of `handleChunkedPut`: cache or index, in-flight duplicates, zero rows affected means store again |
| `StoreLock, StorePut, StoreCommit, StoreFail` | `storeChunkLocked` |
| `GrantWaiter, Abandon, Join` | collector, failed stores and `join` of the pool |
| `Compensate, AbortDone` | the deferred compensator |
| `PeekSource, ReadSource` | `handleCopyObject`, `handleChunkedCopy` up to the transaction |
| `LockHead, ReadManifest, LockManifest, CommitManifest, UpsertHead, TxFail` | `atomicHeadUpsertReleasing` with `ReplaceObjectManifestTx` or `DeleteObjectChunksTx`, statement by statement |
| `PeekHead, DeleteHead` | `HandleDelete` before and after the manifest release |
| `Reconcile, SweepScan, SweepLock, SweepRow, SweepBlob, SweepFail, SweepDone` | `RunOnce`, `reconcile`, `sweep`, `sweepOne` |
| `LoadRow, CacheSet, CacheEvict` | `LookupChunk` on behalf of GETs, cache eviction |
| `DeadlockVictim, RecycleConn, Tick, Crash` | Postgres deadlock detection, connection lifetime, time, process restart |

Postgres runs at READ COMMITTED. A `SELECT ... FOR UPDATE` is two steps: the
snapshot (`ReadManifest`) and the row locks, after which rows that a concurrent
transaction removed are skipped (`LockManifest`). The `DELETE` that follows takes
a snapshot of its own; it may also see rows committed in between, and the
model allows both. Rows that do not exist cannot be locked.

### Abstractions

* Chunking, hashing, compression and encryption appear as chunk identity and
  stored encoding only.
* The number of store workers is unbounded.
* `Reconcile` is one step. In the database its subquery and the row lock are not
  one instant; a decrement in between could make it write a count that is one too
  high, which is safe and is repaired by the next cycle.
* A commit either happens and is acknowledged or does not happen. A lost
  acknowledgement (the compensator releasing references of an installed
  manifest) is listed as a hazard without a property.
* Environment assumption `UploadsWithinGrace` (in `Tick`): no upload holds a
  reference for longer than the grace period after the chunk was last touched.
  Reconcile cannot see such a reference and nothing in the server bounds the
  duration of an upload, so this is an assumption and not a theorem.
* Account deletion (`account_deletion.go:124-163`), which releases all references of a tenant in
  one statement and then deletes its manifests, is left out. Uploads of that tenant that run
  meanwhile would race it.
* Sizes, quota and whole-object blobs are in `ObjectLedger`; versions and object
  lock in `Versions`. `cmd/dedup-migrate`, which writes the index without the advisory lock, is
  not modelled; it is meant to run alone.

### Runs

| Run | Instance | Checks | States |
|---|---|---|---|
| `chunkstore_safety` | four scenarios: an upload, its overwrite and a DELETE; an upload of two chunks against an overlapping upload, DELETE or plain PUT; three requests with a copy against upload, DELETE, versioned DELETE and plain PUT of its source; an upload that repeats a chunk against another or a DELETE, with 2 concurrent GC cycles | `TypeOK, RefCountSound, ManifestBacked, StoreSweepExclusion` | 823 000 |
| `chunkstore_liveness` | two requests (an upload beside an upload, DELETE or plain PUT; an upload that repeats a chunk beside a DELETE) with a restart, and three without: two uploads, or an upload and a DELETE, beside a plain PUT; fairness | `RequestsEnd, GarbageReclaimed` | 82 000 |
| `chunkstore_encodings` | 2 uploads of one chunk, two encodings | `ManifestReadable` violated | |
| `chunkstore_first_put` | two first uploads of different length | `OneVersion` violated | |

*Bounds.* Two requests on one key are enough for every pairwise race (store against
store, swap against store, store against release); the copy scenario has three
because the race needs a source, its deletion and the copy. Ages stop at
`Grace + 1` because the code only asks whether an age exceeds the grace period, and
`Grace = 1` separates "fresh", "at the limit" and "past it". Two chunks make the
sequential dispatcher and partial failure visible; one repeated chunk makes
waiters visible. The scenarios of the safety run share one configuration: an action
constraint (`Arrive`) keeps the requests and the second GC cycle a scenario does not have
from starting, and changes nothing else. Requests are interchangeable in the safety runs (symmetry);
the liveness run uses none. With a third request and two chunks per body its requests do wait for head rows and
manifest rows that others hold, are picked as deadlock victims and wait for duplicates in flight; with two
requests of one chunk only the advisory lock is ever contended. Two releasers of one manifest that overlap
need the upload they find and a reference of somebody else to the same chunk: an upload, its overwrite and a DELETE are the
smallest case (without `FOR UPDATE` on the manifest rows `RefCountSound` fails there, and only there). `CountsSound` below has no bounds.

*Deadlock* is checked in all runs: a GC cycle can always start, so a state
without a step would be a model error, and whether *requests* get stuck is what
`RequestsEnd` asks.

*Fairness* (`LiveSpec`). Weak fairness for the steps of a request and of a GC cycle:
goroutines are scheduled, statements return, and Postgres ends a lock cycle by
aborting a transaction. Strong fairness for scanning, locking and deleting a
candidate: an error path may be taken instead, but not for ever. Weak fairness
for closing pooled connections (`ConnMaxLifetime` and `ConnMaxIdleTime` are set) and for
time. A request never has to arrive.

### Findings

* **`ManifestReadable`** (`chunkstore_encodings`). Two uploads that both found a chunk
  absent store it one after the other. The second one overwrites the blob in its
  own encoding, while `ON CONFLICT` keeps the first row's `compression_algo`. Objects
  that use the chunk cannot be decoded.
* **`OneVersion`** (`chunkstore_first_put`). Two first uploads of a key have no row to
  lock; the later commit overwrites only its own chunk indexes and a longer earlier
  manifest keeps its tail.

One more divergence has no run: the conditional `DELETE` of `sweepOne` does not look at
`marked_at` again, so a chunk that was referenced and released after the scan is
removed with a fresh mark (`dedup_gc.go:131` speaks of the grace period). No safety
property depends on it.

### Proofs (`ChunkStoreProofs`)

For every number of chunks, keys, requests, GC cycles and restarts and every
grace period, under `ConstAssumption` only:

| Theorem | Statement |
|---|---|
| `Inductive` | `Spec => []IndInv` |
| `Typed` | `Spec => []TypeOK` |
| `CountsSound` | `Spec => []RefCountSound` |
| `NoDanglingManifest` | `Spec => []ManifestBacked` |
| `Exclusion` | `Spec => []StoreSweepExclusion` |

None of the three safety properties is inductive. `IndInv` adds:

* `TaskInv`: the dispatcher is sequential and a hash is in one worker's hands at
  a time; a PUT opens its transaction only when it holds all its references.
* `RowInv`: a manifest row was installed under its own key by the upload that took
  it, so no reference is both open and installed, or installed twice.
* `SeenInv`: what a transaction is about to release is still in the manifest, and
  its row lock keeps it there. This is what makes releases happen once.
* `LockInv`, `BlobInv`: whoever stores or sweeps a chunk holds its advisory lock; an
  indexed chunk has its blob, and a blob goes only after its row.
* `AgeInv`: a reference held by an upload hides its chunk from reconcile (this is
  where the environment assumption enters).

One lemma per conjunct shows that every action preserves it. The counting
argument rests on four facts about finite sets (`CountMono, CountAdd, CountRemove,
CountUnion`) and on `Swap`, which describes `SwapRefs` once for decrements, overwrites,
deletes and copies. `NoDanglingManifest` then follows from `RefCountSound` (a referenced
chunk has a row) and `BlobInv` (a row has its blob).

Checked with TLC only: the liveness properties (TLAPS has no fairness
reasoning) and the two counterexamples.

## 4. `ObjectLedger`

### State and actions

The ledger of one tenant: `object_head_cache` (whose `size_bytes` is the billing
record), the blob the backend holds at each key, and
`tenant_quotas.storage_used_bytes`. A byte is identified by the request that wrote
it, so "these bytes" is a set of units `<<request, i>>` and an amount is its
cardinality; releasing a byte twice, or one that a row still records, becomes a
statement about sets.

| TLA+ | Code |
|---|---|
| `used, quotaLock` | the tenant's quota row and the `CheckAndReserve` transaction that has it `FOR UPDATE` |
| `head, headLock` | the key's head row (which request wrote it) and who has it `FOR UPDATE` |
| `blob` | the whole object at the key in the backend |
| `want, size` | `reserved`/`srcSize`, and the size the row records |
| `seen, old` | row found by the head transaction; row displaced or deleted, its bytes still to be released (`displacedBytes`, `deletedSize`) |
| `chunkedRow` | requests whose row has `is_chunked` |
| `open, unpaid` | bookkeeping of the model: reserved bytes no row records yet, recorded bytes that were never charged |

| Actions | Code |
|---|---|
| `Reserve, Charge` | `CheckAndReserve` as check and update inside one transaction; the callers' handling of its three results |
| `PeekSource, OpenSource, ReadMeta` | the reads of `handleCopyObject` and `handleChunkedCopy` |
| `StoreBlob` | `engine.Put`; an error leaves open whether the bytes were stored |
| `LockHead, CommitHead, CommitFail` | `atomicHeadUpsertReleasing` and what each caller does when it fails |
| `Cleanup` | the delete of the old whole-object blob after a chunked PUT or copy |
| `Settle, Pay, ForceCharge, ReleaseOld` | `settlePutQuota`, case by case |
| `Refund` | the release after a failed write |
| `PeekHead, DeleteBlob, DeleteHead` | `HandleDelete` and one key of `handleDeleteObjects` |
| `ReconcileStorageUsage` | the admin reconcile |
| `Crash` | process restart: transactions roll back, everything a request knew is lost |

Callers differ when the head transaction fails: PUT and chunked copy give the
reservation back, a plain copy settles as if the row had been written, a
multipart completion keeps its reservation. `CommitFail` has the three cases.

### Abstractions

* One tenant with a constant limit; tenants share no quota row.
* A PUT records exactly what it reserved: HTTP or the decoded-length check
  rejects other bodies. Only a copy may record more or less.
* Versions, object lock, MFA, conditional headers and encryption occur only as
  reasons to refuse; manifests are in `ChunkStore`.
* A commit happens and is acknowledged, or does not happen.
* Reconcile runs only while no request is active, as its comment demands; the
  hazard of running it at other times is listed without a property.
* A request runs once; a retry is another request with the same job.

### Runs

| Run | Instance | Checks | States |
|---|---|---|---|
| `ledger_safety` | 3 requests out of two PUT sizes, chunked PUT, completion, copy, DELETE, versioned DELETE; 2 keys; limit 3; all failures; 1 restart | `TypeOK, NeverUnderbilled, LimitHolds` | 457 000 |
| `ledger_cleanup` | a plain and a chunked PUT of one key, no failures | `StaleBlobOnly` violated | |

*Bounds.* Three requests let a row be written, overwritten and deleted, or a source
be replaced while it is copied. Sizes 0 to 2 give a copy that records less, as
much or more than it reserved; with a limit of 3, two writes fit and the third
does not always. Requests are interchangeable (symmetry). Deadlock is checked: a
stuck request would show, since reconcile waits for all of them.

* `NeverUnderbilled`: the quota never counts less than the head rows record,
  except for bytes a copy recorded beyond its reservation and that have not been,
  or could not be, charged. Overwrites racing overwrites and DELETEs, failed
  releases and restarts all err on the high side.
* `LimitHolds`: the counter passes the limit only by charging bytes that are
  already stored (`ForceCharge`, or a reconcile that finds such bytes).

### Findings

* **`StaleBlobOnly`** (`ledger_cleanup`). After its commit a chunked PUT deletes the
  blob at the key without a lock or another look at the row. A plain PUT that
  stored its blob and committed its row in between loses its data.

`quota_accounting.go:17` states that the quota *equals* the sum of the rows. That is
not so between reconciles: an absent row cannot be locked, so two concurrent
first PUTs both report nothing displaced and the quota keeps both sizes.
`NeverUnderbilled` shows that the error is always on the high side.

### Proofs (`ObjectLedgerProofs`)

For any set of keys, any finite set of requests, any sizes, limit and number of
restarts, with and without failures, under `LedgerAssumption` only:

| Theorem | Statement |
|---|---|
| `LedgerInductive` | `Spec => []IndInv` |
| `LedgerTyped` | `Spec => []TypeOK` |
| `NotUnderbilled` | `Spec => []NeverUnderbilled` |
| `LimitKept` | `Spec => LimitHolds` |

`NeverUnderbilled` is not inductive: a release is harmless only if nobody else
relies on the bytes. `ChargeInv` strengthens it to all bytes *held* (reserved,
recorded in a row, or removed from a row and about to be released), and four
more parts say why a release takes bytes out of that set exactly once:

* `PlaceInv`: a row's bytes are in one place, a key or the hands of one request
  that displaced or deleted it. `DELETE ... RETURNING` and the locked read establish it.
* `SeenInv`: what a head transaction is about to displace is still there, because
  it holds the row lock.
* `OpenInv`: a request that may still refund has its reservation open, and open
  bytes are in no row; uncharged bytes are a copy's shortfall.
* `QuotaInv`: the quota row stays locked from the check to the charge, so the
  room that was seen is still there. `LimitKept` follows from it and, for
  reconcile, from `ChargeInv`.

There is one lemma per part with a step per action. `QuietMove` describes at once
the eleven actions that touch neither quota, rows nor reservations;
`ReleaseKeeps, ShrinkKeeps` and `PayKeeps` are the three ways the counter and the held
bytes move together.

## 5. `Multipart`

### State and actions

One upload: its row, its part rows, its temp directory, the requests on it and the
reaper. A file is an inode named by the request that created it, with a name in
the directory (`path`); unlinking removes the name, and whoever has the file open
reads on. A part body repeats a letter, so an ETag is a letter and a length.

| TLA+ | Code |
|---|---|
| `status, rows, idle, age` | `multipart_uploads`, `multipart_parts`, age of the last activity and of the row |
| `dir, path, data` | `uploadTempDir`, its entries, contents of the files |
| `others, offset, file` | `existingBytes`, progress of `io.Copy`, the open file |
| `sel, todo, got` | rows a completion selected, parts still to stream, bytes streamed |
| `object` | the completion whose stream the backend stored |
| `opener, reaper` | control states of the initiate request and of the reaper |

| Actions | Code |
|---|---|
| `InsertUpload, MakeDir` | `handleInitiateMultipartUpload` |
| `StartPart, CreatePart, WritePart, RejectPart, RecordPart` | `handleUploadPart`: check, `os.Create`, copy, caps and errors with `os.Remove`, upsert |
| `StartComplete, LoadParts, OpenPart, ReadPart, PutObject, MarkCompleted, Clean` | `handleCompleteMultipartUpload`, its writer goroutine and its cleanup |
| `AbortUpload, Clean` | `handleAbortMultipartUpload` |
| `ScanAbandoned, AbortAbandoned, RemoveAbandoned, ScanTerminal, PurgeDir, PurgeRow, ReaperFail` | the two halves of `MultipartReaper.RunOnce` |

### Abstractions

The head row and the quota of a completion are in `ObjectLedger`; `PutObject` may
fail or succeed whatever was streamed, since drivers differ in whether they insist
on the announced length. `MayStart` is the client: in `multipart` it repeats a part only when it is not recorded
and no other request for it runs (what SDKs do), in `multipart_resend` it may
resend any part. `RemoveAll` may stop half way. `Tick` waits for the initiate request: the
reaper's ages are hours.

### Runs

| Run | Instance | Checks | States |
|---|---|---|---|
| `multipart` | 3 requests: two parts and a completion or an abort, one part with two completions or a completion and an abort, one part sent twice with an abort; sizes 1 and 2, cap 2; all failures; 1 restart | `TypeOK, AckedWhole, RecordedKept, TempReclaimed` | 173 000 |
| `multipart_resend` | a part and its repetition, cap 1 | `RecordedOnDisk` violated | |

`AckedWhole`: a completion that gets to its acknowledgement has streamed every
selected part as its row describes it, although abort, reaper and a second
completion unlink files meanwhile. Either the file is open and keeps its bytes or
the open fails and the completion with it. `RecordedKept`: a client that does not resend loses no
recorded part while the upload is active and no completion was answered; the process may
die between any two steps, and aborts, completions and the reaper remove files meanwhile. `TempReclaimed`: the directory goes away,
whatever failed; the exception in the property is real (the purge ignores an error of
`RemoveAll` and drops the row, after which nobody knows of the directory).

*Bounds.* Two parts show an upload that is half deleted; ages are 1 and 2 ticks because the
reaper only compares them with a limit. Deadlock is checked: the reaper always has
a next cycle.

*Fairness.* The reaper runs every hour, and its goroutine goes on after a failure; strong
fairness says that its statements do not fail for ever, weak fairness that time
passes and `RemoveAll` returns. No request needs to arrive or end.

### Finding

**`RecordedOnDisk`.** A part that was acknowledged is sent again. `os.Create` truncates
the file in place, and when the new body breaks off or exceeds the cap `os.Remove` unlinks it.
The row still promises the first body.

Not stated as properties, and visible in the model: `MarkCompleted` is an
unconditional `UPDATE` that turns an aborted upload into a completed one; parallel
parts pass the cap together because each sums the others before they are recorded.

### Proofs (`MultipartProofs`)

For any finite sets of parts and requests, any sizes, caps, ages, failures and number of
restarts:

| Theorem | Statement |
|---|---|
| `MultipartInductive` | `Spec => []IndInv` |
| `MultipartTyped` | `Spec => []TypeOK`, with and without resends |
| `AckedPartsWhole` | `Spec => [](~Resend => AckedWhole)` |
| `RecordedPartsKept` | `Spec => [](~Resend => RecordedKept)` |

`Resend` is the constant that tells the two runs apart. The hypothesis is needed:
`multipart_resend` shows what a repeated part does to a recorded one.

A completion goes from a row to a directory entry, from there to an inode, and from there to a stream.
`IndInv` says what holds at each joint:

* `ControlInv, OriginInv`: each operation has its own control states; rows, files and
  selections stem from part uploads, an entry from one for its own part.
* `ApartInv`: without resends no part request runs beside a completion, and none for a part that
  is recorded. From then on contents do not change and entries only go away.
* `FileInv`: a file being written has the prefix received so far; a recorded part that is still
  there has the whole body.
* `StreamInv`: every selected part was streamed whole, or is being streamed from an inode with the
  right body, or is untouched; an entry that is left has the right body.
* `RemovalInv, EntryInv`: directories are removed only after the upload left the active
  state, except by a completion; until then the entries of recorded and of running parts exist.

The prefixes are functions over `1..k`, so the proof needs no induction over data. `TempReclaimed` is
liveness and stays with TLC.

## 6. `Engine`

### State and actions

One artifact, its requests, the registered backends. `Engine` has `CoreEngine`,
`FailoverManager`, `BackendCircuitBreaker`, `LocationStore` and the lines of the S3 adapter that
choose a backend or record one. A body is named by the PUT that sent it; `Short` is
what a backend stores from a drained stream.

| TLA+ | Code |
|---|---|
| `primary, blob` | `CoreEngine.primary`; what each backend holds |
| `stored, location, head, recording` | `objectBackends`, the `object_locations` row, `backend_name` of the head row, `RecordLocation` goroutines under way |
| `breaker, fails, cooled` | state, failures in the window, whether `openDuration` is over |
| `first, second, left, at, last, drained` | locals of a walk: candidate list, the call, its outcome, bytes read of the body |
| `landed, got, hint` | where a PUT went, what a GET answered, the head row it read |
| `gone` | requests whose client went away: their context is cancelled |
| `seen, calm, settled` | history: what was held when a GET began; the last request, if it overlapped no other; the last PUT, if nothing but GETs came since |

| Actions | Code |
|---|---|
| `StartGet, Hint, Lookup, Seed` | `HandleGet`'s head row, `HintBackend`, the lookup in `Get` and `GetRange` |
| `StartPut, ListForPut` | `ResolveStorageClass`, `applyBackendRecommendation`, `buildWriteCandidateList` |
| `Admit, Exhausted` | the loop of `Execute`, `Allow`; names without a driver have no breaker and are skipped |
| `PutOK, PutFail, GetOK, GetFail, DeleteOK, DeleteFail` | the driver call, `isBackendFailure`, `ErrNoFailover`, `ErrArchived`, the breaker's bookkeeping |
| `StartRegionPut, RegionPut` | the bucket-region path of `HandlePut`, which bypasses the breakers |
| `Note, UpsertHead, RecordLocation` | map entry and goroutine, head row, the goroutine's statement |
| `StartDelete, Unmap, Unlist, DeleteHead` | `CoreEngine.Delete` and the end of `HandleDelete` |
| `SetPrimary, Age, Cool, Restart` | admin route, the breaker's window and interval, process restart |
| `Drop` | the client goes away; the handler runs on |

A GET with a Range header that found a head row walks the candidates twice: `Get`, and then
`GetRange` from the lookup on (`GetOK` goes back to `lookup`). If the second walk fails, the handler
serves the range from what the first one opened.

### Abstractions

Which drivers check the body's length (`Lax`), archive (`Tape`) and fail (`Flaky`) is a
constant. A call that fails may have stored or deleted all the same. After `Drop` every call of
the request may end with "context canceled", on any backend; `isBackendFailure` counts it (outcome
`aborted`) and the walk goes on to the next candidate, except for a drained stream. In `GetRange` a body
other than the one the head row gave the size of may end before the range starts: the discard meets EOF, or the
driver's own `GetRange` is refused, and that is charged too (outcome `short`). Time is two actions instead of a
clock. The recommendation may name any driver. Left out: `List`, the tiered read cache (`EnableCaching` is false
in `main.go`), backup replication (`SetBackup` is never called), tiering (never started by the server), metrics.

### Run

| Run | Instance | Checks | States |
|---|---|---|---|
| `engine` | two overlapping requests among a streamed PUT, a seekable PUT to `local`, a PUT to a region, GET, DELETE, one of which may be dropped; or two uploads and a ranged GET in a row, with a restart and changes of the primary; backends `local`, `hot` (fails), `cold` (tape); primary `hot` or a name without driver; threshold 2 | `TypeOK, WholeBodies, HealthyAdmitted, LocalOnPurpose, HeldFound, ReadBack` | 1.2 million |

* `WholeBodies`: no backend stores what is left of a stream that another one has read.
* `HealthyAdmitted`: a backend that never fails is not refused. Missing objects, refusals, drained bodies,
  failures elsewhere and retries are not held against it. What *is* held against it are the walks of dropped
  requests (GET, PUT or DELETE) and of `GetRange`. Each may charge it once, so the property asks for fewer of those than
  `Threshold`; from there on the breaker of a healthy backend does open. That is more than the comment at
  `failover.go:114` allows for ("the backend itself is unhealthy").
* `HeldFound`: a GET whose client waits is not answered 404 while a backend that does not fail has held a body since
  the GET began, however stale head row, map and location row are. It has the same exception: `Execute` passes a backend
  with an open breaker over and ends with what the others said.
* `ReadBack`: `engine.go:40` says of the map that it "guarantees Get always reads from the same backend
  Put used". Where requests overlap, or where the head row is missing, that is not so: the map may have been emptied or
  overwritten and a candidate with an older copy may answer. What does hold, and what the property states: a GET that overlapped no
  request, after a PUT that overlapped none and was acknowledged, answers that PUT's body and no older copy, across
  a restart, changes of the primary and a late `RecordLocation` of an earlier PUT. It is the hint from the
  head row that achieves it; the mutant leaves the hint out.
* `LocalOnPurpose`: no failover and no recommendation puts a body on the hub's disk.

`engine.go:462` says that `Delete` removes an artifact "from all backends". It tries the recorded backend and the
primary, and stops at the first success. A copy that a write with a lost answer left on a third backend survives, and a
later GET that comes to that candidate serves it. The model has these behaviours; no property about them can hold,
and `HeldFound` therefore leaves out DELETEs.

*Bounds.* With a threshold of 2, one dropped request or one ranged GET must not open a breaker and two failures
must. `local` and `cold` accept short bodies and `hot` fails, so a drained stream has somewhere to go wrong. Two overlapping
requests cover a read racing a write or DELETE and two racing writes; three in a row are needed for an older copy and its
reader. An action constraint (`Quiet`) keeps the two scenarios apart: breakers recover in the first, the primary changes
in the second. Deadlock is not checked: when all requests are done the system may stop.

### Proofs (`EngineProofs`)

For any backends, drivers (failing, lax, archiving), primaries, finite set of requests, threshold and
number of restarts, with any of the requests dropped:

| Theorem | Statement |
|---|---|
| `EngineInductive` | `Spec => []IndInv` |
| `EngineTyped` | `Spec => []TypeOK` |
| `BodiesWhole` | `Spec => []WholeBodies` |
| `HealthyStayAdmitted` | `Spec => []HealthyAdmitted` |
| `LocalNeverByFailover` | `Spec => []LocalOnPurpose` |
| `HeldIsFound` | `Spec => []HeldFound` |
| `ReadBackHolds` | `Spec => []ReadBack` |

`IndInv` is about walks over candidates:

* `PlaceInv, WalkInv`: control states of each kind of request; a candidate being called is not also to come; only a
  ranged GET walks again after it was answered.
* `DrainInv`: a body that was read and cannot be rewound has no candidate left. With it no
  backend is offered a drained body, so none stores `Short`.
* `ChargeInv`: the failures a healthy backend is charged with are at most the suspect walks (of dropped requests and of
  `GetRange`) that have passed it. A walk passes a backend once, so fewer than `Threshold` suspects never open its
  breaker.
* `LocalInv`: the candidates of a write exclude `Local` unless its class names it.
* `SeenInv`: a GET still has before it every backend that held a body as it began and does not
  fail, whatever the records said; `Exhausted` with nothing left then gives `HeldFound`.
* `CalmInv, ReadInv`: where nothing overlaps, the backend of the last PUT holds its body and the head row is its own; a GET
  that read that row hints the map to that backend and tries it first. Its breaker is closed by `HealthyAdmitted`.

## 7. `Versions`

### State and actions

One key: `object_versions` rows named by their place in the order of `created_at`, the
`object_locks` row, the head row, and the one blob all versions share. Every statement
is a transaction of its own.

| Actions | Code |
|---|---|
| `StartPut, Guard, PutBlob, PutHead` | `HandlePut`: the lock is asked only where the key has a head row |
| `ReadStatus, ClearLatest, InsertVersion, ApplyLock, Seal` | version rows and `applyObjectLockOnPut` after the commit |
| `StartDelete, ClearLatest, InsertMarker, DropHead` | DELETE in a bucket with versioning on |
| `StartDelete, StartBatch, Guard, RemoveBlob, DropHead` | other DELETEs, batch delete |
| `DeleteVersion, Elect` | DELETE of a version |
| `StartRetain, Seal, PutObjectLegalHold, PutObjectLockConfiguration, PutBucketVersioning` | the lock and versioning endpoints |
| `StartCopy` | copies and multipart completions, which ask neither for lock nor versions |
| `Refuse, Cut` | failures that end a request; a cancelled request, whose statements fail from there on |

`free`, `broken` and `newest` are history: whether the object was not protected from the request at some time since it
began, whether a request was cut off between two statements on the rows, and which row was written last.

### Abstractions

Rows have distinct `created_at`. MFA delete and listings are left out. A statement that
fails on its own, with the following ones succeeding, is not modelled: the status would
read as `disabled`, and a failed existence check of a PUT skips the lock. Manifests and
quota are in the other modules.

### Run

| Run | Instance | Checks | States |
|---|---|---|---|
| `versions` | 3 requests among PUT (with and without retention), DELETE, batch delete with bypass, version delete, copy, two retentions; 3 rows, 2 edits of settings or hold, clock 0..1 | `TypeOK, SomeLatest, LastWriteLatest, LockedNotRemoved` | 1.3 million |

`SomeLatest`: after overlapping PUTs, markers and version deletes some row is latest.
There may be *two*: nothing makes clear-and-insert atomic, so the property asks for
one at least. `LastWriteLatest`: the row written last is among them, unless it was deleted or a request was cut off after it
had cleared the flag. The clearing statement of one request never hides the row of another for good: whoever clears
inserts afterwards, and then its own row is the last. `LockedNotRemoved`: bytes are removed only by a DELETE or batch delete from
which neither hold nor retention protected them at some time while it ran, whether or not a delete marker hides the
object. A lock that is set between the check and the removal is too late; the check and the removal are two
statements, and more than "at some time" cannot hold.

*Bounds.* Three requests: an object, its lock, and the request that respects it, or two
writers and a version delete. Retention ends at 1 or 2, so that it expires inside the run or does not.
Deadlock is not checked: requests end.

Removal is what the code does exclude. *Overwriting* is not: a delete marker drops the head row, so the next PUT does not
ask for the lock (`s3_engine_adapter.go:591`) and overwrites the blob that locked versions share; copies and completions never
ask; `applyObjectLockOnPut` shortens a retention. `docs/IMPLEMENTATION_PLAN.md:627` calls compliance mode "immutable, cannot
be overridden" and `landing.html:863` says that object lock stops "rewriting history". The model has these
behaviours, so no property says that locked bytes stay as they are.

### Proofs (`VersionsProofs`)

For any finite set of requests, any jobs, number of rows and edits, clock and default retention:

| Theorem | Statement |
|---|---|
| `VersionsInductive` | `Spec => []IndInv` |
| `VersionsTyped` | `Spec => []TypeOK` |
| `LatestExists` | `Spec => []SomeLatest` |
| `LastWriteIsLatest` | `Spec => []LastWriteLatest` |
| `LockedBytesNotRemoved` | `Spec => LockedNotRemoved` |

`SomeLatest` speaks of moments without running requests. In between, `LatestInv` says that rows
without a latest one have a request on its way to set the flag, or one was cut off.
`NewestInv` says the same of the row written last: without the flag, a request that cleared it is about to insert its own row.
`LockedNotRemoved` is an action property; `FreeInv` is what it needs: a request about to remove
the bytes saw the object not protected from it, and `free` remembers it although the lock may have been set since.

## 8. `Metering`

### State and actions

One tenant's egress and storage from the request to the meter event, with the life
of the server process. A day is its hour 0, in which the ticker starts the report,
and the rest. The ticker is made when the startup run is over and ticks every hour from then on, so a process has a tick in
hour 0 only if it had its ticker at midnight.

| TLA+ | Code |
|---|---|
| `buffer, full, batch, daily` | `BandwidthTracker.buffer`, a request that must flush, what each flusher took, `bandwidth_usage_daily` |
| `stamp` | the `CURRENT_DATE` of an INSERT that is running |
| `rpc, meter, value, target` | the reporter goroutine and the event it is about |
| `armed, due` | whether it has its ticker, and whether the tick of this hour 0 is still to come |
| `records, alerts` | `metered_usage_reports`: reports and guard rows |
| `events` | what Stripe accepted (one event per identifier) |
| `stage, late` | the process: up, drain, flush, exit, down (the database is open to it only while it is up); requests that outlived the drain |
| `budget, lossy, dropped, tardy, excused` | bounds and history: bytes lost by a crash or failure, or by an orderly stop; days whose row grew after they were over; reports nobody will make |

| Actions | Code |
|---|---|
| `Record, TakeBuffer, StartWrite, CommitWrite` | `RecordWithBackend`, `Flush` by a request, the ticker, the shutdown: swap the buffer, start the INSERT, commit |
| `Startup, DailyTick, CheckReport, Send, RecordReport, NextMeter` | `StartMeteredReporting`, `ReportDaily`, `reportMeter` |
| `CapsTick, checkSpendingCaps, GuardAlert, SendAlert, EndRun` | `checkSpendingCaps`, `accruedCents`, `fireCapAlert` |
| `Signal, Drained, Exit, Crash, Restart` | signal handler and end of `main`, `CoreEngine.Shutdown` (closes the database), `Server.Start`, `Server.Shutdown` |
| `HourPasses, Midnight` | the clock and the ticker |

### Abstractions

Bytes are units and cents are bytes; caps are levels of the storage gauge. Postgres'
`CURRENT_DATE` and the reporter's UTC day are one clock (they differ when the database has
another time zone). An INSERT takes its date when it starts (`StartWrite`) and changes the row when it commits, which may
be after midnight but not hours later (its context is limited to 10 seconds). A run of the ticker is over before its day ends (2
minutes); the startup run may straddle midnight. A tick that is looked at after hour 0 is over costs a fault.
Once the database is closed every statement fails, without a fault; a reporter in the middle of a run goes
through its calls and changes nothing more, except that a meter event already on its way may still arrive. Stripe keeps the first event with an identifier.

### Runs

| Run | Instance | Checks | States |
|---|---|---|---|
| `metering` | 3 days, months of 2 days; five budgets that combine up to 2 requests, 2 stops or crashes and a failed call | `TypeOK, EgressExact, BilledOnce, EgressBilled, ReportedInTime, CapAlertOnce` | 1.8 million |
| `metering_shutdown` | the same | `StopKeepsEgress` violated | |

* `EgressExact`: what the rows, the batches and the buffer hold is never more than was
  served, and is exactly that unless something was lost: a byte is written once or is waiting; after a crash or a failed write it
  may be missing, never counted twice.
* `BilledOnce`, `EgressBilled`: at most one event per meter and day, with the day's final egress, although
  processes die between send and record and the gauge moves before a repetition. A flush that straddles
  midnight can add to a row after it was read, although `metered.go:104` calls the day complete; then the event has not more than
  the row, and those bytes are not billed.
* `ReportedInTime`: when the day after a day is over, the day has been recorded as reported. The catch-up of a new process makes good
  for stops and for failed calls. The exceptions are named, and each is real:
  a failed call in the last run about the day (the ticker does *not* retry: its next daily run is about the next day, whatever
  `metered.go:219` says of "the next run"); a next day that ends without a process that is up and has caught up; and a startup run
  that straddles midnight. In the last case the ticker is made too late for hour 0, and the day on which the process started is never
  reported, with no fault at all, unless another process starts on the next day.
* `CapAlertOnce`: at most one mail per level and month.

*Bounds.* Three days give a report, its repetition after a restart and the next midnight; a
month ends after two. `FlushAt = 2` lets the request, the ticker and the shutdown compete.
The budgets keep the product of faults small; each names a combination that matters. Deadlock is not
checked: after the last day the clock stops.

### Finding

**`StopKeepsEgress`.** The signal handler calls `eng.Shutdown` first (`main.go:326`), which closes the `*sql.DB` that the server shares, and
then `server.Shutdown`, whose flush cannot write any more. Besides, `httpServer.Shutdown` makes `ListenAndServe` return at once; `main` then calls
`logger.Fatal` and the process ends while the handler is still draining. Either is enough to lose the buffer,
although `Shutdown`'s comment says that this path saves it; curing one alone does not help. A batch the
ticker has taken and not written is lost too.

### Proofs (`MeteringProofs`)

For any number of days, length of months, buffer size, cap levels and budgets of requests, stops and faults:

| Theorem | Statement |
|---|---|
| `MeteringInductive` | `Spec => []IndInv` |
| `MeteringTyped` | `Spec => []TypeOK` |
| `EgressCountedOnce` | `Spec => []EgressExact` |
| `BilledAtMostOnce` | `Spec => []BilledOnce` |
| `EgressBilledFinal` | `Spec => []EgressBilled` |
| `ReportsComeInTime` | `Spec => []ReportedInTime` |
| `CapAlertsOnce` | `Spec => []CapAlertOnce` |

A sum over the rows would need induction over the days. `Written` is instead the number of
pairs (day, byte number up to that row's count): writing a batch adds a set of new pairs whose size is the batch,
which the library's theorems on cardinality cover. `CountInv` bounds what waits, row
by row.

* `RunInv`: a run is about a day that is over, so the egress it read is final unless a flush straddled midnight; at `record`
  Stripe has the event; an event's identifier is its meter and day, which is why a repetition adds none.
* `AlertInv`: the guard row is inserted before the mail is sent and stands for it afterwards.
* `CatchUpInv`: in a process that is up, has no tick of hour 0 to come and has begun its catch-up, each meter of the day
  before is recorded, excused, or still to be settled by the run under way (`Pending`). `ReportedInTime` follows at midnight,
  where `Missed` names what has no run any more. It asks about days from the one before the first start on.

## 9. What is proved and what is only checked

Proved for all values of the constants, from the named assumptions of each module
(`ConstAssumption`, `LedgerAssumption`, `MultipartAssumption`, `EngineAssumption`, `VersionsAssumption`,
`MeteringAssumption`: types of the constants and distinct special values): every invariant of every passing run and the action properties `LimitHolds` and `LockedNotRemoved`. `AckedWhole` and `RecordedKept` are proved for clients that do not resend parts.

Checked by TLC only:

* `RequestsEnd`, `GarbageReclaimed`, `TempReclaimed`: liveness under fairness, which
  TLAPS 1.4.5 does not support;
* the five counterexamples `ManifestReadable`, `OneVersion`, `StaleBlobOnly`, `RecordedOnDisk`
  and `StopKeepsEgress`, which are runs that end in a violation.

Each inductive invariant was checked by TLC on the module's instances before it was proved.

Each property has a mutant: a definition named `...Unlocked`, `...Unchecked`, `...Twice` and so on
next to the definition it would replace, marked `Mutant`. No specification uses
them; substituting one makes TLC report the property.

## 10. Not modelled

See `PROJECT.json` for the parts and the reasons. In short:

* *Rendering and reads*: dashboard, documentation, listings, HEAD, analytics pages.
* *I/O*: the storage drivers (S3, Lyve, Geyser, iDrive, OneDrive, local disk) behind `engine.Driver`;
  the engine module models what they may answer.
* *Libraries the server does not link or construct*: `ratelimit`, `queue`, `ha`, `gateway`, `k8s`, `devops`,
  `loadtest`, `audit`, `retention`, `webhooks`, `streaming`, `orchestrator` and others, and
  `usage/auto_upgrade.go`, `overage.go`, `grace_period.go`. They are a large part of the repository's lines and
  have tests but no callers; a model of them would say nothing about the system that runs.
* *Pure functions over bytes*: signatures, chunking, compression, encryption.
* *Account deletion* (`account_deletion.go`): one transaction that also decrements reference counts (lines 124-163);
  `ChunkStore` is about tenants that stay.
* *Single statements*: compliance and event records, Stripe's webhook events, tenant settings.
* *Command-line tools and benchmarks.*

Worth modelling next: idempotency keys (an answer that is stored after the
handler ran, so two equal requests may both run), session and MFA state, the flag
cache, webhook redelivery.
