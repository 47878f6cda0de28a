----------------------------- MODULE ChunkStore -----------------------------
(***************************************************************************)
(* The deduplicating chunk store of Vaultaire.                             *)
(*                                                                         *)
(* A chunked PUT splits an object into content-defined chunks, takes one   *)
(* reference per chunk in the Global Content Index (GCI), stores the       *)
(* chunks the index does not know, and installs the object's manifest in   *)
(* one transaction.  A copy of a chunked object installs a second manifest *)
(* over the same chunks.  DELETE and overwrites release the references of  *)
(* the manifest they remove.  The dedup garbage collector repairs          *)
(* reference counts (reconcile) and removes chunks that stay unreferenced  *)
(* for a grace period (sweep).  All of them run concurrently; what keeps   *)
(* them apart is a Postgres advisory lock per chunk, the row locks of the  *)
(* manifest transactions, READ COMMITTED statement snapshots, and the      *)
(* foreign key from manifest rows to index rows.                           *)
(*                                                                         *)
(* A chunk stands for a pair (dedup_scope, plaintext_hash).  A reference   *)
(* is identified by the request and the chunk index that took it, so the   *)
(* rows of tenant_chunk_refs and the references an upload still holds can  *)
(* be counted as sets.  Times are ages (now - timestamp) that stop growing *)
(* at Grace + 1: the code only asks whether an age exceeds Grace.          *)
(***************************************************************************)
EXTENDS Integers, Sequences, FiniteSets

CONSTANTS
    Chunks,       \* chunk identities: (dedup_scope, plaintext_hash)
    Objects,      \* object keys
    Requests,     \* S3 requests; each runs once
    Runners,      \* concurrent dedup GC cycles (ticker, admin trigger)
    Encodings,    \* stored forms of a chunk: compressed or not
    Jobs,         \* what a request asks for
    MaxLen,       \* most chunks in one object
    Grace,        \* DedupGCRunner.GracePeriod
    MaxCrashes,   \* bound on process restarts
    Free,         \* nobody holds the lock
    Pooled,       \* an idle pooled connection still holds the advisory lock
    NoBlob, None

Idx == 1..MaxLen
Rows == Requests \X Idx
Age == 0..(Grace + 1)

\* put: chunked PUT; plain: whole-object PUT, copy or multipart completion;
\* delete: DELETE of an unversioned key; marker: DELETE in a versioned bucket;
\* copy: CopyObject from src to key.
Ops == {"put", "plain", "delete", "marker", "copy"}
JobType == [op : Ops, key : Objects, src : Objects, body : Seq(Chunks), enc : Encodings]

ASSUME ConstAssumption ==
    /\ MaxLen \in Nat
    /\ Grace \in Nat
    /\ MaxCrashes \in Nat
    /\ IsFiniteSet(Requests)
    /\ Jobs \subseteq JobType
    /\ \A j \in Jobs : Len(j.body) <= MaxLen /\ (j.op = "put" <=> Len(j.body) > 0)
    /\ {Free, Pooled} \cap (Requests \cup Runners) = {} /\ Free # Pooled
    /\ Requests \cap Runners = {}
    /\ Encodings # {} /\ NoBlob \notin Encodings
    /\ None \notin Chunks

VARIABLES
    indexed,      \* chunks that have a row in global_content_index
    refCount,     \* ref_count of each row
    marked,       \* rows with marked_for_deletion
    markedAge,    \* now - marked_at
    accessAge,    \* now - last_accessed_at
    rowEnc,       \* compression_algo of the row
    blob,         \* the chunk's blob on the backend
    lock,         \* holder of pg_advisory lock (scope, hash)
    cached,       \* chunks with an entry in the in-memory gciCache
    loads,        \* GET lookups that read the row and have yet to cache it
    head,         \* object_head_cache row: none, plain or is_chunked
    headLock,     \* transaction holding the head row FOR UPDATE
    manifest,     \* tenant_chunk_refs rows of each key
    rowLock,      \* transaction holding the key's manifest rows FOR UPDATE
    job,          \* the request's input
    body,         \* the chunks it installs: of its body, or read from a copy's source
    pc,           \* the request's control state
    task,         \* progress of each chunk of a chunked PUT
    seen,         \* old manifest rows read by the request's transaction
    gcPc, cand, cur, \* GC cycle: control state, candidates, current chunk
    crashes

gciVars == <<indexed, refCount, marked, markedAge, accessAge, rowEnc>>
storeVars == <<blob, lock, cached, loads>>
objVars == <<head, headLock, manifest, rowLock>>
reqVars == <<job, body, pc, task, seen>>
gcVars == <<gcPc, cand, cur>>
vars == <<gciVars, storeVars, objVars, reqVars, gcVars, crashes>>

TaskStates == {"new", "hit", "wait", "store", "locked", "put", "ref", "owned", "dead"}
PcStates == {"idle", "run", "failing", "peekSrc", "readSrc", "lockHead", "snap", "own", "commit", "upsert",
             "peek", "unhead", "abort", "done", "failed"}
GcStates == {"idle", "scan", "sweep", "row", "blob"}

TypeOK ==
    /\ indexed \subseteq Chunks /\ marked \subseteq Chunks
    /\ cached \subseteq Chunks /\ loads \subseteq Chunks
    /\ refCount \in [Chunks -> Nat]
    /\ markedAge \in [Chunks -> Age] /\ accessAge \in [Chunks -> Age]
    /\ rowEnc \in [Chunks -> Encodings]
    /\ blob \in [Chunks -> Encodings \cup {NoBlob}]
    /\ lock \in [Chunks -> Requests \cup Runners \cup {Free, Pooled}]
    /\ head \in [Objects -> {"none", "plain", "chunked"}]
    /\ headLock \in [Objects -> Requests \cup {Free}]
    /\ rowLock \in [Objects -> Requests \cup {Free}]
    /\ manifest \in [Objects -> SUBSET Rows]
    /\ job \in [Requests -> Jobs]
    /\ body \in [Requests -> [Idx -> Chunks \cup {None}]]
    /\ pc \in [Requests -> PcStates]
    /\ task \in [Requests -> [Idx -> TaskStates]]
    /\ seen \in [Requests -> SUBSET Rows]
    /\ gcPc \in [Runners -> GcStates]
    /\ cand \in [Runners -> SUBSET Chunks]
    /\ cur \in [Runners -> Chunks \cup {None}]
    /\ crashes \in 0..MaxCrashes

Init ==
    /\ indexed = {} /\ marked = {} /\ cached = {} /\ loads = {}
    /\ refCount = [c \in Chunks |-> 0]
    /\ markedAge = [c \in Chunks |-> 0] /\ accessAge = [c \in Chunks |-> 0]
    /\ rowEnc = [c \in Chunks |-> CHOOSE e \in Encodings : TRUE]
    /\ blob = [c \in Chunks |-> NoBlob]
    /\ lock = [c \in Chunks |-> Free]
    /\ head = [o \in Objects |-> "none"]
    /\ headLock = [o \in Objects |-> Free]
    /\ rowLock = [o \in Objects |-> Free]
    /\ manifest = [o \in Objects |-> {}]
    /\ job \in [Requests -> Jobs]
    /\ body = [u \in Requests |-> [i \in Idx |->
                  IF i <= Len(job[u].body) THEN job[u].body[i] ELSE None]]
    /\ pc = [u \in Requests |-> "idle"]
    /\ task = [u \in Requests |-> [i \in Idx |-> "new"]]
    /\ seen = [u \in Requests |-> {}]
    /\ gcPc = [g \in Runners |-> "idle"]
    /\ cand = [g \in Runners |-> {}]
    /\ cur = [g \in Runners |-> None]
    /\ crashes = 0

-----------------------------------------------------------------------------
(* Statements on global_content_index *)

Hash(u, i) == body[u][i]
Key(u) == job[u].key
Indices(u) == {i \in Idx : body[u][i] # None}
Chunked(u) == Indices(u) # {}
HashOf(r) == Hash(r[1], r[2])

\* The set part of an UPDATE/INSERT that takes one reference on c.
TakeRef(c) ==
    /\ refCount' = [refCount EXCEPT ![c] = @ + 1]
    /\ marked' = marked \ {c}
    /\ markedAge' = [markedAge EXCEPT ![c] = 0]
    /\ accessAge' = [accessAge EXCEPT ![c] = 0]

\* insertChunkSQL: a fresh row, or ON CONFLICT a reference on the row found;
\* the row found keeps its compression_algo.
InsertChunk(c, e) ==
    \/ /\ c \notin indexed
       /\ indexed' = indexed \cup {c}
       /\ refCount' = [refCount EXCEPT ![c] = 1]
       /\ marked' = marked \ {c}
       /\ markedAge' = [markedAge EXCEPT ![c] = 0]
       /\ accessAge' = [accessAge EXCEPT ![c] = 0]
       /\ rowEnc' = [rowEnc EXCEPT ![c] = e]
    \/ /\ c \in indexed
       /\ TakeRef(c)
       /\ UNCHANGED <<indexed, rowEnc>>

RowsOf(R, c) == {r \in R : HashOf(r) = c}

\* How many of the rows in R reference c.
Count(R, c) == Cardinality(RowsOf(R, c))

\* Mutant: the count drops without the row being marked at zero.
SwapRefsUnmarked(A, R) ==
    /\ refCount' = [c \in Chunks |-> IF c \in indexed THEN refCount[c] + Count(A, c) - Count(R, c)
                                                      ELSE refCount[c]]
    /\ UNCHANGED <<indexed, marked, markedAge, accessAge, rowEnc>>

\* increment_chunk_ref for every row in A, then decrement_chunk_ref for every
\* row in R: a row whose count passes through zero is marked for deletion.
SwapRefs(A, R) ==
    LET plus(c) == IF c \in indexed THEN Count(A, c) ELSE 0
        minus(c) == IF c \in indexed THEN Count(R, c) ELSE 0
        touched == {c \in Chunks : plus(c) > 0}
        zero == {c \in Chunks : /\ minus(c) > 0 /\ refCount[c] + plus(c) > 0
                                /\ refCount[c] + plus(c) <= minus(c)}
    IN  /\ refCount' = [c \in Chunks |-> refCount[c] + plus(c) - minus(c)]
        /\ marked' = (marked \ touched) \cup zero
        /\ markedAge' = [c \in Chunks |-> IF c \in touched \cup zero THEN 0 ELSE markedAge[c]]
        /\ accessAge' = [c \in Chunks |-> IF c \in touched THEN 0 ELSE accessAge[c]]
        /\ UNCHANGED <<indexed, rowEnc>>

SetTask(u, i, s) == task' = [task EXCEPT ![u][i] = s]
Goto(u, s) == pc' = [pc EXCEPT ![u] = s]

-----------------------------------------------------------------------------
(* Chunked PUT: dispatcher (handleChunkedPut) and store workers *)

Begin(u) ==
    /\ pc[u] = "idle"
    /\ Goto(u, CASE job[u].op = "put" -> "run"
                 [] job[u].op = "plain" -> "lockHead"
                 [] job[u].op = "delete" -> "peek"
                 [] job[u].op = "marker" -> "unhead"
                 [] job[u].op = "copy" -> "peekSrc")
    /\ UNCHANGED <<gciVars, storeVars, objVars, job, body, task, seen, gcVars, crashes>>

\* Chunks of the upload that a worker is storing (chunkStorePool.inFlight).
InFlight(u, c) == \E j \in Indices(u) : Hash(u, j) = c /\ task[u][j] \in {"store", "locked", "put"}

\* The dispatcher handles chunks in order and one at a time.
Dispatchable(u, i) ==
    /\ pc[u] = "run" /\ i \in Indices(u) /\ task[u][i] = "new"
    /\ \A j \in 1..(i-1) : task[u][j] \notin {"new", "hit"}

NoteDuplicate(u, i) ==
    /\ Dispatchable(u, i)
    /\ InFlight(u, Hash(u, i))
    /\ SetTask(u, i, "wait")
    /\ UNCHANGED <<gciVars, storeVars, objVars, job, body, pc, seen, gcVars, crashes>>

LookupChunk(u, i) ==
    LET c == Hash(u, i) IN
    /\ Dispatchable(u, i)
    /\ ~InFlight(u, c)
    /\ \/ /\ c \in cached \cup indexed
          /\ cached' = cached \cup {c}
          /\ SetTask(u, i, "hit")
       \/ /\ c \notin cached \cup indexed
          /\ SetTask(u, i, "store")
          /\ UNCHANGED cached
    /\ UNCHANGED <<gciVars, blob, lock, loads, objVars, job, body, pc, seen, gcVars, crashes>>

\* Mutant: the rows-affected count of the increment is ignored.
IncrementRefUnchecked(u, i) ==
    LET c == Hash(u, i) IN
    /\ pc[u] \in {"run", "failing"} /\ task[u][i] = "hit"
    /\ \/ c \in indexed /\ TakeRef(c)
       \/ c \notin indexed /\ UNCHANGED <<refCount, marked, markedAge, accessAge>>
    /\ SetTask(u, i, "ref")
    /\ cached' = cached \ {c}
    /\ UNCHANGED <<indexed, rowEnc, blob, lock, loads, objVars, job, body, pc, seen, gcVars, crashes>>

\* A hit takes its reference; zero rows updated means the chunk was swept
\* since the lookup, and it is stored again.
IncrementRef(u, i) ==
    LET c == Hash(u, i) IN
    /\ pc[u] \in {"run", "failing"} /\ task[u][i] = "hit"
    /\ \/ c \in indexed /\ TakeRef(c) /\ SetTask(u, i, "ref")
       \/ /\ c \notin indexed
          /\ SetTask(u, i, "store")
          /\ UNCHANGED <<refCount, marked, markedAge, accessAge>>
    /\ cached' = cached \ {c}
    /\ UNCHANGED <<indexed, rowEnc, blob, lock, loads, objVars, job, body, pc, seen, gcVars, crashes>>

\* storeChunkLocked: advisory lock, blob, row and commit.
StoreLock(u, i) ==
    LET c == Hash(u, i) IN
    /\ task[u][i] = "store"
    /\ lock[c] = Free
    /\ lock' = [lock EXCEPT ![c] = u]
    /\ SetTask(u, i, "locked")
    /\ UNCHANGED <<gciVars, blob, cached, loads, objVars, job, body, pc, seen, gcVars, crashes>>

StorePut(u, i) ==
    /\ task[u][i] = "locked"
    /\ blob' = [blob EXCEPT ![Hash(u, i)] = job[u].enc]
    /\ SetTask(u, i, "put")
    /\ UNCHANGED <<gciVars, lock, cached, loads, objVars, job, body, pc, seen, gcVars, crashes>>

StoreCommit(u, i) ==
    LET c == Hash(u, i) IN
    /\ task[u][i] = "put"
    /\ InsertChunk(c, job[u].enc)
    /\ cached' = cached \ {c}
    /\ lock' = [lock EXCEPT ![c] = Free]
    /\ SetTask(u, i, "ref")
    /\ UNCHANGED <<blob, loads, objVars, job, body, pc, seen, gcVars, crashes>>

\* Mutant: the error path does not roll back, so the lock stays held.
StoreFailKeepsLock(u, i) ==
    /\ task[u][i] \in {"store", "locked", "put"}
    /\ SetTask(u, i, "dead")
    /\ Goto(u, "failing")
    /\ UNCHANGED <<gciVars, storeVars, objVars, job, body, seen, gcVars, crashes>>

\* Lock, backend or database error: the transaction rolls back, the pool fails.
StoreFail(u, i) ==
    LET c == Hash(u, i) IN
    /\ task[u][i] \in {"store", "locked", "put"}
    /\ lock' = IF task[u][i] = "store" THEN lock ELSE [lock EXCEPT ![c] = Free]
    /\ SetTask(u, i, "dead")
    /\ Goto(u, "failing")
    /\ UNCHANGED <<gciVars, blob, cached, loads, objVars, job, body, seen, gcVars, crashes>>

\* The collector grants a duplicate its reference once the store committed.
GrantWaiter(u, i) ==
    LET c == Hash(u, i) IN
    /\ task[u][i] = "wait"
    /\ ~InFlight(u, c)
    /\ \E j \in Indices(u) : Hash(u, j) = c /\ task[u][j] = "ref"
    /\ IF c \in indexed
         THEN TakeRef(c) /\ SetTask(u, i, "ref") /\ UNCHANGED pc
         ELSE /\ SetTask(u, i, "dead") /\ Goto(u, "failing")
              /\ UNCHANGED <<refCount, marked, markedAge, accessAge>>
    /\ cached' = cached \ {c}
    /\ UNCHANGED <<indexed, rowEnc, blob, lock, loads, objVars, job, body, seen, gcVars, crashes>>

\* After a failure: waiters of a failed store, and a hit whose increment is
\* refused by the cancelled context, are dropped.
Abandon(u, i) ==
    /\ pc[u] = "failing"
    /\ task[u][i] \in {"hit", "wait"}
    /\ SetTask(u, i, "dead")
    /\ UNCHANGED <<gciVars, storeVars, objVars, job, body, pc, seen, gcVars, crashes>>

\* Chunker error, client disconnect, lookup or increment error.
Fail(u) ==
    /\ pc[u] = "run"
    /\ Goto(u, "failing")
    /\ UNCHANGED <<gciVars, storeVars, objVars, job, body, task, seen, gcVars, crashes>>

\* pool.join: all workers and the collector are done.
Join(u) ==
    /\ \/ pc[u] = "run" /\ (\A i \in Indices(u) : task[u][i] = "ref") /\ Goto(u, "lockHead")
       \/ /\ pc[u] = "failing"
          /\ \A i \in Indices(u) : task[u][i] \in {"new", "ref", "dead"}
          /\ Goto(u, "abort")
    /\ UNCHANGED <<gciVars, storeVars, objVars, job, body, task, seen, gcVars, crashes>>

\* Mutant: every dispatched chunk is released, with or without a reference.
CompensateAll(u, i) ==
    /\ pc[u] = "abort" /\ task[u][i] \in {"ref", "dead"}
    /\ SwapRefs({}, {<<u, i>>}) /\ cached' = cached \ {Hash(u, i)}
    /\ SetTask(u, i, "new")
    /\ UNCHANGED <<blob, lock, loads, objVars, job, body, pc, seen, gcVars, crashes>>

\* The deferred compensator releases each reference taken by a failed PUT;
\* a decrement that fails is only logged.
Compensate(u, i) ==
    /\ pc[u] = "abort" /\ task[u][i] = "ref"
    /\ \/ SwapRefs({}, {<<u, i>>}) /\ cached' = cached \ {Hash(u, i)}
       \/ UNCHANGED <<gciVars, cached>>
    /\ SetTask(u, i, "dead")
    /\ UNCHANGED <<blob, lock, loads, objVars, job, body, pc, seen, gcVars, crashes>>

AbortDone(u) ==
    /\ pc[u] = "abort"
    /\ \A i \in Indices(u) : task[u][i] # "ref"
    /\ Goto(u, "failed")
    /\ UNCHANGED <<gciVars, storeVars, objVars, job, body, task, seen, gcVars, crashes>>

-----------------------------------------------------------------------------
(* CopyObject: a chunked source is copied by its manifest, without data *)

\* The source's head row decides; a self-copy of a chunked object is refused,
\* and an unreadable source fails the request.
PeekSource(u) ==
    LET o == job[u].src IN
    /\ pc[u] = "peekSrc"
    /\ \/ head[o] = "chunked" /\ o # Key(u) /\ Goto(u, "readSrc")
       \/ head[o] # "chunked" /\ Goto(u, "lockHead")
       \/ Goto(u, "failed")
    /\ UNCHANGED <<gciVars, storeVars, objVars, job, body, task, seen, gcVars, crashes>>

\* GetObjectChunks, outside the transaction that installs the copy.
ReadSource(u) ==
    LET rows == manifest[job[u].src]
        hashes(i) == {HashOf(r) : r \in {r \in rows : r[2] = i}}
    IN
    /\ pc[u] = "readSrc"
    /\ \/ /\ rows # {}
          /\ body' = [body EXCEPT ![u] = [i \in Idx |->
                         IF hashes(i) = {} THEN None ELSE CHOOSE h \in hashes(i) : TRUE]]
          /\ Goto(u, "lockHead")
       \/ Goto(u, "failed") /\ UNCHANGED body
    /\ UNCHANGED <<gciVars, storeVars, objVars, job, task, seen, gcVars, crashes>>

-----------------------------------------------------------------------------
(* Transactions on a key: manifest swap, release, head row *)

\* SELECT ... FOR UPDATE on the head row; an absent row cannot be locked.
LockHead(u) ==
    LET o == Key(u) IN
    /\ pc[u] = "lockHead"
    /\ headLock[o] = Free
    /\ headLock' = IF head[o] = "none" THEN headLock ELSE [headLock EXCEPT ![o] = u]
    /\ Goto(u, IF Chunked(u) \/ head[o] = "chunked" THEN "snap" ELSE "upsert")
    /\ UNCHANGED <<gciVars, storeVars, head, manifest, rowLock, job, body, task, seen, gcVars, crashes>>

\* SELECT ... FOR UPDATE on the manifest: the snapshot, then the row locks.
\* Rows a concurrent transaction removed while this one waited are skipped.
ReadManifest(u) ==
    /\ pc[u] = "snap"
    /\ seen' = [seen EXCEPT ![u] = manifest[Key(u)]]
    /\ Goto(u, "own")
    /\ UNCHANGED <<gciVars, storeVars, objVars, job, body, task, gcVars, crashes>>

LockManifest(u) ==
    LET o == Key(u)
        rows == seen[u] \cap manifest[o] IN
    /\ pc[u] = "own"
    /\ seen[u] # {} => rowLock[o] = Free
    /\ seen' = [seen EXCEPT ![u] = rows]
    /\ rowLock' = IF rows = {} THEN rowLock ELSE [rowLock EXCEPT ![o] = u]
    /\ Goto(u, "commit")
    /\ UNCHANGED <<gciVars, storeVars, head, headLock, manifest, job, body, task, gcVars, crashes>>

Unlock(l, u) == [o \in Objects |-> IF l[o] = u THEN Free ELSE l[o]]

\* New rows replace the rows of the same chunk_index (ON CONFLICT DO UPDATE).
Installed(u, kept) ==
    {r \in kept : r[2] \notin Indices(u)} \cup {<<u, i>> : i \in Indices(u)}

\* Mutant: tenant_chunk_refs without its foreign key.
KeysUnchecked(R) == TRUE

\* Foreign key of tenant_chunk_refs: a manifest row needs the row of its chunk,
\* when the row is inserted ...
KeysPresent(R) == \A r \in R : HashOf(r) \in indexed

\* ... and as long as it is there.
Referenced(c) == \E o \in Objects : \E r \in manifest[o] : HashOf(r) = c

\* ReplaceObjectManifestTx / DeleteObjectChunksTx from the DELETE statement to
\* the commit.  The DELETE has its own snapshot, so it removes the rows read
\* before or, where another transaction committed in between, the rows now
\* there.  A copy takes its references here, ignoring how many rows that hits.
CommitManifest(u) ==
    LET o == Key(u)
        new == {<<u, i>> : i \in Indices(u)} IN
    /\ pc[u] = "commit"
    /\ rowLock[o] \in {Free, u}
    /\ job[u].op = "delete" \/ headLock[o] \in {Free, u}
    /\ KeysPresent(new)
    /\ \E gone \in {seen[u], manifest[o]} :
          manifest' = [manifest EXCEPT ![o] = Installed(u, @ \ gone)]
    /\ SwapRefs(IF job[u].op = "copy" THEN new ELSE {}, seen[u])
    /\ cached' = cached \ {HashOf(r) : r \in seen[u]}
    /\ task' = [task EXCEPT ![u] = [i \in Idx |-> IF i \in Indices(u) THEN "owned" ELSE @[i]]]
    /\ head' = IF job[u].op = "delete" THEN head
               ELSE [head EXCEPT ![o] = IF Chunked(u) THEN "chunked" ELSE "plain"]
    /\ headLock' = Unlock(headLock, u)
    /\ rowLock' = Unlock(rowLock, u)
    /\ seen' = [seen EXCEPT ![u] = {}]
    /\ Goto(u, IF job[u].op = "delete" THEN "unhead" ELSE "done")
    /\ UNCHANGED <<blob, lock, loads, job, body, gcVars, crashes>>

\* A plain write over a key that is not chunked only upserts the head row.
UpsertHead(u) ==
    LET o == Key(u) IN
    /\ pc[u] = "upsert"
    /\ headLock[o] \in {Free, u}
    /\ head' = [head EXCEPT ![o] = "plain"]
    /\ headLock' = Unlock(headLock, u)
    /\ Goto(u, "done")
    /\ UNCHANGED <<gciVars, storeVars, manifest, rowLock, job, body, task, seen, gcVars, crashes>>

TxStates == {"lockHead", "snap", "own", "commit", "upsert"}

\* Any statement or the commit fails: rollback, then compensation for a PUT.
TxFail(u) ==
    /\ pc[u] \in TxStates
    /\ headLock' = Unlock(headLock, u)
    /\ rowLock' = Unlock(rowLock, u)
    /\ seen' = [seen EXCEPT ![u] = {}]
    /\ Goto(u, IF job[u].op = "put" THEN "abort" ELSE "failed")
    /\ UNCHANGED <<gciVars, storeVars, head, manifest, job, body, task, gcVars, crashes>>

\* Postgres breaks a cycle of row locks by aborting one transaction: u owns the
\* head row and waits for manifest rows whose owner waits for the head row.
DeadlockVictim(u) ==
    /\ headLock[Key(u)] = u /\ pc[u] = "own"
    /\ \E v \in Requests \ {u} : rowLock[Key(u)] = v /\ job[v].op # "delete"
    /\ TxFail(u)

\* HandleDelete reads is_chunked outside any transaction, and takes a failed
\* read for "not chunked" ...
PeekHead(u) ==
    /\ pc[u] = "peek"
    /\ \/ head[Key(u)] = "chunked" /\ Goto(u, "snap")
       \/ Goto(u, "unhead")
    /\ UNCHANGED <<gciVars, storeVars, objVars, job, body, task, seen, gcVars, crashes>>

\* ... and deletes the head row last, in a statement of its own whose failure
\* is only logged.
DeleteHead(u) ==
    LET o == Key(u) IN
    /\ pc[u] = "unhead"
    /\ headLock[o] = Free
    /\ head' = [head EXCEPT ![o] = "none"] \/ UNCHANGED head
    /\ Goto(u, "done")
    /\ UNCHANGED <<gciVars, storeVars, headLock, manifest, rowLock, job, body, task, seen, gcVars, crashes>>

-----------------------------------------------------------------------------
(* Dedup GC: RunOnce = reconcile, then sweep *)

ManifestRows == UNION {manifest[o] : o \in Objects}

\* The single UPDATE of reconcile: rows idle for longer than Grace whose
\* count differs from the number of manifest rows.
Reconcile(g) ==
    LET n(c) == Count(ManifestRows, c)
        fix == {c \in indexed : accessAge[c] > Grace /\ refCount[c] # n(c)}
        zero == {c \in fix : n(c) = 0}
    IN
    /\ gcPc[g] = "idle"
    /\ refCount' = [c \in Chunks |-> IF c \in fix THEN n(c) ELSE refCount[c]]
    /\ marked' = (marked \ fix) \cup zero
    /\ markedAge' = [c \in Chunks |-> IF c \in fix /\ ~(c \in zero /\ c \in marked)
                                        THEN 0 ELSE markedAge[c]]
    /\ gcPc' = [gcPc EXCEPT ![g] = "scan"]
    /\ UNCHANGED <<indexed, accessAge, rowEnc, storeVars, objVars, reqVars, cand, cur, crashes>>

SweepScan(g) ==
    /\ gcPc[g] = "scan"
    /\ cand' = [cand EXCEPT ![g] = {c \in indexed \cap marked : refCount[c] = 0 /\ markedAge[c] > Grace}]
    /\ gcPc' = [gcPc EXCEPT ![g] = "sweep"]
    /\ UNCHANGED <<gciVars, storeVars, objVars, reqVars, cur, crashes>>

\* Mutant: sweepOne without the advisory lock.
SweepLockUnlocked(g, c) ==
    /\ gcPc[g] = "sweep" /\ c \in cand[g]
    /\ cached' = cached \ {c}
    /\ cand' = [cand EXCEPT ![g] = @ \ {c}]
    /\ cur' = [cur EXCEPT ![g] = c]
    /\ gcPc' = [gcPc EXCEPT ![g] = "row"]
    /\ UNCHANGED <<gciVars, blob, lock, loads, objVars, reqVars, crashes>>

\* sweepOne: lock and invalidate, delete the row, delete the blob, unlock.
SweepLock(g, c) ==
    /\ gcPc[g] = "sweep" /\ c \in cand[g]
    /\ lock[c] = Free
    /\ lock' = [lock EXCEPT ![c] = g]
    /\ cached' = cached \ {c}
    /\ cand' = [cand EXCEPT ![g] = @ \ {c}]
    /\ cur' = [cur EXCEPT ![g] = c]
    /\ gcPc' = [gcPc EXCEPT ![g] = "row"]
    /\ UNCHANGED <<gciVars, blob, loads, objVars, reqVars, crashes>>

\* The conditional DELETE does not look at marked_at again; the foreign key
\* refuses to delete a row that a manifest references.
Sweepable(c) == c \in indexed /\ refCount[c] = 0 /\ c \in marked /\ ~Referenced(c)

\* pg_advisory_unlock runs on the cycle's context.  Once that is cancelled the
\* statement is not sent, and closing the sql.Conn hands the connection back
\* to the pool with the lock.
UnlockChunk(c) == \E h \in {Free, Pooled} : lock' = [lock EXCEPT ![c] = h]

SweepRow(g) ==
    LET c == cur[g] IN
    /\ gcPc[g] = "row"
    /\ \/ /\ Sweepable(c)
          /\ indexed' = indexed \ {c}
          /\ marked' = marked \ {c}
          /\ markedAge' = [markedAge EXCEPT ![c] = 0]
          /\ accessAge' = [accessAge EXCEPT ![c] = 0]
          /\ gcPc' = [gcPc EXCEPT ![g] = "blob"]
          /\ UNCHANGED <<lock, cur>>
       \/ /\ ~Sweepable(c)
          /\ UnlockChunk(c)
          /\ cur' = [cur EXCEPT ![g] = None]
          /\ gcPc' = [gcPc EXCEPT ![g] = "sweep"]
          /\ UNCHANGED <<indexed, marked, markedAge, accessAge>>
    /\ UNCHANGED <<refCount, rowEnc, blob, cached, loads,
                   objVars, reqVars, cand, crashes>>

\* A failed blob delete leaks the blob.
SweepBlob(g) ==
    LET c == cur[g] IN
    /\ gcPc[g] = "blob"
    /\ blob' = [blob EXCEPT ![c] = NoBlob] \/ UNCHANGED blob
    /\ cached' = cached \ {c}
    /\ UnlockChunk(c)
    /\ cur' = [cur EXCEPT ![g] = None]
    /\ gcPc' = [gcPc EXCEPT ![g] = "sweep"]
    /\ UNCHANGED <<gciVars, loads, objVars, reqVars, cand, crashes>>

\* The candidate query fails; a candidate's connection, lock or DELETE fails.
SweepFail(g) ==
    /\ \/ /\ gcPc[g] = "scan"
          /\ gcPc' = [gcPc EXCEPT ![g] = "idle"]
          /\ UNCHANGED <<lock, cand, cur>>
       \/ /\ gcPc[g] = "sweep"
          /\ \E c \in cand[g] : cand' = [cand EXCEPT ![g] = @ \ {c}]
          /\ UNCHANGED <<lock, gcPc, cur>>
       \/ /\ gcPc[g] = "row"
          /\ UnlockChunk(cur[g])
          /\ cur' = [cur EXCEPT ![g] = None]
          /\ gcPc' = [gcPc EXCEPT ![g] = "sweep"]
          /\ UNCHANGED cand
    /\ UNCHANGED <<gciVars, blob, cached, loads, objVars, reqVars, crashes>>

\* ConnMaxLifetime or ConnMaxIdleTime closes the connection.
RecycleConn(c) ==
    /\ lock[c] = Pooled
    /\ lock' = [lock EXCEPT ![c] = Free]
    /\ UNCHANGED <<gciVars, blob, cached, loads, objVars, reqVars, gcVars, crashes>>

SweepDone(g) ==
    /\ gcPc[g] = "sweep" /\ cand[g] = {}
    /\ gcPc' = [gcPc EXCEPT ![g] = "idle"]
    /\ UNCHANGED <<gciVars, storeVars, objVars, reqVars, cand, cur, crashes>>

-----------------------------------------------------------------------------
(* Readers' lookups, time, restarts *)

\* LookupChunk on behalf of a GET: the row is read, and cached only later.
LoadRow(c) ==
    /\ c \in indexed \ cached
    /\ loads' = loads \cup {c}
    /\ UNCHANGED <<gciVars, blob, lock, cached, objVars, reqVars, gcVars, crashes>>

CacheSet(c) ==
    /\ c \in loads
    /\ loads' = loads \ {c}
    /\ cached' = cached \cup {c}
    /\ UNCHANGED <<gciVars, blob, lock, objVars, reqVars, gcVars, crashes>>

\* A full cache drops half of its entries.
CacheEvict(c) ==
    /\ c \in cached
    /\ cached' = cached \ {c}
    /\ UNCHANGED <<gciVars, blob, lock, loads, objVars, reqVars, gcVars, crashes>>

\* Environment assumption: no upload holds a reference for longer than Grace
\* after the chunk was last touched (reconcile cannot see such a reference).
UploadsWithinGrace ==
    \A u \in Requests, i \in Idx : task[u][i] = "ref" => accessAge[Hash(u, i)] < Grace

Older(a) == IF a <= Grace THEN a + 1 ELSE a

Tick ==
    /\ UploadsWithinGrace
    /\ \E c \in indexed : accessAge[c] <= Grace \/ (c \in marked /\ markedAge[c] <= Grace)
    /\ markedAge' = [c \in Chunks |-> IF c \in indexed \cap marked THEN Older(markedAge[c]) ELSE markedAge[c]]
    /\ accessAge' = [c \in Chunks |-> IF c \in indexed THEN Older(accessAge[c]) ELSE accessAge[c]]
    /\ UNCHANGED <<indexed, refCount, marked, rowEnc, storeVars, objVars, reqVars, gcVars, crashes>>

\* The process dies: open transactions roll back, advisory locks and the
\* cache are gone, references taken but not installed are never released.
Crash ==
    /\ crashes < MaxCrashes
    /\ crashes' = crashes + 1
    /\ pc' = [u \in Requests |-> IF pc[u] = "idle" THEN "idle" ELSE
                                  IF pc[u] = "done" THEN "done" ELSE "failed"]
    /\ task' = [u \in Requests |-> [i \in Idx |->
                  IF task[u][i] \in {"new", "owned"} THEN task[u][i] ELSE "dead"]]
    /\ seen' = [u \in Requests |-> {}]
    /\ lock' = [c \in Chunks |-> Free]
    /\ headLock' = [o \in Objects |-> Free]
    /\ rowLock' = [o \in Objects |-> Free]
    /\ cached' = {} /\ loads' = {}
    /\ gcPc' = [g \in Runners |-> "idle"]
    /\ cand' = [g \in Runners |-> {}]
    /\ cur' = [g \in Runners |-> None]
    /\ UNCHANGED <<gciVars, blob, head, manifest, job, body>>

-----------------------------------------------------------------------------
TaskStep(u, i) ==
    \/ NoteDuplicate(u, i) \/ LookupChunk(u, i) \/ IncrementRef(u, i)
    \/ StoreLock(u, i) \/ StorePut(u, i) \/ StoreCommit(u, i)
    \/ GrantWaiter(u, i) \/ Abandon(u, i) \/ Compensate(u, i)

RequestStep(u) ==
    \/ Join(u) \/ AbortDone(u) \/ PeekSource(u) \/ ReadSource(u)
    \/ LockHead(u) \/ ReadManifest(u) \/ LockManifest(u)
    \/ CommitManifest(u) \/ UpsertHead(u) \/ PeekHead(u) \/ DeleteHead(u)

RunnerStep(g) ==
    \/ Reconcile(g) \/ SweepScan(g) \/ SweepRow(g) \/ SweepBlob(g) \/ SweepDone(g)
    \/ \E c \in Chunks : SweepLock(g, c)

Failures ==
    \/ \E u \in Requests : Fail(u) \/ TxFail(u) \/ \E i \in Idx : StoreFail(u, i)
    \/ \E g \in Runners : SweepFail(g)
    \/ Crash

BackgroundStep == \E c \in Chunks : LoadRow(c) \/ CacheSet(c) \/ CacheEvict(c) \/ RecycleConn(c)

Next ==
    \/ \E u \in Requests : Begin(u) \/ RequestStep(u) \/ \E i \in Idx : TaskStep(u, i)
    \/ \E g \in Runners : RunnerStep(g)
    \/ BackgroundStep \/ Tick \/ Failures

Spec == Init /\ [][Next]_vars

Fairness ==
    /\ \A u \in Requests : WF_vars(RequestStep(u) \/ DeadlockVictim(u) \/ \E i \in Idx : TaskStep(u, i))
    /\ \A g \in Runners : WF_vars(RunnerStep(g)) /\ SF_vars(SweepScan(g)) /\ SF_vars(SweepRow(g))
    /\ \A g \in Runners, c \in Chunks : SF_vars(SweepLock(g, c))
    /\ \A c \in Chunks : WF_vars(RecycleConn(c))
    /\ WF_vars(Tick)

LiveSpec == Spec /\ Fairness

-----------------------------------------------------------------------------
(* Properties *)

\* References somebody relies on: the manifests' rows and those uploads hold.
LiveRefs == {r \in Rows : task[r[1]][r[2]] = "ref" \/ \E o \in Objects : r \in manifest[o]}

\* A row's ref_count is never below the number of references that manifests
\* and running uploads own on it, and a chunk without a row has none: whatever
\* the interleaving of uploads, overwrites, deletes, failed compensation,
\* restarts, reconcile and sweep.
RefCountSound ==
    \A c \in Chunks :
        IF c \in indexed THEN refCount[c] >= Count(LiveRefs, c) ELSE RowsOf(LiveRefs, c) = {}

\* Every chunk an installed manifest names has a row in the index and a blob
\* on the backend, so a GET of the object never meets a missing chunk.
ManifestBacked ==
    \A r \in ManifestRows : HashOf(r) \in indexed /\ blob[HashOf(r)] # NoBlob

\* The advisory lock makes blob store + row insert (storeChunkLocked) and row
\* delete + blob delete (sweepOne) of one chunk mutually exclusive.
Storing(u, i) == task[u][i] \in {"locked", "put"}
Sweeping(g) == gcPc[g] \in {"row", "blob"}
StoreSweepExclusion ==
    /\ \A u \in Requests, i \in Idx, g \in Runners :
          Storing(u, i) /\ Sweeping(g) => Hash(u, i) # cur[g]
    /\ \A r, s \in Rows : r # s /\ Storing(r[1], r[2]) /\ Storing(s[1], s[2]) => HashOf(r) # HashOf(s)
    /\ \A g, h \in Runners : g # h /\ Sweeping(g) /\ Sweeping(h) => cur[g] # cur[h]

(* The parts of the inductive invariant behind these three. *)

\* The dispatcher is sequential, a hash is stored by one worker at a time, and
\* a chunked PUT opens its transaction only when it holds every reference;
\* a request that reads its chunks from elsewhere has taken none before.
TaskInv ==
    \A u \in Requests :
        /\ \A i \in Idx : task[u][i] # "new" => i \in Indices(u)
        /\ \A i, j \in Idx : i < j /\ task[u][i] \in {"new", "hit"} => task[u][j] \in {"new", "owned"}
        /\ \A i, j \in Idx : /\ i # j
                             /\ task[u][i] \in {"hit", "store", "locked", "put"}
                             /\ task[u][j] \in {"hit", "store", "locked", "put"}
                             => Hash(u, i) # Hash(u, j)
        /\ job[u].op = "put" /\ pc[u] \in TxStates => \A i \in Indices(u) : task[u][i] = "ref"
        /\ pc[u] \in {"idle", "peekSrc", "readSrc"} => \A i \in Idx : task[u][i] = "new"
        /\ pc[u] \in {"peekSrc", "readSrc"} => job[u].op = "copy"
        /\ pc[u] = "peek" => job[u].op = "delete"
        /\ job[u].op \notin {"put", "copy"} => Indices(u) = {}

\* A manifest row was installed under its own key by the upload that took it.
RowInv ==
    \A o \in Objects : \A r \in manifest[o] : task[r[1]][r[2]] = "owned" /\ Key(r[1]) = o

\* Row locks: what a transaction is about to release is still in the manifest.
SeenInv ==
    \A u \in Requests : pc[u] = "commit" =>
        /\ seen[u] \subseteq manifest[Key(u)]
        /\ seen[u] # {} => rowLock[Key(u)] = u

\* Whoever stores or sweeps a chunk holds its advisory lock.
LockInv ==
    /\ \A u \in Requests, i \in Idx : Storing(u, i) => lock[Hash(u, i)] = u
    /\ \A g \in Runners : Sweeping(g) => cur[g] \in Chunks /\ lock[cur[g]] = g

\* An indexed chunk has its blob; a blob is only removed after its row.
BlobInv ==
    /\ \A c \in indexed : blob[c] # NoBlob
    /\ \A u \in Requests, i \in Idx : task[u][i] = "put" => blob[Hash(u, i)] # NoBlob
    /\ \A g \in Runners : gcPc[g] = "blob" => cur[g] \notin indexed

\* A reference held by an upload hides its chunk from reconcile.
AgeInv == \A u \in Requests, i \in Idx : task[u][i] = "ref" => accessAge[Hash(u, i)] <= Grace

IndInv ==
    /\ TypeOK /\ TaskInv /\ RowInv /\ SeenInv /\ LockInv /\ BlobInv /\ AgeInv
    /\ RefCountSound

\* Every request that started ends: no wait for an advisory lock, a row lock
\* or another worker lasts for ever, and compensation completes.
RequestsEnd == \A u \in Requests : pc[u] # "idle" ~> pc[u] \in {"done", "failed"}

\* A chunk nobody references is in the end removed from the index or
\* referenced again, also when the references on it were lost in a restart
\* or by a failed compensation.
GarbageReclaimed ==
    \A c \in Chunks : c \in indexed /\ RowsOf(LiveRefs, c) = {}
                        ~> c \notin indexed \/ RowsOf(LiveRefs, c) # {}

\* The bytes on the backend are in the form the row says, so that
\* fetchAndVerifyChunk can decode them.
ManifestReadable ==
    \A r \in ManifestRows : blob[HashOf(r)] = rowEnc[HashOf(r)]

\* A reader never sees a mixed or partial manifest.
OneVersion ==
    \A o \in Objects : \A r \in manifest[o] : manifest[o] = {r[1]} \X Indices(r[1])
=============================================================================
