---------------------------- MODULE ObjectLedger ----------------------------
(***************************************************************************)
(* The ledger of one tenant: the head row of each key (the billing         *)
(* record), the whole-object blob at the key, and the bytes charged to the *)
(* tenant's quota.  PUT, multipart completion and copy reserve their bytes *)
(* before they store anything, write the head row, settle the reservation  *)
(* against the recorded size and release what they overwrote; DELETE       *)
(* releases what it removed.  Each of these is a statement or transaction  *)
(* of its own, any may fail, and the requests run concurrently.            *)
(*                                                                         *)
(* A byte is identified by the request that wrote it: request u recording  *)
(* n bytes owns the units <<u, 1>> .. <<u, n>>.  Amounts are cardinalities *)
(* of sets of units.                                                       *)
(***************************************************************************)
EXTENDS Integers, FiniteSets

CONSTANTS
    Objects,    \* object keys of the tenant
    Requests,   \* S3 requests; each runs once
    Jobs,       \* what a request asks for
    MaxSize,    \* largest object
    Limit,      \* tenant_quotas.storage_limit_bytes
    Faults,     \* whether statements and backend calls may fail
    MaxCrashes, \* bound on process restarts
    Free, None

\* put: whole-object PUT; chunked: PUT above the chunking threshold; complete:
\* CompleteMultipartUpload; delete: DELETE of an unversioned key, or one key of
\* a batch; marker: DELETE in a versioned bucket; copy: CopyObject.
Ops == {"put", "chunked", "complete", "copy", "delete", "marker"}
JobType == [op : Ops, key : Objects, src : Objects, size : 0..MaxSize]

ASSUME LedgerAssumption ==
    /\ IsFiniteSet(Requests)
    /\ MaxSize \in Nat /\ Limit \in Nat /\ MaxCrashes \in Nat
    /\ Jobs \subseteq JobType
    /\ Faults \in BOOLEAN
    /\ Free \notin Requests /\ None \notin Requests

Units == Requests \X (1..MaxSize)

VARIABLES
    used,       \* tenant_quotas.storage_used_bytes
    quotaLock,  \* transaction holding the quota row FOR UPDATE
    head,       \* object_head_cache: the request whose row the key has
    headLock,   \* transaction holding the head row FOR UPDATE
    blob,       \* the request whose bytes the backend holds at the key
    job,        \* the request's input
    pc,         \* the request's control state
    chunkedRow, \* requests whose row has is_chunked
    want,       \* bytes the request reserves up front
    size,       \* bytes its row records
    seen,       \* row the head transaction found: the displaced object
    old,        \* row removed or displaced, its bytes still to be released
    open,       \* units reserved and not (yet) recorded in a row
    unpaid,     \* units recorded in a row that were never charged
    crashes

quotaVars == <<used, quotaLock>>
objVars == <<head, headLock, blob>>
localVars == <<chunkedRow, want, size, seen, old>>
ghostVars == <<open, unpaid>>
vars == <<quotaVars, objVars, job, pc, localVars, ghostVars, crashes>>

PcStates == {"idle", "peekSrc", "openSrc", "reserve", "charge", "store", "readMeta", "lockHead",
             "commit", "cleanup", "settle", "pay", "force", "release", "refund",
             "peekHead", "unblob", "unhead", "done", "failed"}

TypeOK ==
    /\ used \in Nat
    /\ quotaLock \in Requests \cup {Free}
    /\ head \in [Objects -> Requests \cup {None}]
    /\ headLock \in [Objects -> Requests \cup {Free}]
    /\ blob \in [Objects -> Requests \cup {None}]
    /\ job \in [Requests -> Jobs]
    /\ pc \in [Requests -> PcStates]
    /\ chunkedRow \subseteq Requests
    /\ want \in [Requests -> 0..MaxSize]
    /\ size \in [Requests -> 0..MaxSize]
    /\ seen \in [Requests -> Requests \cup {None}]
    /\ old \in [Requests -> Requests \cup {None}]
    /\ open \subseteq Units /\ unpaid \subseteq Units
    /\ crashes \in 0..MaxCrashes

Init ==
    /\ used = 0 /\ quotaLock = Free
    /\ head = [o \in Objects |-> None] /\ headLock = [o \in Objects |-> Free]
    /\ blob = [o \in Objects |-> None]
    /\ job \in [Requests -> Jobs]
    /\ pc = [u \in Requests |-> "idle"]
    /\ chunkedRow = {u \in Requests : job[u].op = "chunked"}
    /\ want = [u \in Requests |-> job[u].size] /\ size = want
    /\ seen = [u \in Requests |-> None] /\ old = [u \in Requests |-> None]
    /\ open = {} /\ unpaid = {}
    /\ crashes = 0

Key(u) == job[u].key
Op(u) == job[u].op
Goto(u, s) == pc' = [pc EXCEPT ![u] = s]
Unlock(l, u) == [o \in Objects |-> IF l[o] = u THEN Free ELSE l[o]]

\* The bytes u's row records (none for an absent row), those it reserves up
\* front, and the difference between the two, either way.
Row(u) == {x \in Units : x[1] = u /\ x[2] <= size[x[1]]}
Ask(u) == {x \in Units : x[1] = u /\ x[2] <= want[x[1]]}
Excess(u) == Ask(u) \ Row(u)
Short(u) == Row(u) \ Ask(u)

Of(u, S) == {x \in S : x[1] = u}
Bytes(S) == Cardinality(S)

Begin(u) ==
    /\ pc[u] = "idle"
    /\ \/ Op(u) \in {"put", "chunked", "complete"} /\ Goto(u, "reserve")
       \/ Op(u) = "copy" /\ Goto(u, "peekSrc")
       \/ Op(u) = "delete" /\ Goto(u, "peekHead")
       \/ Op(u) = "marker" /\ Goto(u, "unhead")
    /\ UNCHANGED <<quotaVars, objVars, job, localVars, ghostVars, crashes>>

-----------------------------------------------------------------------------
(* QuotaManager *)

\* Mutant: the quota row is read without FOR UPDATE.
TakeQuotaUnlocked(u, units, yes, no) ==
    /\ IF used + Bytes(units) > Limit THEN Goto(u, no) ELSE Goto(u, yes)
    /\ UNCHANGED quotaLock

\* CheckAndReserve up to the check: the row stays locked until the charge.
TakeQuota(u, units, yes, no) ==
    /\ quotaLock = Free
    /\ IF used + Bytes(units) > Limit
         THEN Goto(u, no) /\ UNCHANGED quotaLock
         ELSE Goto(u, yes) /\ quotaLock' = u

\* Mutant: no GREATEST.
ReleaseUnclamped(units) ==
    /\ quotaLock = Free
    /\ used' = used - Bytes(units)

\* ReleaseQuota: one statement, clamped at zero.
Release(units) ==
    /\ quotaLock = Free
    /\ used' = IF used >= Bytes(units) THEN used - Bytes(units) ELSE 0

-----------------------------------------------------------------------------
(* CopyObject *)

\* The source's head row, read outside any transaction; a failed read counts
\* as an absent row.  A chunked source is copied by its manifest, but not onto
\* itself or into a versioned bucket; an encrypted whole object is refused.
PeekSource(u) ==
    /\ pc[u] = "peekSrc"
    /\ \E v \in {head[job[u].src]} \cup (IF Faults THEN {None} ELSE {}) :
          IF v # None /\ v \in chunkedRow
            THEN /\ chunkedRow' = chunkedRow \cup {u}
                 /\ want' = [want EXCEPT ![u] = size[v]]
                 /\ \/ job[u].src # Key(u) /\ Goto(u, "reserve")
                    \/ Goto(u, "failed")
            ELSE /\ want' = [want EXCEPT ![u] = IF v = None THEN 0 ELSE size[v]]
                 /\ Goto(u, "openSrc") \/ (v # None /\ Goto(u, "failed"))
                 /\ UNCHANGED chunkedRow
    /\ UNCHANGED <<quotaVars, objVars, job, size, seen, old, ghostVars, crashes>>

\* engine.Get: the bytes that will be copied are those the backend has now.
OpenSource(u) ==
    LET v == blob[job[u].src] IN
    /\ pc[u] = "openSrc"
    /\ \/ v # None /\ size' = [size EXCEPT ![u] = size[v]] /\ Goto(u, "reserve")
       \/ (v = None \/ Faults) /\ Goto(u, "failed") /\ UNCHANGED size
    /\ UNCHANGED <<quotaVars, objVars, job, chunkedRow, want, seen, old, ghostVars, crashes>>

\* handleChunkedCopy reads manifest, metadata and head row after it reserved.
ReadMeta(u) ==
    LET v == head[job[u].src] IN
    /\ pc[u] = "readMeta"
    /\ \/ v # None /\ v \in chunkedRow /\ size' = [size EXCEPT ![u] = size[v]] /\ Goto(u, "lockHead")
       \/ (v = None \/ v \notin chunkedRow \/ Faults) /\ Goto(u, "refund") /\ UNCHANGED size
    /\ UNCHANGED <<quotaVars, objVars, job, chunkedRow, want, seen, old, ghostVars, crashes>>

-----------------------------------------------------------------------------
(* Reserve, store *)

AfterReserve(u) == IF Op(u) = "copy" /\ u \in chunkedRow THEN "readMeta" ELSE "store"

AtLimit(u) == Op(u) = "copy" /\ u \notin chunkedRow /\ Limit > 0 /\ used >= Limit

\* Nothing to reserve: a PUT goes on, a copy of unknown size is only refused
\* when the tenant is seen to be at the limit.
Reserve(u) ==
    /\ pc[u] = "reserve"
    /\ \/ /\ want[u] > 0 \/ Op(u) = "complete"
          /\ \/ TakeQuota(u, Ask(u), "charge", "failed")
             \/ Faults /\ Goto(u, "failed") /\ UNCHANGED quotaLock
       \/ /\ want[u] = 0 /\ Op(u) # "complete"
          /\ \/ (~ AtLimit(u) \/ Faults) /\ Goto(u, AfterReserve(u))
             \/ AtLimit(u) /\ Goto(u, "failed")
          /\ UNCHANGED quotaLock
    /\ UNCHANGED <<used, objVars, job, localVars, ghostVars, crashes>>

Charge(u) ==
    /\ pc[u] = "charge"
    /\ \/ /\ used' = used + Bytes(Ask(u))
          /\ open' = open \cup Ask(u)
          /\ Goto(u, AfterReserve(u))
       \/ Faults /\ Goto(u, "failed") /\ UNCHANGED <<used, open>>
    /\ quotaLock' = IF quotaLock = u THEN Free ELSE quotaLock
    /\ UNCHANGED <<objVars, job, localVars, unpaid, crashes>>

\* engine.Put of a whole object; chunks go elsewhere.  The request may be
\* rejected before (object lock, If-Match) or after (length, metadata), and an
\* error does not tell whether the backend stored the bytes.
StoreBlob(u) ==
    LET stored == IF Op(u) = "chunked" THEN blob ELSE [blob EXCEPT ![Key(u)] = u] IN
    /\ pc[u] = "store"
    /\ \/ blob' = stored /\ Goto(u, "lockHead")
       \/ blob' = stored /\ Goto(u, "refund")
       \/ UNCHANGED blob /\ Goto(u, "refund")
    /\ UNCHANGED <<quotaVars, head, headLock, job, localVars, ghostVars, crashes>>

-----------------------------------------------------------------------------
(* atomicHeadUpsertReleasing *)

\* Mutant: the head row is read without FOR UPDATE.
LockHeadUnlocked(u) ==
    /\ pc[u] = "lockHead"
    /\ seen' = [seen EXCEPT ![u] = head[Key(u)]]
    /\ Goto(u, "commit")
    /\ UNCHANGED <<quotaVars, objVars, job, chunkedRow, want, size, old, ghostVars, crashes>>

\* SELECT ... FOR UPDATE; an absent row cannot be locked.
LockHead(u) ==
    LET o == Key(u) IN
    /\ pc[u] = "lockHead"
    /\ headLock[o] = Free
    /\ seen' = [seen EXCEPT ![u] = head[o]]
    /\ headLock' = IF head[o] = None THEN headLock ELSE [headLock EXCEPT ![o] = u]
    /\ Goto(u, "commit")
    /\ UNCHANGED <<quotaVars, head, blob, job, chunkedRow, want, size, old, ghostVars, crashes>>

\* Upsert and commit: the row takes over what was reserved for it.
CommitHead(u) ==
    LET o == Key(u) IN
    /\ pc[u] = "commit"
    /\ headLock[o] \in {Free, u}
    /\ head' = [head EXCEPT ![o] = u]
    /\ old' = [old EXCEPT ![u] = seen[u]]
    /\ seen' = [seen EXCEPT ![u] = None]
    /\ open' = open \ Row(u)
    /\ unpaid' = unpaid \cup (Row(u) \ open)
    /\ headLock' = Unlock(headLock, u)
    /\ Goto(u, IF u \in chunkedRow THEN "cleanup" ELSE "settle")
    /\ UNCHANGED <<quotaVars, blob, job, chunkedRow, want, size, crashes>>

\* Rollback.  PUT and chunked copy give the reservation back; a plain copy
\* settles, and a completion keeps its reservation, as if the row were there.
CommitFail(u) ==
    /\ Faults
    /\ pc[u] \in {"lockHead", "commit"}
    /\ headLock' = Unlock(headLock, u)
    /\ seen' = [seen EXCEPT ![u] = None]
    /\ Goto(u, IF Op(u) = "complete" \/ (Op(u) = "copy" /\ u \notin chunkedRow) THEN "settle" ELSE "refund")
    /\ UNCHANGED <<quotaVars, head, blob, job, chunkedRow, want, size, old, ghostVars, crashes>>

\* A chunked commit removes the whole-object blob of the key, best effort.
Cleanup(u) ==
    /\ pc[u] = "cleanup"
    /\ blob' = [blob EXCEPT ![Key(u)] = None] \/ (Faults /\ UNCHANGED blob)
    /\ Goto(u, "settle")
    /\ UNCHANGED <<quotaVars, head, headLock, job, localVars, ghostVars, crashes>>

-----------------------------------------------------------------------------
(* settlePutQuota, releaseQuota *)

\* The reservation exceeds the recorded size, equals it, or falls short of it.
Settle(u) ==
    /\ pc[u] = "settle"
    /\ \/ /\ Excess(u) # {}
          /\ Release(Excess(u))
          /\ Goto(u, "release")
          /\ UNCHANGED quotaLock
       \/ /\ Short(u) # {}
          /\ TakeQuota(u, Short(u), "pay", "force")
          /\ UNCHANGED used
       \/ /\ Row(u) = Ask(u) \/ Faults
          /\ Goto(u, "release")
          /\ UNCHANGED quotaVars
    /\ open' = open \ Of(u, open)
    /\ UNCHANGED <<objVars, job, localVars, unpaid, crashes>>

\* The shortfall is charged within the limit ...
Pay(u) ==
    /\ pc[u] = "pay"
    /\ \/ used' = used + Bytes(Short(u)) /\ unpaid' = unpaid \ Short(u)
       \/ Faults /\ UNCHANGED <<used, unpaid>>
    /\ quotaLock' = IF quotaLock = u THEN Free ELSE quotaLock
    /\ Goto(u, "release")
    /\ UNCHANGED <<objVars, job, localVars, open, crashes>>

\* ... or, the bytes being stored already, beyond it.
ForceCharge(u) ==
    /\ pc[u] = "force"
    /\ \/ quotaLock = Free /\ used' = used + Bytes(Short(u)) /\ unpaid' = unpaid \ Short(u)
       \/ Faults /\ UNCHANGED <<used, unpaid>>
    /\ Goto(u, "release")
    /\ UNCHANGED <<quotaLock, objVars, job, localVars, open, crashes>>

\* The bytes overwritten or deleted; a failed release is only logged.
ReleaseOld(u) ==
    /\ pc[u] = "release"
    /\ \/ Release(Row(old[u]))
       \/ (Faults \/ Row(old[u]) = {}) /\ UNCHANGED used
    /\ old' = [old EXCEPT ![u] = None]
    /\ Goto(u, "done")
    /\ UNCHANGED <<quotaLock, objVars, job, chunkedRow, want, size, seen, ghostVars, crashes>>

\* A failed write gives its reservation back.
Refund(u) ==
    /\ pc[u] = "refund"
    /\ \/ Release(Ask(u))
       \/ (Faults \/ Ask(u) = {}) /\ UNCHANGED used
    /\ open' = open \ Of(u, open)
    /\ Goto(u, "failed")
    /\ UNCHANGED <<quotaLock, objVars, job, localVars, unpaid, crashes>>

-----------------------------------------------------------------------------
(* HandleDelete, one key of handleDeleteObjects *)

\* is_chunked is read outside any transaction, a failed read counting as
\* FALSE; a chunked object has a manifest to release, which may fail.
PeekHead(u) ==
    LET v == head[Key(u)] IN
    /\ pc[u] = "peekHead"
    /\ \/ v # None /\ v \in chunkedRow /\ Goto(u, "unhead")
       \/ (v = None \/ v \notin chunkedRow \/ Faults) /\ Goto(u, "unblob")
       \/ Faults /\ Goto(u, "failed")
    /\ UNCHANGED <<quotaVars, objVars, job, localVars, ghostVars, crashes>>

DeleteBlob(u) ==
    /\ pc[u] = "unblob"
    /\ \/ blob' = [blob EXCEPT ![Key(u)] = None] /\ Goto(u, "unhead")
       \/ Faults /\ UNCHANGED blob /\ Goto(u, "failed")
    /\ UNCHANGED <<quotaVars, head, headLock, job, localVars, ghostVars, crashes>>

\* DELETE ... RETURNING size_bytes.
DeleteHead(u) ==
    LET o == Key(u) IN
    /\ pc[u] = "unhead"
    /\ \/ /\ headLock[o] = Free
          /\ old' = [old EXCEPT ![u] = head[o]]
          /\ head' = [head EXCEPT ![o] = None]
          /\ Goto(u, "release")
       \/ Faults /\ Goto(u, "done") /\ UNCHANGED <<old, head>>
    /\ UNCHANGED <<quotaVars, headLock, blob, job, chunkedRow, want, size, seen, ghostVars, crashes>>

-----------------------------------------------------------------------------
(* Reconcile, restart *)

Recorded == {x \in Units : x \in Row(x[1]) /\ \E o \in Objects : head[o] = x[1]}
Quiescent == \A u \in Requests : pc[u] \in {"idle", "done", "failed"}

\* ReconcileStorageUsage, run only while writes are quiesced.
ReconcileStorageUsage ==
    /\ Quiescent
    /\ used' = Bytes(Recorded)
    /\ unpaid' = {}
    /\ UNCHANGED <<quotaLock, objVars, job, pc, localVars, open, crashes>>

\* The process dies: transactions roll back, what a request knew is lost.
Crash ==
    /\ crashes < MaxCrashes
    /\ crashes' = crashes + 1
    /\ pc' = [u \in Requests |-> IF pc[u] \in {"idle", "done"} THEN pc[u] ELSE "failed"]
    /\ quotaLock' = Free
    /\ headLock' = [o \in Objects |-> Free]
    /\ seen' = [u \in Requests |-> None] /\ old' = [u \in Requests |-> None]
    /\ open' = {}
    /\ UNCHANGED <<used, head, blob, job, chunkedRow, want, size, unpaid>>

RequestStep(u) ==
    \/ Begin(u) \/ PeekSource(u) \/ OpenSource(u) \/ ReadMeta(u)
    \/ Reserve(u) \/ Charge(u) \/ StoreBlob(u) \/ LockHead(u) \/ CommitHead(u) \/ CommitFail(u)
    \/ Cleanup(u) \/ Settle(u) \/ Pay(u) \/ ForceCharge(u) \/ ReleaseOld(u) \/ Refund(u)
    \/ PeekHead(u) \/ DeleteBlob(u) \/ DeleteHead(u)

Next == (\E u \in Requests : RequestStep(u)) \/ ReconcileStorageUsage \/ Crash

Spec == Init /\ [][Next]_vars

-----------------------------------------------------------------------------
(* Properties *)

\* The quota never counts less than the head rows record, except for bytes a
\* copy recorded beyond its reservation and has not (or could not be) charged:
\* no overwrite, DELETE, refund or settlement releases a byte that a row still
\* records, or releases it twice.
NeverUnderbilled == used + Bytes(unpaid) >= Bytes(Recorded)

\* The quota grows beyond the limit only by charging bytes already stored (the
\* forced charge of a copy, or a reconcile that finds uncharged ones): two
\* reservations never pass the check on the same free space.
LimitHolds ==
    [][used' > used /\ used' > Limit =>
          (\E u \in Requests : pc[u] = "force" /\ pc'[u] = "release") \/ (Quiescent /\ unpaid # {})]_vars

(* The inductive invariant behind these two. *)

Placed(v) == (\E o \in Objects : head[o] = v) \/ (\E u \in Requests : old[u] = v)

\* Control states before (with a reservation) and after the head transaction.
Holding == {"store", "readMeta", "lockHead", "commit", "refund"}
After == {"cleanup", "settle", "pay", "force", "release", "done", "failed"}

\* A row sits under its writer's key, and its bytes are released by one request
\* at most, which has removed it before.
PlaceInv ==
    /\ \A o \in Objects : head[o] # None => Key(head[o]) = o
    /\ \A v \in Requests : Placed(v) => pc[v] \in After
    /\ \A u \in Requests : old[u] # None =>
          /\ \A o \in Objects : head[o] # old[u]
          /\ \A w \in Requests : old[w] = old[u] => w = u
    /\ \A u \in Requests : old[u] # None => pc[u] \in After \ {"done", "failed"}

\* What a head transaction is about to displace is still there, and locked.
SeenInv ==
    \A u \in Requests : seen[u] # None =>
        pc[u] = "commit" /\ headLock[Key(u)] = u /\ head[Key(u)] = seen[u]

\* A reservation covers what its request may still give back, and none of the
\* bytes that a row records; uncharged bytes are a shortfall.
OpenInv ==
    /\ \A u \in Requests : pc[u] \in Holding => Ask(u) \subseteq open
    /\ \A x \in open : pc[x[1]] \in Holding \cup {"cleanup", "settle"}
    /\ \A u \in Requests : pc[u] \in {"cleanup", "settle"} => Excess(u) \subseteq open
    /\ \A v \in Requests : Placed(v) => open \cap Row(v) = {}
    /\ \A x \in unpaid : x \in Short(x[1]) /\ pc[x[1]] \in After

\* The quota row stays locked from the check to the charge, so there is room.
QuotaInv ==
    \A u \in Requests :
        /\ pc[u] = "charge" => quotaLock = u /\ used + Bytes(Ask(u)) <= Limit
        /\ pc[u] = "pay" => quotaLock = u /\ used + Bytes(Short(u)) <= Limit

\* Bytes that must stay charged: reserved, recorded, or about to be released.
Held == {x \in Units : x \in open \/ (Placed(x[1]) /\ x \in Row(x[1]))}

ChargeInv == used + Bytes(unpaid) >= Bytes(Held)

IndInv == TypeOK /\ PlaceInv /\ SeenInv /\ OpenInv /\ QuotaInv /\ ChargeInv

\* The blob a chunked PUT or copy removes is stale: the key's row does not
\* describe it.
StaleBlobOnly ==
    [][\A u \in Requests : pc[u] = "cleanup" /\ pc'[u] = "settle" =>
          LET o == Key(u) IN
          blob[o] # None /\ blob'[o] = None => head[o] # blob[o]]_vars
=============================================================================
