------------------------------ MODULE Versions ------------------------------
(***************************************************************************)
(* The version history and the object lock of one key: the rows of         *)
(* object_versions, the object_locks row, the head row, the bytes at the   *)
(* key, and the requests that change them.  All versions of a key share    *)
(* one blob.  Each statement is its own transaction, so that requests on   *)
(* the key interleave between any two of them.                             *)
(*                                                                         *)
(* A version row is named by its place in the order of created_at, and     *)
(* `null' is the row whose version_id is "null".  Bytes are named by the   *)
(* request that wrote them.                                                *)
(***************************************************************************)
EXTENDS Integers, FiniteSets, FiniteSetsExt

CONSTANTS
    Requests,      \* requests on the key; each runs once
    Jobs,          \* what a request asks for
    MaxRows,       \* bound on version rows ever created
    DefaultDays,   \* default_retention_days, in clock ticks
    MaxClock,      \* bound on the clock
    MaxEdits,      \* bound on changes of the bucket's settings and of the legal hold
    None

Modes == {"GOVERNANCE", "COMPLIANCE"}
Times == 0..MaxClock + DefaultDays
Retentions == [mode : Modes, until : Times]
Rows == 1..MaxRows

JobType == [op : {"put"}, bypass : BOOLEAN, retain : Retentions \cup {None}]
             \cup [op : {"delete", "batch"}, bypass : BOOLEAN]
             \cup [op : {"retain"}, retain : Retentions]
             \cup [op : {"deleteVersion", "copy"}]

ASSUME VersionsAssumption ==
    /\ IsFiniteSet(Requests)
    /\ MaxRows \in Nat /\ DefaultDays \in Nat \ {0} /\ MaxClock \in Nat /\ MaxEdits \in Nat
    /\ Jobs \subseteq JobType
    /\ None \notin Requests \cup Retentions \cup JobType

VARIABLES
    status,     \* buckets.versioning_status
    default,    \* buckets.default_retention_mode of a bucket with object lock on
    blob,       \* the bytes at the key
    head,       \* whether the key has an object_head_cache row
    live,       \* the rows of object_versions
    null,       \* the row whose version_id is "null", 0 if there is none
    latest,     \* rows with is_latest
    markers,    \* rows with is_delete_marker
    births,     \* rows created so far
    lock,       \* the object_locks row
    clock, edits,
    job, pc,    \* a request's input and control state
    seen,       \* the versioning status a PUT read
    due,        \* the retention a request is about to set
    free,       \* history: the object was not protected from r at some time since r began
    broken,     \* history: a request was cut off between its two statements on the rows
    newest      \* history: the row written last, 0 once it is deleted or a request that
                \* was cut off has cleared its flag

bucketVars == <<status, default>>
objectVars == <<blob, head>>
rowVars == <<live, null, latest, markers, births>>
lockVars == <<lock, clock, edits>>
readVars == <<seen, due>>
past == <<broken, newest>>
vars == <<bucketVars, objectVars, rowVars, lockVars, job, pc, readVars, free, past>>

PcStates == {"idle", "guard", "blob", "head", "status", "clear", "insert", "apply", "seal",
             "mark", "drop", "remove", "elect", "done"}
Ended == {"idle", "done"}

ObjectType ==
    /\ status \in {"disabled", "Enabled", "Suspended"}
    /\ default \in Modes \cup {None}
    /\ blob \in Requests \cup {None} /\ head \in BOOLEAN
RowType ==
    /\ births \in 0..MaxRows /\ live \subseteq 1..births
    /\ null \in live \cup {0}
    /\ latest \subseteq live /\ markers \subseteq live \ {null}
LockType ==
    /\ lock \in [mode : Modes \cup {None}, until : Times, hold : BOOLEAN]
    /\ clock \in 0..MaxClock /\ edits \in 0..MaxEdits
RequestType ==
    /\ job \in [Requests -> JobType \cup {None}]
    /\ pc \in [Requests -> PcStates]
    /\ seen \in [Requests -> {None, "Enabled", "Suspended"}]
    /\ due \in [Requests -> Retentions \cup {None}]
    /\ \A r \in Requests : pc[r] \in Ended <=> job[r] = None
HistoryType ==
    free \in [Requests -> BOOLEAN] /\ broken \in BOOLEAN /\ newest \in live \cup {0}

TypeOK == ObjectType /\ RowType /\ LockType /\ RequestType /\ HistoryType

Init ==
    /\ status = "disabled" /\ default = None
    /\ blob = None /\ head = FALSE
    /\ live = {} /\ null = 0 /\ latest = {} /\ markers = {} /\ births = 0
    /\ lock = [mode |-> None, until |-> 0, hold |-> FALSE] /\ clock = 0 /\ edits = 0
    /\ job = [r \in Requests |-> None] /\ pc = [r \in Requests |-> "idle"]
    /\ seen = [r \in Requests |-> None] /\ due = [r \in Requests |-> None]
    /\ free = [r \in Requests |-> FALSE] /\ broken = FALSE /\ newest = 0

Enter(r, j, label) ==
    /\ pc' = [pc EXCEPT ![r] = label]
    /\ job' = [job EXCEPT ![r] = IF label = "done" THEN None ELSE j]
Begin(r, j, label) == j \in Jobs /\ pc[r] = "idle" /\ Enter(r, j, label)
Goto(r, label) == Enter(r, job[r], label)

-----------------------------------------------------------------------------
(* The lock. *)

\* The object_locks row l keeps the object from a request at time now.
Protects(l, now, bypass) ==
    \/ l.hold
    \/ l.until > now /\ (l.mode = "COMPLIANCE" \/ (l.mode = "GOVERNANCE" /\ ~bypass))

\* Mutant: the bypass of governance also passes a legal hold.
checkObjectLockBypassed(r) == Protects(lock, clock, job[r].bypass) /\ ~job[r].bypass

checkObjectLock(r) == Protects(lock, clock, job[r].bypass)

\* The check of PutObjectRetention reads the row before the upsert.
MayRetain(t) == \/ t.mode # "COMPLIANCE" \/ lock.mode # "COMPLIANCE"
                \/ t.until >= lock.until

StartRetain(r) ==
    \E j \in Jobs :
        /\ j.op = "retain"
        /\ Begin(r, j, IF MayRetain(j.retain) THEN "seal" ELSE "done")
        /\ due' = [due EXCEPT ![r] = IF MayRetain(j.retain) THEN j.retain ELSE None]
        /\ UNCHANGED <<bucketVars, objectVars, rowVars, lockVars, seen, past>>

\* The upsert of the retention, whatever the row has by now.
Seal(r) ==
    /\ pc[r] = "seal"
    /\ lock' = [lock EXCEPT !.mode = due[r].mode, !.until = due[r].until]
    /\ Goto(r, "done") /\ due' = [due EXCEPT ![r] = None]
    /\ UNCHANGED <<bucketVars, objectVars, rowVars, clock, edits, seen, past>>

Edit == edits < MaxEdits /\ edits' = edits + 1

PutObjectLegalHold(on) ==
    /\ lock' = [lock EXCEPT !.hold = on] /\ Edit
    /\ UNCHANGED <<bucketVars, objectVars, rowVars, clock, job, pc, readVars, past>>

PutObjectLockConfiguration(mode) ==
    /\ default' = mode /\ Edit
    /\ UNCHANGED <<status, objectVars, rowVars, lock, clock, job, pc, readVars, past>>

PutBucketVersioning(s) ==
    /\ status' = s /\ Edit
    /\ UNCHANGED <<default, objectVars, rowVars, lock, clock, job, pc, readVars, past>>

Tick ==
    /\ clock < MaxClock /\ clock' = clock + 1
    /\ UNCHANGED <<bucketVars, objectVars, rowVars, lock, edits, job, pc, readVars, past>>

-----------------------------------------------------------------------------
(* PUT, and the writes that go round it. *)

\* The lock is consulted only where the key has a head row.
StartPut(r) ==
    \E j \in Jobs :
        /\ j.op = "put"
        /\ Begin(r, j, IF head THEN "guard" ELSE "blob")
        /\ UNCHANGED <<bucketVars, objectVars, rowVars, lockVars, readVars, past>>

\* CopyObject and CompleteMultipartUpload ask neither for the lock nor for versions.
StartCopy(r) ==
    \E j \in Jobs :
        /\ j.op = "copy" /\ Begin(r, j, "blob")
        /\ UNCHANGED <<bucketVars, objectVars, rowVars, lockVars, readVars, past>>

Guard(r) ==
    /\ pc[r] = "guard"
    /\ Goto(r, IF checkObjectLock(r) THEN "done"
               ELSE IF job[r].op = "put" THEN "blob" ELSE "remove")
    /\ UNCHANGED <<bucketVars, objectVars, rowVars, lockVars, readVars, past>>

PutBlob(r) ==
    /\ pc[r] = "blob"
    /\ blob' = r /\ Goto(r, "head")
    /\ UNCHANGED <<bucketVars, head, rowVars, lockVars, readVars, past>>

PutHead(r) ==
    /\ pc[r] = "head"
    /\ head' = TRUE /\ Goto(r, IF job[r].op = "put" THEN "status" ELSE "done")
    /\ UNCHANGED <<bucketVars, blob, rowVars, lockVars, readVars, past>>

ReadStatus(r) ==
    /\ pc[r] = "status"
    /\ IF status = "disabled"
       THEN Goto(r, "apply") /\ UNCHANGED seen
       ELSE Goto(r, "clear") /\ seen' = [seen EXCEPT ![r] = status]
    /\ UNCHANGED <<bucketVars, objectVars, rowVars, lockVars, due, past>>

\* UPDATE object_versions SET is_latest = FALSE, of a PUT and of a DELETE.
ClearLatest(r) ==
    /\ pc[r] = "clear" /\ latest' = {}
    /\ Goto(r, IF job[r].op = "put" THEN "insert" ELSE "mark")
    /\ UNCHANGED <<bucketVars, objectVars, live, null, markers, births, lockVars, readVars, past>>

\* A "null" row that exists keeps its place in the order of created_at.
Replaces(r) == seen[r] = "Suspended" /\ null # 0

\* Mutant: the new row is flagged only where no other row is.
InsertVersionFirstWins(r) ==
    /\ pc[r] = "insert"
    /\ IF Replaces(r)
       THEN latest' = IF latest = {} THEN {null} ELSE latest /\ UNCHANGED <<live, null, births>>
       ELSE /\ births < MaxRows /\ births' = births + 1
            /\ live' = live \cup {births'} /\ latest' = IF latest = {} THEN {births'} ELSE latest
            /\ null' = IF seen[r] = "Suspended" THEN births' ELSE null
    /\ newest' = IF Replaces(r) THEN null ELSE births'
    /\ Goto(r, "apply") /\ seen' = [seen EXCEPT ![r] = None] /\ broken' = FALSE
    /\ UNCHANGED <<bucketVars, objectVars, markers, lockVars, due>>

InsertVersion(r) ==
    /\ pc[r] = "insert"
    /\ IF Replaces(r)
       THEN latest' = latest \cup {null} /\ UNCHANGED <<live, null, births>>
       ELSE /\ births < MaxRows /\ births' = births + 1
            /\ live' = live \cup {births'} /\ latest' = latest \cup {births'}
            /\ null' = IF seen[r] = "Suspended" THEN births' ELSE null
    /\ newest' = IF Replaces(r) THEN null ELSE births'
    /\ Goto(r, "apply") /\ seen' = [seen EXCEPT ![r] = None] /\ broken' = FALSE
    /\ UNCHANGED <<bucketVars, objectVars, markers, lockVars, due>>

\* Mutant: the bucket's default is not checked for a mode.
ApplyLockUnchecked(r) ==
    LET retain == IF job[r].retain # None THEN job[r].retain
                  ELSE [mode |-> default, until |-> clock + DefaultDays]
    IN  /\ pc[r] = "apply" /\ Goto(r, "seal") /\ due' = [due EXCEPT ![r] = retain]
        /\ UNCHANGED <<bucketVars, objectVars, rowVars, lockVars, seen, past>>

\* applyObjectLockOnPut: the header's retention, or the bucket's default, whatever
\* the row has.
ApplyLock(r) ==
    LET retain == IF job[r].retain # None THEN job[r].retain
                  ELSE [mode |-> default, until |-> clock + DefaultDays]
    IN  /\ pc[r] = "apply"
        /\ IF job[r].retain = None /\ default = None
           THEN Goto(r, "done") /\ UNCHANGED due
           ELSE Goto(r, "seal") /\ due' = [due EXCEPT ![r] = retain]
        /\ UNCHANGED <<bucketVars, objectVars, rowVars, lockVars, seen, past>>

-----------------------------------------------------------------------------
(* DELETE. *)

\* In a bucket with versioning on, a DELETE asks for no lock and adds a marker.
StartDelete(r) ==
    \E j \in Jobs :
        /\ j.op = "delete"
        /\ Begin(r, j, IF status = "Enabled" THEN "clear" ELSE "guard")
        /\ UNCHANGED <<bucketVars, objectVars, rowVars, lockVars, readVars, past>>

StartBatch(r) ==
    \E j \in Jobs :
        /\ j.op = "batch" /\ Begin(r, j, "guard")
        /\ UNCHANGED <<bucketVars, objectVars, rowVars, lockVars, readVars, past>>

InsertMarker(r) ==
    /\ pc[r] = "mark"
    /\ births < MaxRows /\ births' = births + 1
    /\ live' = live \cup {births'} /\ latest' = latest \cup {births'}
    /\ markers' = markers \cup {births'}
    /\ Goto(r, "drop") /\ broken' = FALSE /\ newest' = births'
    /\ UNCHANGED <<bucketVars, objectVars, null, lockVars, readVars>>

RemoveBlob(r) ==
    /\ pc[r] = "remove"
    /\ blob' = None /\ Goto(r, "drop")
    /\ UNCHANGED <<bucketVars, head, rowVars, lockVars, readVars, past>>

DropHead(r) ==
    /\ pc[r] = "drop"
    /\ head' = FALSE /\ Goto(r, "done")
    /\ UNCHANGED <<bucketVars, blob, rowVars, lockVars, readVars, past>>

\* DELETE ?versionId=, of a row that exists; it does not ask for the lock.
DeleteVersion(r) ==
    \E v \in live :
        /\ status # "disabled"
        /\ Begin(r, [op |-> "deleteVersion"], "elect")
        /\ live' = live \ {v} /\ latest' = latest \ {v} /\ markers' = markers \ {v}
        /\ null' = IF v = null THEN 0 ELSE null
        /\ newest' = IF v = newest THEN 0 ELSE newest
        /\ UNCHANGED <<bucketVars, objectVars, births, lockVars, readVars, broken>>

\* Mutant: only versions are elected, never delete markers.
ElectedVersion == IF live \ markers = {} THEN {} ELSE {Max(live \ markers)}

\* The newest row becomes a latest one; the others keep the flag they have.
Elected == IF live = {} THEN {} ELSE {Max(live)}

Elect(r) ==
    /\ pc[r] = "elect"
    /\ latest' = latest \cup Elected
    /\ Goto(r, "done") /\ broken' = FALSE
    /\ UNCHANGED <<bucketVars, objectVars, live, null, markers, births, lockVars, readVars, newest>>

-----------------------------------------------------------------------------
(* Failures. *)

\* The backend or the transaction of the head row fails, and the request with it.
Refuse(r) ==
    /\ pc[r] \in {"blob", "head", "remove"}
    /\ Goto(r, "done")
    /\ UNCHANGED <<bucketVars, objectVars, rowVars, lockVars, readVars, past>>

\* The client goes away: the request's context is cancelled, its remaining
\* statements fail and their errors are dropped.
Cut(r) ==
    /\ pc[r] \in {"status", "clear", "insert", "apply", "seal", "mark", "drop", "elect"}
    /\ broken' = (broken \/ pc[r] \in {"insert", "mark", "elect"})
    /\ newest' = IF pc[r] \in {"insert", "mark"} THEN 0 ELSE newest
    /\ Goto(r, "done") /\ seen' = [seen EXCEPT ![r] = None] /\ due' = [due EXCEPT ![r] = None]
    /\ UNCHANGED <<bucketVars, objectVars, rowVars, lockVars>>

-----------------------------------------------------------------------------
Request(r) ==
    \/ StartRetain(r) \/ Seal(r)
    \/ StartPut(r) \/ StartCopy(r) \/ Guard(r) \/ PutBlob(r) \/ PutHead(r)
    \/ ReadStatus(r) \/ ClearLatest(r) \/ InsertVersion(r) \/ ApplyLock(r)
    \/ StartDelete(r) \/ StartBatch(r) \/ InsertMarker(r) \/ RemoveBlob(r) \/ DropHead(r)
    \/ DeleteVersion(r) \/ Elect(r)
    \/ Refuse(r) \/ Cut(r)

Bypasses(j) == j # None /\ j.op \in {"put", "delete", "batch"} /\ j.bypass

\* The object may not be changed by r, whether or not a delete marker hides it.
Protected(r) == Protects(lock, clock, Bypasses(job[r]))

Watch == free' = [r \in Requests |-> pc'[r] \notin Ended /\ (free[r] \/ ~Protected(r)')]

Next ==
    \/ \E r \in Requests : Request(r) /\ Watch
    \/ \E on \in BOOLEAN : PutObjectLegalHold(on) /\ Watch
    \/ \E mode \in Modes \cup {None} : PutObjectLockConfiguration(mode) /\ Watch
    \/ \E s \in {"Enabled", "Suspended"} : PutBucketVersioning(s) /\ Watch
    \/ Tick /\ Watch

Spec == Init /\ [][Next]_vars

-----------------------------------------------------------------------------
(* Properties. *)

\* When no request is running, a key with version rows has a latest one, whatever
\* PUTs, DELETEs and version deletions overlapped: GET and ListObjectVersions find
\* the current version by is_latest.  A request that was cut off between two
\* statements may leave none; the next one that completes repairs it.
SomeLatest ==
    (\A r \in Requests : pc[r] \in Ended) /\ live # {} /\ ~broken => latest # {}

\* When no request is running, the row that was written last has is_latest, unless it was
\* deleted or a request was cut off after clearing its flag: however PUTs, delete markers,
\* replaced "null" rows, version deletions and changes of the versioning status overlapped,
\* the clearing statement of one never hides the row another inserted after it.
LastWriteLatest ==
    (\A r \in Requests : pc[r] \in Ended) /\ newest # 0 => newest \in latest

RemovesFree ==
    blob # None /\ blob' = None =>
        \E r \in Requests : pc'[r] # pc[r] /\ free[r] /\ job[r].op \in {"delete", "batch"}

\* Bytes go away only by a DELETE or a batch delete from which neither a legal hold nor a
\* retention protected them at some time while it ran, whether or not the key has a head row and
\* whatever the versioning status, the clock, the lock and other requests did in between.  (A PUT
\* that finds no head row, and a copy, replace them without asking for the lock.)
LockedNotRemoved == [][RemovesFree]_vars

-----------------------------------------------------------------------------
(* The inductive invariant. *)

\* Each operation has its own control states, and what is about to be set is a retention.
StageInv ==
    \A r \in Requests :
        /\ pc[r] \in {"status", "insert", "apply"} => job[r].op = "put"
        /\ pc[r] = "guard" => job[r].op \in {"put", "delete", "batch"}
        /\ pc[r] = "remove" => job[r].op \in {"delete", "batch"}
        /\ pc[r] = "seal" => due[r] \in Retentions

\* A row without the flag is on its way to be given it, or a request was cut off.
LatestInv ==
    live # {} /\ latest = {} /\ ~broken => \E r \in Requests : pc[r] \in {"insert", "mark", "elect"}

\* The row written last has the flag, or a request that cleared it is about to insert its own.
NewestInv ==
    newest # 0 /\ newest \notin latest => \E r \in Requests : pc[r] \in {"insert", "mark"}

\* A request about to remove the bytes saw the object not protected from it.
FreeInv == \A r \in Requests : pc[r] = "remove" => free[r]

IndInv == TypeOK /\ StageInv /\ LatestInv /\ NewestInv /\ FreeInv
=============================================================================
