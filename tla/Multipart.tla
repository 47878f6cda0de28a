----------------------------- MODULE Multipart -----------------------------
(***************************************************************************)
(* The life of one multipart upload: its row and part rows in Postgres,    *)
(* its directory of part files on the local disk, the requests on it       *)
(* (UploadPart, CompleteMultipartUpload, AbortMultipartUpload) and the     *)
(* hourly reaper.  Nothing locks the upload: every handler checks the      *)
(* status once, works on files by path, and updates rows by separate       *)
(* statements.                                                             *)
(*                                                                         *)
(* A part body repeats one letter, so that a file is a sequence of letters *)
(* and an ETag is a letter and a length.  Files are inodes named by the    *)
(* request that created them: a file that was unlinked while open keeps    *)
(* its bytes for whoever has it open.                                      *)
(***************************************************************************)
EXTENDS Integers, Sequences, FiniteSets

CONSTANTS
    Requests,          \* requests on the upload; each runs once
    Jobs,              \* what a request asks for
    Parts,             \* part numbers
    Letters,           \* contents of part bodies
    MaxSize,           \* largest part
    Cap,               \* Server.multipartMaxUploadBytes
    Resend,            \* whether a client may resend a part that is recorded or still
                       \* being received, and complete before its parts are answered
    Faults,            \* whether statements, transfers and the backend may fail
    DiskFaults,        \* whether removing a directory may fail
    AbandonAge, TerminalRetention, \* MultipartReaper, in clock ticks
    MaxCrashes,        \* bound on process restarts
    None, Hole

JobType == [op : {"part"}, part : Parts, letter : Letters, size : 1..MaxSize] \cup [op : {"complete", "abort"}]

ASSUME MultipartAssumption ==
    /\ IsFiniteSet(Requests)
    /\ IsFiniteSet(Parts) /\ Parts \subseteq Nat
    /\ MaxSize \in Nat /\ Cap \in Nat /\ MaxCrashes \in Nat
    /\ AbandonAge \in Nat /\ TerminalRetention \in Nat /\ AbandonAge < TerminalRetention
    /\ Jobs \subseteq JobType
    /\ {Resend, Faults, DiskFaults} \subseteq BOOLEAN
    /\ None \notin Requests /\ Hole \notin Letters

VARIABLES
    status,     \* multipart_uploads.status; "none" before and "gone" after the row
    rows,       \* multipart_parts: the request whose ETag and size the row has
    idle,       \* age of the last activity, up to AbandonAge + 1
    age,        \* age of the upload row, up to TerminalRetention + 1
    dir,        \* whether the upload's temp directory exists
    path,       \* directory entries: part number to inode
    data,       \* contents of the inodes
    job, pc,    \* a request's input and control state
    others,     \* UploadPart: bytes of the other parts when it checked the cap
    offset,     \* UploadPart: bytes received so far
    sel,        \* Complete: the part rows it selected
    todo,       \* Complete: parts not streamed yet
    got,        \* Complete: what it read of each part
    file,       \* the inode a request has open
    object,     \* the completion whose stream the backend stored at the key
    opener,     \* control state of the InitiateMultipartUpload request
    reaper,     \* the reaper's control state
    crashes

rowVars == <<status, rows, idle, age>>
diskVars == <<dir, path, data>>
partVars == <<others, offset>>
completeVars == <<sel, todo, got, object>>
vars == <<rowVars, diskVars, job, pc, partVars, completeVars, file, opener, reaper, crashes>>

PcStates == {"idle", "create", "write", "load", "open", "read",
             "mark", "clean", "done", "failed"}
ReaperStates == {"idle", "abort", "rmdir", "scan", "purge", "drop"}
Ended == {"idle", "done", "failed"}

UploadType ==
    /\ status \in {"none", "active", "completed", "aborted", "gone"}
    /\ rows \in [Parts -> Requests \cup {None}]
    /\ idle \in 0..(AbandonAge + 1) /\ age \in 0..(TerminalRetention + 1)
    /\ opener \in {"insert", "mkdir", "done"} /\ reaper \in ReaperStates
    /\ crashes \in 0..MaxCrashes

DiskType ==
    /\ dir \in BOOLEAN
    /\ path \in [Parts -> Requests \cup {None}]
    /\ data \in [Requests -> Seq(Letters \cup {Hole})]

RequestType ==
    /\ job \in [Requests -> Jobs] /\ pc \in [Requests -> PcStates]
    /\ others \in [Requests -> Nat] /\ offset \in [Requests -> 0..MaxSize]
    /\ file \in [Requests -> Requests \cup {None}]

CompleteType ==
    /\ sel \in [Requests -> [Parts -> Requests \cup {None}]]
    /\ todo \in [Requests -> SUBSET Parts]
    /\ got \in [Requests -> [Parts -> Seq(Letters \cup {Hole})]]
    /\ object \in Requests \cup {None}

TypeOK == UploadType /\ DiskType /\ RequestType /\ CompleteType

NoParts == [n \in Parts |-> None]

Init ==
    /\ status = "none" /\ rows = NoParts /\ idle = 0 /\ age = 0
    /\ dir = FALSE /\ path = NoParts /\ data = [r \in Requests |-> <<>>]
    /\ job \in [Requests -> Jobs] /\ pc = [r \in Requests |-> "idle"]
    /\ others = [r \in Requests |-> 0] /\ offset = [r \in Requests |-> 0]
    /\ sel = [r \in Requests |-> NoParts] /\ todo = [r \in Requests |-> {}]
    /\ got = [r \in Requests |-> [n \in Parts |-> <<>>]]
    /\ file = [r \in Requests |-> None] /\ object = None
    /\ opener = "insert" /\ reaper = "idle"
    /\ crashes = 0

Op(r) == job[r].op
Part(r) == job[r].part
Goto(r, s) == pc' = [pc EXCEPT ![r] = s]
Running(r) == pc[r] \notin Ended

\* os.RemoveAll: removes everything, or fails after removing some of the files.
RemoveAll ==
    \/ dir' = FALSE /\ path' = NoParts /\ UNCHANGED data
    \/ /\ DiskFaults
       /\ \E S \in SUBSET Parts : path' = [n \in Parts |-> IF n \in S THEN None ELSE path[n]]
       /\ UNCHANGED <<dir, data>>

-----------------------------------------------------------------------------
(* InitiateMultipartUpload: the row, then the directory. *)

InsertUpload ==
    /\ opener = "insert"
    /\ status' = "active"
    /\ opener' = "mkdir"
    /\ UNCHANGED <<rows, idle, age, diskVars, job, pc, partVars, completeVars, file, reaper, crashes>>

MakeDir ==
    /\ opener = "mkdir"
    /\ dir' = TRUE \/ (DiskFaults /\ UNCHANGED dir)
    /\ opener' = "done"
    /\ UNCHANGED <<rowVars, path, data, job, pc, partVars, completeVars, file, reaper, crashes>>

-----------------------------------------------------------------------------
(* UploadPart *)

\* A client that does not resend waits for its earlier requests for the part and
\* repeats only a part that is not recorded; it completes when its parts are
\* answered.
MayStart(r) ==
    \/ Resend \/ Op(r) = "abort"
    \/ /\ Op(r) = "part" /\ rows[Part(r)] = None
       /\ \A q \in Requests : Running(q) => Op(q) # "complete" /\ (Op(q) = "part" => Part(q) # Part(r))
    \/ Op(r) = "complete" /\ \A q \in Requests : Running(q) => Op(q) # "part"

Size(r) == job[r].size
OtherBytes(n) ==
    Cardinality({x \in (Parts \ {n}) \X (1..MaxSize) : rows[x[1]] # None /\ x[2] <= Size(rows[x[1]])})

\* Status check, and the cap against the declared size, which may be absent.
StartPart(r) ==
    LET rest == OtherBytes(Part(r)) IN
    /\ pc[r] = "idle" /\ Op(r) = "part" /\ opener = "done" /\ MayStart(r)
    /\ \/ status = "active" /\ others' = [others EXCEPT ![r] = rest] /\ Goto(r, "create")
       \/ /\ status # "active" \/ rest + Size(r) > Cap \/ Faults
          /\ Goto(r, "failed") /\ UNCHANGED others
    /\ UNCHANGED <<rowVars, diskVars, job, offset, completeVars, file, opener, reaper, crashes>>

\* os.Create: an existing file is truncated in place.
CreatePart(r) ==
    LET n == Part(r) IN
    LET inode == IF path[n] = None THEN r ELSE path[n] IN
    /\ pc[r] = "create"
    /\ \/ /\ dir
          /\ path' = [path EXCEPT ![n] = inode]
          /\ data' = [data EXCEPT ![inode] = <<>>]
          /\ file' = [file EXCEPT ![r] = inode]
          /\ Goto(r, "write")
       \/ ~ dir /\ Goto(r, "failed") /\ UNCHANGED <<path, data, file>>
    /\ UNCHANGED <<rowVars, dir, job, partVars, completeVars, opener, reaper, crashes>>

\* Writing position i of a file that was truncated meanwhile leaves a gap.
Written(f, i, x) ==
    [j \in 1..(IF i > Len(f) THEN i ELSE Len(f)) |->
        IF j = i THEN x ELSE IF j <= Len(f) THEN f[j] ELSE Hole]

\* Mutant: the copy does not stop at the end of the body.
WritePartOn(r) ==
    /\ pc[r] = "write"
    /\ data' = [data EXCEPT ![file[r]] = Written(data[file[r]], offset[r] + 1, job[r].letter)]
    /\ offset' = [offset EXCEPT ![r] = @ + 1]
    /\ UNCHANGED <<rowVars, dir, path, job, pc, others, completeVars, file, opener, reaper, crashes>>

\* io.Copy, byte by byte, at the request's own offset.
WritePart(r) ==
    /\ pc[r] = "write"
    /\ offset[r] < Size(r)
    /\ data' = [data EXCEPT ![file[r]] = Written(data[file[r]], offset[r] + 1, job[r].letter)]
    /\ offset' = [offset EXCEPT ![r] = @ + 1]
    /\ UNCHANGED <<rowVars, dir, path, job, pc, others, completeVars, file, opener, reaper, crashes>>

EndPart(r) ==
    /\ file' = [file EXCEPT ![r] = None]
    /\ offset' = [offset EXCEPT ![r] = 0] /\ others' = [others EXCEPT ![r] = 0]

\* The transfer breaks, or the measured size exceeds the cap: os.Remove(path).
RejectPart(r) ==
    /\ \/ pc[r] = "write" /\ Faults
       \/ pc[r] = "write" /\ offset[r] = Size(r) /\ others[r] + Size(r) > Cap
    /\ path' = [path EXCEPT ![Part(r)] = None]
    /\ EndPart(r)
    /\ Goto(r, "failed")
    /\ UNCHANGED <<rowVars, dir, data, job, completeVars, opener, reaper, crashes>>

\* Upsert of the part row, which references the upload row.
RecordPart(r) ==
    /\ pc[r] = "write" /\ offset[r] = Size(r) /\ others[r] + Size(r) <= Cap
    /\ \/ /\ status # "gone"
          /\ rows' = [rows EXCEPT ![Part(r)] = r]
          /\ idle' = 0
          /\ Goto(r, "done")
       \/ (status = "gone" \/ Faults) /\ Goto(r, "failed") /\ UNCHANGED <<rows, idle>>
    /\ EndPart(r)
    /\ UNCHANGED <<status, age, diskVars, job, completeVars, opener, reaper, crashes>>

-----------------------------------------------------------------------------
(* CompleteMultipartUpload.  Its head row and quota are in ObjectLedger. *)

StartComplete(c) ==
    /\ pc[c] = "idle" /\ Op(c) = "complete" /\ opener = "done" /\ MayStart(c)
    /\ \/ status = "active" /\ Goto(c, "load")
       \/ (status # "active" \/ Faults) /\ Goto(c, "failed")
    /\ UNCHANGED <<rowVars, diskVars, job, partVars, completeVars, file, opener, reaper, crashes>>

\* The part rows the client lists, or all of them; an unknown part or ETag, no
\* part at all, and the quota, end the request.
LoadParts(c) ==
    /\ pc[c] = "load"
    /\ \/ \E S \in SUBSET {n \in Parts : rows[n] # None} :
             /\ S # {}
             /\ sel' = [sel EXCEPT ![c] = [n \in Parts |-> IF n \in S THEN rows[n] ELSE None]]
             /\ todo' = [todo EXCEPT ![c] = S]
             /\ Goto(c, "open")
       \/ Goto(c, "failed") /\ UNCHANGED <<sel, todo>>
    /\ UNCHANGED <<rowVars, diskVars, job, partVars, got, object, file, opener, reaper, crashes>>

First(S) == CHOOSE n \in S : \A k \in S : n <= k

\* Mutant: a part that cannot be opened ends the stream instead of failing it.
OpenPartLenient(c) ==
    LET n == First(todo[c]) IN
    /\ pc[c] = "open" /\ todo[c] # {}
    /\ IF path[n] # None
         THEN Goto(c, "read") /\ file' = [file EXCEPT ![c] = path[n]] /\ UNCHANGED todo
         ELSE todo' = [todo EXCEPT ![c] = {}] /\ UNCHANGED <<pc, file>>
    /\ UNCHANGED <<rowVars, diskVars, job, partVars, sel, got, object, opener, reaper, crashes>>

\* The writer goroutine opens the next part; CloseWithError fails engine.Put.
OpenPart(c) ==
    LET n == First(todo[c]) IN
    /\ pc[c] = "open" /\ todo[c] # {}
    /\ IF path[n] # None
         THEN Goto(c, "read") /\ file' = [file EXCEPT ![c] = path[n]]
         ELSE Goto(c, "failed") /\ UNCHANGED file
    /\ UNCHANGED <<rowVars, diskVars, job, partVars, completeVars, opener, reaper, crashes>>

\* Reads the next byte, or finds the end of the file and goes on.
ReadPart(c) ==
    LET n == First(todo[c]) IN
    LET f == data[file[c]] IN
    /\ pc[c] = "read"
    /\ IF Len(got[c][n]) < Len(f)
         THEN /\ got' = [got EXCEPT ![c][n] = Append(@, f[Len(@) + 1])]
              /\ UNCHANGED <<todo, file, pc>>
         ELSE /\ todo' = [todo EXCEPT ![c] = @ \ {n}]
              /\ file' = [file EXCEPT ![c] = None]
              /\ Goto(c, "open")
              /\ UNCHANGED got
    /\ UNCHANGED <<rowVars, diskVars, job, partVars, sel, object, opener, reaper, crashes>>

\* engine.Put has the whole stream; a driver may or may not insist on the
\* announced length.
PutObject(c) ==
    /\ pc[c] = "open" /\ todo[c] = {}
    /\ \/ object' = c /\ Goto(c, "mark")
       \/ UNCHANGED object /\ Goto(c, "failed")
    /\ UNCHANGED <<rowVars, diskVars, job, partVars, sel, todo, got, file, opener, reaper, crashes>>

\* UPDATE ... SET status = 'completed', whatever the status is; errors ignored.
MarkCompleted(c) ==
    /\ pc[c] = "mark"
    /\ \/ status' = IF status = "gone" THEN status ELSE "completed"
       \/ Faults /\ UNCHANGED status
    /\ sel' = [sel EXCEPT ![c] = NoParts] /\ got' = [got EXCEPT ![c] = [n \in Parts |-> <<>>]]
    /\ Goto(c, "clean")
    /\ UNCHANGED <<rows, idle, age, diskVars, job, partVars, todo, object, file, opener, reaper, crashes>>

\* The last step of a completion and of an abort, whose outcome is ignored.
Clean(c) ==
    /\ pc[c] = "clean"
    /\ RemoveAll
    /\ Goto(c, "done")
    /\ UNCHANGED <<rowVars, job, partVars, completeVars, file, opener, reaper, crashes>>

\* AbortMultipartUpload: conditional UPDATE.
AbortUpload(r) ==
    /\ pc[r] = "idle" /\ Op(r) = "abort" /\ opener = "done"
    /\ \/ status = "active" /\ status' = "aborted" /\ Goto(r, "clean")
       \/ (status # "active" \/ Faults) /\ UNCHANGED status /\ Goto(r, "failed")
    /\ UNCHANGED <<rows, idle, age, diskVars, job, partVars, completeVars, file, opener, reaper, crashes>>

-----------------------------------------------------------------------------
(* MultipartReaper *)

ReaperGoto(s) == reaper' = s
restVars == <<job, pc, partVars, completeVars, file, opener, crashes>>

\* Mutant: an inner join, which finds no upload without parts.
ScanAbandonedJoin ==
    /\ reaper = "idle"
    /\ ReaperGoto(IF status = "active" /\ idle > AbandonAge /\ rows # NoParts THEN "abort" ELSE "scan")
    /\ UNCHANGED <<rowVars, diskVars, restVars>>

\* An active upload whose creation and newest part are older than AbandonAge.
ScanAbandoned ==
    /\ reaper = "idle"
    /\ ReaperGoto(IF status = "active" /\ idle > AbandonAge THEN "abort" ELSE "scan")
    /\ UNCHANGED <<rowVars, diskVars, restVars>>

\* Mutant: the directory is removed although the UPDATE failed.
AbortAbandonedAnyway ==
    /\ reaper = "abort"
    /\ \/ status = "active" /\ status' = "aborted" /\ ReaperGoto("rmdir")
       \/ status = "active" /\ Faults /\ UNCHANGED status /\ ReaperGoto("rmdir")
       \/ status # "active" /\ UNCHANGED status /\ ReaperGoto("scan")
    /\ UNCHANGED <<rows, idle, age, diskVars, restVars>>

\* Conditional UPDATE: it may have been completed or aborted since the scan.
AbortAbandoned ==
    /\ reaper = "abort"
    /\ \/ status = "active" /\ status' = "aborted" /\ ReaperGoto("rmdir")
       \/ status # "active" /\ UNCHANGED status /\ ReaperGoto("scan")
    /\ UNCHANGED <<rows, idle, age, diskVars, restVars>>

RemoveAbandoned ==
    /\ reaper = "rmdir"
    /\ RemoveAll
    /\ ReaperGoto("scan")
    /\ UNCHANGED <<rowVars, restVars>>

ScanTerminal ==
    /\ reaper = "scan"
    /\ ReaperGoto(IF status \in {"completed", "aborted"} /\ age > TerminalRetention THEN "purge" ELSE "idle")
    /\ UNCHANGED <<rowVars, diskVars, restVars>>

PurgeDir ==
    /\ reaper = "purge"
    /\ RemoveAll
    /\ ReaperGoto("drop")
    /\ UNCHANGED <<rowVars, restVars>>

\* DELETE of the upload row; its part rows cascade.
PurgeRow ==
    /\ reaper = "drop"
    /\ status' = "gone" /\ rows' = NoParts
    /\ ReaperGoto("idle")
    /\ UNCHANGED <<idle, age, diskVars, restVars>>

\* A failed query ends the cycle, a failed statement skips the upload.
ReaperFail ==
    /\ Faults
    /\ reaper \in {"idle", "abort", "scan", "drop"}
    /\ ReaperGoto(IF reaper = "abort" THEN "scan" ELSE "idle")
    /\ UNCHANGED <<rowVars, diskVars, restVars>>

\* Time, in steps that InitiateMultipartUpload does not outlast.
Tick ==
    /\ opener = "done"
    /\ idle <= AbandonAge \/ age <= TerminalRetention
    /\ idle' = IF idle <= AbandonAge THEN idle + 1 ELSE idle
    /\ age' = IF age <= TerminalRetention THEN age + 1 ELSE age
    /\ UNCHANGED <<status, rows, diskVars, reaper, restVars>>

\* The process dies: rows and files stay.
Crash ==
    /\ crashes < MaxCrashes
    /\ crashes' = crashes + 1
    /\ pc' = [r \in Requests |-> IF Running(r) THEN "failed" ELSE pc[r]]
    /\ file' = [r \in Requests |-> None]
    /\ others' = [r \in Requests |-> 0] /\ offset' = [r \in Requests |-> 0]
    /\ sel' = [r \in Requests |-> NoParts] /\ todo' = [r \in Requests |-> {}]
    /\ got' = [r \in Requests |-> [n \in Parts |-> <<>>]]
    /\ opener' = IF opener = "mkdir" THEN "done" ELSE opener
    /\ reaper' = "idle"
    /\ UNCHANGED <<rowVars, diskVars, job, object>>

RequestStep(r) ==
    \/ StartPart(r) \/ CreatePart(r) \/ WritePart(r) \/ RejectPart(r) \/ RecordPart(r)
    \/ StartComplete(r) \/ LoadParts(r) \/ OpenPart(r) \/ ReadPart(r) \/ PutObject(r)
    \/ MarkCompleted(r) \/ Clean(r) \/ AbortUpload(r)

ReaperStep ==
    \/ ScanAbandoned \/ AbortAbandoned \/ RemoveAbandoned
    \/ ScanTerminal \/ PurgeDir \/ PurgeRow \/ ReaperFail

Next ==
    \/ InsertUpload \/ MakeDir \/ Tick \/ Crash \/ ReaperStep
    \/ \E r \in Requests : RequestStep(r)

Spec == Init /\ [][Next]_vars

\* The reaper runs every hour and its statements do not fail for ever; time passes.
Fairness ==
    /\ WF_vars(MakeDir) /\ WF_vars(Tick)
    /\ SF_vars(ScanAbandoned) /\ SF_vars(AbortAbandoned) /\ WF_vars(RemoveAbandoned)
    /\ SF_vars(ScanTerminal) /\ WF_vars(PurgeDir) /\ SF_vars(PurgeRow)

FairSpec == Spec /\ Fairness

-----------------------------------------------------------------------------
(* Properties *)

Prefix(r, k) == [i \in 1..k |-> job[r].letter]
Body(r) == Prefix(r, Size(r))

\* A completion that reaches its acknowledgement stored every selected part in full, as its row's
\* ETag says, although aborts, the reaper and other completions remove the files
\* while it streams them.
AckedWhole ==
    \A c \in Requests : pc[c] = "mark" =>
        \A n \in Parts : sel[c][n] # None => got[c][n] = Body(sel[c][n])

\* Part data never stays on the local disk: the directory is removed in the end
\* whatever became of the upload, unless the purge dropped the row although it
\* could not remove the directory.
TempReclaimed == dir ~> (~ dir \/ status = "gone")

\* A part that was acknowledged is on disk with the bytes its row describes for as
\* long as the upload is active.
RecordedOnDisk ==
    status = "active" /\ (\A r \in Requests : ~ Running(r)) =>
        \A n \in Parts : rows[n] # None => path[n] # None /\ data[path[n]] = Body(rows[n])

\* A client that does not resend loses no recorded part: it is on disk, whole, for as long as the
\* upload is active and no completion was answered, although the process may die between any two
\* steps, statements fail, and requests for other parts, aborts and the reaper remove files.
Answered == \E c \in Requests : Op(c) = "complete" /\ pc[c] = "done"
RecordedKept ==
    status = "active" /\ ~Answered =>
        \A n \in Parts : rows[n] # None => path[n] # None /\ data[path[n]] = Body(rows[n])

-----------------------------------------------------------------------------
(* The inductive invariant *)

\* Each operation has its own control states.
ControlInv ==
    \A r \in Requests :
        /\ pc[r] \in {"create", "write"} => Op(r) = "part"
        /\ pc[r] \in {"load", "open", "read", "mark"} => Op(r) = "complete"
        /\ pc[r] \in {"write", "read"} => file[r] # None
        /\ pc[r] = "read" => todo[r] # {}
        /\ pc[r] \in {"idle", "create"} => offset[r] = 0
        /\ pc[r] \in {"idle", "load"} => \A n \in Parts : got[r][n] = <<>>

\* Only part uploads are recorded, make files and are selected.
OriginInv ==
    \A n \in Parts :
        /\ rows[n] # None => Op(rows[n]) = "part"
        /\ path[n] # None => Op(path[n]) = "part" /\ Part(path[n]) = n
        /\ \A r \in Requests : sel[r][n] # None => Op(sel[r][n]) = "part"

\* A client that does not resend has one request for a part at a time, none for a part that is
\* recorded, and none while it completes the upload.
ApartInv ==
    \A r \in Requests : Running(r) /\ Op(r) = "part" =>
        /\ rows[Part(r)] = None
        /\ \A q \in Requests \ {r} : Running(q) =>
            Op(q) # "complete" /\ (Op(q) = "part" => Part(q) # Part(r))

\* A file being written has what was received so far, a recorded one that is still there all of it.
FileInv ==
    /\ \A r \in Requests : pc[r] = "write" =>
        /\ Op(file[r]) = "part" /\ Part(file[r]) = Part(r)
        /\ path[Part(r)] \in {None, file[r]}
        /\ data[file[r]] = Prefix(r, offset[r])
    /\ \A n \in Parts : rows[n] # None /\ path[n] # None => data[path[n]] = Body(rows[n])

\* What a completion has streamed, is streaming and has yet to stream.
StreamOf(c) ==
    /\ \A n \in todo[c] : sel[c][n] # None
    /\ \A n \in Parts : sel[c][n] # None =>
        /\ path[n] # None => data[path[n]] = Body(sel[c][n])
        /\ n \notin todo[c] => got[c][n] = Body(sel[c][n])
        /\ n \in todo[c] /\ (pc[c] = "open" \/ n # First(todo[c])) => got[c][n] = <<>>
    /\ pc[c] = "read" =>
        LET s == sel[c][First(todo[c])] IN
        /\ data[file[c]] = Body(s)
        /\ \E k \in 0..Size(s) : got[c][First(todo[c])] = Prefix(s, k)

StreamInv == \A c \in Requests : pc[c] \in {"open", "read"} => StreamOf(c)

\* The directory is removed only after the upload has left the active state, except by a completion.
RemovalInv ==
    /\ opener = "insert" => status = "none" /\ rows = NoParts /\ \A r \in Requests : pc[r] = "idle"
    /\ opener = "insert" => reaper \in {"idle", "scan"}
    /\ \A r \in Requests : pc[r] = "clean" => status # "active" \/ Op(r) = "complete"
    /\ reaper \in {"rmdir", "purge", "drop"} => status # "active"

\* Until then a recorded part and a part being received have their directory entry.
EntryInv ==
    status = "active" /\ ~Answered =>
        /\ \A n \in Parts : rows[n] # None => path[n] # None
        /\ \A r \in Requests : pc[r] = "write" => path[Part(r)] # None

IndInv ==
    /\ TypeOK /\ ControlInv /\ OriginInv /\ RemovalInv
    /\ ~Resend => ApartInv /\ FileInv /\ StreamInv /\ AckedWhole /\ EntryInv
=============================================================================
