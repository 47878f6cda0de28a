--------------------------- MODULE MultipartProofs ---------------------------
(* Proofs about Multipart: a client that does not resend parts never has a   *)
(* completion acknowledged that stored less than the parts it selected.      *)
EXTENDS Multipart, FiniteSetTheorems, WellFoundedInduction, TLAPS

\* What a request asks for.
LEMMA JobFacts ==
    ASSUME RequestType, NEW r \in Requests
    PROVE  /\ Op(r) \in {"part", "complete", "abort"}
           /\ Op(r) = "part" => Part(r) \in Parts /\ job[r].letter \in Letters /\ Size(r) \in 1..MaxSize
<1>1. job[r] \in JobType
  BY MultipartAssumption DEF RequestType
<1> QED
  BY <1>1 DEF JobType, Op, Part, Size

\* The next part to stream is one of those left.
LEMMA FirstIsOne ==
    ASSUME NEW S \in SUBSET Parts, S # {}
    PROVE  First(S) \in S
<1>1. S \subseteq Nat
  BY MultipartAssumption
<1>2. PICK x \in S : \A y \in S : ~(<<y, x>> \in OpToRel(<, Nat))
  BY <1>1, NatLessThanWellFounded, WFMin
<1>3. \A y \in S : <<y, x>> \in Nat \X Nat => ~(y < x)
  BY <1>2, Zenon DEF OpToRel
<1>4. \A y \in S : ~(y < x) /\ x \in Nat /\ y \in Nat
  BY <1>1, <1>3, Zenon
<1>5. \A y \in S : x <= y
  BY <1>4
<1> QED
  BY <1>5 DEF First

\* A write at any offset leaves a sequence of bytes and gaps.
LEMMA WrittenIsFile ==
    ASSUME NEW f \in Seq(Letters \cup {Hole}), NEW i \in Nat \ {0}, NEW x \in Letters
    PROVE  Written(f, i, x) \in Seq(Letters \cup {Hole})
<1> DEFINE n == IF i > Len(f) THEN i ELSE Len(f)
<1>1. n \in Nat
  OBVIOUS
<1>2. \A j \in 1..n : (IF j = i THEN x ELSE IF j <= Len(f) THEN f[j] ELSE Hole) \in Letters \cup {Hole}
  OBVIOUS
<1> QED
  BY <1>1, <1>2 DEF Written

\* An empty file.
LEMMA EmptySeq == <<>> \in Seq(Letters \cup {Hole})
OBVIOUS

\* What was received of a body is a file of that length.
LEMMA PrefixIsFile ==
    ASSUME RequestType, NEW r \in Requests, Op(r) = "part", NEW k \in Nat
    PROVE  /\ Prefix(r, k) \in Seq(Letters \cup {Hole})
           /\ Len(Prefix(r, k)) = k
           /\ \A i \in 1..k : Prefix(r, k)[i] = job[r].letter
BY JobFacts DEF Prefix

\* Nothing was received yet.
LEMMA EmptyPrefix ==
    ASSUME NEW r
    PROVE  Prefix(r, 0) = <<>>
BY DEF Prefix

\* The next byte of a body, written where the last one ended, extends what was received.
LEMMA WrittenExtends ==
    ASSUME RequestType, NEW r \in Requests, Op(r) = "part", NEW k \in Nat
    PROVE  Written(Prefix(r, k), k + 1, job[r].letter) = Prefix(r, k + 1)
<1>1. Len(Prefix(r, k)) = k /\ \A i \in 1..k : Prefix(r, k)[i] = job[r].letter
  BY PrefixIsFile
<1>2. \A j \in 1..(k + 1) :
        (IF j = k + 1 THEN job[r].letter ELSE IF j <= k THEN Prefix(r, k)[j] ELSE Hole) = job[r].letter
  BY <1>1
<1>3. (IF k + 1 > k THEN k + 1 ELSE k) = k + 1
  OBVIOUS
<1>4. Written(Prefix(r, k), k + 1, job[r].letter)
        = [j \in 1..(k + 1) |-> IF j = k + 1 THEN job[r].letter ELSE IF j <= k THEN Prefix(r, k)[j] ELSE Hole]
  BY <1>1, <1>3 DEF Written
<1>5. Prefix(r, k + 1) = [j \in 1..(k + 1) |-> job[r].letter]
  BY Zenon DEF Prefix
<1> QED
  BY <1>2, <1>4, <1>5

\* Reading the next byte of a body extends what was read.
LEMMA AppendExtends ==
    ASSUME RequestType, NEW r \in Requests, Op(r) = "part", NEW k \in Nat
    PROVE  Append(Prefix(r, k), job[r].letter) = Prefix(r, k + 1)
<1> DEFINE p == Prefix(r, k)
           q == Prefix(r, k + 1)
           s == Append(p, job[r].letter)
<1>1. p \in Seq(Letters \cup {Hole}) /\ Len(p) = k /\ \A i \in 1..k : p[i] = job[r].letter
  BY PrefixIsFile
<1>2. q \in Seq(Letters \cup {Hole}) /\ Len(q) = k + 1 /\ \A i \in 1..(k + 1) : q[i] = job[r].letter
  BY PrefixIsFile
<1>3. s \in Seq(Letters \cup {Hole}) /\ Len(s) = k + 1 /\ \A i \in 1..(k + 1) : s[i] = job[r].letter
  BY <1>1, JobFacts
<1> HIDE DEF p, q, s
<1>4. s = q
  BY <1>2, <1>3
<1> QED
  BY <1>4 DEF p, q, s

\* The size of the other parts is a number of bytes.
LEMMA OtherBytesNat ==
    ASSUME NEW n
    PROVE  OtherBytes(n) \in Nat
<1> DEFINE Q == (Parts \ {n}) \X (1..MaxSize)
           B == {x \in Q : rows[x[1]] # None /\ x[2] <= Size(rows[x[1]])}
<1>1. IsFiniteSet(Parts \ {n}) /\ IsFiniteSet(1..MaxSize)
  BY MultipartAssumption, FS_Subset, FS_Interval
<1>2. IsFiniteSet(Q)
  BY <1>1, FS_Product
<1>3. B \subseteq Q
  OBVIOUS
<1>4. IsFiniteSet(B)
  BY <1>2, <1>3, FS_Subset
<1>5. Cardinality(B) \in Nat
  BY <1>4, FS_CardinalityType
<1> QED
  BY <1>5 DEF OtherBytes

\* os.RemoveAll only takes directory entries away.
LEMMA RemoveEffect ==
    ASSUME DiskType, RemoveAll
    PROVE  /\ data' = data /\ dir' \in BOOLEAN
           /\ path' \in [Parts -> Requests \cup {None}]
           /\ \A n \in Parts : path'[n] \in {path[n], None}
<1>1. CASE dir' = FALSE /\ path' = NoParts /\ UNCHANGED data
  BY <1>1 DEF NoParts
<1>2. ASSUME NEW S \in SUBSET Parts, path' = [n \in Parts |-> IF n \in S THEN None ELSE path[n]], UNCHANGED <<dir, data>>
      PROVE  /\ data' = data /\ dir' \in BOOLEAN
             /\ path' \in [Parts -> Requests \cup {None}]
             /\ \A n \in Parts : path'[n] \in {path[n], None}
  BY <1>2 DEF DiskType
<1> QED
  BY <1>1, <1>2 DEF RemoveAll

\* UploadPart has emptied and opened an inode.
CreatedAt(r, inode) ==
    /\ IF path[Part(r)] = None THEN inode = r ELSE inode = path[Part(r)]
    /\ path' = [path EXCEPT ![Part(r)] = inode]
    /\ data' = [data EXCEPT ![inode] = <<>>]
    /\ file' = [file EXCEPT ![r] = inode]
    /\ pc' = [pc EXCEPT ![r] = "write"]

\* os.Create opens one inode, the request's own or the one that has the path, and empties it.
LEMMA CreateEffect ==
    ASSUME DiskType, RequestType, ControlInv, NEW r \in Requests, CreatePart(r)
    PROVE  /\ Op(r) = "part" /\ Part(r) \in Parts /\ pc[r] = "create" /\ offset[r] = 0
           /\ UNCHANGED <<rows, dir, job, others, offset, sel, todo, got, object>>
           /\ \/ \E inode \in Requests : CreatedAt(r, inode)
              \/ UNCHANGED <<path, data, file>> /\ pc' = [pc EXCEPT ![r] = "failed"]
<1> USE DEF rowVars, partVars, completeVars
<1>1. pc[r] = "create" /\ Op(r) = "part" /\ offset[r] = 0
  BY DEF CreatePart, ControlInv
<1>2. Part(r) \in Parts
  BY <1>1, JobFacts
<1>3. UNCHANGED <<rows, dir, job, others, offset, sel, todo, got, object>>
  BY DEF CreatePart
<1>4. CASE dir
  <2> DEFINE inode == IF path[Part(r)] = None THEN r ELSE path[Part(r)]
  <2>1. inode \in Requests
    BY <1>2 DEF DiskType
  <2>2. IF path[Part(r)] = None THEN inode = r ELSE inode = path[Part(r)]
    OBVIOUS
  <2>3. /\ path' = [path EXCEPT ![Part(r)] = inode]
        /\ data' = [data EXCEPT ![inode] = <<>>]
        /\ file' = [file EXCEPT ![r] = inode]
        /\ pc' = [pc EXCEPT ![r] = "write"]
    BY <1>4, Zenon DEF CreatePart, Goto
  <2> HIDE DEF inode
  <2> QED
    BY <1>1, <1>2, <1>3, <2>1, <2>2, <2>3 DEF CreatedAt
<1>5. CASE ~dir
  <2>1. UNCHANGED <<path, data, file>> /\ pc' = [pc EXCEPT ![r] = "failed"]
    BY <1>5, Zenon DEF CreatePart, Goto
  <2> QED
    BY <1>1, <1>2, <1>3, <2>1
<1> QED
  BY <1>4, <1>5

\* CompleteMultipartUpload has selected part rows.
Selected(c, s) ==
    /\ sel' = [sel EXCEPT ![c] = s]
    /\ \A n \in Parts : s[n] \in {rows[n], None}
    /\ todo' = [todo EXCEPT ![c] = {n \in Parts : s[n] # None}]
    /\ pc' = [pc EXCEPT ![c] = "open"]

\* LoadParts selects part rows that exist, or ends the request.
LEMMA LoadEffect ==
    ASSUME UploadType, NEW c \in Requests, LoadParts(c)
    PROVE  /\ pc[c] = "load"
           /\ UNCHANGED <<rows, dir, path, data, job, others, offset, got, object, file>>
           /\ \/ \E s \in [Parts -> Requests \cup {None}] : Selected(c, s)
              \/ UNCHANGED <<sel, todo>> /\ pc' = [pc EXCEPT ![c] = "failed"]
<1> USE DEF rowVars, diskVars, partVars
<1>1. pc[c] = "load" /\ UNCHANGED <<rows, dir, path, data, job, others, offset, got, object, file>>
  BY DEF LoadParts
<1>2. ASSUME NEW S \in SUBSET {n \in Parts : rows[n] # None},
             sel' = [sel EXCEPT ![c] = [n \in Parts |-> IF n \in S THEN rows[n] ELSE None]],
             todo' = [todo EXCEPT ![c] = S],
             Goto(c, "open")
      PROVE  \E s \in [Parts -> Requests \cup {None}] : Selected(c, s)
  <2> DEFINE s == [n \in Parts |-> IF n \in S THEN rows[n] ELSE None]
  <2>1. s \in [Parts -> Requests \cup {None}] /\ \A n \in Parts : s[n] \in {rows[n], None}
    BY DEF UploadType
  <2>2. {n \in Parts : s[n] # None} = S
    OBVIOUS
  <2>3. sel' = [sel EXCEPT ![c] = s] /\ pc' = [pc EXCEPT ![c] = "open"]
    BY <1>2 DEF Goto
  <2> HIDE DEF s
  <2> QED
    BY <1>2, <2>1, <2>2, <2>3 DEF Selected
<1>3. CASE UNCHANGED <<sel, todo>> /\ Goto(c, "failed")
  BY <1>1, <1>3 DEF Goto
<1> QED
  BY <1>1, <1>2, <1>3 DEF LoadParts

\* A completion reads the next byte of the part n from a file.
ReadsByte(c, n, f, g) ==
    /\ Len(g) < Len(f)
    /\ got' = [got EXCEPT ![c] = [@ EXCEPT ![n] = Append(g, f[Len(g) + 1])]]
    /\ UNCHANGED <<todo, file, pc>>

\* A completion has read the part n to the end of the file.
ReadsEnd(c, n, f, g) ==
    /\ ~(Len(g) < Len(f))
    /\ todo' = [todo EXCEPT ![c] = @ \ {n}]
    /\ file' = [file EXCEPT ![c] = None]
    /\ pc' = [pc EXCEPT ![c] = "open"]
    /\ UNCHANGED got

\* A reader takes the next byte of the file it has open, or goes on to the next part.
LEMMA ReadEffect ==
    ASSUME DiskType, RequestType, CompleteType, ControlInv, NEW c \in Requests, ReadPart(c),
           NEW n, n = First(todo[c]), NEW f, f = data[file[c]], NEW g, g = got[c][n]
    PROVE  /\ pc[c] = "read" /\ n \in todo[c] /\ n \in Parts
           /\ f \in Seq(Letters \cup {Hole}) /\ g \in Seq(Letters \cup {Hole})
           /\ UNCHANGED <<rows, dir, path, data, job, others, offset, sel, object>>
           /\ ReadsByte(c, n, f, g) \/ ReadsEnd(c, n, f, g)
<1> USE DEF rowVars, diskVars, partVars
<1>1. pc[c] = "read" /\ todo[c] # {} /\ file[c] \in Requests
  BY DEF ReadPart, ControlInv, RequestType
<1>2. n \in todo[c] /\ n \in Parts
  BY <1>1, FirstIsOne DEF CompleteType
<1>3. f \in Seq(Letters \cup {Hole}) /\ g \in Seq(Letters \cup {Hole})
  BY <1>1, <1>2 DEF DiskType, CompleteType
<1>4. UNCHANGED <<rows, dir, path, data, job, others, offset, sel, object>>
  BY DEF ReadPart
<1>5. CASE Len(g) < Len(f)
  <2>1. got' = [got EXCEPT ![c][n] = Append(@, f[Len(@) + 1])] /\ UNCHANGED <<todo, file, pc>>
    BY <1>5 DEF ReadPart
  <2>2. got' = [got EXCEPT ![c] = [@ EXCEPT ![n] = Append(g, f[Len(g) + 1])]]
    BY <1>2, <2>1 DEF CompleteType
  <2> QED
    BY <1>1, <1>2, <1>3, <1>4, <1>5, <2>1, <2>2 DEF ReadsByte
<1>6. CASE ~(Len(g) < Len(f))
  BY <1>1, <1>2, <1>3, <1>4, <1>6 DEF ReadPart, ReadsEnd, Goto
<1> QED
  BY <1>5, <1>6

\* The rows, the clock and the reaper keep their types.
LEMMA UploadStep ==
    ASSUME UploadType, RequestType, ControlInv, [Next]_vars
    PROVE  UploadType'
<1> USE DEF rowVars, diskVars, partVars, completeVars, restVars
<1>1. CASE InsertUpload
  BY <1>1, MultipartAssumption DEF InsertUpload, UploadType, NoParts, ReaperStates
<1>2. CASE MakeDir
  BY <1>2, MultipartAssumption DEF MakeDir, UploadType, NoParts, ReaperStates
<1>3. CASE Tick
  BY <1>3, MultipartAssumption DEF Tick, UploadType, NoParts, ReaperStates
<1>4. CASE Crash
  BY <1>4, MultipartAssumption DEF Crash, Running, UploadType, NoParts, ReaperStates
<1>5. CASE ScanAbandoned
  BY <1>5, MultipartAssumption DEF ScanAbandoned, ReaperGoto, UploadType, NoParts, ReaperStates
<1>6. CASE AbortAbandoned
  BY <1>6, MultipartAssumption DEF AbortAbandoned, ReaperGoto, UploadType, NoParts, ReaperStates
<1>7. CASE RemoveAbandoned
  BY <1>7, MultipartAssumption DEF RemoveAbandoned, RemoveAll, ReaperGoto, UploadType, NoParts, ReaperStates
<1>8. CASE ScanTerminal
  BY <1>8, MultipartAssumption DEF ScanTerminal, ReaperGoto, UploadType, NoParts, ReaperStates
<1>9. CASE PurgeDir
  BY <1>9, MultipartAssumption DEF PurgeDir, RemoveAll, ReaperGoto, UploadType, NoParts, ReaperStates
<1>10. CASE PurgeRow
  BY <1>10, MultipartAssumption DEF PurgeRow, ReaperGoto, UploadType, NoParts, ReaperStates
<1>11. CASE ReaperFail
  BY <1>11, MultipartAssumption DEF ReaperFail, ReaperGoto, UploadType, NoParts, ReaperStates
<1>12. ASSUME NEW r \in Requests, StartPart(r) PROVE UploadType'
  BY <1>12, MultipartAssumption DEF StartPart, Goto, UploadType, NoParts, ReaperStates
<1>13. ASSUME NEW r \in Requests, CreatePart(r) PROVE UploadType'
  BY <1>13, MultipartAssumption DEF CreatePart, Goto, UploadType, NoParts, ReaperStates
<1>14. ASSUME NEW r \in Requests, WritePart(r) PROVE UploadType'
  BY <1>14, MultipartAssumption DEF WritePart, Goto, UploadType, NoParts, ReaperStates
<1>15. ASSUME NEW r \in Requests, RejectPart(r) PROVE UploadType'
  BY <1>15, MultipartAssumption DEF RejectPart, EndPart, Goto, UploadType, NoParts, ReaperStates
<1>16. ASSUME NEW r \in Requests, RecordPart(r) PROVE UploadType'
  BY <1>16, MultipartAssumption, JobFacts DEF RecordPart, EndPart, Goto, UploadType, NoParts, ReaperStates, ControlInv
<1>17. ASSUME NEW r \in Requests, StartComplete(r) PROVE UploadType'
  BY <1>17, MultipartAssumption DEF StartComplete, Goto, UploadType, NoParts, ReaperStates
<1>18. ASSUME NEW r \in Requests, LoadParts(r) PROVE UploadType'
  BY <1>18, MultipartAssumption DEF LoadParts, Goto, UploadType, NoParts, ReaperStates
<1>19. ASSUME NEW r \in Requests, OpenPart(r) PROVE UploadType'
  BY <1>19, MultipartAssumption DEF OpenPart, Goto, UploadType, NoParts, ReaperStates
<1>20. ASSUME NEW r \in Requests, ReadPart(r) PROVE UploadType'
  BY <1>20, MultipartAssumption DEF ReadPart, Goto, UploadType, NoParts, ReaperStates
<1>21. ASSUME NEW r \in Requests, PutObject(r) PROVE UploadType'
  BY <1>21, MultipartAssumption DEF PutObject, Goto, UploadType, NoParts, ReaperStates
<1>22. ASSUME NEW r \in Requests, MarkCompleted(r) PROVE UploadType'
  BY <1>22, MultipartAssumption DEF MarkCompleted, Goto, UploadType, NoParts, ReaperStates
<1>23. ASSUME NEW r \in Requests, Clean(r) PROVE UploadType'
  BY <1>23, MultipartAssumption DEF Clean, RemoveAll, Goto, UploadType, NoParts, ReaperStates
<1>24. ASSUME NEW r \in Requests, AbortUpload(r) PROVE UploadType'
  BY <1>24, MultipartAssumption DEF AbortUpload, Goto, UploadType, NoParts, ReaperStates
<1>25. CASE UNCHANGED vars
  BY <1>25 DEF vars, UploadType, NoParts, ReaperStates
<1> QED
  BY <1>1, <1>2, <1>3, <1>4, <1>5, <1>6, <1>7, <1>8, <1>9, <1>10, <1>11, <1>12, <1>13, <1>14, <1>15, <1>16, <1>17, <1>18, <1>19, <1>20, <1>21, <1>22, <1>23, <1>24, <1>25 DEF Next, ReaperStep, RequestStep

\* Directory entries are inodes and files are sequences.
LEMMA DiskStep ==
    ASSUME DiskType, RequestType, ControlInv, [Next]_vars
    PROVE  DiskType'
<1> USE DEF rowVars, diskVars, partVars, completeVars, restVars
<1>1. CASE InsertUpload
  BY <1>1 DEF InsertUpload, DiskType, NoParts
<1>2. CASE MakeDir
  BY <1>2 DEF MakeDir, DiskType, NoParts
<1>3. CASE Tick
  BY <1>3 DEF Tick, DiskType, NoParts
<1>4. CASE Crash
  BY <1>4 DEF Crash, Running, DiskType, NoParts
<1>5. CASE ScanAbandoned
  BY <1>5 DEF ScanAbandoned, ReaperGoto, DiskType, NoParts
<1>6. CASE AbortAbandoned
  BY <1>6 DEF AbortAbandoned, ReaperGoto, DiskType, NoParts
<1>7. CASE RemoveAbandoned
  BY <1>7, RemoveEffect DEF RemoveAbandoned, DiskType
<1>8. CASE ScanTerminal
  BY <1>8 DEF ScanTerminal, ReaperGoto, DiskType, NoParts
<1>9. CASE PurgeDir
  BY <1>9, RemoveEffect DEF PurgeDir, DiskType
<1>10. CASE PurgeRow
  BY <1>10 DEF PurgeRow, ReaperGoto, DiskType, NoParts
<1>11. CASE ReaperFail
  BY <1>11 DEF ReaperFail, ReaperGoto, DiskType, NoParts
<1>12. ASSUME NEW r \in Requests, StartPart(r) PROVE DiskType'
  BY <1>12 DEF StartPart, Goto, DiskType, NoParts
<1>13. ASSUME NEW r \in Requests, CreatePart(r) PROVE DiskType'
  <2>1. Op(r) = "part" /\ Part(r) \in Parts /\ UNCHANGED <<rows, dir, job, others, offset, sel, todo, got, object>>
    BY <1>13, CreateEffect DEF TypeOK
  <2>2. ASSUME NEW inode \in Requests, CreatedAt(r, inode) PROVE DiskType'
    BY <2>1, <2>2, EmptySeq DEF CreatedAt, DiskType
  <2>3. CASE UNCHANGED <<path, data, file>> /\ pc' = [pc EXCEPT ![r] = "failed"]
    BY <2>1, <2>3, EmptySeq DEF DiskType
  <2> QED
    BY <1>13, <2>2, <2>3, CreateEffect DEF TypeOK
<1>14. ASSUME NEW r \in Requests, WritePart(r) PROVE DiskType'
  <2>1. file[r] \in Requests /\ job[r].letter \in Letters
    BY <1>14, JobFacts DEF WritePart, ControlInv, RequestType
  <2>2. offset[r] + 1 \in Nat \ {0} /\ data[file[r]] \in Seq(Letters \cup {Hole})
    BY <2>1, MultipartAssumption DEF RequestType, DiskType
  <2>3. Written(data[file[r]], offset[r] + 1, job[r].letter) \in Seq(Letters \cup {Hole})
    BY <2>1, <2>2, WrittenIsFile
  <2> QED
    BY <1>14, <2>3 DEF WritePart, DiskType
<1>15. ASSUME NEW r \in Requests, RejectPart(r) PROVE DiskType'
  BY <1>15 DEF RejectPart, EndPart, Goto, DiskType, NoParts, RequestType
<1>16. ASSUME NEW r \in Requests, RecordPart(r) PROVE DiskType'
  BY <1>16 DEF RecordPart, EndPart, Goto, DiskType, NoParts
<1>17. ASSUME NEW r \in Requests, StartComplete(r) PROVE DiskType'
  BY <1>17 DEF StartComplete, Goto, DiskType, NoParts
<1>18. ASSUME NEW r \in Requests, LoadParts(r) PROVE DiskType'
  BY <1>18 DEF LoadParts, Goto, DiskType, NoParts
<1>19. ASSUME NEW r \in Requests, OpenPart(r) PROVE DiskType'
  BY <1>19 DEF OpenPart, Goto, DiskType, NoParts
<1>20. ASSUME NEW r \in Requests, ReadPart(r) PROVE DiskType'
  BY <1>20 DEF ReadPart, Goto, DiskType, NoParts
<1>21. ASSUME NEW r \in Requests, PutObject(r) PROVE DiskType'
  BY <1>21 DEF PutObject, Goto, DiskType, NoParts
<1>22. ASSUME NEW r \in Requests, MarkCompleted(r) PROVE DiskType'
  BY <1>22 DEF MarkCompleted, Goto, DiskType, NoParts
<1>23. ASSUME NEW r \in Requests, Clean(r) PROVE DiskType'
  BY <1>23, RemoveEffect DEF Clean, DiskType
<1>24. ASSUME NEW r \in Requests, AbortUpload(r) PROVE DiskType'
  BY <1>24 DEF AbortUpload, Goto, DiskType, NoParts
<1>25. CASE UNCHANGED vars
  BY <1>25 DEF vars, DiskType, NoParts
<1> QED
  BY <1>1, <1>2, <1>3, <1>4, <1>5, <1>6, <1>7, <1>8, <1>9, <1>10, <1>11, <1>12, <1>13, <1>14, <1>15, <1>16, <1>17, <1>18, <1>19, <1>20, <1>21, <1>22, <1>23, <1>24, <1>25 DEF Next, ReaperStep, RequestStep

\* Requests keep their jobs, and receive no more than the body.
LEMMA RequestStepType ==
    ASSUME DiskType, RequestType, CompleteType, ControlInv, [Next]_vars
    PROVE  RequestType'
<1> USE DEF rowVars, diskVars, partVars, completeVars, restVars
<1>1. CASE InsertUpload
  BY <1>1 DEF InsertUpload, RequestType, PcStates
<1>2. CASE MakeDir
  BY <1>2 DEF MakeDir, RequestType, PcStates
<1>3. CASE Tick
  BY <1>3 DEF Tick, RequestType, PcStates
<1>4. CASE Crash
  BY <1>4, MultipartAssumption DEF Crash, Running, RequestType, PcStates
<1>5. CASE ScanAbandoned
  BY <1>5 DEF ScanAbandoned, ReaperGoto, RequestType, PcStates
<1>6. CASE AbortAbandoned
  BY <1>6 DEF AbortAbandoned, ReaperGoto, RequestType, PcStates
<1>7. CASE RemoveAbandoned
  BY <1>7 DEF RemoveAbandoned, RemoveAll, ReaperGoto, RequestType, PcStates
<1>8. CASE ScanTerminal
  BY <1>8 DEF ScanTerminal, ReaperGoto, RequestType, PcStates
<1>9. CASE PurgeDir
  BY <1>9 DEF PurgeDir, RemoveAll, ReaperGoto, RequestType, PcStates
<1>10. CASE PurgeRow
  BY <1>10 DEF PurgeRow, ReaperGoto, RequestType, PcStates
<1>11. CASE ReaperFail
  BY <1>11 DEF ReaperFail, ReaperGoto, RequestType, PcStates
<1>12. ASSUME NEW r \in Requests, StartPart(r) PROVE RequestType'
  <2>1. OtherBytes(Part(r)) \in Nat
    BY OtherBytesNat
  <2> QED
    BY <1>12, <2>1 DEF StartPart, Goto, RequestType, PcStates
<1>13. ASSUME NEW r \in Requests, CreatePart(r) PROVE RequestType'
  <2>1. Op(r) = "part" /\ Part(r) \in Parts /\ UNCHANGED <<rows, dir, job, others, offset, sel, todo, got, object>>
    BY <1>13, CreateEffect DEF TypeOK
  <2>2. ASSUME NEW inode \in Requests, CreatedAt(r, inode) PROVE RequestType'
    BY <2>1, <2>2 DEF CreatedAt, RequestType, PcStates
  <2>3. CASE UNCHANGED <<path, data, file>> /\ pc' = [pc EXCEPT ![r] = "failed"]
    BY <2>1, <2>3 DEF RequestType, PcStates
  <2> QED
    BY <1>13, <2>2, <2>3, CreateEffect DEF TypeOK
<1>14. ASSUME NEW r \in Requests, WritePart(r) PROVE RequestType'
  <2>1. Size(r) \in 1..MaxSize
    BY <1>14, JobFacts DEF WritePart, ControlInv
  <2>2. offset[r] + 1 \in 0..MaxSize
    BY <1>14, <2>1, MultipartAssumption DEF WritePart, RequestType
  <2> QED
    BY <1>14, <2>2 DEF WritePart, RequestType
<1>15. ASSUME NEW r \in Requests, RejectPart(r) PROVE RequestType'
  BY <1>15, MultipartAssumption DEF RejectPart, EndPart, Goto, RequestType, PcStates
<1>16. ASSUME NEW r \in Requests, RecordPart(r) PROVE RequestType'
  BY <1>16, MultipartAssumption DEF RecordPart, EndPart, Goto, RequestType, PcStates
<1>17. ASSUME NEW r \in Requests, StartComplete(r) PROVE RequestType'
  BY <1>17 DEF StartComplete, Goto, RequestType, PcStates
<1>18. ASSUME NEW r \in Requests, LoadParts(r) PROVE RequestType'
  BY <1>18 DEF LoadParts, Goto, RequestType, PcStates
<1>19. ASSUME NEW r \in Requests, OpenPart(r) PROVE RequestType'
  <2>1. First(todo[r]) \in Parts
    BY <1>19, FirstIsOne DEF OpenPart, CompleteType
  <2>2. path[First(todo[r])] \in Requests \cup {None}
    BY <2>1 DEF DiskType
  <2> QED
    BY <1>19, <2>2 DEF OpenPart, Goto, RequestType, PcStates
<1>20. ASSUME NEW r \in Requests, ReadPart(r) PROVE RequestType'
  BY <1>20 DEF ReadPart, Goto, RequestType, PcStates
<1>21. ASSUME NEW r \in Requests, PutObject(r) PROVE RequestType'
  BY <1>21 DEF PutObject, Goto, RequestType, PcStates
<1>22. ASSUME NEW r \in Requests, MarkCompleted(r) PROVE RequestType'
  BY <1>22 DEF MarkCompleted, Goto, RequestType, PcStates
<1>23. ASSUME NEW r \in Requests, Clean(r) PROVE RequestType'
  BY <1>23 DEF Clean, RemoveAll, Goto, RequestType, PcStates
<1>24. ASSUME NEW r \in Requests, AbortUpload(r) PROVE RequestType'
  BY <1>24 DEF AbortUpload, Goto, RequestType, PcStates
<1>25. CASE UNCHANGED vars
  BY <1>25 DEF vars, RequestType, PcStates
<1> QED
  BY <1>1, <1>2, <1>3, <1>4, <1>5, <1>6, <1>7, <1>8, <1>9, <1>10, <1>11, <1>12, <1>13, <1>14, <1>15, <1>16, <1>17, <1>18, <1>19, <1>20, <1>21, <1>22, <1>23, <1>24, <1>25 DEF Next, ReaperStep, RequestStep

\* Completions select rows and read bytes.
LEMMA CompleteStep ==
    ASSUME UploadType, DiskType, RequestType, CompleteType, ControlInv, [Next]_vars
    PROVE  CompleteType'
<1> USE DEF rowVars, diskVars, partVars, completeVars, restVars
<1>1. CASE InsertUpload
  BY <1>1 DEF InsertUpload, CompleteType, NoParts
<1>2. CASE MakeDir
  BY <1>2 DEF MakeDir, CompleteType, NoParts
<1>3. CASE Tick
  BY <1>3 DEF Tick, CompleteType, NoParts
<1>4. CASE Crash
  BY <1>4 DEF Crash, Running, CompleteType, NoParts
<1>5. CASE ScanAbandoned
  BY <1>5 DEF ScanAbandoned, ReaperGoto, CompleteType, NoParts
<1>6. CASE AbortAbandoned
  BY <1>6 DEF AbortAbandoned, ReaperGoto, CompleteType, NoParts
<1>7. CASE RemoveAbandoned
  BY <1>7 DEF RemoveAbandoned, RemoveAll, ReaperGoto, CompleteType, NoParts
<1>8. CASE ScanTerminal
  BY <1>8 DEF ScanTerminal, ReaperGoto, CompleteType, NoParts
<1>9. CASE PurgeDir
  BY <1>9 DEF PurgeDir, RemoveAll, ReaperGoto, CompleteType, NoParts
<1>10. CASE PurgeRow
  BY <1>10 DEF PurgeRow, ReaperGoto, CompleteType, NoParts
<1>11. CASE ReaperFail
  BY <1>11 DEF ReaperFail, ReaperGoto, CompleteType, NoParts
<1>12. ASSUME NEW r \in Requests, StartPart(r) PROVE CompleteType'
  BY <1>12 DEF StartPart, Goto, CompleteType, NoParts
<1>13. ASSUME NEW r \in Requests, CreatePart(r) PROVE CompleteType'
  BY <1>13 DEF CreatePart, Goto, CompleteType, NoParts
<1>14. ASSUME NEW r \in Requests, WritePart(r) PROVE CompleteType'
  BY <1>14 DEF WritePart, Goto, CompleteType, NoParts
<1>15. ASSUME NEW r \in Requests, RejectPart(r) PROVE CompleteType'
  BY <1>15 DEF RejectPart, EndPart, Goto, CompleteType, NoParts
<1>16. ASSUME NEW r \in Requests, RecordPart(r) PROVE CompleteType'
  BY <1>16 DEF RecordPart, EndPart, Goto, CompleteType, NoParts
<1>17. ASSUME NEW r \in Requests, StartComplete(r) PROVE CompleteType'
  BY <1>17 DEF StartComplete, Goto, CompleteType, NoParts
<1>18. ASSUME NEW r \in Requests, LoadParts(r) PROVE CompleteType'
  <2>1. pc[r] = "load" /\ UNCHANGED <<rows, dir, path, data, job, others, offset, got, object, file>>
    BY <1>18, LoadEffect DEF TypeOK
  <2>2. ASSUME NEW s \in [Parts -> Requests \cup {None}], Selected(r, s) PROVE CompleteType'
    BY <2>1, <2>2 DEF Selected, CompleteType
  <2>3. CASE UNCHANGED <<sel, todo>> /\ pc' = [pc EXCEPT ![r] = "failed"]
    BY <2>1, <2>3 DEF CompleteType
  <2> QED
    BY <1>18, <2>2, <2>3, LoadEffect DEF TypeOK
<1>19. ASSUME NEW r \in Requests, OpenPart(r) PROVE CompleteType'
  BY <1>19 DEF OpenPart, Goto, CompleteType, NoParts
<1>20. ASSUME NEW r \in Requests, ReadPart(r) PROVE CompleteType'
  <2> DEFINE n == First(todo[r])
             f == data[file[r]]
             g == got[r][n]
  <2>1. /\ pc[r] = "read" /\ n \in todo[r] /\ n \in Parts
        /\ f \in Seq(Letters \cup {Hole}) /\ g \in Seq(Letters \cup {Hole})
        /\ UNCHANGED <<rows, dir, path, data, job, others, offset, sel, object>>
        /\ ReadsByte(r, n, f, g) \/ ReadsEnd(r, n, f, g)
    BY <1>20, ReadEffect DEF TypeOK
  <2> HIDE DEF n, f, g
  <2>2. CASE ReadsByte(r, n, f, g)
    <3>1. Append(g, f[Len(g) + 1]) \in Seq(Letters \cup {Hole})
      BY <2>1, <2>2 DEF ReadsByte
    <3> QED
      BY <2>1, <2>2, <3>1 DEF ReadsByte, CompleteType
  <2>3. CASE ReadsEnd(r, n, f, g)
    BY <2>1, <2>3 DEF ReadsEnd, CompleteType
  <2> QED
    BY <2>1, <2>2, <2>3
<1>21. ASSUME NEW r \in Requests, PutObject(r) PROVE CompleteType'
  BY <1>21 DEF PutObject, Goto, CompleteType, NoParts
<1>22. ASSUME NEW r \in Requests, MarkCompleted(r) PROVE CompleteType'
  BY <1>22 DEF MarkCompleted, Goto, CompleteType, NoParts
<1>23. ASSUME NEW r \in Requests, Clean(r) PROVE CompleteType'
  BY <1>23 DEF Clean, RemoveAll, Goto, CompleteType, NoParts
<1>24. ASSUME NEW r \in Requests, AbortUpload(r) PROVE CompleteType'
  BY <1>24 DEF AbortUpload, Goto, CompleteType, NoParts
<1>25. CASE UNCHANGED vars
  BY <1>25 DEF vars, CompleteType, NoParts
<1> QED
  BY <1>1, <1>2, <1>3, <1>4, <1>5, <1>6, <1>7, <1>8, <1>9, <1>10, <1>11, <1>12, <1>13, <1>14, <1>15, <1>16, <1>17, <1>18, <1>19, <1>20, <1>21, <1>22, <1>23, <1>24, <1>25 DEF Next, ReaperStep, RequestStep

\* Requests keep to the control states of their operation.
LEMMA ControlStep ==
    ASSUME UploadType, DiskType, RequestType, CompleteType, ControlInv, [Next]_vars
    PROVE  ControlInv'
<1> USE DEF rowVars, diskVars, partVars, completeVars, restVars
<1>1. CASE InsertUpload
  BY <1>1 DEF InsertUpload, RequestType, CompleteType, ControlInv, Op
<1>2. CASE MakeDir
  BY <1>2 DEF MakeDir, RequestType, CompleteType, ControlInv, Op
<1>3. CASE Tick
  BY <1>3 DEF Tick, RequestType, CompleteType, ControlInv, Op
<1>4. CASE Crash
  <2>1. \A q \in Requests : pc'[q] \in {"idle", "done", "failed"} /\ (pc'[q] = "idle" => pc[q] = "idle") /\ offset'[q] = 0
    BY <1>4 DEF Crash, Running, Ended, RequestType, PcStates
  <2>2. \A q \in Requests, n \in Parts : got'[q][n] = <<>>
    BY <1>4 DEF Crash
  <2> QED
    BY <2>1, <2>2 DEF ControlInv
<1>5. CASE ScanAbandoned
  BY <1>5 DEF ScanAbandoned, ReaperGoto, RequestType, CompleteType, ControlInv, Op
<1>6. CASE AbortAbandoned
  BY <1>6 DEF AbortAbandoned, ReaperGoto, RequestType, CompleteType, ControlInv, Op
<1>7. CASE RemoveAbandoned
  BY <1>7 DEF RemoveAbandoned, RemoveAll, ReaperGoto, RequestType, CompleteType, ControlInv, Op
<1>8. CASE ScanTerminal
  BY <1>8 DEF ScanTerminal, ReaperGoto, RequestType, CompleteType, ControlInv, Op
<1>9. CASE PurgeDir
  BY <1>9 DEF PurgeDir, RemoveAll, ReaperGoto, RequestType, CompleteType, ControlInv, Op
<1>10. CASE PurgeRow
  BY <1>10 DEF PurgeRow, ReaperGoto, RequestType, CompleteType, ControlInv, Op
<1>11. CASE ReaperFail
  BY <1>11 DEF ReaperFail, ReaperGoto, RequestType, CompleteType, ControlInv, Op
<1>12. ASSUME NEW r \in Requests, StartPart(r) PROVE ControlInv'
  BY <1>12 DEF StartPart, Goto, RequestType, CompleteType, ControlInv, Op
<1>13. ASSUME NEW r \in Requests, CreatePart(r) PROVE ControlInv'
  <2>1. Op(r) = "part" /\ Part(r) \in Parts /\ UNCHANGED <<rows, dir, job, others, offset, sel, todo, got, object>>
    BY <1>13, CreateEffect DEF TypeOK
  <2>2. ASSUME NEW inode \in Requests, CreatedAt(r, inode) PROVE ControlInv'
    BY <2>1, <2>2, <1>13, MultipartAssumption DEF CreatePart, CreatedAt, RequestType, ControlInv, Op
  <2>3. CASE UNCHANGED <<path, data, file>> /\ pc' = [pc EXCEPT ![r] = "failed"]
    BY <2>1, <2>3, <1>13, MultipartAssumption DEF RequestType, ControlInv, Op
  <2> QED
    BY <1>13, <2>2, <2>3, CreateEffect DEF TypeOK
<1>14. ASSUME NEW r \in Requests, WritePart(r) PROVE ControlInv'
  BY <1>14 DEF WritePart, Goto, RequestType, CompleteType, ControlInv, Op
<1>15. ASSUME NEW r \in Requests, RejectPart(r) PROVE ControlInv'
  BY <1>15 DEF RejectPart, EndPart, Goto, RequestType, CompleteType, ControlInv, Op
<1>16. ASSUME NEW r \in Requests, RecordPart(r) PROVE ControlInv'
  BY <1>16 DEF RecordPart, EndPart, Goto, RequestType, CompleteType, ControlInv, Op
<1>17. ASSUME NEW r \in Requests, StartComplete(r) PROVE ControlInv'
  BY <1>17 DEF StartComplete, Goto, RequestType, CompleteType, ControlInv, Op
<1>18. ASSUME NEW r \in Requests, LoadParts(r) PROVE ControlInv'
  <2>1. pc[r] = "load" /\ UNCHANGED <<rows, dir, path, data, job, others, offset, got, object, file>>
    BY <1>18, LoadEffect DEF TypeOK
  <2>2. ASSUME NEW s \in [Parts -> Requests \cup {None}], Selected(r, s) PROVE ControlInv'
    BY <2>1, <2>2 DEF Selected, RequestType, CompleteType, ControlInv, Op
  <2>3. CASE UNCHANGED <<sel, todo>> /\ pc' = [pc EXCEPT ![r] = "failed"]
    BY <2>1, <2>3 DEF RequestType, CompleteType, ControlInv, Op
  <2> QED
    BY <1>18, <2>2, <2>3, LoadEffect DEF TypeOK
<1>19. ASSUME NEW r \in Requests, OpenPart(r) PROVE ControlInv'
  BY <1>19 DEF OpenPart, Goto, RequestType, CompleteType, ControlInv, Op
<1>20. ASSUME NEW r \in Requests, ReadPart(r) PROVE ControlInv'
  <2> DEFINE n == First(todo[r])
             f == data[file[r]]
             g == got[r][n]
  <2>1. /\ pc[r] = "read" /\ n \in todo[r] /\ n \in Parts
        /\ f \in Seq(Letters \cup {Hole}) /\ g \in Seq(Letters \cup {Hole})
        /\ UNCHANGED <<rows, dir, path, data, job, others, offset, sel, object>>
        /\ ReadsByte(r, n, f, g) \/ ReadsEnd(r, n, f, g)
    BY <1>20, ReadEffect DEF TypeOK
  <2> HIDE DEF n, f, g
  <2>2. CASE ReadsByte(r, n, f, g)
    BY <2>1, <2>2 DEF ReadsByte, RequestType, CompleteType, ControlInv, Op
  <2>3. CASE ReadsEnd(r, n, f, g)
    BY <2>1, <2>3 DEF ReadsEnd, RequestType, CompleteType, ControlInv, Op
  <2> QED
    BY <2>1, <2>2, <2>3
<1>21. ASSUME NEW r \in Requests, PutObject(r) PROVE ControlInv'
  BY <1>21 DEF PutObject, Goto, RequestType, CompleteType, ControlInv, Op
<1>22. ASSUME NEW r \in Requests, MarkCompleted(r) PROVE ControlInv'
  BY <1>22 DEF MarkCompleted, Goto, RequestType, CompleteType, ControlInv, Op
<1>23. ASSUME NEW r \in Requests, Clean(r) PROVE ControlInv'
  BY <1>23 DEF Clean, RemoveAll, Goto, RequestType, CompleteType, ControlInv, Op
<1>24. ASSUME NEW r \in Requests, AbortUpload(r) PROVE ControlInv'
  BY <1>24 DEF AbortUpload, Goto, RequestType, CompleteType, ControlInv, Op
<1>25. CASE UNCHANGED vars
  BY <1>25 DEF vars, RequestType, CompleteType, ControlInv, Op
<1> QED
  BY <1>1, <1>2, <1>3, <1>4, <1>5, <1>6, <1>7, <1>8, <1>9, <1>10, <1>11, <1>12, <1>13, <1>14, <1>15, <1>16, <1>17, <1>18, <1>19, <1>20, <1>21, <1>22, <1>23, <1>24, <1>25 DEF Next, ReaperStep, RequestStep

\* Rows, files and selections go on coming from part uploads.
LEMMA OriginStep ==
    ASSUME TypeOK, ControlInv, OriginInv, [Next]_vars
    PROVE  OriginInv'
<1> USE DEF rowVars, diskVars, partVars, completeVars, restVars
<1>1. CASE InsertUpload
  BY <1>1 DEF InsertUpload, OriginInv, Op, Part
<1>2. CASE MakeDir
  BY <1>2 DEF MakeDir, OriginInv, Op, Part
<1>3. CASE Tick
  BY <1>3 DEF Tick, OriginInv, Op, Part
<1>4. CASE Crash
  BY <1>4 DEF Crash, Running, OriginInv, Op, Part, NoParts
<1>5. CASE ScanAbandoned
  BY <1>5 DEF ScanAbandoned, ReaperGoto, OriginInv, Op, Part
<1>6. CASE AbortAbandoned
  BY <1>6 DEF AbortAbandoned, ReaperGoto, OriginInv, Op, Part
<1>7. CASE RemoveAbandoned
  <2>1. UNCHANGED <<rows, job, sel>>
    BY <1>7 DEF RemoveAbandoned
  <2>2. \A n \in Parts : path'[n] \in {path[n], None}
    BY <1>7, RemoveEffect DEF RemoveAbandoned, TypeOK
  <2> QED
    BY <2>1, <2>2 DEF OriginInv, Op, Part
<1>8. CASE ScanTerminal
  BY <1>8 DEF ScanTerminal, ReaperGoto, OriginInv, Op, Part
<1>9. CASE PurgeDir
  <2>1. UNCHANGED <<rows, job, sel>>
    BY <1>9 DEF PurgeDir
  <2>2. \A n \in Parts : path'[n] \in {path[n], None}
    BY <1>9, RemoveEffect DEF PurgeDir, TypeOK
  <2> QED
    BY <2>1, <2>2 DEF OriginInv, Op, Part
<1>10. CASE PurgeRow
  BY <1>10 DEF PurgeRow, ReaperGoto, OriginInv, Op, Part, NoParts
<1>11. CASE ReaperFail
  BY <1>11 DEF ReaperFail, ReaperGoto, OriginInv, Op, Part
<1>12. ASSUME NEW r \in Requests, StartPart(r) PROVE OriginInv'
  BY <1>12 DEF StartPart, Goto, OriginInv, Op, Part
<1>13. ASSUME NEW r \in Requests, CreatePart(r) PROVE OriginInv'
  <2>1. UNCHANGED <<rows, job, sel>> /\ Op(r) = "part"
    BY <1>13, CreateEffect DEF TypeOK
  <2>2. \A n \in Parts : path'[n] # path[n] => n = Part(r) /\ path'[n] = r
    BY <1>13, CreateEffect DEF TypeOK, DiskType, CreatedAt
  <2> QED
    BY <2>1, <2>2 DEF OriginInv, Op, Part
<1>14. ASSUME NEW r \in Requests, WritePart(r) PROVE OriginInv'
  BY <1>14 DEF WritePart, Goto, OriginInv, Op, Part
<1>15. ASSUME NEW r \in Requests, RejectPart(r) PROVE OriginInv'
  <2>1. UNCHANGED <<rows, job, sel>>
    BY <1>15 DEF RejectPart
  <2>2. \A n \in Parts : path'[n] \in {path[n], None}
    BY <1>15 DEF RejectPart, TypeOK, DiskType
  <2> QED
    BY <2>1, <2>2 DEF OriginInv, Op, Part
<1>16. ASSUME NEW r \in Requests, RecordPart(r) PROVE OriginInv'
  <2>1. UNCHANGED <<path, job, sel>> /\ Op(r) = "part"
    BY <1>16 DEF RecordPart, ControlInv
  <2>2. \A n \in Parts : rows'[n] \in {rows[n], r}
    BY <1>16 DEF RecordPart, TypeOK, UploadType
  <2> QED
    BY <2>1, <2>2 DEF OriginInv, Op, Part
<1>17. ASSUME NEW r \in Requests, StartComplete(r) PROVE OriginInv'
  BY <1>17 DEF StartComplete, Goto, OriginInv, Op, Part
<1>18. ASSUME NEW r \in Requests, LoadParts(r) PROVE OriginInv'
  <2>1. UNCHANGED <<path, job, rows>>
    BY <1>18, LoadEffect DEF TypeOK
  <2>2. \A n \in Parts, q \in Requests : sel'[q][n] \in {sel[q][n], rows[n], None}
    BY <1>18, LoadEffect DEF TypeOK, CompleteType, Selected
  <2> QED
    BY <2>1, <2>2 DEF OriginInv, Op, Part
<1>19. ASSUME NEW r \in Requests, OpenPart(r) PROVE OriginInv'
  BY <1>19 DEF OpenPart, Goto, OriginInv, Op, Part
<1>20. ASSUME NEW r \in Requests, ReadPart(r) PROVE OriginInv'
  BY <1>20 DEF ReadPart, Goto, OriginInv, Op, Part
<1>21. ASSUME NEW r \in Requests, PutObject(r) PROVE OriginInv'
  BY <1>21 DEF PutObject, Goto, OriginInv, Op, Part
<1>22. ASSUME NEW r \in Requests, MarkCompleted(r) PROVE OriginInv'
  BY <1>22 DEF MarkCompleted, Goto, OriginInv, Op, Part, TypeOK, CompleteType, NoParts
<1>23. ASSUME NEW r \in Requests, Clean(r) PROVE OriginInv'
  <2>1. UNCHANGED <<rows, job, sel>>
    BY <1>23 DEF Clean
  <2>2. \A n \in Parts : path'[n] \in {path[n], None}
    BY <1>23, RemoveEffect DEF Clean, TypeOK
  <2> QED
    BY <2>1, <2>2 DEF OriginInv, Op, Part
<1>24. ASSUME NEW r \in Requests, AbortUpload(r) PROVE OriginInv'
  BY <1>24 DEF AbortUpload, Goto, OriginInv, Op, Part
<1>25. CASE UNCHANGED vars
  BY <1>25 DEF vars, OriginInv, Op, Part
<1> QED
  BY <1>1, <1>2, <1>3, <1>4, <1>5, <1>6, <1>7, <1>8, <1>9, <1>10, <1>11, <1>12, <1>13, <1>14, <1>15, <1>16, <1>17, <1>18, <1>19, <1>20, <1>21, <1>22, <1>23, <1>24, <1>25 DEF Next, ReaperStep, RequestStep

\* A step that records nothing and starts no request keeps requests apart.
LEMMA ApartKept ==
    ASSUME ApartInv, UNCHANGED <<job, rows>>, \A q \in Requests : Running(q)' => Running(q)
    PROVE  ApartInv'
BY DEF ApartInv, Op, Part

\* A client that does not resend goes on having one request for a part at a time.
LEMMA ApartStep ==
    ASSUME TypeOK, ControlInv, ApartInv, ~Resend, [Next]_vars
    PROVE  ApartInv'
<1> USE DEF rowVars, diskVars, partVars, completeVars, restVars
<1>1. CASE InsertUpload
  BY <1>1 DEF InsertUpload, TypeOK, UploadType, RequestType, ControlInv, ApartInv, Running, Ended, Op, Part
<1>2. CASE MakeDir
  BY <1>2 DEF MakeDir, TypeOK, UploadType, RequestType, ControlInv, ApartInv, Running, Ended, Op, Part
<1>3. CASE Tick
  BY <1>3 DEF Tick, TypeOK, UploadType, RequestType, ControlInv, ApartInv, Running, Ended, Op, Part
<1>4. CASE Crash
  BY <1>4 DEF Crash, Running, TypeOK, UploadType, RequestType, ControlInv, ApartInv, Running, Ended, Op, Part
<1>5. CASE ScanAbandoned
  BY <1>5 DEF ScanAbandoned, ReaperGoto, TypeOK, UploadType, RequestType, ControlInv, ApartInv, Running, Ended, Op, Part
<1>6. CASE AbortAbandoned
  BY <1>6 DEF AbortAbandoned, ReaperGoto, TypeOK, UploadType, RequestType, ControlInv, ApartInv, Running, Ended, Op, Part
<1>7. CASE RemoveAbandoned
  BY <1>7 DEF RemoveAbandoned, RemoveAll, ReaperGoto, TypeOK, UploadType, RequestType, ControlInv, ApartInv, Running, Ended, Op, Part
<1>8. CASE ScanTerminal
  BY <1>8 DEF ScanTerminal, ReaperGoto, TypeOK, UploadType, RequestType, ControlInv, ApartInv, Running, Ended, Op, Part
<1>9. CASE PurgeDir
  BY <1>9 DEF PurgeDir, RemoveAll, ReaperGoto, TypeOK, UploadType, RequestType, ControlInv, ApartInv, Running, Ended, Op, Part
<1>10. CASE PurgeRow
  <2>1. \A q \in Requests : Op(q) = "part" => rows'[Part(q)] = None
    BY <1>10, JobFacts DEF PurgeRow, NoParts, TypeOK
  <2>2. UNCHANGED <<job, pc>>
    BY <1>10 DEF PurgeRow
  <2> QED
    BY <2>1, <2>2 DEF ApartInv, Running, Op, Part
<1>11. CASE ReaperFail
  BY <1>11 DEF ReaperFail, ReaperGoto, TypeOK, UploadType, RequestType, ControlInv, ApartInv, Running, Ended, Op, Part
<1>12. ASSUME NEW r \in Requests, StartPart(r) PROVE ApartInv'
  <2>1. /\ Op(r) = "part" /\ rows[Part(r)] = None
        /\ \A q \in Requests : Running(q) => Op(q) # "complete" /\ (Op(q) = "part" => Part(q) # Part(r))
    BY <1>12 DEF StartPart, MayStart
  <2>2. /\ UNCHANGED <<job, rows>>
        /\ \A q \in Requests \ {r} : pc'[q] = pc[q]
    BY <1>12 DEF StartPart, Goto, TypeOK, RequestType
  <2> QED
    BY <2>1, <2>2 DEF ApartInv, Running, Op, Part
<1>13. ASSUME NEW r \in Requests, CreatePart(r) PROVE ApartInv'
  <2>1. UNCHANGED <<job, rows>> /\ \A q \in Requests : Running(q)' => Running(q)
    BY <1>13 DEF CreatePart, Goto, rowVars, TypeOK, RequestType, Running, Ended
  <2> QED
    BY <2>1, ApartKept
<1>14. ASSUME NEW r \in Requests, WritePart(r) PROVE ApartInv'
  <2>1. UNCHANGED <<job, rows>> /\ \A q \in Requests : Running(q)' => Running(q)
    BY <1>14 DEF WritePart, Goto, rowVars, TypeOK, RequestType, Running, Ended
  <2> QED
    BY <2>1, ApartKept
<1>15. ASSUME NEW r \in Requests, RejectPart(r) PROVE ApartInv'
  BY <1>15 DEF RejectPart, EndPart, Goto, TypeOK, UploadType, RequestType, ControlInv, ApartInv, Running, Ended, Op, Part
<1>16. ASSUME NEW r \in Requests, RecordPart(r) PROVE ApartInv'
  <2>1. Op(r) = "part" /\ Running(r) /\ Part(r) \in Parts
    BY <1>16, JobFacts DEF RecordPart, ControlInv, Running, Ended, TypeOK
  <2>2. /\ UNCHANGED job /\ pc'[r] \in Ended
        /\ \A q \in Requests \ {r} : pc'[q] = pc[q]
        /\ \A n \in Parts : n # Part(r) => rows'[n] = rows[n]
    BY <1>16 DEF RecordPart, Goto, TypeOK, RequestType, UploadType, Ended
  <2>3. \A q \in Requests : Op(q) = "part" => Part(q) \in Parts
    BY JobFacts DEF TypeOK
  <2> QED
    BY <2>1, <2>2, <2>3 DEF ApartInv, Running, Op, Part
<1>17. ASSUME NEW r \in Requests, StartComplete(r) PROVE ApartInv'
  BY <1>17 DEF StartComplete, Goto, TypeOK, UploadType, RequestType, ControlInv, ApartInv, Running, Ended, Op, Part, MayStart
<1>18. ASSUME NEW r \in Requests, LoadParts(r) PROVE ApartInv'
  <2>1. UNCHANGED <<job, rows>> /\ \A q \in Requests : Running(q)' => Running(q)
    BY <1>18 DEF LoadParts, Goto, rowVars, TypeOK, RequestType, Running, Ended
  <2> QED
    BY <2>1, ApartKept
<1>19. ASSUME NEW r \in Requests, OpenPart(r) PROVE ApartInv'
  <2>1. UNCHANGED <<job, rows>> /\ \A q \in Requests : Running(q)' => Running(q)
    BY <1>19 DEF OpenPart, Goto, rowVars, TypeOK, RequestType, Running, Ended
  <2> QED
    BY <2>1, ApartKept
<1>20. ASSUME NEW r \in Requests, ReadPart(r) PROVE ApartInv'
  <2>1. UNCHANGED <<job, rows>> /\ \A q \in Requests : Running(q)' => Running(q)
    BY <1>20 DEF ReadPart, Goto, rowVars, TypeOK, RequestType, Running, Ended
  <2> QED
    BY <2>1, ApartKept
<1>21. ASSUME NEW r \in Requests, PutObject(r) PROVE ApartInv'
  <2>1. UNCHANGED <<job, rows>> /\ \A q \in Requests : Running(q)' => Running(q)
    BY <1>21 DEF PutObject, Goto, rowVars, TypeOK, RequestType, Running, Ended
  <2> QED
    BY <2>1, ApartKept
<1>22. ASSUME NEW r \in Requests, MarkCompleted(r) PROVE ApartInv'
  <2>1. UNCHANGED <<job, rows>> /\ \A q \in Requests : Running(q)' => Running(q)
    BY <1>22 DEF MarkCompleted, Goto, rowVars, TypeOK, RequestType, Running, Ended
  <2> QED
    BY <2>1, ApartKept
<1>23. ASSUME NEW r \in Requests, Clean(r) PROVE ApartInv'
  BY <1>23 DEF Clean, RemoveAll, Goto, TypeOK, UploadType, RequestType, ControlInv, ApartInv, Running, Ended, Op, Part
<1>24. ASSUME NEW r \in Requests, AbortUpload(r) PROVE ApartInv'
  BY <1>24 DEF AbortUpload, Goto, TypeOK, UploadType, RequestType, ControlInv, ApartInv, Running, Ended, Op, Part
<1>25. CASE UNCHANGED vars
  BY <1>25 DEF vars, TypeOK, UploadType, RequestType, ControlInv, ApartInv, Running, Ended, Op, Part
<1> QED
  BY <1>1, <1>2, <1>3, <1>4, <1>5, <1>6, <1>7, <1>8, <1>9, <1>10, <1>11, <1>12, <1>13, <1>14, <1>15, <1>16, <1>17, <1>18, <1>19, <1>20, <1>21, <1>22, <1>23, <1>24, <1>25 DEF Next, ReaperStep, RequestStep

\* No file is touched, entries and rows are only removed, and whoever writes goes on writing.
FilesRest ==
    /\ UNCHANGED <<data, job>>
    /\ \A n \in Parts : path'[n] \in {path[n], None} /\ rows'[n] \in {rows[n], None}
    /\ \A q \in Requests : pc'[q] = "write" => pc[q] = "write" /\ UNCHANGED <<file[q], offset[q]>>

\* What the files hold is not affected by such a step.
LEMMA FilesRestKeep ==
    ASSUME TypeOK, ControlInv, FileInv, FilesRest
    PROVE  FileInv'
<1>1. \A q \in Requests : pc[q] = "write" => Part(q) \in Parts
  BY JobFacts DEF TypeOK, ControlInv
<1>2. ASSUME NEW q \in Requests, pc'[q] = "write"
      PROVE  /\ Op(file[q])' = "part" /\ (Part(file[q]) = Part(q))'
             /\ path'[Part(q)'] \in {None, file'[q]}
             /\ data'[file'[q]] = Prefix(q, offset[q])'
  BY <1>1, <1>2 DEF FilesRest, FileInv, Op, Part, Prefix
<1>3. ASSUME NEW n \in Parts, rows'[n] # None, path'[n] # None
      PROVE  data'[path'[n]] = Body(rows[n])'
  BY <1>3 DEF FilesRest, FileInv, Body, Size, Prefix
<1> QED
  BY <1>2, <1>3 DEF FileInv

\* Only the steps of UploadPart touch files.
LEMMA FilesAtRest ==
    ASSUME TypeOK, ControlInv, [Next]_vars
    PROVE  FilesRest \/ \E q \in Requests : CreatePart(q) \/ WritePart(q) \/ RecordPart(q)
<1> USE DEF rowVars, diskVars, partVars, completeVars, restVars
<1>1. CASE InsertUpload
  BY <1>1 DEF InsertUpload, FilesRest, TypeOK, UploadType, DiskType, RequestType, NoParts
<1>2. CASE MakeDir
  BY <1>2 DEF MakeDir, FilesRest, TypeOK, UploadType, DiskType, RequestType, NoParts
<1>3. CASE Tick
  BY <1>3 DEF Tick, FilesRest, TypeOK, UploadType, DiskType, RequestType, NoParts
<1>4. CASE Crash
  BY <1>4 DEF Crash, Running, FilesRest, TypeOK, UploadType, DiskType, RequestType, NoParts, Ended
<1>5. CASE ScanAbandoned
  BY <1>5 DEF ScanAbandoned, ReaperGoto, FilesRest, TypeOK, UploadType, DiskType, RequestType, NoParts
<1>6. CASE AbortAbandoned
  BY <1>6 DEF AbortAbandoned, ReaperGoto, FilesRest, TypeOK, UploadType, DiskType, RequestType, NoParts
<1>7. CASE RemoveAbandoned
  BY <1>7, RemoveEffect DEF RemoveAbandoned, RemoveAll, ReaperGoto, FilesRest, TypeOK, UploadType, DiskType, RequestType, NoParts
<1>8. CASE ScanTerminal
  BY <1>8 DEF ScanTerminal, ReaperGoto, FilesRest, TypeOK, UploadType, DiskType, RequestType, NoParts
<1>9. CASE PurgeDir
  BY <1>9, RemoveEffect DEF PurgeDir, RemoveAll, ReaperGoto, FilesRest, TypeOK, UploadType, DiskType, RequestType, NoParts
<1>10. CASE PurgeRow
  BY <1>10 DEF PurgeRow, ReaperGoto, FilesRest, TypeOK, UploadType, DiskType, RequestType, NoParts
<1>11. CASE ReaperFail
  BY <1>11 DEF ReaperFail, ReaperGoto, FilesRest, TypeOK, UploadType, DiskType, RequestType, NoParts
<1>12. ASSUME NEW r \in Requests, StartPart(r) PROVE FilesRest \/ \E q \in Requests : CreatePart(q) \/ WritePart(q) \/ RecordPart(q)
  BY <1>12 DEF StartPart, Goto, FilesRest, TypeOK, UploadType, DiskType, RequestType, NoParts
<1>13. ASSUME NEW r \in Requests, CreatePart(r) PROVE FilesRest \/ \E q \in Requests : CreatePart(q) \/ WritePart(q) \/ RecordPart(q)
  BY <1>13
<1>14. ASSUME NEW r \in Requests, WritePart(r) PROVE FilesRest \/ \E q \in Requests : CreatePart(q) \/ WritePart(q) \/ RecordPart(q)
  BY <1>14
<1>15. ASSUME NEW r \in Requests, RejectPart(r) PROVE FilesRest \/ \E q \in Requests : CreatePart(q) \/ WritePart(q) \/ RecordPart(q)
  BY <1>15 DEF RejectPart, EndPart, Goto, FilesRest, TypeOK, UploadType, DiskType, RequestType, NoParts
<1>16. ASSUME NEW r \in Requests, RecordPart(r) PROVE FilesRest \/ \E q \in Requests : CreatePart(q) \/ WritePart(q) \/ RecordPart(q)
  BY <1>16
<1>17. ASSUME NEW r \in Requests, StartComplete(r) PROVE FilesRest \/ \E q \in Requests : CreatePart(q) \/ WritePart(q) \/ RecordPart(q)
  BY <1>17 DEF StartComplete, Goto, FilesRest, TypeOK, UploadType, DiskType, RequestType, NoParts
<1>18. ASSUME NEW r \in Requests, LoadParts(r) PROVE FilesRest \/ \E q \in Requests : CreatePart(q) \/ WritePart(q) \/ RecordPart(q)
  BY <1>18 DEF LoadParts, Goto, FilesRest, TypeOK, UploadType, DiskType, RequestType, NoParts
<1>19. ASSUME NEW r \in Requests, OpenPart(r) PROVE FilesRest \/ \E q \in Requests : CreatePart(q) \/ WritePart(q) \/ RecordPart(q)
  BY <1>19 DEF OpenPart, Goto, FilesRest, TypeOK, UploadType, DiskType, RequestType, NoParts
<1>20. ASSUME NEW r \in Requests, ReadPart(r) PROVE FilesRest \/ \E q \in Requests : CreatePart(q) \/ WritePart(q) \/ RecordPart(q)
  BY <1>20 DEF ReadPart, Goto, FilesRest, TypeOK, UploadType, DiskType, RequestType, NoParts
<1>21. ASSUME NEW r \in Requests, PutObject(r) PROVE FilesRest \/ \E q \in Requests : CreatePart(q) \/ WritePart(q) \/ RecordPart(q)
  BY <1>21 DEF PutObject, Goto, FilesRest, TypeOK, UploadType, DiskType, RequestType, NoParts
<1>22. ASSUME NEW r \in Requests, MarkCompleted(r) PROVE FilesRest \/ \E q \in Requests : CreatePart(q) \/ WritePart(q) \/ RecordPart(q)
  BY <1>22 DEF MarkCompleted, Goto, FilesRest, TypeOK, UploadType, DiskType, RequestType, NoParts
<1>23. ASSUME NEW r \in Requests, Clean(r) PROVE FilesRest \/ \E q \in Requests : CreatePart(q) \/ WritePart(q) \/ RecordPart(q)
  BY <1>23, RemoveEffect DEF Clean, RemoveAll, Goto, FilesRest, TypeOK, UploadType, DiskType, RequestType, NoParts
<1>24. ASSUME NEW r \in Requests, AbortUpload(r) PROVE FilesRest \/ \E q \in Requests : CreatePart(q) \/ WritePart(q) \/ RecordPart(q)
  BY <1>24 DEF AbortUpload, Goto, FilesRest, TypeOK, UploadType, DiskType, RequestType, NoParts
<1>25. CASE UNCHANGED vars
  BY <1>25 DEF vars, FilesRest, TypeOK, UploadType, DiskType, RequestType, NoParts
<1> QED
  BY <1>1, <1>2, <1>3, <1>4, <1>5, <1>6, <1>7, <1>8, <1>9, <1>10, <1>11, <1>12, <1>13, <1>14, <1>15, <1>16, <1>17, <1>18, <1>19, <1>20, <1>21, <1>22, <1>23, <1>24, <1>25 DEF Next, ReaperStep, RequestStep

\* Part uploads are for parts, and those of a client that does not resend are for parts that are
\* not recorded, each for its own.
LEMMA Apart ==
    ASSUME TypeOK, ControlInv, ApartInv, NEW r \in Requests, pc[r] \in {"create", "write"}
    PROVE  /\ Op(r) = "part" /\ Part(r) \in Parts /\ rows[Part(r)] = None
           /\ \A q \in Requests \ {r} : pc[q] = "write" => Part(q) # Part(r)
           /\ \A q \in Requests : pc[q] \notin {"load", "open", "read", "mark"}
<1>1. Op(r) = "part" /\ Part(r) \in Parts /\ Running(r)
  BY JobFacts DEF TypeOK, ControlInv, Running, Ended
<1>2. \A q \in Requests : pc[q] = "write" => Op(q) = "part" /\ Running(q)
  BY DEF ControlInv, Running, Ended
<1>3. \A q \in Requests : pc[q] \in {"load", "open", "read", "mark"} => Op(q) = "complete" /\ Running(q)
  BY DEF ControlInv, Running, Ended
<1> QED
  BY <1>1, <1>2, <1>3 DEF ApartInv

\* A step that changes one inode of a part that is not recorded disturbs no other part.
LEMMA OtherFiles ==
    ASSUME TypeOK, ControlInv, OriginInv, ApartInv, FileInv,
           NEW r \in Requests, pc[r] \in {"create", "write"},
           NEW inode \in Requests, Op(inode) = "part", Part(inode) = Part(r),
           UNCHANGED <<rows, job>>,
           \A n \in Parts : n # Part(r) => path'[n] = path[n],
           \A i \in Requests : i # inode => data'[i] = data[i],
           \A q \in Requests \ {r} : UNCHANGED <<pc[q], file[q], offset[q]>>,
           pc'[r] = "write" => /\ file'[r] = inode
                               /\ path'[Part(r)] \in {None, inode}
                               /\ data'[inode] = Prefix(r, offset'[r])
    PROVE  FileInv'
<1>1. /\ Op(r) = "part" /\ Part(r) \in Parts /\ rows[Part(r)] = None
      /\ \A q \in Requests \ {r} : pc[q] = "write" => Part(q) # Part(r)
  BY Apart
<1>2. \A q \in Requests : pc[q] = "write" => Part(q) \in Parts /\ file[q] \in Requests
  BY JobFacts DEF TypeOK, RequestType, ControlInv
<1>3. ASSUME NEW q \in Requests, pc'[q] = "write"
      PROVE  /\ Op(file[q])' = "part" /\ (Part(file[q]) = Part(q))'
             /\ path'[Part(q)'] \in {None, file'[q]}
             /\ data'[file'[q]] = Prefix(q, offset[q])'
  <2>1. CASE q = r
    BY <1>3, <2>1 DEF Op, Part, Prefix
  <2>2. CASE q # r
    <3>1. pc[q] = "write" /\ file'[q] = file[q] /\ offset'[q] = offset[q]
      BY <1>3, <2>2
    <3>2. Part(q) # Part(r) /\ Part(q) \in Parts /\ file[q] \in Requests
      BY <1>1, <1>2, <2>2, <3>1
    <3>3. Op(file[q]) = "part" /\ Part(file[q]) = Part(q) /\ path[Part(q)] \in {None, file[q]} /\ data[file[q]] = Prefix(q, offset[q])
      BY <3>1 DEF FileInv
    <3>4. file[q] # inode
      BY <3>2, <3>3
    <3>5. data'[file'[q]] = data[file[q]] /\ path'[Part(q)] = path[Part(q)]
      BY <3>1, <3>2, <3>4
    <3> QED
      BY <3>1, <3>3, <3>5 DEF Op, Part, Prefix
  <2> QED
    BY <2>1, <2>2
<1>4. ASSUME NEW n \in Parts, rows'[n] # None, path'[n] # None
      PROVE  data'[path'[n]] = Body(rows[n])'
  <2>1. n # Part(r) /\ path'[n] = path[n] /\ rows'[n] = rows[n]
    BY <1>1, <1>4
  <2>2. Part(path[n]) = n /\ path[n] \in Requests
    BY <1>4, <2>1 DEF OriginInv, TypeOK, DiskType
  <2>3. data'[path'[n]] = data[path[n]]
    BY <2>1, <2>2
  <2>4. data[path[n]] = Body(rows[n])
    BY <1>4, <2>1 DEF FileInv
  <2> QED
    BY <2>1, <2>3, <2>4 DEF Body, Size, Prefix
<1> QED
  BY <1>3, <1>4 DEF FileInv

\* Files hold what was received, and those of recorded parts all of it.
LEMMA FileStep ==
    ASSUME TypeOK, ControlInv, OriginInv, ApartInv, FileInv, [Next]_vars
    PROVE  FileInv'
<1> USE DEF rowVars, diskVars, partVars, completeVars
<1>1. CASE FilesRest
  BY <1>1, FilesRestKeep
<1>2. ASSUME NEW r \in Requests, CreatePart(r) PROVE FileInv'
  <2>1. /\ Op(r) = "part" /\ Part(r) \in Parts /\ pc[r] = "create" /\ offset[r] = 0
        /\ UNCHANGED <<rows, dir, job, others, offset, sel, todo, got, object>>
    BY <1>2, CreateEffect DEF TypeOK
  <2>2. ASSUME NEW inode \in Requests, CreatedAt(r, inode) PROVE FileInv'
    <3>1. Op(inode) = "part" /\ Part(inode) = Part(r)
      BY <2>1, <2>2 DEF CreatedAt, OriginInv
    <3>2. /\ \A n \in Parts : n # Part(r) => path'[n] = path[n]
          /\ \A i \in Requests : i # inode => data'[i] = data[i]
          /\ \A q \in Requests \ {r} : UNCHANGED <<pc[q], file[q], offset[q]>>
          /\ file'[r] = inode /\ path'[Part(r)] = inode /\ data'[inode] = <<>>
      BY <2>1, <2>2 DEF CreatedAt, TypeOK, DiskType, RequestType
    <3>3. data'[inode] = Prefix(r, offset'[r])
      BY <2>1, <3>2, EmptyPrefix
    <3> QED
      BY <2>1, <3>1, <3>2, <3>3, OtherFiles
  <2>3. CASE UNCHANGED <<path, data, file>> /\ pc' = [pc EXCEPT ![r] = "failed"]
    <3>1. FilesRest
      BY <2>1, <2>3 DEF FilesRest, TypeOK, RequestType
    <3> QED
      BY <3>1, FilesRestKeep
  <2> QED
    BY <1>2, <2>2, <2>3, CreateEffect DEF TypeOK
<1>3. ASSUME NEW r \in Requests, WritePart(r) PROVE FileInv'
  <2>1. /\ pc[r] = "write" /\ Op(r) = "part" /\ file[r] \in Requests /\ offset[r] \in Nat
        /\ UNCHANGED <<rows, path, job, pc, file>>
    BY <1>3, MultipartAssumption DEF WritePart, ControlInv, TypeOK, RequestType
  <2>2. Op(file[r]) = "part" /\ Part(file[r]) = Part(r) /\ path[Part(r)] \in {None, file[r]} /\ data[file[r]] = Prefix(r, offset[r])
    BY <2>1 DEF FileInv
  <2>3. /\ \A i \in Requests : i # file[r] => data'[i] = data[i]
        /\ \A q \in Requests \ {r} : offset'[q] = offset[q]
        /\ offset'[r] = offset[r] + 1
        /\ data'[file[r]] = Written(data[file[r]], offset[r] + 1, job[r].letter)
    BY <1>3, <2>1 DEF WritePart, TypeOK, DiskType, RequestType
  <2>4. data'[file[r]] = Prefix(r, offset'[r])
    BY <2>1, <2>2, <2>3, WrittenExtends DEF TypeOK
  <2> QED
    BY <2>1, <2>2, <2>3, <2>4, OtherFiles
<1>4. ASSUME NEW r \in Requests, RecordPart(r) PROVE FileInv'
  <2>1. /\ pc[r] = "write" /\ offset[r] = Size(r) /\ UNCHANGED <<path, data, job>>
        /\ \A n \in Parts : rows'[n] = rows[n] \/ (n = Part(r) /\ rows'[n] = r)
        /\ \A q \in Requests : pc'[q] = "write" => pc[q] = "write" /\ UNCHANGED <<file[q], offset[q]>>
    <3>1. pc[r] = "write" /\ offset[r] = Size(r) /\ UNCHANGED <<path, data, job>>
      BY <1>4 DEF RecordPart
    <3>2. \A n \in Parts : rows'[n] = rows[n] \/ (n = Part(r) /\ rows'[n] = r)
      BY <1>4 DEF RecordPart, TypeOK, UploadType
    <3>3. \A q \in Requests : pc'[q] = "write" => pc[q] = "write" /\ UNCHANGED <<file[q], offset[q]>>
      BY <1>4 DEF RecordPart, EndPart, Goto, TypeOK, RequestType
    <3> QED
      BY <3>1, <3>2, <3>3
  <2>2. path[Part(r)] \in {None, file[r]} /\ data[file[r]] = Body(r)
    BY <2>1 DEF FileInv, Body
  <2>3. \A q \in Requests : pc'[q] = "write" =>
          /\ Op(file[q])' = "part" /\ (Part(file[q]) = Part(q))'
          /\ path'[Part(q)'] \in {None, file'[q]}
          /\ data'[file'[q]] = Prefix(q, offset[q])'
    BY <2>1 DEF FileInv, Op, Part, Prefix
  <2>4. ASSUME NEW n \in Parts, rows'[n] # None, path'[n] # None
        PROVE  data'[path'[n]] = Body(rows[n])'
    BY <2>1, <2>2, <2>4 DEF FileInv, Body, Size, Prefix
  <2> QED
    BY <2>3, <2>4 DEF FileInv
<1> QED
  BY <1>1, <1>2, <1>3, <1>4, FilesAtRest

\* No file is touched, entries are only removed, and whoever streams goes on streaming.
StreamsRest ==
    /\ UNCHANGED <<data, job>>
    /\ \A n \in Parts : path'[n] \in {path[n], None}
    /\ \A q \in Requests : pc'[q] \in {"open", "read"} => UNCHANGED <<pc[q], sel[q], todo[q], got[q], file[q]>>

\* Streams are not affected by a step that leaves them alone.
LEMMA StreamKeeps ==
    ASSUME NEW c, StreamOf(c), UNCHANGED <<data, job, pc[c], sel[c], todo[c], got[c], file[c]>>,
           \A n \in Parts : path'[n] \in {path[n], None}
    PROVE  StreamOf(c)'
<1>1. \A s : Body(s)' = Body(s) /\ Size(s)' = Size(s)
  BY DEF Body, Size, Prefix
<1>2. \A n \in todo'[c] : sel'[c][n] # None
  BY DEF StreamOf
<1>3. \A n \in Parts : sel'[c][n] # None =>
        /\ path'[n] # None => data'[path'[n]] = Body(sel'[c][n])
        /\ n \notin todo'[c] => got'[c][n] = Body(sel'[c][n])
        /\ n \in todo'[c] /\ (pc'[c] = "open" \/ n # First(todo'[c])) => got'[c][n] = <<>>
  BY DEF StreamOf
<1> QED
  <2>1. \A s, k : Prefix(s, k)' = Prefix(s, k)
    BY DEF Prefix
  <2>2. pc'[c] = "read" =>
          /\ data'[file'[c]] = Body(sel'[c][First(todo'[c])])
          /\ \E k \in 0..Size(sel'[c][First(todo'[c])]) :
                got'[c][First(todo'[c])] = Prefix(sel'[c][First(todo'[c])], k)
    BY DEF StreamOf
  <2> QED
    BY <1>1, <1>2, <1>3, <2>1, <2>2 DEF StreamOf

\* Only the steps of a completion change what it streams.
LEMMA StreamsAtRest ==
    ASSUME TypeOK, ControlInv, [Next]_vars
    PROVE  StreamsRest \/ \E q \in Requests : CreatePart(q) \/ WritePart(q) \/ LoadParts(q) \/ OpenPart(q) \/ ReadPart(q)
<1> USE DEF rowVars, diskVars, partVars, completeVars, restVars
<1>1. CASE InsertUpload
  BY <1>1 DEF InsertUpload, StreamsRest, TypeOK, DiskType, RequestType, CompleteType, NoParts
<1>2. CASE MakeDir
  BY <1>2 DEF MakeDir, StreamsRest, TypeOK, DiskType, RequestType, CompleteType, NoParts
<1>3. CASE Tick
  BY <1>3 DEF Tick, StreamsRest, TypeOK, DiskType, RequestType, CompleteType, NoParts
<1>4. CASE Crash
  BY <1>4 DEF Crash, Running, StreamsRest, TypeOK, DiskType, RequestType, CompleteType, NoParts, Ended
<1>5. CASE ScanAbandoned
  BY <1>5 DEF ScanAbandoned, ReaperGoto, StreamsRest, TypeOK, DiskType, RequestType, CompleteType, NoParts
<1>6. CASE AbortAbandoned
  BY <1>6 DEF AbortAbandoned, ReaperGoto, StreamsRest, TypeOK, DiskType, RequestType, CompleteType, NoParts
<1>7. CASE RemoveAbandoned
  BY <1>7, RemoveEffect DEF RemoveAbandoned, RemoveAll, ReaperGoto, StreamsRest, TypeOK, DiskType, RequestType, CompleteType, NoParts
<1>8. CASE ScanTerminal
  BY <1>8 DEF ScanTerminal, ReaperGoto, StreamsRest, TypeOK, DiskType, RequestType, CompleteType, NoParts
<1>9. CASE PurgeDir
  BY <1>9, RemoveEffect DEF PurgeDir, RemoveAll, ReaperGoto, StreamsRest, TypeOK, DiskType, RequestType, CompleteType, NoParts
<1>10. CASE PurgeRow
  BY <1>10 DEF PurgeRow, ReaperGoto, StreamsRest, TypeOK, DiskType, RequestType, CompleteType, NoParts
<1>11. CASE ReaperFail
  BY <1>11 DEF ReaperFail, ReaperGoto, StreamsRest, TypeOK, DiskType, RequestType, CompleteType, NoParts
<1>12. ASSUME NEW r \in Requests, StartPart(r) PROVE StreamsRest \/ \E q \in Requests : CreatePart(q) \/ WritePart(q) \/ LoadParts(q) \/ OpenPart(q) \/ ReadPart(q)
  BY <1>12 DEF StartPart, Goto, StreamsRest, TypeOK, DiskType, RequestType, CompleteType, NoParts
<1>13. ASSUME NEW r \in Requests, CreatePart(r) PROVE StreamsRest \/ \E q \in Requests : CreatePart(q) \/ WritePart(q) \/ LoadParts(q) \/ OpenPart(q) \/ ReadPart(q)
  BY <1>13
<1>14. ASSUME NEW r \in Requests, WritePart(r) PROVE StreamsRest \/ \E q \in Requests : CreatePart(q) \/ WritePart(q) \/ LoadParts(q) \/ OpenPart(q) \/ ReadPart(q)
  BY <1>14
<1>15. ASSUME NEW r \in Requests, RejectPart(r) PROVE StreamsRest \/ \E q \in Requests : CreatePart(q) \/ WritePart(q) \/ LoadParts(q) \/ OpenPart(q) \/ ReadPart(q)
  BY <1>15 DEF RejectPart, EndPart, Goto, StreamsRest, TypeOK, DiskType, RequestType, CompleteType, NoParts, ControlInv
<1>16. ASSUME NEW r \in Requests, RecordPart(r) PROVE StreamsRest \/ \E q \in Requests : CreatePart(q) \/ WritePart(q) \/ LoadParts(q) \/ OpenPart(q) \/ ReadPart(q)
  BY <1>16 DEF RecordPart, EndPart, Goto, StreamsRest, TypeOK, DiskType, RequestType, CompleteType, NoParts
<1>17. ASSUME NEW r \in Requests, StartComplete(r) PROVE StreamsRest \/ \E q \in Requests : CreatePart(q) \/ WritePart(q) \/ LoadParts(q) \/ OpenPart(q) \/ ReadPart(q)
  BY <1>17 DEF StartComplete, Goto, StreamsRest, TypeOK, DiskType, RequestType, CompleteType, NoParts
<1>18. ASSUME NEW r \in Requests, LoadParts(r) PROVE StreamsRest \/ \E q \in Requests : CreatePart(q) \/ WritePart(q) \/ LoadParts(q) \/ OpenPart(q) \/ ReadPart(q)
  BY <1>18
<1>19. ASSUME NEW r \in Requests, OpenPart(r) PROVE StreamsRest \/ \E q \in Requests : CreatePart(q) \/ WritePart(q) \/ LoadParts(q) \/ OpenPart(q) \/ ReadPart(q)
  BY <1>19
<1>20. ASSUME NEW r \in Requests, ReadPart(r) PROVE StreamsRest \/ \E q \in Requests : CreatePart(q) \/ WritePart(q) \/ LoadParts(q) \/ OpenPart(q) \/ ReadPart(q)
  BY <1>20
<1>21. ASSUME NEW r \in Requests, PutObject(r) PROVE StreamsRest \/ \E q \in Requests : CreatePart(q) \/ WritePart(q) \/ LoadParts(q) \/ OpenPart(q) \/ ReadPart(q)
  BY <1>21 DEF PutObject, Goto, StreamsRest, TypeOK, DiskType, RequestType, CompleteType, NoParts
<1>22. ASSUME NEW r \in Requests, MarkCompleted(r) PROVE StreamsRest \/ \E q \in Requests : CreatePart(q) \/ WritePart(q) \/ LoadParts(q) \/ OpenPart(q) \/ ReadPart(q)
  BY <1>22 DEF MarkCompleted, Goto, StreamsRest, TypeOK, DiskType, RequestType, CompleteType, NoParts
<1>23. ASSUME NEW r \in Requests, Clean(r) PROVE StreamsRest \/ \E q \in Requests : CreatePart(q) \/ WritePart(q) \/ LoadParts(q) \/ OpenPart(q) \/ ReadPart(q)
  BY <1>23, RemoveEffect DEF Clean, RemoveAll, Goto, StreamsRest, TypeOK, DiskType, RequestType, CompleteType, NoParts
<1>24. ASSUME NEW r \in Requests, AbortUpload(r) PROVE StreamsRest \/ \E q \in Requests : CreatePart(q) \/ WritePart(q) \/ LoadParts(q) \/ OpenPart(q) \/ ReadPart(q)
  BY <1>24 DEF AbortUpload, Goto, StreamsRest, TypeOK, DiskType, RequestType, CompleteType, NoParts
<1>25. CASE UNCHANGED vars
  BY <1>25 DEF vars, StreamsRest, TypeOK, DiskType, RequestType, CompleteType, NoParts
<1> QED
  BY <1>1, <1>2, <1>3, <1>4, <1>5, <1>6, <1>7, <1>8, <1>9, <1>10, <1>11, <1>12, <1>13, <1>14, <1>15, <1>16, <1>17, <1>18, <1>19, <1>20, <1>21, <1>22, <1>23, <1>24, <1>25 DEF Next, ReaperStep, RequestStep

\* A completion streams the bytes its rows describe.
LEMMA StreamStep ==
    ASSUME TypeOK, ControlInv, OriginInv, ApartInv, FileInv, StreamInv, [Next]_vars
    PROVE  StreamInv'
<1> USE DEF rowVars, diskVars, partVars, completeVars
<1>0. \A c \in Requests : pc[c] \in {"open", "read"} => StreamOf(c)
  BY DEF StreamInv
<1>1. CASE StreamsRest
  <2>1. ASSUME NEW c \in Requests, pc'[c] \in {"open", "read"} PROVE StreamOf(c)'
    BY <1>0, <1>1, <2>1, StreamKeeps DEF StreamsRest
  <2> QED
    BY <2>1 DEF StreamInv
<1>2. ASSUME NEW r \in Requests, CreatePart(r) \/ WritePart(r) PROVE StreamInv'
  <2>1. pc[r] \in {"create", "write"}
    BY <1>2 DEF CreatePart, WritePart
  <2>2. \A q \in Requests : pc'[q] \notin {"open", "read"}
    <3>1. \A q \in Requests : pc[q] \notin {"open", "read"}
      BY <2>1, Apart
    <3>2. \A q \in Requests : pc'[q] \in {pc[q], "write", "failed"}
      BY <1>2 DEF CreatePart, WritePart, Goto, TypeOK, RequestType
    <3> QED
      BY <3>1, <3>2
  <2> QED
    BY <2>2 DEF StreamInv
<1>3. ASSUME NEW r \in Requests, LoadParts(r) PROVE StreamInv'
  <2>1. pc[r] = "load" /\ UNCHANGED <<rows, dir, path, data, job, others, offset, got, object, file>>
    BY <1>3, LoadEffect DEF TypeOK
  <2>2. ASSUME NEW c \in Requests \ {r}, pc'[c] \in {"open", "read"} PROVE StreamOf(c)'
    <3>1. UNCHANGED <<pc[c], sel[c], todo[c]>>
      BY <1>3, <2>2 DEF LoadParts, Goto, TypeOK, RequestType, CompleteType
    <3> QED
      BY <1>0, <2>1, <2>2, <3>1, StreamKeeps
  <2>3. ASSUME pc'[r] \in {"open", "read"} PROVE StreamOf(r)'
    <3>1. PICK s \in [Parts -> Requests \cup {None}] : Selected(r, s)
      BY <1>3, <2>3, LoadEffect DEF TypeOK, RequestType
    <3>2. /\ sel'[r] = s /\ pc'[r] = "open" /\ todo'[r] = {n \in Parts : s[n] # None}
          /\ \A n \in Parts : s[n] \in {rows[n], None}
      BY <3>1 DEF Selected, TypeOK, RequestType, CompleteType
    <3>3. \A n \in Parts : got'[r][n] = <<>>
      BY <2>1 DEF ControlInv
    <3>4. \A n \in Parts : s[n] # None /\ path'[n] # None => data'[path'[n]] = Body(s[n])
      BY <2>1, <3>2 DEF FileInv
    <3>5. \A q : Body(q)' = Body(q)
      BY <2>1 DEF Body, Size, Prefix
    <3>6. \A n \in Parts : sel'[r][n] # None /\ path'[n] # None => data'[path'[n]] = Body(sel[r][n])'
      BY <3>2, <3>4, <2>1 DEF Body, Size, Prefix
    <3> QED
      BY <3>2, <3>3, <3>6 DEF StreamOf
  <2> QED
    BY <2>2, <2>3 DEF StreamInv
<1>4. ASSUME NEW r \in Requests, OpenPart(r) PROVE StreamInv'
  <2>1. pc[r] = "open" /\ todo[r] # {} /\ UNCHANGED <<path, data, job, sel, todo, got>>
    BY <1>4 DEF OpenPart
  <2>2. ASSUME NEW c \in Requests \ {r}, pc'[c] \in {"open", "read"} PROVE StreamOf(c)'
    <3>1. UNCHANGED <<pc[c], file[c]>>
      BY <1>4, <2>2 DEF OpenPart, Goto, TypeOK, RequestType
    <3> QED
      BY <1>0, <2>1, <2>2, <3>1, StreamKeeps
  <2>3. ASSUME pc'[r] \in {"open", "read"} PROVE StreamOf(r)'
    <3> DEFINE n == First(todo[r])
               s == sel[r][n]
    <3>1. n \in todo[r] /\ n \in Parts
      BY <2>1, FirstIsOne DEF TypeOK, CompleteType
    <3>2. path[n] # None /\ file'[r] = path[n] /\ pc'[r] = "read"
      BY <1>4, <2>3 DEF OpenPart, Goto, TypeOK, RequestType
    <3>3. StreamOf(r)
      BY <1>0, <2>1
    <3>4. s # None /\ data[path[n]] = Body(s) /\ got[r][n] = <<>>
      BY <2>1, <3>1, <3>2, <3>3 DEF StreamOf
    <3>5. Op(s) = "part" /\ s \in Requests
      BY <3>1, <3>4 DEF OriginInv, TypeOK, CompleteType
    <3>6. Size(s) \in Nat
      BY <3>5, JobFacts, MultipartAssumption DEF TypeOK
    <3>7. got[r][n] = Prefix(s, 0) /\ 0 \in 0..Size(s)
      BY <3>4, <3>6, EmptyPrefix
    <3>8. data'[file'[r]] = Body(s)' /\ \E k \in 0..Size(s)' : got'[r][n] = Prefix(s, k)'
      BY <2>1, <3>2, <3>4, <3>7 DEF Body, Size, Prefix
    <3>9. \A m \in Parts : sel'[r][m] # None =>
            /\ path'[m] # None => data'[path'[m]] = Body(sel[r][m])'
            /\ m \notin todo'[r] => got'[r][m] = Body(sel[r][m])'
            /\ m \in todo'[r] => got'[r][m] = <<>>
      BY <2>1, <3>3 DEF StreamOf, Body, Size, Prefix
    <3>10. \A m \in todo'[r] : sel'[r][m] # None
      BY <2>1, <3>3 DEF StreamOf
    <3> QED
      BY <2>1, <3>2, <3>8, <3>9, <3>10 DEF StreamOf
  <2> QED
    BY <2>2, <2>3 DEF StreamInv
<1>5. ASSUME NEW r \in Requests, ReadPart(r) PROVE StreamInv'
  <2> DEFINE n == First(todo[r])
             f == data[file[r]]
             g == got[r][n]
             s == sel[r][n]
  <2>1. /\ pc[r] = "read" /\ n \in todo[r] /\ n \in Parts
        /\ UNCHANGED <<rows, path, data, job, sel>>
        /\ ReadsByte(r, n, f, g) \/ ReadsEnd(r, n, f, g)
    BY <1>5, ReadEffect DEF TypeOK
  <2>2. ASSUME NEW c \in Requests \ {r}, pc'[c] \in {"open", "read"} PROVE StreamOf(c)'
    <3>1. UNCHANGED <<pc[c], file[c], todo[c], got[c]>>
      BY <2>1, <2>2 DEF ReadsByte, ReadsEnd, TypeOK, RequestType, CompleteType
    <3> QED
      BY <1>0, <2>1, <2>2, <3>1, StreamKeeps
  <2>3. /\ s \in Requests /\ Op(s) = "part" /\ Size(s) \in Nat
        /\ f = Body(s) /\ \E k \in 0..Size(s) : g = Prefix(s, k)
    <3>1. s # None /\ f = Body(s) /\ \E k \in 0..Size(s) : g = Prefix(s, k)
      BY <1>0, <2>1 DEF StreamOf
    <3>2. s \in Requests /\ Op(s) = "part"
      BY <2>1, <3>1 DEF OriginInv, TypeOK, CompleteType
    <3> QED
      BY <3>1, <3>2, JobFacts, MultipartAssumption DEF TypeOK
  <2>4. PICK k \in 0..Size(s) : g = Prefix(s, k)
    BY <2>3
  <2>5. /\ k \in Nat /\ Len(g) = k /\ Len(f) = Size(s)
        /\ \A i \in 1..Size(s) : f[i] = job[s].letter
    <3>1. k \in Nat /\ RequestType
      BY <2>3 DEF TypeOK
    <3>2. Len(Prefix(s, k)) = k
      BY <2>3, <3>1, PrefixIsFile
    <3>3. Len(Prefix(s, Size(s))) = Size(s) /\ \A i \in 1..Size(s) : Prefix(s, Size(s))[i] = job[s].letter
      BY <2>3, <3>1, PrefixIsFile
    <3> HIDE DEF s
    <3> QED
      BY <2>3, <2>4, <3>1, <3>2, <3>3 DEF Body
  <2>6. /\ \A m \in todo[r] : sel[r][m] # None
        /\ \A m \in Parts : sel[r][m] # None =>
            /\ path[m] # None => data[path[m]] = Body(sel[r][m])
            /\ m \notin todo[r] => got[r][m] = Body(sel[r][m])
            /\ m \in todo[r] /\ m # n => got[r][m] = <<>>
    BY <1>0, <2>1 DEF StreamOf
  <2>7. CASE ReadsByte(r, n, f, g)
    <3>1. k < Size(s) /\ Append(g, f[Len(g) + 1]) = Prefix(s, k + 1)
      <4>1. k < Size(s)
        BY <2>5, <2>7 DEF ReadsByte
      <4>2. f[Len(g) + 1] = job[s].letter
        BY <2>3, <2>5, <4>1
      <4>3. Append(Prefix(s, k), job[s].letter) = Prefix(s, k + 1)
        BY <2>3, <2>5, AppendExtends DEF TypeOK
      <4> QED
        BY <2>4, <4>1, <4>2, <4>3
    <3>2. UNCHANGED <<todo, file, pc>> /\ got'[r] = [got[r] EXCEPT ![n] = Prefix(s, k + 1)]
      BY <2>7, <3>1 DEF ReadsByte, TypeOK, CompleteType
    <3>3. got'[r][n] = Prefix(s, k + 1) /\ \A m \in Parts : m # n => got'[r][m] = got[r][m]
      BY <2>1, <3>2 DEF TypeOK, CompleteType
    <3>4. k + 1 \in 0..Size(s)
      BY <2>3, <2>5, <3>1
    <3>5. data'[file'[r]] = Body(s)' /\ \E l \in 0..Size(s)' : got'[r][n] = Prefix(s, l)'
      <4>1. n' = n /\ s' = s
        BY <2>1, <3>2
      <4>2. Body(s)' = Body(s) /\ Size(s)' = Size(s) /\ \A l : Prefix(s, l)' = Prefix(s, l)
        BY <2>1, <4>1 DEF Body, Size, Prefix
      <4> QED
        BY <2>1, <2>3, <3>2, <3>3, <3>4, <4>2
    <3>6. \A m \in Parts : sel'[r][m] # None =>
            /\ path'[m] # None => data'[path'[m]] = Body(sel[r][m])'
            /\ m \notin todo'[r] => got'[r][m] = Body(sel[r][m])'
            /\ m \in todo'[r] /\ m # n => got'[r][m] = <<>>
      <4>1. \A t : Body(t)' = Body(t)
        BY <2>1 DEF Body, Size, Prefix
      <4> QED
        BY <2>1, <2>6, <3>2, <3>3, <4>1
    <3>7. StreamOf(r)'
      BY <2>1, <2>6, <3>2, <3>5, <3>6 DEF StreamOf
    <3> QED
      BY <2>2, <3>7 DEF StreamInv
  <2>8. CASE ReadsEnd(r, n, f, g)
    <3>1. g = Body(s)
      BY <2>3, <2>4, <2>5, <2>8 DEF ReadsEnd, Body
    <3>2. UNCHANGED got /\ todo'[r] = todo[r] \ {n} /\ pc'[r] = "open"
      BY <2>8 DEF ReadsEnd, TypeOK, RequestType, CompleteType
    <3>3. \A m \in Parts : sel'[r][m] # None =>
            /\ path'[m] # None => data'[path'[m]] = Body(sel[r][m])'
            /\ m \notin todo'[r] => got'[r][m] = Body(sel[r][m])'
            /\ m \in todo'[r] => got'[r][m] = <<>>
      <4> SUFFICES ASSUME NEW m \in Parts, sel'[r][m] # None
                   PROVE  /\ path'[m] # None => data'[path'[m]] = Body(sel[r][m])'
                          /\ m \notin todo'[r] => got'[r][m] = Body(sel[r][m])'
                          /\ m \in todo'[r] => got'[r][m] = <<>>
        OBVIOUS
      <4>1. CASE m = n
        BY <2>1, <2>6, <3>1, <3>2, <4>1 DEF Body, Size, Prefix
      <4>2. CASE m # n
        BY <2>1, <2>6, <3>2, <4>2 DEF Body, Size, Prefix
      <4> QED
        BY <4>1, <4>2
    <3>4. StreamOf(r)'
      BY <2>1, <2>6, <3>2, <3>3 DEF StreamOf
    <3> QED
      BY <2>2, <3>4 DEF StreamInv
  <2> QED
    BY <2>1, <2>7, <2>8
<1> QED
  BY <1>1, <1>2, <1>3, <1>4, <1>5, StreamsAtRest

\* Whoever is about to acknowledge a completion was so before, with the same stream.
AcksRest ==
    /\ UNCHANGED job
    /\ \A q \in Requests : pc'[q] = "mark" => pc[q] = "mark" /\ UNCHANGED <<sel[q], got[q]>>

\* Only the end of its stream lets a completion be acknowledged.
LEMMA AcksAtRest ==
    ASSUME TypeOK, [Next]_vars
    PROVE  AcksRest \/ \E q \in Requests : PutObject(q)
<1> USE DEF rowVars, diskVars, partVars, completeVars, restVars
<1>1. CASE InsertUpload
  BY <1>1 DEF InsertUpload, AcksRest, TypeOK, RequestType, CompleteType
<1>2. CASE MakeDir
  BY <1>2 DEF MakeDir, AcksRest, TypeOK, RequestType, CompleteType
<1>3. CASE Tick
  BY <1>3 DEF Tick, AcksRest, TypeOK, RequestType, CompleteType
<1>4. CASE Crash
  BY <1>4 DEF Crash, Running, AcksRest, TypeOK, RequestType, CompleteType, Ended
<1>5. CASE ScanAbandoned
  BY <1>5 DEF ScanAbandoned, ReaperGoto, AcksRest, TypeOK, RequestType, CompleteType
<1>6. CASE AbortAbandoned
  BY <1>6 DEF AbortAbandoned, ReaperGoto, AcksRest, TypeOK, RequestType, CompleteType
<1>7. CASE RemoveAbandoned
  BY <1>7 DEF RemoveAbandoned, RemoveAll, ReaperGoto, AcksRest, TypeOK, RequestType, CompleteType
<1>8. CASE ScanTerminal
  BY <1>8 DEF ScanTerminal, ReaperGoto, AcksRest, TypeOK, RequestType, CompleteType
<1>9. CASE PurgeDir
  BY <1>9 DEF PurgeDir, RemoveAll, ReaperGoto, AcksRest, TypeOK, RequestType, CompleteType
<1>10. CASE PurgeRow
  BY <1>10 DEF PurgeRow, ReaperGoto, AcksRest, TypeOK, RequestType, CompleteType
<1>11. CASE ReaperFail
  BY <1>11 DEF ReaperFail, ReaperGoto, AcksRest, TypeOK, RequestType, CompleteType
<1>12. ASSUME NEW r \in Requests, StartPart(r) PROVE AcksRest \/ \E q \in Requests : PutObject(q)
  BY <1>12 DEF StartPart, Goto, AcksRest, TypeOK, RequestType, CompleteType
<1>13. ASSUME NEW r \in Requests, CreatePart(r) PROVE AcksRest \/ \E q \in Requests : PutObject(q)
  BY <1>13 DEF CreatePart, Goto, AcksRest, TypeOK, RequestType, CompleteType
<1>14. ASSUME NEW r \in Requests, WritePart(r) PROVE AcksRest \/ \E q \in Requests : PutObject(q)
  BY <1>14 DEF WritePart, Goto, AcksRest, TypeOK, RequestType, CompleteType
<1>15. ASSUME NEW r \in Requests, RejectPart(r) PROVE AcksRest \/ \E q \in Requests : PutObject(q)
  BY <1>15 DEF RejectPart, EndPart, Goto, AcksRest, TypeOK, RequestType, CompleteType
<1>16. ASSUME NEW r \in Requests, RecordPart(r) PROVE AcksRest \/ \E q \in Requests : PutObject(q)
  BY <1>16 DEF RecordPart, EndPart, Goto, AcksRest, TypeOK, RequestType, CompleteType
<1>17. ASSUME NEW r \in Requests, StartComplete(r) PROVE AcksRest \/ \E q \in Requests : PutObject(q)
  BY <1>17 DEF StartComplete, Goto, AcksRest, TypeOK, RequestType, CompleteType
<1>18. ASSUME NEW r \in Requests, LoadParts(r) PROVE AcksRest \/ \E q \in Requests : PutObject(q)
  BY <1>18 DEF LoadParts, Goto, AcksRest, TypeOK, RequestType, CompleteType
<1>19. ASSUME NEW r \in Requests, OpenPart(r) PROVE AcksRest \/ \E q \in Requests : PutObject(q)
  BY <1>19 DEF OpenPart, Goto, AcksRest, TypeOK, RequestType, CompleteType
<1>20. ASSUME NEW r \in Requests, ReadPart(r) PROVE AcksRest \/ \E q \in Requests : PutObject(q)
  BY <1>20 DEF ReadPart, Goto, AcksRest, TypeOK, RequestType, CompleteType
<1>21. ASSUME NEW r \in Requests, PutObject(r) PROVE AcksRest \/ \E q \in Requests : PutObject(q)
  BY <1>21
<1>22. ASSUME NEW r \in Requests, MarkCompleted(r) PROVE AcksRest \/ \E q \in Requests : PutObject(q)
  BY <1>22 DEF MarkCompleted, Goto, AcksRest, TypeOK, RequestType, CompleteType
<1>23. ASSUME NEW r \in Requests, Clean(r) PROVE AcksRest \/ \E q \in Requests : PutObject(q)
  BY <1>23 DEF Clean, RemoveAll, Goto, AcksRest, TypeOK, RequestType, CompleteType
<1>24. ASSUME NEW r \in Requests, AbortUpload(r) PROVE AcksRest \/ \E q \in Requests : PutObject(q)
  BY <1>24 DEF AbortUpload, Goto, AcksRest, TypeOK, RequestType, CompleteType
<1>25. CASE UNCHANGED vars
  BY <1>25 DEF vars, AcksRest, TypeOK, RequestType, CompleteType
<1> QED
  BY <1>1, <1>2, <1>3, <1>4, <1>5, <1>6, <1>7, <1>8, <1>9, <1>10, <1>11, <1>12, <1>13, <1>14, <1>15, <1>16, <1>17, <1>18, <1>19, <1>20, <1>21, <1>22, <1>23, <1>24, <1>25 DEF Next, ReaperStep, RequestStep

\* A completion that is acknowledged has all it selected.
LEMMA AckedStep ==
    ASSUME TypeOK, StreamInv, AckedWhole, [Next]_vars
    PROVE  AckedWhole'
<1> USE DEF completeVars
<1>1. CASE AcksRest
  BY <1>1 DEF AcksRest, AckedWhole, Body, Size, Prefix
<1>2. ASSUME NEW r \in Requests, PutObject(r) PROVE AckedWhole'
  <2>1. pc[r] = "open" /\ todo[r] = {} /\ UNCHANGED <<job, sel, got>>
    BY <1>2 DEF PutObject
  <2>2. \A q \in Requests : q # r => pc'[q] = pc[q]
    BY <1>2 DEF PutObject, Goto, TypeOK, RequestType
  <2>3. \A n \in Parts : sel[r][n] # None => got[r][n] = Body(sel[r][n])
    BY <2>1 DEF StreamInv, StreamOf
  <2>4. \A q \in Requests : pc'[q] = "mark" => \A n \in Parts : sel[q][n] # None => got[q][n] = Body(sel[q][n])
    BY <2>2, <2>3 DEF AckedWhole
  <2> QED
    BY <2>1, <2>4 DEF AckedWhole, Body, Size, Prefix
<1> QED
  BY <1>1, <1>2, AcksAtRest

\* The upload leaves the active state before its directory is removed, except by a completion.
LEMMA RemovalStep ==
    ASSUME TypeOK, ControlInv, RemovalInv, [Next]_vars
    PROVE  RemovalInv'
<1> USE DEF rowVars, diskVars, partVars, completeVars, restVars
<1>1. CASE InsertUpload
  BY <1>1 DEF InsertUpload, RemovalInv, TypeOK, UploadType, RequestType, Op
<1>2. CASE MakeDir
  BY <1>2 DEF MakeDir, RemovalInv, TypeOK, UploadType, RequestType, Op
<1>3. CASE Tick
  BY <1>3 DEF Tick, RemovalInv, TypeOK, UploadType, RequestType, Op
<1>4. CASE Crash
  BY <1>4 DEF Crash, Running, RemovalInv, TypeOK, UploadType, RequestType, Op, Running, Ended
<1>5. CASE ScanAbandoned
  BY <1>5 DEF ScanAbandoned, ReaperGoto, RemovalInv, TypeOK, UploadType, RequestType, Op
<1>6. CASE AbortAbandoned
  BY <1>6 DEF AbortAbandoned, ReaperGoto, RemovalInv, TypeOK, UploadType, RequestType, Op
<1>7. CASE RemoveAbandoned
  BY <1>7 DEF RemoveAbandoned, RemoveAll, ReaperGoto, RemovalInv, TypeOK, UploadType, RequestType, Op
<1>8. CASE ScanTerminal
  BY <1>8 DEF ScanTerminal, ReaperGoto, RemovalInv, TypeOK, UploadType, RequestType, Op
<1>9. CASE PurgeDir
  BY <1>9 DEF PurgeDir, RemoveAll, ReaperGoto, RemovalInv, TypeOK, UploadType, RequestType, Op
<1>10. CASE PurgeRow
  BY <1>10 DEF PurgeRow, ReaperGoto, RemovalInv, TypeOK, UploadType, RequestType, Op
<1>11. CASE ReaperFail
  BY <1>11 DEF ReaperFail, ReaperGoto, RemovalInv, TypeOK, UploadType, RequestType, Op
<1>12. ASSUME NEW r \in Requests, StartPart(r) PROVE RemovalInv'
  BY <1>12 DEF StartPart, Goto, RemovalInv, TypeOK, UploadType, RequestType, Op
<1>13. ASSUME NEW r \in Requests, CreatePart(r) PROVE RemovalInv'
  BY <1>13 DEF CreatePart, Goto, RemovalInv, TypeOK, UploadType, RequestType, Op
<1>14. ASSUME NEW r \in Requests, WritePart(r) PROVE RemovalInv'
  BY <1>14 DEF WritePart, Goto, RemovalInv, TypeOK, UploadType, RequestType, Op
<1>15. ASSUME NEW r \in Requests, RejectPart(r) PROVE RemovalInv'
  BY <1>15 DEF RejectPart, EndPart, Goto, RemovalInv, TypeOK, UploadType, RequestType, Op
<1>16. ASSUME NEW r \in Requests, RecordPart(r) PROVE RemovalInv'
  BY <1>16 DEF RecordPart, EndPart, Goto, RemovalInv, TypeOK, UploadType, RequestType, Op
<1>17. ASSUME NEW r \in Requests, StartComplete(r) PROVE RemovalInv'
  BY <1>17 DEF StartComplete, Goto, RemovalInv, TypeOK, UploadType, RequestType, Op
<1>18. ASSUME NEW r \in Requests, LoadParts(r) PROVE RemovalInv'
  BY <1>18 DEF LoadParts, Goto, RemovalInv, TypeOK, UploadType, RequestType, Op
<1>19. ASSUME NEW r \in Requests, OpenPart(r) PROVE RemovalInv'
  BY <1>19 DEF OpenPart, Goto, RemovalInv, TypeOK, UploadType, RequestType, Op
<1>20. ASSUME NEW r \in Requests, ReadPart(r) PROVE RemovalInv'
  BY <1>20 DEF ReadPart, Goto, RemovalInv, TypeOK, UploadType, RequestType, Op
<1>21. ASSUME NEW r \in Requests, PutObject(r) PROVE RemovalInv'
  BY <1>21 DEF PutObject, Goto, RemovalInv, TypeOK, UploadType, RequestType, Op
<1>22. ASSUME NEW r \in Requests, MarkCompleted(r) PROVE RemovalInv'
  BY <1>22 DEF MarkCompleted, Goto, RemovalInv, TypeOK, UploadType, RequestType, Op, ControlInv
<1>23. ASSUME NEW r \in Requests, Clean(r) PROVE RemovalInv'
  BY <1>23 DEF Clean, RemoveAll, Goto, RemovalInv, TypeOK, UploadType, RequestType, Op
<1>24. ASSUME NEW r \in Requests, AbortUpload(r) PROVE RemovalInv'
  BY <1>24 DEF AbortUpload, Goto, RemovalInv, TypeOK, UploadType, RequestType, Op
<1>25. CASE UNCHANGED vars
  BY <1>25 DEF vars, RemovalInv, TypeOK, UploadType, RequestType, Op
<1> QED
  BY <1>1, <1>2, <1>3, <1>4, <1>5, <1>6, <1>7, <1>8, <1>9, <1>10, <1>11, <1>12, <1>13, <1>14, <1>15, <1>16, <1>17, <1>18, <1>19, <1>20, <1>21, <1>22, <1>23, <1>24, <1>25 DEF Next, ReaperStep, RequestStep

\* No entry of a recorded part or of one being received goes, and no such part is new; the upload is
\* not reactivated and answers stay given.
EntriesRest ==
    /\ status' = "active" => status = "active"
    /\ Answered => Answered'
    /\ UNCHANGED job
    /\ \A n \in Parts : rows'[n] \in {rows[n], None} /\ path'[n] = path[n]
    /\ \A r \in Requests : pc'[r] = "write" => pc[r] = "write"

\* Which steps may disturb the entries of parts.
LEMMA EntriesAtRest ==
    ASSUME TypeOK, [Next]_vars
    PROVE  EntriesRest \/ InsertUpload \/ RemoveAbandoned \/ PurgeDir
             \/ \E q \in Requests : CreatePart(q) \/ RejectPart(q) \/ RecordPart(q) \/ Clean(q)
<1> USE DEF rowVars, diskVars, partVars, completeVars, restVars
<1>1. CASE InsertUpload
  BY <1>1
<1>2. CASE MakeDir
  BY <1>2 DEF MakeDir, EntriesRest, TypeOK, UploadType, DiskType, RequestType, Answered, Op
<1>3. CASE Tick
  BY <1>3 DEF Tick, EntriesRest, TypeOK, UploadType, DiskType, RequestType, Answered, Op
<1>4. CASE Crash
  BY <1>4 DEF Crash, Running, EntriesRest, TypeOK, UploadType, DiskType, RequestType, Answered, Op, Ended
<1>5. CASE ScanAbandoned
  BY <1>5 DEF ScanAbandoned, ReaperGoto, EntriesRest, TypeOK, UploadType, DiskType, RequestType, Answered, Op
<1>6. CASE AbortAbandoned
  BY <1>6 DEF AbortAbandoned, ReaperGoto, EntriesRest, TypeOK, UploadType, DiskType, RequestType, Answered, Op
<1>7. CASE RemoveAbandoned
  BY <1>7
<1>8. CASE ScanTerminal
  BY <1>8 DEF ScanTerminal, ReaperGoto, EntriesRest, TypeOK, UploadType, DiskType, RequestType, Answered, Op
<1>9. CASE PurgeDir
  BY <1>9
<1>10. CASE PurgeRow
  BY <1>10 DEF PurgeRow, ReaperGoto, EntriesRest, TypeOK, UploadType, DiskType, RequestType, Answered, Op, NoParts
<1>11. CASE ReaperFail
  BY <1>11 DEF ReaperFail, ReaperGoto, EntriesRest, TypeOK, UploadType, DiskType, RequestType, Answered, Op
<1>12. ASSUME NEW r \in Requests, StartPart(r) PROVE EntriesRest \/ InsertUpload \/ RemoveAbandoned \/ PurgeDir
             \/ \E q \in Requests : CreatePart(q) \/ RejectPart(q) \/ RecordPart(q) \/ Clean(q)
  BY <1>12 DEF StartPart, Goto, EntriesRest, TypeOK, UploadType, DiskType, RequestType, Answered, Op
<1>13. ASSUME NEW r \in Requests, CreatePart(r) PROVE EntriesRest \/ InsertUpload \/ RemoveAbandoned \/ PurgeDir
             \/ \E q \in Requests : CreatePart(q) \/ RejectPart(q) \/ RecordPart(q) \/ Clean(q)
  BY <1>13
<1>14. ASSUME NEW r \in Requests, WritePart(r) PROVE EntriesRest \/ InsertUpload \/ RemoveAbandoned \/ PurgeDir
             \/ \E q \in Requests : CreatePart(q) \/ RejectPart(q) \/ RecordPart(q) \/ Clean(q)
  BY <1>14 DEF WritePart, Goto, EntriesRest, TypeOK, UploadType, DiskType, RequestType, Answered, Op
<1>15. ASSUME NEW r \in Requests, RejectPart(r) PROVE EntriesRest \/ InsertUpload \/ RemoveAbandoned \/ PurgeDir
             \/ \E q \in Requests : CreatePart(q) \/ RejectPart(q) \/ RecordPart(q) \/ Clean(q)
  BY <1>15
<1>16. ASSUME NEW r \in Requests, RecordPart(r) PROVE EntriesRest \/ InsertUpload \/ RemoveAbandoned \/ PurgeDir
             \/ \E q \in Requests : CreatePart(q) \/ RejectPart(q) \/ RecordPart(q) \/ Clean(q)
  BY <1>16
<1>17. ASSUME NEW r \in Requests, StartComplete(r) PROVE EntriesRest \/ InsertUpload \/ RemoveAbandoned \/ PurgeDir
             \/ \E q \in Requests : CreatePart(q) \/ RejectPart(q) \/ RecordPart(q) \/ Clean(q)
  BY <1>17 DEF StartComplete, Goto, EntriesRest, TypeOK, UploadType, DiskType, RequestType, Answered, Op
<1>18. ASSUME NEW r \in Requests, LoadParts(r) PROVE EntriesRest \/ InsertUpload \/ RemoveAbandoned \/ PurgeDir
             \/ \E q \in Requests : CreatePart(q) \/ RejectPart(q) \/ RecordPart(q) \/ Clean(q)
  BY <1>18 DEF LoadParts, Goto, EntriesRest, TypeOK, UploadType, DiskType, RequestType, Answered, Op
<1>19. ASSUME NEW r \in Requests, OpenPart(r) PROVE EntriesRest \/ InsertUpload \/ RemoveAbandoned \/ PurgeDir
             \/ \E q \in Requests : CreatePart(q) \/ RejectPart(q) \/ RecordPart(q) \/ Clean(q)
  BY <1>19 DEF OpenPart, Goto, EntriesRest, TypeOK, UploadType, DiskType, RequestType, Answered, Op
<1>20. ASSUME NEW r \in Requests, ReadPart(r) PROVE EntriesRest \/ InsertUpload \/ RemoveAbandoned \/ PurgeDir
             \/ \E q \in Requests : CreatePart(q) \/ RejectPart(q) \/ RecordPart(q) \/ Clean(q)
  BY <1>20 DEF ReadPart, Goto, EntriesRest, TypeOK, UploadType, DiskType, RequestType, Answered, Op
<1>21. ASSUME NEW r \in Requests, PutObject(r) PROVE EntriesRest \/ InsertUpload \/ RemoveAbandoned \/ PurgeDir
             \/ \E q \in Requests : CreatePart(q) \/ RejectPart(q) \/ RecordPart(q) \/ Clean(q)
  BY <1>21 DEF PutObject, Goto, EntriesRest, TypeOK, UploadType, DiskType, RequestType, Answered, Op
<1>22. ASSUME NEW r \in Requests, MarkCompleted(r) PROVE EntriesRest \/ InsertUpload \/ RemoveAbandoned \/ PurgeDir
             \/ \E q \in Requests : CreatePart(q) \/ RejectPart(q) \/ RecordPart(q) \/ Clean(q)
  BY <1>22 DEF MarkCompleted, Goto, EntriesRest, TypeOK, UploadType, DiskType, RequestType, Answered, Op
<1>23. ASSUME NEW r \in Requests, Clean(r) PROVE EntriesRest \/ InsertUpload \/ RemoveAbandoned \/ PurgeDir
             \/ \E q \in Requests : CreatePart(q) \/ RejectPart(q) \/ RecordPart(q) \/ Clean(q)
  BY <1>23
<1>24. ASSUME NEW r \in Requests, AbortUpload(r) PROVE EntriesRest \/ InsertUpload \/ RemoveAbandoned \/ PurgeDir
             \/ \E q \in Requests : CreatePart(q) \/ RejectPart(q) \/ RecordPart(q) \/ Clean(q)
  BY <1>24 DEF AbortUpload, Goto, EntriesRest, TypeOK, UploadType, DiskType, RequestType, Answered, Op
<1>25. CASE UNCHANGED vars
  BY <1>25 DEF vars, EntriesRest, TypeOK, UploadType, DiskType, RequestType, Answered, Op
<1> QED
  BY <1>1, <1>2, <1>3, <1>4, <1>5, <1>6, <1>7, <1>8, <1>9, <1>10, <1>11, <1>12, <1>13, <1>14, <1>15, <1>16, <1>17, <1>18, <1>19, <1>20, <1>21, <1>22, <1>23, <1>24, <1>25 DEF Next, ReaperStep, RequestStep

\* Recorded parts and parts being received keep their entries.
LEMMA EntryStep ==
    ASSUME TypeOK, ControlInv, ApartInv, FileInv, RemovalInv, EntryInv, [Next]_vars
    PROVE  EntryInv'
<1> USE DEF rowVars, diskVars, partVars, completeVars, restVars
<1>0. \A r \in Requests : pc[r] = "write" => Part(r) \in Parts
  BY JobFacts DEF TypeOK, ControlInv
<1>1. CASE EntriesRest
  BY <1>0, <1>1 DEF EntriesRest, EntryInv, Part
<1>2. CASE InsertUpload
  <2>1. rows' = NoParts /\ \A r \in Requests : pc'[r] = "idle"
    BY <1>2 DEF InsertUpload, RemovalInv
  <2> QED
    BY <2>1 DEF EntryInv, NoParts
<1>3. CASE RemoveAbandoned \/ PurgeDir
  <2>1. status' # "active"
    BY <1>3 DEF RemoveAbandoned, PurgeDir, RemovalInv
  <2> QED
    BY <2>1 DEF EntryInv
<1>4. ASSUME NEW r \in Requests, Clean(r) PROVE EntryInv'
  <2>1. status' # "active" \/ (Op(r)' = "complete" /\ pc'[r] = "done")
    BY <1>4 DEF Clean, Goto, RemovalInv, TypeOK, RequestType, Op
  <2> QED
    BY <2>1 DEF EntryInv, Answered
<1>5. ASSUME NEW r \in Requests, CreatePart(r) \/ RejectPart(r) \/ RecordPart(r) PROVE EntryInv'
  <2>1. pc[r] \in {"create", "write"} /\ UNCHANGED <<status, job>>
    BY <1>5 DEF CreatePart, RejectPart, RecordPart
  <2>2. /\ Op(r) = "part" /\ Part(r) \in Parts /\ rows[Part(r)] = None
        /\ \A q \in Requests \ {r} : pc[q] = "write" => Part(q) # Part(r)
    BY <2>1, Apart
  <2>3. \A q \in Requests \ {r} : pc'[q] = pc[q]
    BY <1>5 DEF CreatePart, RejectPart, RecordPart, Goto, TypeOK, RequestType
  <2>4. Answered => Answered'
    BY <2>1, <2>2, <2>3 DEF Answered, Op
  <2>5. CASE CreatePart(r)
    <3>1. UNCHANGED rows /\ \A n \in Parts : n # Part(r) => path'[n] = path[n]
      BY <2>2, <2>5, CreateEffect DEF CreatedAt, TypeOK, DiskType
    <3>2. pc'[r] = "write" => path'[Part(r)] # None
      BY <2>2, <2>5, CreateEffect, MultipartAssumption DEF CreatedAt, TypeOK, DiskType, RequestType
    <3> QED
      BY <1>0, <2>1, <2>2, <2>3, <2>4, <3>1, <3>2 DEF EntryInv, Part
  <2>6. CASE RejectPart(r)
    <3>1. UNCHANGED rows /\ \A n \in Parts : n # Part(r) => path'[n] = path[n]
      BY <2>6 DEF RejectPart, TypeOK, DiskType
    <3>2. pc'[r] # "write"
      BY <2>6 DEF RejectPart, Goto, TypeOK, RequestType
    <3> QED
      BY <1>0, <2>1, <2>2, <2>3, <2>4, <3>1, <3>2 DEF EntryInv, Part
  <2>7. CASE RecordPart(r)
    <3>1. UNCHANGED path /\ \A n \in Parts : n # Part(r) => rows'[n] = rows[n]
      BY <2>7 DEF RecordPart, TypeOK, UploadType
    <3>2. pc[r] = "write" /\ pc'[r] # "write"
      BY <2>7 DEF RecordPart, Goto, TypeOK, RequestType
    <3> QED
      BY <1>0, <2>1, <2>2, <2>3, <2>4, <3>1, <3>2 DEF EntryInv, Part
  <2> QED
    BY <1>5, <2>5, <2>6, <2>7
<1> QED
  BY <1>1, <1>2, <1>3, <1>4, <1>5, EntriesAtRest

\* The invariant holds before the upload is initiated.
LEMMA InitInd ==
    ASSUME Init
    PROVE  IndInv
<1>1. UploadType
  BY MultipartAssumption DEF Init, UploadType, NoParts, ReaperStates
<1>2. DiskType
  BY EmptySeq DEF Init, DiskType, NoParts
<1>3. RequestType
  BY MultipartAssumption DEF Init, RequestType, PcStates
<1>4. CompleteType
  BY EmptySeq DEF Init, CompleteType, NoParts
<1>5. ControlInv /\ OriginInv
  BY DEF Init, ControlInv, OriginInv, NoParts
<1>6. ApartInv /\ FileInv /\ StreamInv /\ AckedWhole
  BY DEF Init, ApartInv, FileInv, StreamInv, AckedWhole, NoParts, Running, Ended
<1>7. RemovalInv /\ EntryInv
  BY DEF Init, RemovalInv, EntryInv
<1> QED
  BY <1>1, <1>2, <1>3, <1>4, <1>5, <1>6, <1>7 DEF IndInv, TypeOK

\* Every step of the upload, its requests, the reaper, the clock and a crash keeps the invariant.
LEMMA NextInd ==
    ASSUME IndInv, [Next]_vars
    PROVE  IndInv'
<1>1. TypeOK'
  BY UploadStep, DiskStep, RequestStepType, CompleteStep DEF IndInv, TypeOK
<1>2. ControlInv' /\ OriginInv' /\ RemovalInv'
  BY ControlStep, OriginStep, RemovalStep DEF IndInv, TypeOK
<1>3. ASSUME ~Resend PROVE ApartInv' /\ FileInv' /\ StreamInv' /\ AckedWhole' /\ EntryInv'
  BY <1>3, ApartStep, FileStep, StreamStep, AckedStep, EntryStep DEF IndInv
<1> QED
  BY <1>1, <1>2, <1>3 DEF IndInv

\* The inductive invariant of Multipart, for any requests, parts, sizes, caps, ages and faults:
\* control states and files belong to the operations of the requests, and, when the client does not
\* resend parts, a file that a row describes has the bytes of the row for as long as it has a path.
THEOREM MultipartInductive == Spec => []IndInv
<1>1. Init => IndInv
  BY InitInd
<1>2. IndInv /\ [Next]_vars => IndInv'
  BY NextInd
<1> QED
  BY <1>1, <1>2, PTL DEF Spec

\* The states of the upload, its files and its requests are well-formed, resending clients included.
THEOREM MultipartTyped == Spec => []TypeOK
<1>1. IndInv => TypeOK
  BY DEF IndInv
<1> QED
  BY <1>1, MultipartInductive, PTL

\* CompleteMultipartUpload is acknowledged only with every selected part in full, whatever aborts,
\* other completions, the reaper and failing removals do to the files meanwhile, when the client
\* does not resend parts.
THEOREM AckedPartsWhole == Spec => [](~Resend => AckedWhole)
<1>1. IndInv => (~Resend => AckedWhole)
  BY DEF IndInv
<1> QED
  BY <1>1, MultipartInductive, PTL

\* A part whose UploadPart was answered is on disk, whole, for as long as the upload is active and no
\* completion was answered, through crashes, failing statements, aborts and the reaper, when the
\* client does not resend parts.
THEOREM RecordedPartsKept == Spec => [](~Resend => RecordedKept)
<1>1. IndInv => (~Resend => RecordedKept)
  BY DEF IndInv, EntryInv, FileInv, RecordedKept
<1> QED
  BY <1>1, MultipartInductive, PTL

=============================================================================
