--------------------------- MODULE VersionsProofs ---------------------------
(* Proofs about Versions: a key with rows has a latest one, and protected    *)
(* bytes are kept.                                                           *)
EXTENDS Versions, WellFoundedInduction, TLAPS

\* A bounded set of rows that is not empty has a newest one.
LEMMA MaxIsRow ==
    ASSUME NEW n \in Nat, NEW T \in SUBSET (1..n), T # {}
    PROVE  Max(T) \in T
<1>a. \A y \in T : y \in Int
  OBVIOUS
<1> DEFINE D == {n - x : x \in T}
<1>0. PICK v \in T : TRUE
  OBVIOUS
<1>1. D \subseteq Nat /\ n - v \in D
  OBVIOUS
<1>2. PICK z \in D : \A y \in D : ~(<<y, z>> \in OpToRel(<, Nat))
  BY <1>1, NatLessThanWellFounded, WFMin
<1>3. \A y \in D : <<y, z>> \in Nat \X Nat => ~(y < z)
  BY <1>2, Zenon DEF OpToRel
<1>4. \A y \in D : ~(y < z) /\ z \in Nat /\ y \in Nat
  BY <1>1, <1>3, Zenon
<1>5. PICK x \in T : z = n - x
  OBVIOUS
<1>6. \A w \in T : x >= w
  <2> SUFFICES ASSUME NEW w \in T PROVE x >= w
    OBVIOUS
  <2>1. ~(n - w < n - x)
    BY <1>4, <1>5
  <2>2. w \in Int /\ x \in Int
    BY <1>a, Zenon
  <2> QED
    BY <2>1, <2>2
<1> QED
  BY <1>6 DEF Max

\* What a request asks for.
LEMMA JobFacts ==
    ASSUME NEW j \in JobType
    PROVE  /\ j # None
           /\ j.op \in {"put", "delete", "batch", "retain", "deleteVersion", "copy"}
           /\ j.op \in {"put", "delete", "batch"} => j.bypass \in BOOLEAN
           /\ j.op = "put" => j.retain \in Retentions \cup {None}
           /\ j.op = "retain" => j.retain \in Retentions
<1>1. j # None
  BY VersionsAssumption
<1> QED
  BY <1>1 DEF JobType

\* The settings, the bytes and the head row keep their types.
LEMMA ObjectStep ==
    ASSUME ObjectType, [Next]_vars
    PROVE  ObjectType'
<1> USE DEF bucketVars, objectVars, rowVars, lockVars, readVars, past
<1>1. ASSUME NEW r \in Requests, StartRetain(r), Watch PROVE ObjectType'
  BY <1>1 DEF StartRetain, Begin, ObjectType
<1>2. ASSUME NEW r \in Requests, Seal(r), Watch PROVE ObjectType'
  BY <1>2 DEF Seal, ObjectType
<1>3. ASSUME NEW r \in Requests, StartPut(r), Watch PROVE ObjectType'
  BY <1>3 DEF StartPut, Begin, ObjectType
<1>4. ASSUME NEW r \in Requests, StartCopy(r), Watch PROVE ObjectType'
  BY <1>4 DEF StartCopy, Begin, ObjectType
<1>5. ASSUME NEW r \in Requests, Guard(r), Watch PROVE ObjectType'
  BY <1>5 DEF Guard, ObjectType
<1>6. ASSUME NEW r \in Requests, PutBlob(r), Watch PROVE ObjectType'
  BY <1>6 DEF PutBlob, ObjectType
<1>7. ASSUME NEW r \in Requests, PutHead(r), Watch PROVE ObjectType'
  BY <1>7 DEF PutHead, ObjectType
<1>8. ASSUME NEW r \in Requests, ReadStatus(r), Watch PROVE ObjectType'
  BY <1>8 DEF ReadStatus, ObjectType
<1>9. ASSUME NEW r \in Requests, ClearLatest(r), Watch PROVE ObjectType'
  BY <1>9 DEF ClearLatest, ObjectType
<1>10. ASSUME NEW r \in Requests, InsertVersion(r), Watch PROVE ObjectType'
  BY <1>10 DEF InsertVersion, Replaces, ObjectType
<1>11. ASSUME NEW r \in Requests, ApplyLock(r), Watch PROVE ObjectType'
  BY <1>11 DEF ApplyLock, ObjectType
<1>12. ASSUME NEW r \in Requests, StartDelete(r), Watch PROVE ObjectType'
  BY <1>12 DEF StartDelete, Begin, ObjectType
<1>13. ASSUME NEW r \in Requests, StartBatch(r), Watch PROVE ObjectType'
  BY <1>13 DEF StartBatch, Begin, ObjectType
<1>14. ASSUME NEW r \in Requests, InsertMarker(r), Watch PROVE ObjectType'
  BY <1>14 DEF InsertMarker, ObjectType
<1>15. ASSUME NEW r \in Requests, RemoveBlob(r), Watch PROVE ObjectType'
  BY <1>15 DEF RemoveBlob, ObjectType
<1>16. ASSUME NEW r \in Requests, DropHead(r), Watch PROVE ObjectType'
  BY <1>16 DEF DropHead, ObjectType
<1>17. ASSUME NEW r \in Requests, DeleteVersion(r), Watch PROVE ObjectType'
  BY <1>17 DEF DeleteVersion, Begin, ObjectType
<1>18. ASSUME NEW r \in Requests, Elect(r), Watch PROVE ObjectType'
  BY <1>18 DEF Elect, ObjectType
<1>19. ASSUME NEW r \in Requests, Refuse(r), Watch PROVE ObjectType'
  BY <1>19 DEF Refuse, ObjectType
<1>20. ASSUME NEW r \in Requests, Cut(r), Watch PROVE ObjectType'
  BY <1>20 DEF Cut, ObjectType
<1>21. ASSUME NEW on \in BOOLEAN, PutObjectLegalHold(on), Watch PROVE ObjectType'
  BY <1>21 DEF PutObjectLegalHold, Edit, ObjectType
<1>22. ASSUME NEW mode \in Modes \cup {None}, PutObjectLockConfiguration(mode), Watch PROVE ObjectType'
  BY <1>22 DEF PutObjectLockConfiguration, Edit, ObjectType
<1>23. ASSUME NEW s \in {"Enabled", "Suspended"}, PutBucketVersioning(s), Watch PROVE ObjectType'
  BY <1>23 DEF PutBucketVersioning, Edit, ObjectType
<1>24. CASE Tick /\ Watch
  BY <1>24 DEF Tick, ObjectType
<1>25. CASE UNCHANGED vars
  BY <1>25 DEF vars, ObjectType
<1> QED
  BY <1>1, <1>2, <1>3, <1>4, <1>5, <1>6, <1>7, <1>8, <1>9, <1>10, <1>11, <1>12, <1>13, <1>14, <1>15, <1>16, <1>17, <1>18, <1>19, <1>20, <1>21, <1>22, <1>23, <1>24, <1>25 DEF Next, Request

\* Rows are named in the order of their creation.
LEMMA RowStep ==
    ASSUME RowType, [Next]_vars
    PROVE  RowType'
<1> USE DEF bucketVars, objectVars, rowVars, lockVars, readVars, past
<1>1. ASSUME NEW r \in Requests, StartRetain(r), Watch PROVE RowType'
  BY <1>1, VersionsAssumption DEF StartRetain, Begin, RowType
<1>2. ASSUME NEW r \in Requests, Seal(r), Watch PROVE RowType'
  BY <1>2, VersionsAssumption DEF Seal, RowType
<1>3. ASSUME NEW r \in Requests, StartPut(r), Watch PROVE RowType'
  BY <1>3, VersionsAssumption DEF StartPut, Begin, RowType
<1>4. ASSUME NEW r \in Requests, StartCopy(r), Watch PROVE RowType'
  BY <1>4, VersionsAssumption DEF StartCopy, Begin, RowType
<1>5. ASSUME NEW r \in Requests, Guard(r), Watch PROVE RowType'
  BY <1>5, VersionsAssumption DEF Guard, RowType
<1>6. ASSUME NEW r \in Requests, PutBlob(r), Watch PROVE RowType'
  BY <1>6, VersionsAssumption DEF PutBlob, RowType
<1>7. ASSUME NEW r \in Requests, PutHead(r), Watch PROVE RowType'
  BY <1>7, VersionsAssumption DEF PutHead, RowType
<1>8. ASSUME NEW r \in Requests, ReadStatus(r), Watch PROVE RowType'
  BY <1>8, VersionsAssumption DEF ReadStatus, RowType
<1>9. ASSUME NEW r \in Requests, ClearLatest(r), Watch PROVE RowType'
  BY <1>9, VersionsAssumption DEF ClearLatest, RowType
<1>10. ASSUME NEW r \in Requests, InsertVersion(r), Watch PROVE RowType'
  <2>1. births \in Nat /\ births + 1 \notin live /\ live \subseteq 1..births + 1
    BY VersionsAssumption DEF RowType
  <2>2. CASE Replaces(r)
    <3>1. latest' = latest \cup {null} /\ null # 0 /\ UNCHANGED <<live, null, births, markers>>
      BY <1>10, <2>2 DEF InsertVersion, Replaces
    <3> QED
      BY <3>1 DEF RowType
  <2>3. CASE ~Replaces(r)
    <3>1. /\ births < MaxRows /\ births' = births + 1 /\ live' = live \cup {births + 1}
          /\ latest' = latest \cup {births + 1} /\ null' \in {null, births + 1} /\ markers' = markers
      BY <1>10, <2>3 DEF InsertVersion
    <3>2. births' \in 0..MaxRows
      BY <2>1, <3>1, VersionsAssumption
    <3>3. live' \subseteq 1..births'
      BY <2>1, <3>1
    <3>4. null' \in live' \cup {0} /\ latest' \subseteq live' /\ markers' \subseteq live' \ {null'}
      BY <2>1, <3>1 DEF RowType
    <3> QED
      BY <3>2, <3>3, <3>4 DEF RowType
  <2> QED
    BY <2>2, <2>3
<1>11. ASSUME NEW r \in Requests, ApplyLock(r), Watch PROVE RowType'
  BY <1>11, VersionsAssumption DEF ApplyLock, RowType
<1>12. ASSUME NEW r \in Requests, StartDelete(r), Watch PROVE RowType'
  BY <1>12, VersionsAssumption DEF StartDelete, Begin, RowType
<1>13. ASSUME NEW r \in Requests, StartBatch(r), Watch PROVE RowType'
  BY <1>13, VersionsAssumption DEF StartBatch, Begin, RowType
<1>14. ASSUME NEW r \in Requests, InsertMarker(r), Watch PROVE RowType'
  BY <1>14, VersionsAssumption DEF InsertMarker, RowType
<1>15. ASSUME NEW r \in Requests, RemoveBlob(r), Watch PROVE RowType'
  BY <1>15, VersionsAssumption DEF RemoveBlob, RowType
<1>16. ASSUME NEW r \in Requests, DropHead(r), Watch PROVE RowType'
  BY <1>16, VersionsAssumption DEF DropHead, RowType
<1>17. ASSUME NEW r \in Requests, DeleteVersion(r), Watch PROVE RowType'
  BY <1>17, VersionsAssumption DEF DeleteVersion, Begin, RowType
<1>18. ASSUME NEW r \in Requests, Elect(r), Watch PROVE RowType'
  <2>1. live # {} => Max(live) \in live
    <3>1. births \in Nat /\ live \in SUBSET (1..births)
      BY VersionsAssumption DEF RowType
    <3> QED
      BY <3>1, MaxIsRow
  <2> QED
    BY <1>18, <2>1 DEF Elect, Elected, RowType
<1>19. ASSUME NEW r \in Requests, Refuse(r), Watch PROVE RowType'
  BY <1>19, VersionsAssumption DEF Refuse, RowType
<1>20. ASSUME NEW r \in Requests, Cut(r), Watch PROVE RowType'
  BY <1>20, VersionsAssumption DEF Cut, RowType
<1>21. ASSUME NEW on \in BOOLEAN, PutObjectLegalHold(on), Watch PROVE RowType'
  BY <1>21, VersionsAssumption DEF PutObjectLegalHold, Edit, RowType
<1>22. ASSUME NEW mode \in Modes \cup {None}, PutObjectLockConfiguration(mode), Watch PROVE RowType'
  BY <1>22, VersionsAssumption DEF PutObjectLockConfiguration, Edit, RowType
<1>23. ASSUME NEW s \in {"Enabled", "Suspended"}, PutBucketVersioning(s), Watch PROVE RowType'
  BY <1>23, VersionsAssumption DEF PutBucketVersioning, Edit, RowType
<1>24. CASE Tick /\ Watch
  BY <1>24, VersionsAssumption DEF Tick, RowType
<1>25. CASE UNCHANGED vars
  BY <1>25, VersionsAssumption DEF vars, RowType
<1> QED
  BY <1>1, <1>2, <1>3, <1>4, <1>5, <1>6, <1>7, <1>8, <1>9, <1>10, <1>11, <1>12, <1>13, <1>14, <1>15, <1>16, <1>17, <1>18, <1>19, <1>20, <1>21, <1>22, <1>23, <1>24, <1>25 DEF Next, Request

\* The lock row has a mode, a time and a hold.
LEMMA LockStep ==
    ASSUME LockType, StageInv, [Next]_vars
    PROVE  LockType'
<1> USE DEF bucketVars, objectVars, rowVars, lockVars, readVars, past
<1>1. ASSUME NEW r \in Requests, StartRetain(r), Watch PROVE LockType'
  BY <1>1, VersionsAssumption DEF StartRetain, Begin, LockType, StageInv, Retentions
<1>2. ASSUME NEW r \in Requests, Seal(r), Watch PROVE LockType'
  BY <1>2, VersionsAssumption DEF Seal, LockType, StageInv, Retentions
<1>3. ASSUME NEW r \in Requests, StartPut(r), Watch PROVE LockType'
  BY <1>3, VersionsAssumption DEF StartPut, Begin, LockType, StageInv, Retentions
<1>4. ASSUME NEW r \in Requests, StartCopy(r), Watch PROVE LockType'
  BY <1>4, VersionsAssumption DEF StartCopy, Begin, LockType, StageInv, Retentions
<1>5. ASSUME NEW r \in Requests, Guard(r), Watch PROVE LockType'
  BY <1>5, VersionsAssumption DEF Guard, LockType, StageInv, Retentions
<1>6. ASSUME NEW r \in Requests, PutBlob(r), Watch PROVE LockType'
  BY <1>6, VersionsAssumption DEF PutBlob, LockType, StageInv, Retentions
<1>7. ASSUME NEW r \in Requests, PutHead(r), Watch PROVE LockType'
  BY <1>7, VersionsAssumption DEF PutHead, LockType, StageInv, Retentions
<1>8. ASSUME NEW r \in Requests, ReadStatus(r), Watch PROVE LockType'
  BY <1>8, VersionsAssumption DEF ReadStatus, LockType, StageInv, Retentions
<1>9. ASSUME NEW r \in Requests, ClearLatest(r), Watch PROVE LockType'
  BY <1>9, VersionsAssumption DEF ClearLatest, LockType, StageInv, Retentions
<1>10. ASSUME NEW r \in Requests, InsertVersion(r), Watch PROVE LockType'
  BY <1>10, VersionsAssumption DEF InsertVersion, Replaces, LockType, StageInv, Retentions
<1>11. ASSUME NEW r \in Requests, ApplyLock(r), Watch PROVE LockType'
  BY <1>11, VersionsAssumption DEF ApplyLock, LockType, StageInv, Retentions
<1>12. ASSUME NEW r \in Requests, StartDelete(r), Watch PROVE LockType'
  BY <1>12, VersionsAssumption DEF StartDelete, Begin, LockType, StageInv, Retentions
<1>13. ASSUME NEW r \in Requests, StartBatch(r), Watch PROVE LockType'
  BY <1>13, VersionsAssumption DEF StartBatch, Begin, LockType, StageInv, Retentions
<1>14. ASSUME NEW r \in Requests, InsertMarker(r), Watch PROVE LockType'
  BY <1>14, VersionsAssumption DEF InsertMarker, LockType, StageInv, Retentions
<1>15. ASSUME NEW r \in Requests, RemoveBlob(r), Watch PROVE LockType'
  BY <1>15, VersionsAssumption DEF RemoveBlob, LockType, StageInv, Retentions
<1>16. ASSUME NEW r \in Requests, DropHead(r), Watch PROVE LockType'
  BY <1>16, VersionsAssumption DEF DropHead, LockType, StageInv, Retentions
<1>17. ASSUME NEW r \in Requests, DeleteVersion(r), Watch PROVE LockType'
  BY <1>17, VersionsAssumption DEF DeleteVersion, Begin, LockType, StageInv, Retentions
<1>18. ASSUME NEW r \in Requests, Elect(r), Watch PROVE LockType'
  BY <1>18, VersionsAssumption DEF Elect, LockType, StageInv, Retentions
<1>19. ASSUME NEW r \in Requests, Refuse(r), Watch PROVE LockType'
  BY <1>19, VersionsAssumption DEF Refuse, LockType, StageInv, Retentions
<1>20. ASSUME NEW r \in Requests, Cut(r), Watch PROVE LockType'
  BY <1>20, VersionsAssumption DEF Cut, LockType, StageInv, Retentions
<1>21. ASSUME NEW on \in BOOLEAN, PutObjectLegalHold(on), Watch PROVE LockType'
  BY <1>21, VersionsAssumption DEF PutObjectLegalHold, Edit, LockType, StageInv, Retentions
<1>22. ASSUME NEW mode \in Modes \cup {None}, PutObjectLockConfiguration(mode), Watch PROVE LockType'
  BY <1>22, VersionsAssumption DEF PutObjectLockConfiguration, Edit, LockType, StageInv, Retentions
<1>23. ASSUME NEW s \in {"Enabled", "Suspended"}, PutBucketVersioning(s), Watch PROVE LockType'
  BY <1>23, VersionsAssumption DEF PutBucketVersioning, Edit, LockType, StageInv, Retentions
<1>24. CASE Tick /\ Watch
  BY <1>24, VersionsAssumption DEF Tick, LockType, StageInv, Retentions
<1>25. CASE UNCHANGED vars
  BY <1>25, VersionsAssumption DEF vars, LockType, StageInv, Retentions
<1> QED
  BY <1>1, <1>2, <1>3, <1>4, <1>5, <1>6, <1>7, <1>8, <1>9, <1>10, <1>11, <1>12, <1>13, <1>14, <1>15, <1>16, <1>17, <1>18, <1>19, <1>20, <1>21, <1>22, <1>23, <1>24, <1>25 DEF Next, Request

\* Requests keep to their control states and forget their input at the end.
LEMMA RequestStep ==
    ASSUME ObjectType, LockType, RequestType, StageInv, [Next]_vars
    PROVE  RequestType'
<1> USE DEF bucketVars, objectVars, rowVars, lockVars, readVars, past
<1>1. ASSUME NEW r \in Requests, StartRetain(r), Watch PROVE RequestType'
  BY <1>1, VersionsAssumption, JobFacts DEF StartRetain, Begin, Enter, Goto, RequestType, PcStates, Ended, StageInv, ObjectType
<1>2. ASSUME NEW r \in Requests, Seal(r), Watch PROVE RequestType'
  BY <1>2, VersionsAssumption, JobFacts DEF Seal, Enter, Goto, RequestType, PcStates, Ended, StageInv, ObjectType
<1>3. ASSUME NEW r \in Requests, StartPut(r), Watch PROVE RequestType'
  BY <1>3, VersionsAssumption, JobFacts DEF StartPut, Begin, Enter, Goto, RequestType, PcStates, Ended, StageInv, ObjectType
<1>4. ASSUME NEW r \in Requests, StartCopy(r), Watch PROVE RequestType'
  BY <1>4, VersionsAssumption, JobFacts DEF StartCopy, Begin, Enter, Goto, RequestType, PcStates, Ended, StageInv, ObjectType
<1>5. ASSUME NEW r \in Requests, Guard(r), Watch PROVE RequestType'
  BY <1>5, VersionsAssumption, JobFacts DEF Guard, Enter, Goto, RequestType, PcStates, Ended, StageInv, ObjectType
<1>6. ASSUME NEW r \in Requests, PutBlob(r), Watch PROVE RequestType'
  BY <1>6, VersionsAssumption, JobFacts DEF PutBlob, Enter, Goto, RequestType, PcStates, Ended, StageInv, ObjectType
<1>7. ASSUME NEW r \in Requests, PutHead(r), Watch PROVE RequestType'
  BY <1>7, VersionsAssumption, JobFacts DEF PutHead, Enter, Goto, RequestType, PcStates, Ended, StageInv, ObjectType
<1>8. ASSUME NEW r \in Requests, ReadStatus(r), Watch PROVE RequestType'
  BY <1>8, VersionsAssumption, JobFacts DEF ReadStatus, Enter, Goto, RequestType, PcStates, Ended, StageInv, ObjectType
<1>9. ASSUME NEW r \in Requests, ClearLatest(r), Watch PROVE RequestType'
  BY <1>9, VersionsAssumption, JobFacts DEF ClearLatest, Enter, Goto, RequestType, PcStates, Ended, StageInv, ObjectType
<1>10. ASSUME NEW r \in Requests, InsertVersion(r), Watch PROVE RequestType'
  BY <1>10, VersionsAssumption, JobFacts DEF InsertVersion, Replaces, Enter, Goto, RequestType, PcStates, Ended, StageInv, ObjectType
<1>11. ASSUME NEW r \in Requests, ApplyLock(r), Watch PROVE RequestType'
  <2> DEFINE retain == IF job[r].retain # None THEN job[r].retain
                       ELSE [mode |-> default, until |-> clock + DefaultDays]
  <2>1. job[r] \in JobType /\ job[r].retain \in Retentions \cup {None}
    BY <1>11, JobFacts DEF ApplyLock, RequestType, StageInv, Ended
  <2>2. clock + DefaultDays \in Times
    BY VersionsAssumption DEF LockType, Times
  <2>3. job[r].retain # None \/ default # None => retain \in Retentions
    BY <2>1, <2>2 DEF Retentions, ObjectType
  <2>4. /\ \/ Goto(r, "done") /\ due' = due
           \/ Goto(r, "seal") /\ due' = [due EXCEPT ![r] = retain] /\ retain \in Retentions
        /\ UNCHANGED seen
    BY <1>11, <2>3 DEF ApplyLock
  <2> HIDE DEF retain
  <2> QED
    BY <2>1, <2>4, JobFacts DEF Goto, Enter, RequestType, PcStates, Ended, StageInv
<1>12. ASSUME NEW r \in Requests, StartDelete(r), Watch PROVE RequestType'
  BY <1>12, VersionsAssumption, JobFacts DEF StartDelete, Begin, Enter, Goto, RequestType, PcStates, Ended, StageInv, ObjectType
<1>13. ASSUME NEW r \in Requests, StartBatch(r), Watch PROVE RequestType'
  BY <1>13, VersionsAssumption, JobFacts DEF StartBatch, Begin, Enter, Goto, RequestType, PcStates, Ended, StageInv, ObjectType
<1>14. ASSUME NEW r \in Requests, InsertMarker(r), Watch PROVE RequestType'
  BY <1>14, VersionsAssumption, JobFacts DEF InsertMarker, Enter, Goto, RequestType, PcStates, Ended, StageInv, ObjectType
<1>15. ASSUME NEW r \in Requests, RemoveBlob(r), Watch PROVE RequestType'
  BY <1>15, VersionsAssumption, JobFacts DEF RemoveBlob, Enter, Goto, RequestType, PcStates, Ended, StageInv, ObjectType
<1>16. ASSUME NEW r \in Requests, DropHead(r), Watch PROVE RequestType'
  BY <1>16, VersionsAssumption, JobFacts DEF DropHead, Enter, Goto, RequestType, PcStates, Ended, StageInv, ObjectType
<1>17. ASSUME NEW r \in Requests, DeleteVersion(r), Watch PROVE RequestType'
  BY <1>17, VersionsAssumption, JobFacts DEF DeleteVersion, Begin, Enter, Goto, RequestType, PcStates, Ended, StageInv, ObjectType
<1>18. ASSUME NEW r \in Requests, Elect(r), Watch PROVE RequestType'
  BY <1>18, VersionsAssumption, JobFacts DEF Elect, Enter, Goto, RequestType, PcStates, Ended, StageInv, ObjectType
<1>19. ASSUME NEW r \in Requests, Refuse(r), Watch PROVE RequestType'
  BY <1>19, VersionsAssumption, JobFacts DEF Refuse, Enter, Goto, RequestType, PcStates, Ended, StageInv, ObjectType
<1>20. ASSUME NEW r \in Requests, Cut(r), Watch PROVE RequestType'
  BY <1>20, VersionsAssumption, JobFacts DEF Cut, Enter, Goto, RequestType, PcStates, Ended, StageInv, ObjectType
<1>21. ASSUME NEW on \in BOOLEAN, PutObjectLegalHold(on), Watch PROVE RequestType'
  BY <1>21, VersionsAssumption, JobFacts DEF PutObjectLegalHold, Edit, Enter, Goto, RequestType, PcStates, Ended, StageInv, ObjectType
<1>22. ASSUME NEW mode \in Modes \cup {None}, PutObjectLockConfiguration(mode), Watch PROVE RequestType'
  BY <1>22, VersionsAssumption, JobFacts DEF PutObjectLockConfiguration, Edit, Enter, Goto, RequestType, PcStates, Ended, StageInv, ObjectType
<1>23. ASSUME NEW s \in {"Enabled", "Suspended"}, PutBucketVersioning(s), Watch PROVE RequestType'
  BY <1>23, VersionsAssumption, JobFacts DEF PutBucketVersioning, Edit, Enter, Goto, RequestType, PcStates, Ended, StageInv, ObjectType
<1>24. CASE Tick /\ Watch
  BY <1>24, VersionsAssumption, JobFacts DEF Tick, Enter, Goto, RequestType, PcStates, Ended, StageInv, ObjectType
<1>25. CASE UNCHANGED vars
  BY <1>25, VersionsAssumption, JobFacts DEF vars, Enter, Goto, RequestType, PcStates, Ended, StageInv, ObjectType
<1> QED
  BY <1>1, <1>2, <1>3, <1>4, <1>5, <1>6, <1>7, <1>8, <1>9, <1>10, <1>11, <1>12, <1>13, <1>14, <1>15, <1>16, <1>17, <1>18, <1>19, <1>20, <1>21, <1>22, <1>23, <1>24, <1>25 DEF Next, Request

\* Each operation keeps to its own control states.
LEMMA StageStep ==
    ASSUME ObjectType, LockType, RequestType, StageInv, [Next]_vars
    PROVE  StageInv'
<1> USE DEF bucketVars, objectVars, rowVars, lockVars, readVars, past
<1>1. ASSUME NEW r \in Requests, StartRetain(r), Watch PROVE StageInv'
  BY <1>1, VersionsAssumption, JobFacts DEF StartRetain, Begin, Enter, Goto, RequestType, PcStates, Ended, StageInv, ObjectType
<1>2. ASSUME NEW r \in Requests, Seal(r), Watch PROVE StageInv'
  BY <1>2, VersionsAssumption, JobFacts DEF Seal, Enter, Goto, RequestType, PcStates, Ended, StageInv, ObjectType
<1>3. ASSUME NEW r \in Requests, StartPut(r), Watch PROVE StageInv'
  BY <1>3, VersionsAssumption, JobFacts DEF StartPut, Begin, Enter, Goto, RequestType, PcStates, Ended, StageInv, ObjectType
<1>4. ASSUME NEW r \in Requests, StartCopy(r), Watch PROVE StageInv'
  BY <1>4, VersionsAssumption, JobFacts DEF StartCopy, Begin, Enter, Goto, RequestType, PcStates, Ended, StageInv, ObjectType
<1>5. ASSUME NEW r \in Requests, Guard(r), Watch PROVE StageInv'
  BY <1>5, VersionsAssumption, JobFacts DEF Guard, Enter, Goto, RequestType, PcStates, Ended, StageInv, ObjectType
<1>6. ASSUME NEW r \in Requests, PutBlob(r), Watch PROVE StageInv'
  BY <1>6, VersionsAssumption, JobFacts DEF PutBlob, Enter, Goto, RequestType, PcStates, Ended, StageInv, ObjectType
<1>7. ASSUME NEW r \in Requests, PutHead(r), Watch PROVE StageInv'
  BY <1>7, VersionsAssumption, JobFacts DEF PutHead, Enter, Goto, RequestType, PcStates, Ended, StageInv, ObjectType
<1>8. ASSUME NEW r \in Requests, ReadStatus(r), Watch PROVE StageInv'
  BY <1>8, VersionsAssumption, JobFacts DEF ReadStatus, Enter, Goto, RequestType, PcStates, Ended, StageInv, ObjectType
<1>9. ASSUME NEW r \in Requests, ClearLatest(r), Watch PROVE StageInv'
  BY <1>9, VersionsAssumption, JobFacts DEF ClearLatest, Enter, Goto, RequestType, PcStates, Ended, StageInv, ObjectType
<1>10. ASSUME NEW r \in Requests, InsertVersion(r), Watch PROVE StageInv'
  BY <1>10, VersionsAssumption, JobFacts DEF InsertVersion, Replaces, Enter, Goto, RequestType, PcStates, Ended, StageInv, ObjectType
<1>11. ASSUME NEW r \in Requests, ApplyLock(r), Watch PROVE StageInv'
  <2> DEFINE retain == IF job[r].retain # None THEN job[r].retain
                       ELSE [mode |-> default, until |-> clock + DefaultDays]
  <2>1. job[r] \in JobType /\ job[r].retain \in Retentions \cup {None}
    BY <1>11, JobFacts DEF ApplyLock, RequestType, StageInv, Ended
  <2>2. clock + DefaultDays \in Times
    BY VersionsAssumption DEF LockType, Times
  <2>3. job[r].retain # None \/ default # None => retain \in Retentions
    BY <2>1, <2>2 DEF Retentions, ObjectType
  <2>4. /\ \/ Goto(r, "done") /\ due' = due
           \/ Goto(r, "seal") /\ due' = [due EXCEPT ![r] = retain] /\ retain \in Retentions
        /\ UNCHANGED seen
    BY <1>11, <2>3 DEF ApplyLock
  <2> HIDE DEF retain
  <2> QED
    BY <2>1, <2>4, JobFacts DEF Goto, Enter, RequestType, PcStates, Ended, StageInv
<1>12. ASSUME NEW r \in Requests, StartDelete(r), Watch PROVE StageInv'
  BY <1>12, VersionsAssumption, JobFacts DEF StartDelete, Begin, Enter, Goto, RequestType, PcStates, Ended, StageInv, ObjectType
<1>13. ASSUME NEW r \in Requests, StartBatch(r), Watch PROVE StageInv'
  BY <1>13, VersionsAssumption, JobFacts DEF StartBatch, Begin, Enter, Goto, RequestType, PcStates, Ended, StageInv, ObjectType
<1>14. ASSUME NEW r \in Requests, InsertMarker(r), Watch PROVE StageInv'
  BY <1>14, VersionsAssumption, JobFacts DEF InsertMarker, Enter, Goto, RequestType, PcStates, Ended, StageInv, ObjectType
<1>15. ASSUME NEW r \in Requests, RemoveBlob(r), Watch PROVE StageInv'
  BY <1>15, VersionsAssumption, JobFacts DEF RemoveBlob, Enter, Goto, RequestType, PcStates, Ended, StageInv, ObjectType
<1>16. ASSUME NEW r \in Requests, DropHead(r), Watch PROVE StageInv'
  BY <1>16, VersionsAssumption, JobFacts DEF DropHead, Enter, Goto, RequestType, PcStates, Ended, StageInv, ObjectType
<1>17. ASSUME NEW r \in Requests, DeleteVersion(r), Watch PROVE StageInv'
  BY <1>17, VersionsAssumption, JobFacts DEF DeleteVersion, Begin, Enter, Goto, RequestType, PcStates, Ended, StageInv, ObjectType
<1>18. ASSUME NEW r \in Requests, Elect(r), Watch PROVE StageInv'
  BY <1>18, VersionsAssumption, JobFacts DEF Elect, Enter, Goto, RequestType, PcStates, Ended, StageInv, ObjectType
<1>19. ASSUME NEW r \in Requests, Refuse(r), Watch PROVE StageInv'
  BY <1>19, VersionsAssumption, JobFacts DEF Refuse, Enter, Goto, RequestType, PcStates, Ended, StageInv, ObjectType
<1>20. ASSUME NEW r \in Requests, Cut(r), Watch PROVE StageInv'
  BY <1>20, VersionsAssumption, JobFacts DEF Cut, Enter, Goto, RequestType, PcStates, Ended, StageInv, ObjectType
<1>21. ASSUME NEW on \in BOOLEAN, PutObjectLegalHold(on), Watch PROVE StageInv'
  BY <1>21, VersionsAssumption, JobFacts DEF PutObjectLegalHold, Edit, Enter, Goto, RequestType, PcStates, Ended, StageInv, ObjectType
<1>22. ASSUME NEW mode \in Modes \cup {None}, PutObjectLockConfiguration(mode), Watch PROVE StageInv'
  BY <1>22, VersionsAssumption, JobFacts DEF PutObjectLockConfiguration, Edit, Enter, Goto, RequestType, PcStates, Ended, StageInv, ObjectType
<1>23. ASSUME NEW s \in {"Enabled", "Suspended"}, PutBucketVersioning(s), Watch PROVE StageInv'
  BY <1>23, VersionsAssumption, JobFacts DEF PutBucketVersioning, Edit, Enter, Goto, RequestType, PcStates, Ended, StageInv, ObjectType
<1>24. CASE Tick /\ Watch
  BY <1>24, VersionsAssumption, JobFacts DEF Tick, Enter, Goto, RequestType, PcStates, Ended, StageInv, ObjectType
<1>25. CASE UNCHANGED vars
  BY <1>25, VersionsAssumption, JobFacts DEF vars, Enter, Goto, RequestType, PcStates, Ended, StageInv, ObjectType
<1> QED
  BY <1>1, <1>2, <1>3, <1>4, <1>5, <1>6, <1>7, <1>8, <1>9, <1>10, <1>11, <1>12, <1>13, <1>14, <1>15, <1>16, <1>17, <1>18, <1>19, <1>20, <1>21, <1>22, <1>23, <1>24, <1>25 DEF Next, Request

\* The history keeps its type.
LEMMA HistoryStep ==
    ASSUME RowType, HistoryType, [Next]_vars
    PROVE  HistoryType'
<1> USE DEF bucketVars, objectVars, rowVars, lockVars, readVars, past
<1>1. ASSUME NEW r \in Requests, StartRetain(r), Watch PROVE HistoryType'
  BY <1>1 DEF StartRetain, Begin, HistoryType, Watch
<1>2. ASSUME NEW r \in Requests, Seal(r), Watch PROVE HistoryType'
  BY <1>2 DEF Seal, HistoryType, Watch
<1>3. ASSUME NEW r \in Requests, StartPut(r), Watch PROVE HistoryType'
  BY <1>3 DEF StartPut, Begin, HistoryType, Watch
<1>4. ASSUME NEW r \in Requests, StartCopy(r), Watch PROVE HistoryType'
  BY <1>4 DEF StartCopy, Begin, HistoryType, Watch
<1>5. ASSUME NEW r \in Requests, Guard(r), Watch PROVE HistoryType'
  BY <1>5 DEF Guard, HistoryType, Watch
<1>6. ASSUME NEW r \in Requests, PutBlob(r), Watch PROVE HistoryType'
  BY <1>6 DEF PutBlob, HistoryType, Watch
<1>7. ASSUME NEW r \in Requests, PutHead(r), Watch PROVE HistoryType'
  BY <1>7 DEF PutHead, HistoryType, Watch
<1>8. ASSUME NEW r \in Requests, ReadStatus(r), Watch PROVE HistoryType'
  BY <1>8 DEF ReadStatus, HistoryType, Watch
<1>9. ASSUME NEW r \in Requests, ClearLatest(r), Watch PROVE HistoryType'
  BY <1>9 DEF ClearLatest, HistoryType, Watch
<1>10. ASSUME NEW r \in Requests, InsertVersion(r), Watch PROVE HistoryType'
  BY <1>10 DEF InsertVersion, Replaces, RowType, HistoryType, Watch
<1>11. ASSUME NEW r \in Requests, ApplyLock(r), Watch PROVE HistoryType'
  BY <1>11 DEF ApplyLock, HistoryType, Watch
<1>12. ASSUME NEW r \in Requests, StartDelete(r), Watch PROVE HistoryType'
  BY <1>12 DEF StartDelete, Begin, HistoryType, Watch
<1>13. ASSUME NEW r \in Requests, StartBatch(r), Watch PROVE HistoryType'
  BY <1>13 DEF StartBatch, Begin, HistoryType, Watch
<1>14. ASSUME NEW r \in Requests, InsertMarker(r), Watch PROVE HistoryType'
  BY <1>14 DEF InsertMarker, HistoryType, Watch
<1>15. ASSUME NEW r \in Requests, RemoveBlob(r), Watch PROVE HistoryType'
  BY <1>15 DEF RemoveBlob, HistoryType, Watch
<1>16. ASSUME NEW r \in Requests, DropHead(r), Watch PROVE HistoryType'
  BY <1>16 DEF DropHead, HistoryType, Watch
<1>17. ASSUME NEW r \in Requests, DeleteVersion(r), Watch PROVE HistoryType'
  BY <1>17 DEF DeleteVersion, Begin, HistoryType, Watch
<1>18. ASSUME NEW r \in Requests, Elect(r), Watch PROVE HistoryType'
  BY <1>18 DEF Elect, HistoryType, Watch
<1>19. ASSUME NEW r \in Requests, Refuse(r), Watch PROVE HistoryType'
  BY <1>19 DEF Refuse, HistoryType, Watch
<1>20. ASSUME NEW r \in Requests, Cut(r), Watch PROVE HistoryType'
  BY <1>20 DEF Cut, HistoryType, Watch
<1>21. ASSUME NEW on \in BOOLEAN, PutObjectLegalHold(on), Watch PROVE HistoryType'
  BY <1>21 DEF PutObjectLegalHold, Edit, HistoryType, Watch
<1>22. ASSUME NEW mode \in Modes \cup {None}, PutObjectLockConfiguration(mode), Watch PROVE HistoryType'
  BY <1>22 DEF PutObjectLockConfiguration, Edit, HistoryType, Watch
<1>23. ASSUME NEW s \in {"Enabled", "Suspended"}, PutBucketVersioning(s), Watch PROVE HistoryType'
  BY <1>23 DEF PutBucketVersioning, Edit, HistoryType, Watch
<1>24. CASE Tick /\ Watch
  BY <1>24 DEF Tick, HistoryType, Watch
<1>25. CASE UNCHANGED vars
  BY <1>25 DEF vars, HistoryType, Watch
<1> QED
  BY <1>1, <1>2, <1>3, <1>4, <1>5, <1>6, <1>7, <1>8, <1>9, <1>10, <1>11, <1>12, <1>13, <1>14, <1>15, <1>16, <1>17, <1>18, <1>19, <1>20, <1>21, <1>22, <1>23, <1>24, <1>25 DEF Next, Request

\* A row loses the flag only to a request that is about to give it to one.
LEMMA LatestStep ==
    ASSUME RowType, RequestType, LatestInv, [Next]_vars
    PROVE  LatestInv'
<1> USE DEF bucketVars, objectVars, rowVars, lockVars, readVars, past
<1>1. ASSUME NEW r \in Requests, StartRetain(r), Watch PROVE LatestInv'
  BY <1>1 DEF StartRetain, Begin, LatestInv, RowType, Enter, Goto, RequestType, Elected
<1>2. ASSUME NEW r \in Requests, Seal(r), Watch PROVE LatestInv'
  BY <1>2 DEF Seal, LatestInv, RowType, Enter, Goto, RequestType, Elected
<1>3. ASSUME NEW r \in Requests, StartPut(r), Watch PROVE LatestInv'
  BY <1>3 DEF StartPut, Begin, LatestInv, RowType, Enter, Goto, RequestType, Elected
<1>4. ASSUME NEW r \in Requests, StartCopy(r), Watch PROVE LatestInv'
  BY <1>4 DEF StartCopy, Begin, LatestInv, RowType, Enter, Goto, RequestType, Elected
<1>5. ASSUME NEW r \in Requests, Guard(r), Watch PROVE LatestInv'
  BY <1>5 DEF Guard, LatestInv, RowType, Enter, Goto, RequestType, Elected
<1>6. ASSUME NEW r \in Requests, PutBlob(r), Watch PROVE LatestInv'
  BY <1>6 DEF PutBlob, LatestInv, RowType, Enter, Goto, RequestType, Elected
<1>7. ASSUME NEW r \in Requests, PutHead(r), Watch PROVE LatestInv'
  BY <1>7 DEF PutHead, LatestInv, RowType, Enter, Goto, RequestType, Elected
<1>8. ASSUME NEW r \in Requests, ReadStatus(r), Watch PROVE LatestInv'
  BY <1>8 DEF ReadStatus, LatestInv, RowType, Enter, Goto, RequestType, Elected
<1>9. ASSUME NEW r \in Requests, ClearLatest(r), Watch PROVE LatestInv'
  BY <1>9 DEF ClearLatest, LatestInv, RowType, Enter, Goto, RequestType, Elected
<1>10. ASSUME NEW r \in Requests, InsertVersion(r), Watch PROVE LatestInv'
  BY <1>10 DEF InsertVersion, Replaces, LatestInv, RowType, Enter, Goto, RequestType, Elected
<1>11. ASSUME NEW r \in Requests, ApplyLock(r), Watch PROVE LatestInv'
  BY <1>11 DEF ApplyLock, LatestInv, RowType, Enter, Goto, RequestType, Elected
<1>12. ASSUME NEW r \in Requests, StartDelete(r), Watch PROVE LatestInv'
  BY <1>12 DEF StartDelete, Begin, LatestInv, RowType, Enter, Goto, RequestType, Elected
<1>13. ASSUME NEW r \in Requests, StartBatch(r), Watch PROVE LatestInv'
  BY <1>13 DEF StartBatch, Begin, LatestInv, RowType, Enter, Goto, RequestType, Elected
<1>14. ASSUME NEW r \in Requests, InsertMarker(r), Watch PROVE LatestInv'
  BY <1>14 DEF InsertMarker, LatestInv, RowType, Enter, Goto, RequestType, Elected
<1>15. ASSUME NEW r \in Requests, RemoveBlob(r), Watch PROVE LatestInv'
  BY <1>15 DEF RemoveBlob, LatestInv, RowType, Enter, Goto, RequestType, Elected
<1>16. ASSUME NEW r \in Requests, DropHead(r), Watch PROVE LatestInv'
  BY <1>16 DEF DropHead, LatestInv, RowType, Enter, Goto, RequestType, Elected
<1>17. ASSUME NEW r \in Requests, DeleteVersion(r), Watch PROVE LatestInv'
  BY <1>17 DEF DeleteVersion, Begin, LatestInv, RowType, Enter, Goto, RequestType, Elected
<1>18. ASSUME NEW r \in Requests, Elect(r), Watch PROVE LatestInv'
  BY <1>18 DEF Elect, LatestInv, RowType, Enter, Goto, RequestType, Elected
<1>19. ASSUME NEW r \in Requests, Refuse(r), Watch PROVE LatestInv'
  BY <1>19 DEF Refuse, LatestInv, RowType, Enter, Goto, RequestType, Elected
<1>20. ASSUME NEW r \in Requests, Cut(r), Watch PROVE LatestInv'
  BY <1>20 DEF Cut, LatestInv, RowType, Enter, Goto, RequestType, Elected
<1>21. ASSUME NEW on \in BOOLEAN, PutObjectLegalHold(on), Watch PROVE LatestInv'
  BY <1>21 DEF PutObjectLegalHold, Edit, LatestInv, RowType, Enter, Goto, RequestType, Elected
<1>22. ASSUME NEW mode \in Modes \cup {None}, PutObjectLockConfiguration(mode), Watch PROVE LatestInv'
  BY <1>22 DEF PutObjectLockConfiguration, Edit, LatestInv, RowType, Enter, Goto, RequestType, Elected
<1>23. ASSUME NEW s \in {"Enabled", "Suspended"}, PutBucketVersioning(s), Watch PROVE LatestInv'
  BY <1>23 DEF PutBucketVersioning, Edit, LatestInv, RowType, Enter, Goto, RequestType, Elected
<1>24. CASE Tick /\ Watch
  BY <1>24 DEF Tick, LatestInv, RowType, Enter, Goto, RequestType, Elected
<1>25. CASE UNCHANGED vars
  BY <1>25 DEF vars, LatestInv, RowType, Enter, Goto, RequestType, Elected
<1> QED
  BY <1>1, <1>2, <1>3, <1>4, <1>5, <1>6, <1>7, <1>8, <1>9, <1>10, <1>11, <1>12, <1>13, <1>14, <1>15, <1>16, <1>17, <1>18, <1>19, <1>20, <1>21, <1>22, <1>23, <1>24, <1>25 DEF Next, Request

\* The row written last loses the flag only to a request that is about to write one.
LEMMA NewestStep ==
    ASSUME RowType, RequestType, HistoryType, NewestInv, [Next]_vars
    PROVE  NewestInv'
<1> USE DEF bucketVars, objectVars, rowVars, lockVars, readVars, past
<1>1. ASSUME NEW r \in Requests, StartRetain(r), Watch PROVE NewestInv'
  BY <1>1 DEF StartRetain, Begin, NewestInv, RowType, HistoryType, Enter, Goto, RequestType
<1>2. ASSUME NEW r \in Requests, Seal(r), Watch PROVE NewestInv'
  BY <1>2 DEF Seal, NewestInv, RowType, HistoryType, Enter, Goto, RequestType
<1>3. ASSUME NEW r \in Requests, StartPut(r), Watch PROVE NewestInv'
  BY <1>3 DEF StartPut, Begin, NewestInv, RowType, HistoryType, Enter, Goto, RequestType
<1>4. ASSUME NEW r \in Requests, StartCopy(r), Watch PROVE NewestInv'
  BY <1>4 DEF StartCopy, Begin, NewestInv, RowType, HistoryType, Enter, Goto, RequestType
<1>5. ASSUME NEW r \in Requests, Guard(r), Watch PROVE NewestInv'
  BY <1>5 DEF Guard, NewestInv, RowType, HistoryType, Enter, Goto, RequestType
<1>6. ASSUME NEW r \in Requests, PutBlob(r), Watch PROVE NewestInv'
  BY <1>6 DEF PutBlob, NewestInv, RowType, HistoryType, Enter, Goto, RequestType
<1>7. ASSUME NEW r \in Requests, PutHead(r), Watch PROVE NewestInv'
  BY <1>7 DEF PutHead, NewestInv, RowType, HistoryType, Enter, Goto, RequestType
<1>8. ASSUME NEW r \in Requests, ReadStatus(r), Watch PROVE NewestInv'
  BY <1>8 DEF ReadStatus, NewestInv, RowType, HistoryType, Enter, Goto, RequestType
<1>9. ASSUME NEW r \in Requests, ClearLatest(r), Watch PROVE NewestInv'
  BY <1>9 DEF ClearLatest, NewestInv, RowType, HistoryType, Enter, Goto, RequestType
<1>10. ASSUME NEW r \in Requests, InsertVersion(r), Watch PROVE NewestInv'
  BY <1>10 DEF InsertVersion, Replaces, NewestInv, RowType, HistoryType, Enter, Goto, RequestType
<1>11. ASSUME NEW r \in Requests, ApplyLock(r), Watch PROVE NewestInv'
  BY <1>11 DEF ApplyLock, NewestInv, RowType, HistoryType, Enter, Goto, RequestType
<1>12. ASSUME NEW r \in Requests, StartDelete(r), Watch PROVE NewestInv'
  BY <1>12 DEF StartDelete, Begin, NewestInv, RowType, HistoryType, Enter, Goto, RequestType
<1>13. ASSUME NEW r \in Requests, StartBatch(r), Watch PROVE NewestInv'
  BY <1>13 DEF StartBatch, Begin, NewestInv, RowType, HistoryType, Enter, Goto, RequestType
<1>14. ASSUME NEW r \in Requests, InsertMarker(r), Watch PROVE NewestInv'
  BY <1>14 DEF InsertMarker, NewestInv, RowType, HistoryType, Enter, Goto, RequestType
<1>15. ASSUME NEW r \in Requests, RemoveBlob(r), Watch PROVE NewestInv'
  BY <1>15 DEF RemoveBlob, NewestInv, RowType, HistoryType, Enter, Goto, RequestType
<1>16. ASSUME NEW r \in Requests, DropHead(r), Watch PROVE NewestInv'
  BY <1>16 DEF DropHead, NewestInv, RowType, HistoryType, Enter, Goto, RequestType
<1>17. ASSUME NEW r \in Requests, DeleteVersion(r), Watch PROVE NewestInv'
  BY <1>17 DEF DeleteVersion, Begin, NewestInv, RowType, HistoryType, Enter, Goto, RequestType
<1>18. ASSUME NEW r \in Requests, Elect(r), Watch PROVE NewestInv'
  BY <1>18 DEF Elect, NewestInv, RowType, HistoryType, Enter, Goto, RequestType
<1>19. ASSUME NEW r \in Requests, Refuse(r), Watch PROVE NewestInv'
  BY <1>19 DEF Refuse, NewestInv, RowType, HistoryType, Enter, Goto, RequestType
<1>20. ASSUME NEW r \in Requests, Cut(r), Watch PROVE NewestInv'
  BY <1>20 DEF Cut, NewestInv, RowType, HistoryType, Enter, Goto, RequestType
<1>21. ASSUME NEW on \in BOOLEAN, PutObjectLegalHold(on), Watch PROVE NewestInv'
  BY <1>21 DEF PutObjectLegalHold, Edit, NewestInv, RowType, HistoryType, Enter, Goto, RequestType
<1>22. ASSUME NEW mode \in Modes \cup {None}, PutObjectLockConfiguration(mode), Watch PROVE NewestInv'
  BY <1>22 DEF PutObjectLockConfiguration, Edit, NewestInv, RowType, HistoryType, Enter, Goto, RequestType
<1>23. ASSUME NEW s \in {"Enabled", "Suspended"}, PutBucketVersioning(s), Watch PROVE NewestInv'
  BY <1>23 DEF PutBucketVersioning, Edit, NewestInv, RowType, HistoryType, Enter, Goto, RequestType
<1>24. CASE Tick /\ Watch
  BY <1>24 DEF Tick, NewestInv, RowType, HistoryType, Enter, Goto, RequestType
<1>25. CASE UNCHANGED vars
  BY <1>25 DEF vars, NewestInv, RowType, HistoryType, Enter, Goto, RequestType
<1> QED
  BY <1>1, <1>2, <1>3, <1>4, <1>5, <1>6, <1>7, <1>8, <1>9, <1>10, <1>11, <1>12, <1>13, <1>14, <1>15, <1>16, <1>17, <1>18, <1>19, <1>20, <1>21, <1>22, <1>23, <1>24, <1>25 DEF Next, Request

\* A request that removes bytes later has seen them free, and so has one that comes to do so now.
LEMMA FreeMove ==
    ASSUME RequestType, FreeInv, Watch, NEW r \in Requests, NEW label \in PcStates,
           pc' = [pc EXCEPT ![r] = label], label = "remove" => ~Protected(r)'
    PROVE  FreeInv'
<1> SUFFICES ASSUME NEW q \in Requests, pc'[q] = "remove" PROVE free'[q]
  BY DEF FreeInv
<1>1. CASE q = r
  BY <1>1 DEF Watch, Ended, RequestType
<1>2. CASE q # r
  <2>1. pc'[q] = pc[q]
    BY <1>2 DEF RequestType
  <2>2. free[q]
    BY <2>1 DEF FreeInv
  <2> QED
    BY <2>1, <2>2 DEF Watch, Ended
<1> QED
  BY <1>1, <1>2

\* A request goes on to remove the bytes only if it found them not protected.
LEMMA FreeStep ==
    ASSUME RequestType, StageInv, FreeInv, [Next]_vars
    PROVE  FreeInv'
<1> USE DEF bucketVars, objectVars, rowVars, lockVars, readVars, past
<1>1. ASSUME NEW r \in Requests, Watch, Guard(r) PROVE FreeInv'
  <2>1. job[r] \in JobType /\ job[r].op \in {"put", "delete", "batch"} /\ job[r] # None
    BY <1>1 DEF Guard, StageInv, RequestType, Ended
  <2>2. CASE checkObjectLock(r)
    BY <1>1, <2>2, FreeMove DEF Guard, Goto, Enter, PcStates
  <2>3. CASE ~checkObjectLock(r)
    <3>1. job' = job /\ UNCHANGED <<lock, clock>>
      BY <1>1, <2>3 DEF Guard, Goto, Enter, RequestType
    <3>2. Bypasses(job[r]) <=> job[r].bypass
      BY <2>1, JobFacts DEF Bypasses
    <3>3. Protects(lock, clock, Bypasses(job[r])) <=> Protects(lock, clock, job[r].bypass)
      BY <3>2 DEF Protects
    <3>4. ~Protects(lock, clock, Bypasses(job[r]))
      BY <2>3, <3>3 DEF checkObjectLock
    <3>5. ~Protected(r)'
      BY <3>1, <3>4 DEF Protected
    <3>6. \E label \in {"blob", "remove"} : pc' = [pc EXCEPT ![r] = label]
      BY <1>1, <2>3 DEF Guard, Goto, Enter
    <3> QED
      BY <1>1, <3>5, <3>6, FreeMove DEF PcStates
  <2> QED
    BY <2>2, <2>3
<1>2. ASSUME NEW r \in Requests, Watch,
             \/ StartRetain(r) \/ StartPut(r) \/ StartCopy(r) \/ StartDelete(r) \/ StartBatch(r) \/ DeleteVersion(r)
      PROVE  FreeInv'
  <2>1. PICK j \in JobType, label \in {"seal", "done", "clear", "guard", "blob", "elect"} : Begin(r, j, label)
    BY <1>2, VersionsAssumption DEF StartRetain, StartPut, StartCopy, StartDelete, StartBatch, DeleteVersion, Begin
  <2> QED
    BY <1>2, <2>1, FreeMove DEF Begin, Enter, PcStates
<1>3. ASSUME NEW r \in Requests, Watch,
             \/ Seal(r) \/ PutBlob(r) \/ PutHead(r) \/ ReadStatus(r) \/ ClearLatest(r) \/ InsertVersion(r)
             \/ ApplyLock(r) \/ InsertMarker(r) \/ RemoveBlob(r) \/ DropHead(r) \/ Elect(r) \/ Refuse(r) \/ Cut(r)
      PROVE  FreeInv'
  <2>1. PICK label \in {"done", "head", "status", "apply", "clear", "insert", "mark", "seal", "drop"} : Goto(r, label)
    BY <1>3 DEF Seal, PutBlob, PutHead, ReadStatus, ClearLatest, InsertVersion, ApplyLock, InsertMarker,
                RemoveBlob, DropHead, Elect, Refuse, Cut
  <2> QED
    BY <1>3, <2>1, FreeMove DEF Goto, Enter, PcStates
<1>4. ASSUME Watch, \/ \E on \in BOOLEAN : PutObjectLegalHold(on)
                    \/ \E mode \in Modes \cup {None} : PutObjectLockConfiguration(mode)
                    \/ \E s \in {"Enabled", "Suspended"} : PutBucketVersioning(s)
                    \/ Tick
      PROVE  FreeInv'
  <2>1. UNCHANGED pc
    BY <1>4 DEF PutObjectLegalHold, PutObjectLockConfiguration, PutBucketVersioning, Tick
  <2> QED
    BY <1>4, <2>1 DEF FreeInv, Watch, Ended
<1>5. CASE UNCHANGED vars
  BY <1>5 DEF vars, FreeInv
<1> QED
  BY <1>1, <1>2, <1>3, <1>4, <1>5 DEF Next, Request

-----------------------------------------------------------------------------
(* The theorems. *)

\* No row, no lock and no request at the start.
LEMMA InitInd == Init => IndInv
<1> SUFFICES ASSUME Init PROVE IndInv
  OBVIOUS
<1>1. ObjectType /\ HistoryType /\ LatestInv /\ NewestInv
  BY DEF Init, ObjectType, HistoryType, LatestInv, NewestInv
<1>2. RowType /\ LockType
  BY VersionsAssumption DEF Init, RowType, LockType, Times
<1>3. RequestType /\ StageInv /\ FreeInv
  BY DEF Init, RequestType, PcStates, Ended, StageInv, FreeInv
<1> QED
  BY <1>1, <1>2, <1>3 DEF IndInv, TypeOK

\* The inductive invariant: a flag that was cleared is about to be set again unless a request
\* was cut off, the row written last has it or is about to be followed by another, and a request
\* about to remove the bytes found them free.
THEOREM VersionsInductive == Spec => []IndInv
<1>1. IndInv /\ [Next]_vars => IndInv'
  <2> SUFFICES ASSUME IndInv, [Next]_vars PROVE IndInv'
    OBVIOUS
  <2>1. /\ ObjectType /\ RowType /\ LockType /\ RequestType /\ HistoryType
        /\ StageInv /\ LatestInv /\ NewestInv /\ FreeInv
    BY DEF IndInv, TypeOK
  <2>2. ObjectType' /\ RowType' /\ LockType' /\ RequestType' /\ HistoryType'
    BY <2>1, ObjectStep, RowStep, LockStep, RequestStep, HistoryStep
  <2>3. StageInv' /\ LatestInv' /\ NewestInv' /\ FreeInv'
    BY <2>1, StageStep, LatestStep, NewestStep, FreeStep
  <2> QED
    BY <2>2, <2>3 DEF IndInv, TypeOK
<1> QED
  BY <1>1, InitInd, PTL DEF Spec

\* Every variable keeps its type; in particular the latest rows, the delete markers and the
\* "null" row are rows that exist, and the "null" row is no marker.
THEOREM VersionsTyped == Spec => []TypeOK
<1>1. IndInv => TypeOK
  BY DEF IndInv
<1> QED
  BY <1>1, VersionsInductive, PTL

\* When no request runs, a key with version rows has a latest one, however PUTs, DELETEs and
\* version deletions overlapped, unless one was cut off between its two statements.
THEOREM LatestExists == Spec => []SomeLatest
<1>1. IndInv => SomeLatest
  BY DEF IndInv, LatestInv, SomeLatest, Ended
<1> QED
  BY <1>1, VersionsInductive, PTL

\* When no request runs, the row written last has is_latest, however PUTs, markers, replaced
\* "null" rows and version deletions overlapped, unless it was deleted or a request was cut off
\* after clearing its flag.
THEOREM LastWriteIsLatest == Spec => []LastWriteLatest
<1>1. IndInv => LastWriteLatest
  BY DEF IndInv, NewestInv, LastWriteLatest, Ended
<1> QED
  BY <1>1, VersionsInductive, PTL

\* Bytes are removed only by a DELETE or a batch delete that a legal hold or retention did not
\* forbid at some time while it ran, also where a delete marker has dropped the head row.
THEOREM LockedBytesNotRemoved == Spec => LockedNotRemoved
<1>1. IndInv /\ [Next]_vars => [RemovesFree]_vars
  <2> SUFFICES ASSUME IndInv, Next, blob # None, blob' = None
               PROVE  \E r \in Requests : pc'[r] # pc[r] /\ free[r] /\ job[r].op \in {"delete", "batch"}
    BY DEF RemovesFree
  <2>1. PICK r \in Requests : RemoveBlob(r)
    <3> USE DEF bucketVars, objectVars, rowVars, lockVars, readVars, past
    <3>1. ASSUME NEW r \in Requests, Request(r) PROVE RemoveBlob(r)
      BY <3>1, VersionsAssumption
         DEF Request, StartRetain, Seal, StartPut, StartCopy, Guard, PutBlob, PutHead, ReadStatus, ClearLatest,
             InsertVersion, ApplyLock, StartDelete, StartBatch, InsertMarker, DropHead,
             DeleteVersion, Elect, Refuse, Cut
    <3> QED
      BY <3>1 DEF Next, PutObjectLegalHold, PutObjectLockConfiguration, PutBucketVersioning, Tick
  <2>2. pc[r] = "remove" /\ pc'[r] = "drop"
    BY <2>1 DEF RemoveBlob, Goto, Enter, IndInv, TypeOK, RequestType
  <2> QED
    BY <2>2 DEF IndInv, FreeInv, StageInv
<1> QED
  BY <1>1, VersionsInductive, PTL DEF Spec, LockedNotRemoved

=============================================================================
