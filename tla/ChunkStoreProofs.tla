-------------------------- MODULE ChunkStoreProofs --------------------------
(* Proofs about ChunkStore: reference counts are sound and manifests backed. *)
EXTENDS ChunkStore, FiniteSetTheorems, TLAPS

\* What TypeOK says about a request's input.
LEMMA JobFacts ==
    ASSUME TypeOK, NEW u \in Requests
    PROVE  /\ Key(u) \in Objects
           /\ job[u].op \in Ops
           /\ job[u].src \in Objects
           /\ job[u].enc \in Encodings
           /\ Indices(u) \subseteq Idx
           /\ \A i \in Indices(u) : Hash(u, i) \in Chunks
<1>1. job[u] \in JobType
  BY ConstAssumption DEF TypeOK
<1>2. Key(u) \in Objects /\ job[u].op \in Ops /\ job[u].src \in Objects /\ job[u].enc \in Encodings
  BY <1>1 DEF JobType, Key
<1>3. Indices(u) \subseteq Idx /\ \A i \in Indices(u) : Hash(u, i) \in Chunks
  BY DEF TypeOK, Indices, Hash
<1> QED
  BY <1>2, <1>3

\* The rows that reference a chunk are finitely many.
LEMMA RowsFinite ==
    /\ IsFiniteSet(Rows)
    /\ \A R \in SUBSET Rows : \A c \in Chunks :
          /\ IsFiniteSet(RowsOf(R, c))
          /\ Count(R, c) \in Nat
          /\ RowsOf(R, c) \subseteq R
<1>1. IsFiniteSet(Idx)
  BY FS_Interval, ConstAssumption DEF Idx
<1>2. IsFiniteSet(Rows)
  BY <1>1, FS_Product, ConstAssumption DEF Rows
<1>3. ASSUME NEW R \in SUBSET Rows, NEW c \in Chunks
      PROVE  /\ IsFiniteSet(RowsOf(R, c))
             /\ Count(R, c) \in Nat
             /\ RowsOf(R, c) \subseteq R
  <2>1. RowsOf(R, c) \subseteq R
    BY DEF RowsOf
  <2>2. IsFiniteSet(RowsOf(R, c))
    BY <2>1, <1>2, FS_Subset
  <2> QED
    BY <2>1, <2>2, FS_CardinalityType DEF Count
<1> QED
  BY <1>2, <1>3

\* Fewer rows hold fewer references.
LEMMA CountMono ==
    ASSUME NEW R \in SUBSET Rows, NEW S \in SUBSET R, NEW c \in Chunks
    PROVE  Count(S, c) <= Count(R, c)
<1>1. RowsOf(S, c) \subseteq RowsOf(R, c)
  BY DEF RowsOf
<1> QED
  BY <1>1, RowsFinite, FS_Subset DEF Count

\* One more row adds at most one reference, on its own chunk.
LEMMA CountAdd ==
    ASSUME NEW R \in SUBSET Rows, NEW r \in Rows, NEW c \in Chunks
    PROVE  Count(R \cup {r}, c) <= Count(R, c) + (IF HashOf(r) = c THEN 1 ELSE 0)
<1>1. CASE HashOf(r) = c
  <2>1. RowsOf(R \cup {r}, c) = RowsOf(R, c) \cup {r}
    BY <1>1 DEF RowsOf
  <2>2. IsFiniteSet(RowsOf(R, c)) /\ Count(R, c) \in Nat
    BY RowsFinite
  <2>3. Cardinality(RowsOf(R, c) \cup {r})
          = IF r \in RowsOf(R, c) THEN Cardinality(RowsOf(R, c)) ELSE Cardinality(RowsOf(R, c)) + 1
    BY <2>2, FS_AddElement
  <2>4. Count(R \cup {r}, c) = IF r \in RowsOf(R, c) THEN Count(R, c) ELSE Count(R, c) + 1
    BY <2>1, <2>3 DEF Count
  <2>5. Count(R \cup {r}, c) <= Count(R, c) + 1
    BY <2>2, <2>4
  <2> QED
    BY <1>1, <2>5
<1>2. CASE HashOf(r) # c
  <2>1. RowsOf(R \cup {r}, c) = RowsOf(R, c)
    BY <1>2 DEF RowsOf
  <2>2. Count(R, c) \in Nat
    BY RowsFinite
  <2> QED
    BY <1>2, <2>1, <2>2 DEF Count
<1> QED
  BY <1>1, <1>2

\* Removing rows removes exactly the references they hold.
LEMMA CountRemove ==
    ASSUME NEW R \in SUBSET Rows, NEW S \in SUBSET R, NEW c \in Chunks
    PROVE  Count(R \ S, c) = Count(R, c) - Count(S, c)
<1>1. RowsOf(R \ S, c) = RowsOf(R, c) \ RowsOf(S, c)
  BY DEF RowsOf
<1>2. RowsOf(S, c) \subseteq RowsOf(R, c)
  BY DEF RowsOf
<1>3. IsFiniteSet(RowsOf(R, c)) /\ IsFiniteSet(RowsOf(S, c))
  BY RowsFinite
<1>4. RowsOf(R, c) \cap RowsOf(S, c) = RowsOf(S, c)
  BY <1>2
<1>5. Cardinality(RowsOf(R, c) \ RowsOf(S, c))
        = Cardinality(RowsOf(R, c)) - Cardinality(RowsOf(R, c) \cap RowsOf(S, c))
  BY <1>3, FS_Difference
<1> QED
  BY <1>1, <1>4, <1>5 DEF Count

\* Rows put together hold at most the references of both parts.
LEMMA CountUnion ==
    ASSUME NEW R \in SUBSET Rows, NEW S \in SUBSET Rows, NEW c \in Chunks
    PROVE  Count(R \cup S, c) <= Count(R, c) + Count(S, c)
<1>1. RowsOf(R \cup S, c) = RowsOf(R, c) \cup RowsOf(S, c)
  BY DEF RowsOf
<1>2. IsFiniteSet(RowsOf(R, c)) /\ IsFiniteSet(RowsOf(S, c))
  BY RowsFinite
<1>3. Cardinality(RowsOf(R, c) \cup RowsOf(S, c))
        = Cardinality(RowsOf(R, c)) + Cardinality(RowsOf(S, c))
            - Cardinality(RowsOf(R, c) \cap RowsOf(S, c))
  BY <1>2, FS_Union
<1>4. IsFiniteSet(RowsOf(R, c) \cap RowsOf(S, c))
  BY <1>2, FS_Intersection
<1>5. /\ Cardinality(RowsOf(R, c)) \in Nat /\ Cardinality(RowsOf(S, c)) \in Nat
      /\ Cardinality(RowsOf(R, c) \cap RowsOf(S, c)) \in Nat
  BY <1>2, <1>4, FS_CardinalityType
<1>6. Count(R \cup S, c) = Cardinality(RowsOf(R, c) \cup RowsOf(S, c))
  BY <1>1 DEF Count
<1> QED
  BY <1>3, <1>5, <1>6 DEF Count

\* Taking the references A and releasing R, held by live rows, keeps every
\* count above what is left, and no count drops below zero.
LEMMA Swap ==
    ASSUME TypeOK, RefCountSound, NEW R \in SUBSET LiveRefs, NEW A \in SUBSET Rows, SwapRefs(A, R)
    PROVE  /\ refCount' \in [Chunks -> Nat]
           /\ \A c \in indexed : refCount'[c] >= Count((LiveRefs \ R) \cup A, c)
           /\ marked' \subseteq Chunks
           /\ markedAge' \in [Chunks -> Age]
           /\ accessAge' \in [Chunks -> Age]
           /\ \A c \in Chunks : accessAge'[c] = accessAge[c] \/ accessAge'[c] = 0
           /\ indexed' = indexed /\ rowEnc' = rowEnc
<1> DEFINE p(c) == IF c \in indexed THEN Count(A, c) ELSE 0
           n(c) == IF c \in indexed THEN Count(R, c) ELSE 0
           t == {c \in Chunks : p(c) > 0}
           z == {c \in Chunks : /\ n(c) > 0 /\ refCount[c] + p(c) > 0
                                /\ refCount[c] + p(c) <= n(c)}
<1>1. LiveRefs \in SUBSET Rows /\ R \in SUBSET Rows /\ LiveRefs \ R \in SUBSET Rows
  BY DEF LiveRefs
<1>2. ASSUME NEW c \in Chunks
      PROVE  /\ refCount[c] + p(c) - n(c) \in Nat
             /\ c \in indexed => refCount[c] + p(c) - n(c) >= Count((LiveRefs \ R) \cup A, c)
  <2>1. Count(LiveRefs \ R, c) = Count(LiveRefs, c) - Count(R, c)
    BY <1>1, CountRemove
  <2>2. Count((LiveRefs \ R) \cup A, c) <= Count(LiveRefs \ R, c) + Count(A, c)
    BY <1>1, CountUnion
  <2>3. /\ Count(LiveRefs \ R, c) \in Nat /\ Count(LiveRefs, c) \in Nat /\ Count(R, c) \in Nat
        /\ Count(A, c) \in Nat /\ Count((LiveRefs \ R) \cup A, c) \in Nat
    BY <1>1, RowsFinite
  <2>4. refCount[c] \in Nat
    BY DEF TypeOK
  <2>5. c \in indexed => refCount[c] >= Count(LiveRefs, c)
    BY DEF RefCountSound
  <2> QED
    BY <2>1, <2>2, <2>3, <2>4, <2>5
<1>3. /\ refCount' = [c \in Chunks |-> refCount[c] + p(c) - n(c)]
      /\ marked' = (marked \ t) \cup z
      /\ markedAge' = [c \in Chunks |-> IF c \in t \cup z THEN 0 ELSE markedAge[c]]
      /\ accessAge' = [c \in Chunks |-> IF c \in t THEN 0 ELSE accessAge[c]]
      /\ indexed' = indexed /\ rowEnc' = rowEnc
  BY DEF SwapRefs
<1>4. t \subseteq Chunks /\ z \subseteq Chunks /\ 0 \in Age
  BY ConstAssumption DEF Age
<1> HIDE DEF n, p, t, z
<1>5. /\ refCount' \in [Chunks -> Nat]
      /\ \A c \in indexed : refCount'[c] >= Count((LiveRefs \ R) \cup A, c)
  BY <1>2, <1>3 DEF TypeOK
<1>6. marked' \subseteq Chunks /\ markedAge' \in [Chunks -> Age] /\ accessAge' \in [Chunks -> Age]
  BY <1>3, <1>4 DEF TypeOK
<1>7. \A c \in Chunks : accessAge'[c] = accessAge[c] \/ accessAge'[c] = 0
  BY <1>3
<1> QED
  BY <1>3, <1>5, <1>6, <1>7

\* Moving one chunk of an upload to another state keeps the type of task.
LEMMA SetTaskType ==
    ASSUME TypeOK, NEW u \in Requests, NEW i \in Idx, NEW s \in TaskStates, SetTask(u, i, s)
    PROVE  task' \in [Requests -> [Idx -> TaskStates]]
  BY DEF TypeOK, SetTask

\* Taking a reference keeps the types of the index columns.
LEMMA TakeRefType ==
    ASSUME TypeOK, NEW c \in Chunks, TakeRef(c)
    PROVE  /\ refCount' \in [Chunks -> Nat]
           /\ marked' \subseteq Chunks
           /\ markedAge' \in [Chunks -> Age] /\ accessAge' \in [Chunks -> Age]
<1>1. 0 \in Age
  BY ConstAssumption DEF Age
<1> QED
  BY <1>1 DEF TypeOK, TakeRef

\* Every step keeps the types.
LEMMA TypeStep ==
    ASSUME IndInv, [Next]_vars
    PROVE  TypeOK'
<1>1. ASSUME NEW u \in Requests, Begin(u) PROVE TypeOK'
  <2>1. job[u].op \in Ops
    BY JobFacts DEF IndInv
  <2> QED
    BY <1>1, <2>1 DEF IndInv, TypeOK, Begin, Ops, PcStates, Goto, gciVars, storeVars, objVars, gcVars
<1>2. ASSUME NEW u \in Requests, Join(u) PROVE TypeOK'
  BY <1>2, ConstAssumption DEF TypeOK, Join, IndInv, SetTask, Goto, TaskStates, PcStates, GcStates, Idx, Rows, Age, vars, gciVars, storeVars, objVars, reqVars, gcVars
<1>3. ASSUME NEW u \in Requests, AbortDone(u) PROVE TypeOK'
  BY <1>3, ConstAssumption DEF TypeOK, AbortDone, IndInv, SetTask, Goto, TaskStates, PcStates, GcStates, Idx, Rows, Age, vars, gciVars, storeVars, objVars, reqVars, gcVars
<1>4. ASSUME NEW u \in Requests, PeekSource(u) PROVE TypeOK'
  BY <1>4, ConstAssumption DEF TypeOK, PeekSource, IndInv, SetTask, Goto, TaskStates, PcStates, GcStates, Idx, Rows, Age, vars, gciVars, storeVars, objVars, reqVars, gcVars
<1>5. ASSUME NEW u \in Requests, ReadSource(u) PROVE TypeOK'
  <2> USE <1>5 DEF ReadSource
  <2>1. \A r \in manifest[job[u].src] : HashOf(r) \in Chunks \cup {None}
    BY JobFacts DEF IndInv, TypeOK, Rows, HashOf, Hash
  <2>2. body' \in [Requests -> [Idx -> Chunks \cup {None}]]
    <3> DEFINE h(i) == {HashOf(r) : r \in {r \in manifest[job[u].src] : r[2] = i}}
               b == [i \in Idx |-> IF h(i) = {} THEN None ELSE CHOOSE x \in h(i) : TRUE]
    <3>1. \A i \in Idx : h(i) \subseteq Chunks \cup {None}
      BY <2>1
    <3>2. body' = [body EXCEPT ![u] = b] \/ body' = body
      OBVIOUS
    <3> HIDE DEF h
    <3>3. b \in [Idx -> Chunks \cup {None}]
      BY <3>1
    <3> HIDE DEF b
    <3> QED
      BY <3>2, <3>3 DEF IndInv, TypeOK
  <2>3. pc' \in [Requests -> PcStates]
    BY DEF IndInv, TypeOK, Goto, PcStates
  <2> QED
    BY <2>2, <2>3 DEF IndInv, TypeOK, gciVars, storeVars, objVars, gcVars
<1>6. ASSUME NEW u \in Requests, LockHead(u) PROVE TypeOK'
  BY <1>6, ConstAssumption DEF TypeOK, LockHead, IndInv, SetTask, Goto, TaskStates, PcStates, GcStates, Idx, Rows, Age, vars, gciVars, storeVars, objVars, reqVars, gcVars
<1>7. ASSUME NEW u \in Requests, ReadManifest(u) PROVE TypeOK'
  <2>1. Key(u) \in Objects
    BY JobFacts DEF IndInv
  <2> QED
    BY <1>7, <2>1 DEF IndInv, TypeOK, ReadManifest, PcStates, Goto, gciVars, storeVars, objVars, gcVars
<1>8. ASSUME NEW u \in Requests, LockManifest(u) PROVE TypeOK'
  BY <1>8, ConstAssumption DEF TypeOK, LockManifest, IndInv, SetTask, Goto, TaskStates, PcStates, GcStates, Idx, Rows, Age, vars, gciVars, storeVars, objVars, reqVars, gcVars
<1>9. ASSUME NEW u \in Requests, CommitManifest(u) PROVE TypeOK'
  <2> USE <1>9 DEF CommitManifest
  <2>1. Key(u) \in Objects /\ Indices(u) \subseteq Idx
    BY JobFacts DEF IndInv
  <2> DEFINE A == IF job[u].op = "copy" THEN {<<u, i>> : i \in Indices(u)} ELSE {}
  <2>2. seen[u] \in SUBSET LiveRefs /\ A \in SUBSET Rows /\ SwapRefs(A, seen[u])
    BY <2>1 DEF IndInv, SeenInv, LiveRefs, TypeOK, Rows
  <2> HIDE DEF A
  <2>3. /\ refCount' \in [Chunks -> Nat] /\ marked' \subseteq Chunks
        /\ markedAge' \in [Chunks -> Age] /\ accessAge' \in [Chunks -> Age]
    BY <2>2, Swap DEF IndInv
  <2>4. indexed' = indexed /\ rowEnc' = rowEnc
    BY <2>2, Swap DEF IndInv
  <2>5. manifest' \in [Objects -> SUBSET Rows]
    <3>1. \A M \in SUBSET Rows : Installed(u, M) \in SUBSET Rows
      BY <2>1 DEF Installed, Rows
    <3>2. \A o \in Objects, gone \in SUBSET Rows : manifest[o] \ gone \in SUBSET Rows
      BY DEF IndInv, TypeOK
    <3>3. \E M \in SUBSET Rows : manifest' = [manifest EXCEPT ![Key(u)] = M]
      BY <3>1, <3>2, <2>1 DEF IndInv, TypeOK
    <3> QED
      BY <3>3 DEF IndInv, TypeOK
  <2>6. task' \in [Requests -> [Idx -> TaskStates]]
    BY DEF IndInv, TypeOK, TaskStates
  <2>7. /\ head' \in [Objects -> {"none", "plain", "chunked"}]
        /\ headLock' \in [Objects -> Requests \cup {Free}]
        /\ rowLock' \in [Objects -> Requests \cup {Free}]
    BY DEF IndInv, TypeOK, Unlock
  <2>8. pc' \in [Requests -> PcStates] /\ seen' \in [Requests -> SUBSET Rows]
    BY DEF IndInv, TypeOK, Goto, PcStates
  <2>9. cached' \subseteq Chunks
    BY DEF IndInv, TypeOK
  <2> QED
    BY <2>3, <2>4, <2>5, <2>6, <2>7, <2>8, <2>9 DEF IndInv, TypeOK, gcVars
<1>10. ASSUME NEW u \in Requests, UpsertHead(u) PROVE TypeOK'
  BY <1>10 DEF IndInv, TypeOK, UpsertHead, Unlock, PcStates, Goto, gciVars, storeVars, gcVars
<1>11. ASSUME NEW u \in Requests, PeekHead(u) PROVE TypeOK'
  BY <1>11, ConstAssumption DEF TypeOK, PeekHead, IndInv, SetTask, Goto, TaskStates, PcStates, GcStates, Idx, Rows, Age, vars, gciVars, storeVars, objVars, reqVars, gcVars
<1>12. ASSUME NEW u \in Requests, DeleteHead(u) PROVE TypeOK'
  BY <1>12, ConstAssumption DEF TypeOK, DeleteHead, IndInv, SetTask, Goto, TaskStates, PcStates, GcStates, Idx, Rows, Age, vars, gciVars, storeVars, objVars, reqVars, gcVars
<1>13. ASSUME NEW u \in Requests, NEW i \in Idx, NoteDuplicate(u, i) PROVE TypeOK'
  BY <1>13, ConstAssumption DEF TypeOK, NoteDuplicate, IndInv, SetTask, Goto, TaskStates, PcStates, GcStates, Idx, Rows, Age, vars, gciVars, storeVars, objVars, reqVars, gcVars
<1>14. ASSUME NEW u \in Requests, NEW i \in Idx, LookupChunk(u, i) PROVE TypeOK'
  <2> USE <1>14 DEF LookupChunk
  <2>1. Hash(u, i) \in Chunks
    BY JobFacts DEF IndInv, Dispatchable
  <2>2. task' \in [Requests -> [Idx -> TaskStates]]
    BY SetTaskType DEF IndInv, TaskStates
  <2> QED
    BY <2>1, <2>2 DEF IndInv, TypeOK, gciVars, objVars, gcVars
<1>15. ASSUME NEW u \in Requests, NEW i \in Idx, IncrementRef(u, i) PROVE TypeOK'
  <2> USE <1>15 DEF IncrementRef
  <2>1. task' \in [Requests -> [Idx -> TaskStates]]
    BY SetTaskType DEF IndInv, TaskStates
  <2>0. Hash(u, i) \in Chunks
    BY JobFacts DEF IndInv, TaskInv
  <2>2. /\ refCount' \in [Chunks -> Nat] /\ marked' \subseteq Chunks
        /\ markedAge' \in [Chunks -> Age] /\ accessAge' \in [Chunks -> Age]
    BY <2>0, TakeRefType DEF IndInv, TypeOK
  <2> QED
    BY <2>1, <2>2 DEF IndInv, TypeOK, Goto, PcStates, objVars, gcVars
<1>16. ASSUME NEW u \in Requests, NEW i \in Idx, StoreLock(u, i) PROVE TypeOK'
  BY <1>16, ConstAssumption DEF TypeOK, StoreLock, IndInv, SetTask, Goto, TaskStates, PcStates, GcStates, Idx, Rows, Age, vars, gciVars, storeVars, objVars, reqVars, gcVars
<1>17. ASSUME NEW u \in Requests, NEW i \in Idx, StorePut(u, i) PROVE TypeOK'
  <2> USE <1>17 DEF StorePut
  <2>1. job[u].enc \in Encodings
    BY JobFacts DEF IndInv
  <2> QED
    BY <2>1 DEF IndInv, TypeOK, SetTask, TaskStates, gciVars, objVars, gcVars
<1>18. ASSUME NEW u \in Requests, NEW i \in Idx, StoreCommit(u, i) PROVE TypeOK'
  <2> USE <1>18 DEF StoreCommit
  <2>1. Hash(u, i) \in Chunks /\ job[u].enc \in Encodings
    BY JobFacts DEF IndInv, TaskInv
  <2>2. task' \in [Requests -> [Idx -> TaskStates]]
    BY SetTaskType DEF IndInv, TaskStates
  <2>3. /\ indexed' \subseteq Chunks /\ rowEnc' \in [Chunks -> Encodings]
        /\ refCount' \in [Chunks -> Nat] /\ marked' \subseteq Chunks
        /\ markedAge' \in [Chunks -> Age] /\ accessAge' \in [Chunks -> Age]
    <3>1. CASE Hash(u, i) \in indexed
      BY <3>1, <2>1, TakeRefType DEF IndInv, TypeOK, InsertChunk
    <3>2. CASE Hash(u, i) \notin indexed
      <4>1. 0 \in Age
        BY ConstAssumption DEF Age
      <4>2. /\ indexed' = indexed \cup {Hash(u, i)} /\ marked' = marked \ {Hash(u, i)}
            /\ refCount' = [refCount EXCEPT ![Hash(u, i)] = 1]
            /\ markedAge' = [markedAge EXCEPT ![Hash(u, i)] = 0]
            /\ accessAge' = [accessAge EXCEPT ![Hash(u, i)] = 0]
            /\ rowEnc' = [rowEnc EXCEPT ![Hash(u, i)] = job[u].enc]
        BY <3>2 DEF InsertChunk
      <4> QED
        BY <2>1, <4>1, <4>2 DEF IndInv, TypeOK
    <3> QED
      BY <3>1, <3>2
  <2> QED
    BY <2>2, <2>3 DEF IndInv, TypeOK, objVars, gcVars
<1>19. ASSUME NEW u \in Requests, NEW i \in Idx, GrantWaiter(u, i) PROVE TypeOK'
  <2> USE <1>19 DEF GrantWaiter
  <2>1. task' \in [Requests -> [Idx -> TaskStates]]
    BY SetTaskType DEF IndInv, TaskStates
  <2>0. Hash(u, i) \in Chunks
    BY JobFacts DEF IndInv, TaskInv
  <2>2. /\ refCount' \in [Chunks -> Nat] /\ marked' \subseteq Chunks
        /\ markedAge' \in [Chunks -> Age] /\ accessAge' \in [Chunks -> Age]
    BY <2>0, TakeRefType DEF IndInv, TypeOK
  <2> QED
    BY <2>1, <2>2 DEF IndInv, TypeOK, Goto, PcStates, objVars, gcVars
<1>20. ASSUME NEW u \in Requests, NEW i \in Idx, Abandon(u, i) PROVE TypeOK'
  BY <1>20, ConstAssumption DEF TypeOK, Abandon, IndInv, SetTask, Goto, TaskStates, PcStates, GcStates, Idx, Rows, Age, vars, gciVars, storeVars, objVars, reqVars, gcVars
<1>21. ASSUME NEW u \in Requests, NEW i \in Idx, Compensate(u, i) PROVE TypeOK'
  <2> USE <1>21 DEF Compensate
  <2>1. /\ refCount' \in [Chunks -> Nat] /\ marked' \subseteq Chunks
        /\ markedAge' \in [Chunks -> Age]
        /\ indexed' = indexed /\ accessAge' \in [Chunks -> Age] /\ rowEnc' = rowEnc
        /\ cached' \subseteq Chunks
    <3>1. CASE SwapRefs({}, {<<u, i>>}) /\ cached' = cached \ {Hash(u, i)}
      <4>1. {<<u, i>>} \in SUBSET LiveRefs /\ {} \in SUBSET Rows
        BY DEF LiveRefs, Rows
      <4> QED
        BY <3>1, <4>1, Swap DEF IndInv, TypeOK
    <3>2. CASE UNCHANGED <<gciVars, cached>>
      BY <3>2 DEF IndInv, TypeOK, gciVars
    <3> QED
      BY <3>1, <3>2
  <2> QED
    BY <2>1 DEF IndInv, TypeOK, SetTask, TaskStates, objVars, gcVars
<1>22. ASSUME NEW g \in Runners, Reconcile(g) PROVE TypeOK'
  <2> USE <1>22 DEF Reconcile
  <2>1. ManifestRows \in SUBSET Rows
    BY DEF IndInv, TypeOK, ManifestRows
  <2>2. \A c \in Chunks : Count(ManifestRows, c) \in Nat
    BY <2>1, RowsFinite
  <2> QED
    BY <2>2, ConstAssumption DEF IndInv, TypeOK, GcStates, Age, storeVars, objVars, reqVars
<1>23. ASSUME NEW g \in Runners, SweepScan(g) PROVE TypeOK'
  BY <1>23, ConstAssumption DEF TypeOK, SweepScan, IndInv, SetTask, Goto, TaskStates, PcStates, GcStates, Idx, Rows, Age, vars, gciVars, storeVars, objVars, reqVars, gcVars
<1>24. ASSUME NEW g \in Runners, SweepRow(g) PROVE TypeOK'
  <2> USE <1>24 DEF SweepRow
  <2>1. cur[g] \in Chunks /\ 0 \in Age
    BY ConstAssumption DEF IndInv, LockInv, Sweeping, Age
  <2>2. CASE Sweepable(cur[g])
    <3>1. /\ indexed' = indexed \ {cur[g]} /\ marked' = marked \ {cur[g]}
          /\ markedAge' = [markedAge EXCEPT ![cur[g]] = 0]
          /\ accessAge' = [accessAge EXCEPT ![cur[g]] = 0]
          /\ gcPc' = [gcPc EXCEPT ![g] = "blob"] /\ lock' = lock /\ cur' = cur
      BY <2>2
    <3>2. /\ markedAge' \in [Chunks -> Age] /\ accessAge' \in [Chunks -> Age]
          /\ indexed' \subseteq Chunks /\ marked' \subseteq Chunks
          /\ gcPc' \in [Runners -> GcStates]
      BY <3>1, <2>1 DEF IndInv, TypeOK, GcStates
    <3> QED
      BY <3>1, <3>2 DEF IndInv, TypeOK, objVars, reqVars
  <2>3. CASE ~Sweepable(cur[g])
    <3>1. /\ cur' = [cur EXCEPT ![g] = None] /\ gcPc' = [gcPc EXCEPT ![g] = "sweep"]
          /\ UNCHANGED <<indexed, marked, markedAge, accessAge>>
          /\ \E h \in {Free, Pooled} : lock' = [lock EXCEPT ![cur[g]] = h]
      BY <2>3 DEF UnlockChunk
    <3>2. /\ cur' \in [Runners -> Chunks \cup {None}] /\ gcPc' \in [Runners -> GcStates]
          /\ lock' \in [Chunks -> Requests \cup Runners \cup {Free, Pooled}]
      BY <2>1, <3>1 DEF IndInv, TypeOK, GcStates
    <3> QED
      BY <3>1, <3>2 DEF IndInv, TypeOK, objVars, reqVars
  <2> QED
    BY <2>2, <2>3
<1>25. ASSUME NEW g \in Runners, SweepBlob(g) PROVE TypeOK'
  <2> USE <1>25 DEF SweepBlob
  <2>1. lock' \in [Chunks -> Requests \cup Runners \cup {Free, Pooled}]
    BY DEF IndInv, TypeOK, UnlockChunk
  <2>2. /\ gcPc' \in [Runners -> GcStates] /\ cur' \in [Runners -> Chunks \cup {None}]
        /\ blob' \in [Chunks -> Encodings \cup {NoBlob}] /\ cached' \subseteq Chunks
    BY DEF IndInv, TypeOK, GcStates
  <2> QED
    BY <2>1, <2>2 DEF IndInv, TypeOK, gciVars, objVars, reqVars
<1>26. ASSUME NEW g \in Runners, SweepDone(g) PROVE TypeOK'
  BY <1>26, ConstAssumption DEF TypeOK, SweepDone, IndInv, SetTask, Goto, TaskStates, PcStates, GcStates, Idx, Rows, Age, vars, gciVars, storeVars, objVars, reqVars, gcVars
<1>27. ASSUME NEW g \in Runners, NEW c \in Chunks, SweepLock(g, c) PROVE TypeOK'
  BY <1>27, ConstAssumption DEF TypeOK, SweepLock, IndInv, SetTask, Goto, TaskStates, PcStates, GcStates, Idx, Rows, Age, vars, gciVars, storeVars, objVars, reqVars, gcVars
<1>28. ASSUME NEW c \in Chunks, LoadRow(c) PROVE TypeOK'
  BY <1>28, ConstAssumption DEF TypeOK, LoadRow, IndInv, SetTask, Goto, TaskStates, PcStates, GcStates, Idx, Rows, Age, vars, gciVars, storeVars, objVars, reqVars, gcVars
<1>29. ASSUME NEW c \in Chunks, CacheSet(c) PROVE TypeOK'
  BY <1>29, ConstAssumption DEF TypeOK, CacheSet, IndInv, SetTask, Goto, TaskStates, PcStates, GcStates, Idx, Rows, Age, vars, gciVars, storeVars, objVars, reqVars, gcVars
<1>30. ASSUME NEW c \in Chunks, CacheEvict(c) PROVE TypeOK'
  BY <1>30, ConstAssumption DEF TypeOK, CacheEvict, IndInv, SetTask, Goto, TaskStates, PcStates, GcStates, Idx, Rows, Age, vars, gciVars, storeVars, objVars, reqVars, gcVars
<1>31. ASSUME NEW c \in Chunks, RecycleConn(c) PROVE TypeOK'
  BY <1>31, ConstAssumption DEF TypeOK, RecycleConn, IndInv, SetTask, Goto, TaskStates, PcStates, GcStates, Idx, Rows, Age, vars, gciVars, storeVars, objVars, reqVars, gcVars
<1>32. ASSUME Tick PROVE TypeOK'
  <2>1. \A a \in Age : Older(a) \in Age
    BY ConstAssumption DEF Older, Age
  <2>2. markedAge' \in [Chunks -> Age] /\ accessAge' \in [Chunks -> Age]
    BY <1>32, <2>1 DEF Tick, IndInv, TypeOK
  <2>3. UNCHANGED <<indexed, refCount, marked, rowEnc, storeVars, objVars, reqVars, gcVars, crashes>>
    BY <1>32 DEF Tick
  <2> QED
    BY <2>2, <2>3 DEF IndInv, TypeOK, storeVars, objVars, reqVars, gcVars
<1>33. ASSUME NEW u \in Requests, Fail(u) PROVE TypeOK'
  BY <1>33, ConstAssumption DEF TypeOK, Fail, IndInv, SetTask, Goto, TaskStates, PcStates, GcStates, Idx, Rows, Age, vars, gciVars, storeVars, objVars, reqVars, gcVars
<1>34. ASSUME NEW u \in Requests, TxFail(u) PROVE TypeOK'
  BY <1>34, ConstAssumption DEF TypeOK, TxFail, IndInv, SetTask, Goto, TaskStates, PcStates, GcStates, Idx, Rows, Age, Unlock, vars, gciVars, storeVars, objVars, reqVars, gcVars
<1>35. ASSUME NEW u \in Requests, NEW i \in Idx, StoreFail(u, i) PROVE TypeOK'
  BY <1>35, ConstAssumption DEF TypeOK, StoreFail, IndInv, SetTask, Goto, TaskStates, PcStates, GcStates, Idx, Rows, Age, vars, gciVars, storeVars, objVars, reqVars, gcVars
<1>36. ASSUME NEW g \in Runners, SweepFail(g) PROVE TypeOK'
  <2> USE <1>36 DEF SweepFail
  <2>1. lock' \in [Chunks -> Requests \cup Runners \cup {Free, Pooled}]
    BY DEF IndInv, TypeOK, UnlockChunk
  <2>2. gcPc' \in [Runners -> GcStates] /\ cand' \in [Runners -> SUBSET Chunks]
        /\ cur' \in [Runners -> Chunks \cup {None}]
    BY DEF IndInv, TypeOK, GcStates
  <2> QED
    BY <2>1, <2>2 DEF IndInv, TypeOK, gciVars, objVars, reqVars
<1>37. ASSUME Crash PROVE TypeOK'
  BY <1>37, ConstAssumption DEF TypeOK, Crash, IndInv, SetTask, Goto, TaskStates, PcStates, GcStates, Idx, Rows, Age, vars, gciVars, storeVars, objVars, reqVars, gcVars
<1>38. CASE UNCHANGED vars
  BY <1>38, ConstAssumption DEF TypeOK, IndInv, SetTask, Goto, TaskStates, PcStates, GcStates, Idx, Rows, Age, vars, gciVars, storeVars, objVars, reqVars, gcVars
<1> QED
  BY <1>1, <1>2, <1>3, <1>4, <1>5, <1>6, <1>7, <1>8, <1>9, <1>10, <1>11, <1>12, <1>13, <1>14, <1>15, <1>16, <1>17, <1>18, <1>19, <1>20, <1>21, <1>22, <1>23, <1>24, <1>25, <1>26, <1>27, <1>28, <1>29, <1>30, <1>31, <1>32, <1>33, <1>34, <1>35, <1>36, <1>37, <1>38 DEF Next, RequestStep, TaskStep, RunnerStep, BackgroundStep, Failures

\* Every step keeps the dispatcher sequential and its stores apart.
LEMMA TaskStepInv ==
    ASSUME IndInv, [Next]_vars
    PROVE  TaskInv'
<1>1. ASSUME NEW u \in Requests, Begin(u) PROVE TaskInv'
  <2>1. job' = job /\ body' = body /\ task' = task
    BY <1>1 DEF Begin
  <2>2. ASSUME NEW v \in Requests, job[v].op = "put", pc'[v] \in TxStates
        PROVE  \A j \in Indices(v) : task[v][j] = "ref"
    <3>1. CASE v = u
      BY <1>1, <2>2, <3>1, JobFacts DEF Begin, IndInv, TypeOK, TaskInv, TxStates, Goto, Ops
    <3>2. CASE v # u
      BY <1>1, <2>2, <3>2 DEF Begin, IndInv, TypeOK, TaskInv, Goto
    <3> QED
      BY <3>1, <3>2
  <2>3. ASSUME NEW v \in Requests, pc'[v] \in {"idle", "peekSrc", "readSrc"}
        PROVE  /\ \A j \in Idx : task[v][j] = "new"
               /\ pc'[v] # "idle" => job[v].op = "copy"
    <3>1. CASE v = u
      BY <1>1, <2>3, <3>1, JobFacts DEF Begin, IndInv, TypeOK, TaskInv, Goto, Ops
    <3>2. CASE v # u
      BY <1>1, <2>3, <3>2 DEF Begin, IndInv, TypeOK, TaskInv, Goto
    <3> QED
      BY <3>1, <3>2
  <2>4. ASSUME NEW v \in Requests, pc'[v] = "peek"
        PROVE  job[v].op = "delete"
    <3>1. CASE v = u
      BY <1>1, <2>4, <3>1, JobFacts DEF Begin, IndInv, TypeOK, TaskInv, Goto, Ops
    <3>2. CASE v # u
      BY <1>1, <2>4, <3>2 DEF Begin, IndInv, TypeOK, TaskInv, Goto
    <3> QED
      BY <3>1, <3>2
  <2> QED
    BY <2>1, <2>2, <2>3, <2>4 DEF IndInv, TaskInv, Hash, Indices
<1>2. ASSUME NEW u \in Requests, Join(u) PROVE TaskInv'
  <2>1. job' = job /\ body' = body /\ task' = task
    BY <1>2 DEF Join
  <2>2. ASSUME NEW v \in Requests, job[v].op = "put", pc'[v] \in TxStates
        PROVE  \A j \in Indices(v) : task[v][j] = "ref"
    <3>1. CASE v = u
      BY <1>2, <2>2, <3>1 DEF Join, IndInv, TypeOK, TaskInv, TxStates, Goto
    <3>2. CASE v # u
      BY <1>2, <2>2, <3>2 DEF Join, IndInv, TypeOK, TaskInv, Goto
    <3> QED
      BY <3>1, <3>2
  <2>3. ASSUME NEW v \in Requests, pc'[v] \in {"idle", "peekSrc", "readSrc"}
        PROVE  /\ \A j \in Idx : task[v][j] = "new"
               /\ pc'[v] # "idle" => job[v].op = "copy"
    <3>1. CASE v = u
      BY <1>2, <2>3, <3>1 DEF Join, IndInv, TypeOK, TaskInv, Goto
    <3>2. CASE v # u
      BY <1>2, <2>3, <3>2 DEF Join, IndInv, TypeOK, TaskInv, Goto
    <3> QED
      BY <3>1, <3>2
  <2>4. ASSUME NEW v \in Requests, pc'[v] = "peek"
        PROVE  job[v].op = "delete"
    <3>1. CASE v = u
      BY <1>2, <2>4, <3>1 DEF Join, IndInv, TypeOK, TaskInv, Goto
    <3>2. CASE v # u
      BY <1>2, <2>4, <3>2 DEF Join, IndInv, TypeOK, TaskInv, Goto
    <3> QED
      BY <3>1, <3>2
  <2> QED
    BY <2>1, <2>2, <2>3, <2>4 DEF IndInv, TaskInv, Hash, Indices
<1>3. ASSUME NEW u \in Requests, AbortDone(u) PROVE TaskInv'
  BY <1>3, ConstAssumption DEF TaskInv, AbortDone, IndInv, TypeOK, SetTask, Goto, Hash, Indices, TxStates, Idx, Key, vars, gciVars, storeVars, objVars, reqVars, gcVars
<1>4. ASSUME NEW u \in Requests, PeekSource(u) PROVE TaskInv'
  <2>1. job' = job /\ body' = body /\ task' = task
    BY <1>4 DEF PeekSource
  <2>2. ASSUME NEW v \in Requests, job[v].op = "put", pc'[v] \in TxStates
        PROVE  \A j \in Indices(v) : task[v][j] = "ref"
    <3>1. CASE v = u
      BY <1>4, <2>2, <3>1 DEF PeekSource, IndInv, TypeOK, TaskInv, TxStates, Goto
    <3>2. CASE v # u
      BY <1>4, <2>2, <3>2 DEF PeekSource, IndInv, TypeOK, TaskInv, Goto
    <3> QED
      BY <3>1, <3>2
  <2>3. ASSUME NEW v \in Requests, pc'[v] \in {"idle", "peekSrc", "readSrc"}
        PROVE  /\ \A j \in Idx : task[v][j] = "new"
               /\ pc'[v] # "idle" => job[v].op = "copy"
    <3>1. CASE v = u
      BY <1>4, <2>3, <3>1 DEF PeekSource, IndInv, TypeOK, TaskInv, Goto
    <3>2. CASE v # u
      BY <1>4, <2>3, <3>2 DEF PeekSource, IndInv, TypeOK, TaskInv, Goto
    <3> QED
      BY <3>1, <3>2
  <2>4. ASSUME NEW v \in Requests, pc'[v] = "peek"
        PROVE  job[v].op = "delete"
    <3>1. CASE v = u
      BY <1>4, <2>4, <3>1 DEF PeekSource, IndInv, TypeOK, TaskInv, Goto
    <3>2. CASE v # u
      BY <1>4, <2>4, <3>2 DEF PeekSource, IndInv, TypeOK, TaskInv, Goto
    <3> QED
      BY <3>1, <3>2
  <2> QED
    BY <2>1, <2>2, <2>3, <2>4 DEF IndInv, TaskInv, Hash, Indices
<1>5. ASSUME NEW u \in Requests, ReadSource(u) PROVE TaskInv'
  <2>1. job' = job /\ task' = task /\ \A v \in Requests \ {u} : body'[v] = body[v]
    BY <1>5 DEF ReadSource, IndInv, TypeOK
  <2>2. (\A i \in Idx : task[u][i] = "new") /\ job[u].op = "copy" /\ pc'[u] \notin {"idle", "peekSrc", "readSrc", "peek"}
    BY <1>5 DEF ReadSource, IndInv, TypeOK, TaskInv, Goto
  <2>3. \A v \in Requests \ {u} : pc'[v] = pc[v]
    BY <1>5 DEF ReadSource, IndInv, TypeOK, Goto
  <2> QED
    BY <2>1, <2>2, <2>3 DEF IndInv, TaskInv, Hash, Indices
<1>6. ASSUME NEW u \in Requests, LockHead(u) PROVE TaskInv'
  BY <1>6, ConstAssumption DEF TaskInv, LockHead, IndInv, TypeOK, SetTask, Goto, Hash, Indices, TxStates, Idx, Key, vars, gciVars, storeVars, objVars, reqVars, gcVars
<1>7. ASSUME NEW u \in Requests, ReadManifest(u) PROVE TaskInv'
  BY <1>7, ConstAssumption DEF TaskInv, ReadManifest, IndInv, TypeOK, SetTask, Goto, Hash, Indices, TxStates, Idx, Key, vars, gciVars, storeVars, objVars, reqVars, gcVars
<1>8. ASSUME NEW u \in Requests, LockManifest(u) PROVE TaskInv'
  BY <1>8, ConstAssumption DEF TaskInv, LockManifest, IndInv, TypeOK, SetTask, Goto, Hash, Indices, TxStates, Idx, Key, vars, gciVars, storeVars, objVars, reqVars, gcVars
<1>9. ASSUME NEW u \in Requests, CommitManifest(u) PROVE TaskInv'
  <2>1. job' = job /\ body' = body /\ Indices(u) \subseteq Idx
    BY <1>9, JobFacts DEF CommitManifest, IndInv
  <2>2. \A v \in Requests, i \in Idx :
           IF v = u /\ i \in Indices(u) THEN task'[v][i] = "owned" ELSE task'[v][i] = task[v][i]
    BY <1>9 DEF CommitManifest, IndInv, TypeOK
  <2>3. pc'[u] \in {"unhead", "done"} /\ \A v \in Requests \ {u} : pc'[v] = pc[v]
    BY <1>9 DEF CommitManifest, Goto, IndInv, TypeOK
  <2> QED
    BY <2>1, <2>2, <2>3 DEF IndInv, TaskInv, Hash, Indices, TxStates
<1>10. ASSUME NEW u \in Requests, UpsertHead(u) PROVE TaskInv'
  BY <1>10, ConstAssumption DEF TaskInv, UpsertHead, IndInv, TypeOK, SetTask, Goto, Hash, Indices, TxStates, Idx, Key, vars, gciVars, storeVars, objVars, reqVars, gcVars
<1>11. ASSUME NEW u \in Requests, PeekHead(u) PROVE TaskInv'
  <2>1. job' = job /\ body' = body /\ task' = task
    BY <1>11 DEF PeekHead
  <2>2. ASSUME NEW v \in Requests, job[v].op = "put", pc'[v] \in TxStates
        PROVE  \A j \in Indices(v) : task[v][j] = "ref"
    <3>1. CASE v = u
      BY <1>11, <2>2, <3>1 DEF PeekHead, IndInv, TypeOK, TaskInv, TxStates, Goto
    <3>2. CASE v # u
      BY <1>11, <2>2, <3>2 DEF PeekHead, IndInv, TypeOK, TaskInv, Goto
    <3> QED
      BY <3>1, <3>2
  <2>3. ASSUME NEW v \in Requests, pc'[v] \in {"idle", "peekSrc", "readSrc"}
        PROVE  /\ \A j \in Idx : task[v][j] = "new"
               /\ pc'[v] # "idle" => job[v].op = "copy"
    <3>1. CASE v = u
      BY <1>11, <2>3, <3>1 DEF PeekHead, IndInv, TypeOK, TaskInv, Goto
    <3>2. CASE v # u
      BY <1>11, <2>3, <3>2 DEF PeekHead, IndInv, TypeOK, TaskInv, Goto
    <3> QED
      BY <3>1, <3>2
  <2>4. ASSUME NEW v \in Requests, pc'[v] = "peek"
        PROVE  job[v].op = "delete"
    <3>1. CASE v = u
      BY <1>11, <2>4, <3>1 DEF PeekHead, IndInv, TypeOK, TaskInv, Goto
    <3>2. CASE v # u
      BY <1>11, <2>4, <3>2 DEF PeekHead, IndInv, TypeOK, TaskInv, Goto
    <3> QED
      BY <3>1, <3>2
  <2> QED
    BY <2>1, <2>2, <2>3, <2>4 DEF IndInv, TaskInv, Hash, Indices
<1>12. ASSUME NEW u \in Requests, DeleteHead(u) PROVE TaskInv'
  BY <1>12, ConstAssumption DEF TaskInv, DeleteHead, IndInv, TypeOK, SetTask, Goto, Hash, Indices, TxStates, Idx, Key, vars, gciVars, storeVars, objVars, reqVars, gcVars
<1>13. ASSUME NEW u \in Requests, NEW i \in Idx, NoteDuplicate(u, i) PROVE TaskInv'
  BY <1>13, ConstAssumption DEF TaskInv, NoteDuplicate, IndInv, TypeOK, SetTask, Goto, Hash, Indices, TxStates, Idx, Key, Dispatchable, InFlight, vars, gciVars, storeVars, objVars, reqVars, gcVars
<1>14. ASSUME NEW u \in Requests, NEW i \in Idx, LookupChunk(u, i) PROVE TaskInv'
  <2>1. CASE SetTask(u, i, "hit")
    BY <1>14, <2>1, ConstAssumption DEF LookupChunk, Dispatchable, InFlight, TaskInv, IndInv, TypeOK, SetTask, Goto, Hash, Indices, TxStates, Idx
  <2>2. CASE SetTask(u, i, "store")
    BY <1>14, <2>2, ConstAssumption DEF LookupChunk, Dispatchable, InFlight, TaskInv, IndInv, TypeOK, SetTask, Goto, Hash, Indices, TxStates, Idx
  <2> QED
    BY <1>14, <2>1, <2>2 DEF LookupChunk
<1>15. ASSUME NEW u \in Requests, NEW i \in Idx, IncrementRef(u, i) PROVE TaskInv'
  <2>1. CASE SetTask(u, i, "ref")
    BY <1>15, <2>1, ConstAssumption DEF IncrementRef, TaskInv, IndInv, TypeOK, SetTask, Goto, Hash, Indices, TxStates, Idx
  <2>2. CASE SetTask(u, i, "store")
    BY <1>15, <2>2, ConstAssumption DEF IncrementRef, TaskInv, IndInv, TypeOK, SetTask, Goto, Hash, Indices, TxStates, Idx
  <2> QED
    BY <1>15, <2>1, <2>2 DEF IncrementRef
<1>16. ASSUME NEW u \in Requests, NEW i \in Idx, StoreLock(u, i) PROVE TaskInv'
  BY <1>16, ConstAssumption DEF TaskInv, StoreLock, IndInv, TypeOK, SetTask, Goto, Hash, Indices, TxStates, Idx, Key, vars, gciVars, storeVars, objVars, reqVars, gcVars
<1>17. ASSUME NEW u \in Requests, NEW i \in Idx, StorePut(u, i) PROVE TaskInv'
  BY <1>17, ConstAssumption DEF TaskInv, StorePut, IndInv, TypeOK, SetTask, Goto, Hash, Indices, TxStates, Idx, Key, vars, gciVars, storeVars, objVars, reqVars, gcVars
<1>18. ASSUME NEW u \in Requests, NEW i \in Idx, StoreCommit(u, i) PROVE TaskInv'
  BY <1>18, ConstAssumption DEF TaskInv, StoreCommit, IndInv, TypeOK, SetTask, Goto, Hash, Indices, TxStates, Idx, Key, vars, gciVars, storeVars, objVars, reqVars, gcVars
<1>19. ASSUME NEW u \in Requests, NEW i \in Idx, GrantWaiter(u, i) PROVE TaskInv'
  <2>1. CASE SetTask(u, i, "ref") /\ UNCHANGED pc
    BY <1>19, <2>1, ConstAssumption DEF GrantWaiter, TaskInv, IndInv, TypeOK, SetTask, Goto, Hash, Indices, TxStates, Idx
  <2>2. CASE SetTask(u, i, "dead") /\ Goto(u, "failing")
    BY <1>19, <2>2, ConstAssumption DEF GrantWaiter, TaskInv, IndInv, TypeOK, SetTask, Goto, Hash, Indices, TxStates, Idx
  <2> QED
    BY <1>19, <2>1, <2>2 DEF GrantWaiter
<1>20. ASSUME NEW u \in Requests, NEW i \in Idx, Abandon(u, i) PROVE TaskInv'
  BY <1>20, ConstAssumption DEF TaskInv, Abandon, IndInv, TypeOK, SetTask, Goto, Hash, Indices, TxStates, Idx, Key, vars, gciVars, storeVars, objVars, reqVars, gcVars
<1>21. ASSUME NEW u \in Requests, NEW i \in Idx, Compensate(u, i) PROVE TaskInv'
  BY <1>21, ConstAssumption DEF TaskInv, Compensate, IndInv, TypeOK, SetTask, Goto, Hash, Indices, TxStates, Idx, Key, vars, gciVars, storeVars, objVars, reqVars, gcVars
<1>22. ASSUME NEW g \in Runners, Reconcile(g) PROVE TaskInv'
  BY <1>22, ConstAssumption DEF TaskInv, Reconcile, IndInv, TypeOK, SetTask, Goto, Hash, Indices, TxStates, Idx, Key, vars, gciVars, storeVars, objVars, reqVars, gcVars
<1>23. ASSUME NEW g \in Runners, SweepScan(g) PROVE TaskInv'
  BY <1>23, ConstAssumption DEF TaskInv, SweepScan, IndInv, TypeOK, SetTask, Goto, Hash, Indices, TxStates, Idx, Key, vars, gciVars, storeVars, objVars, reqVars, gcVars
<1>24. ASSUME NEW g \in Runners, SweepRow(g) PROVE TaskInv'
  BY <1>24, ConstAssumption DEF TaskInv, SweepRow, IndInv, TypeOK, SetTask, Goto, Hash, Indices, TxStates, Idx, Key, vars, gciVars, storeVars, objVars, reqVars, gcVars
<1>25. ASSUME NEW g \in Runners, SweepBlob(g) PROVE TaskInv'
  BY <1>25, ConstAssumption DEF TaskInv, SweepBlob, IndInv, TypeOK, SetTask, Goto, Hash, Indices, TxStates, Idx, Key, vars, gciVars, storeVars, objVars, reqVars, gcVars
<1>26. ASSUME NEW g \in Runners, SweepDone(g) PROVE TaskInv'
  BY <1>26, ConstAssumption DEF TaskInv, SweepDone, IndInv, TypeOK, SetTask, Goto, Hash, Indices, TxStates, Idx, Key, vars, gciVars, storeVars, objVars, reqVars, gcVars
<1>27. ASSUME NEW g \in Runners, NEW c \in Chunks, SweepLock(g, c) PROVE TaskInv'
  BY <1>27, ConstAssumption DEF TaskInv, SweepLock, IndInv, TypeOK, SetTask, Goto, Hash, Indices, TxStates, Idx, Key, vars, gciVars, storeVars, objVars, reqVars, gcVars
<1>28. ASSUME NEW c \in Chunks, LoadRow(c) PROVE TaskInv'
  BY <1>28, ConstAssumption DEF TaskInv, LoadRow, IndInv, TypeOK, SetTask, Goto, Hash, Indices, TxStates, Idx, Key, vars, gciVars, storeVars, objVars, reqVars, gcVars
<1>29. ASSUME NEW c \in Chunks, CacheSet(c) PROVE TaskInv'
  BY <1>29, ConstAssumption DEF TaskInv, CacheSet, IndInv, TypeOK, SetTask, Goto, Hash, Indices, TxStates, Idx, Key, vars, gciVars, storeVars, objVars, reqVars, gcVars
<1>30. ASSUME NEW c \in Chunks, CacheEvict(c) PROVE TaskInv'
  BY <1>30, ConstAssumption DEF TaskInv, CacheEvict, IndInv, TypeOK, SetTask, Goto, Hash, Indices, TxStates, Idx, Key, vars, gciVars, storeVars, objVars, reqVars, gcVars
<1>31. ASSUME NEW c \in Chunks, RecycleConn(c) PROVE TaskInv'
  BY <1>31, ConstAssumption DEF TaskInv, RecycleConn, IndInv, TypeOK, SetTask, Goto, Hash, Indices, TxStates, Idx, Key, vars, gciVars, storeVars, objVars, reqVars, gcVars
<1>32. ASSUME Tick PROVE TaskInv'
  BY <1>32, ConstAssumption DEF TaskInv, Tick, IndInv, TypeOK, SetTask, Goto, Hash, Indices, TxStates, Idx, Key, vars, gciVars, storeVars, objVars, reqVars, gcVars
<1>33. ASSUME NEW u \in Requests, Fail(u) PROVE TaskInv'
  BY <1>33, ConstAssumption DEF TaskInv, Fail, IndInv, TypeOK, SetTask, Goto, Hash, Indices, TxStates, Idx, Key, vars, gciVars, storeVars, objVars, reqVars, gcVars
<1>34. ASSUME NEW u \in Requests, TxFail(u) PROVE TaskInv'
  BY <1>34, ConstAssumption DEF TaskInv, TxFail, IndInv, TypeOK, SetTask, Goto, Hash, Indices, TxStates, Idx, Key, vars, gciVars, storeVars, objVars, reqVars, gcVars
<1>35. ASSUME NEW u \in Requests, NEW i \in Idx, StoreFail(u, i) PROVE TaskInv'
  BY <1>35, ConstAssumption DEF TaskInv, StoreFail, IndInv, TypeOK, SetTask, Goto, Hash, Indices, TxStates, Idx, Key, vars, gciVars, storeVars, objVars, reqVars, gcVars
<1>36. ASSUME NEW g \in Runners, SweepFail(g) PROVE TaskInv'
  BY <1>36, ConstAssumption DEF TaskInv, SweepFail, IndInv, TypeOK, SetTask, Goto, Hash, Indices, TxStates, Idx, Key, vars, gciVars, storeVars, objVars, reqVars, gcVars
<1>37. ASSUME Crash PROVE TaskInv'
  BY <1>37, ConstAssumption DEF TaskInv, Crash, IndInv, TypeOK, SetTask, Goto, Hash, Indices, TxStates, Idx, Key, vars, gciVars, storeVars, objVars, reqVars, gcVars
<1>38. CASE UNCHANGED vars
  BY <1>38, ConstAssumption DEF TaskInv, IndInv, TypeOK, SetTask, Goto, Hash, Indices, TxStates, Idx, Key, vars, gciVars, storeVars, objVars, reqVars, gcVars
<1> QED
  BY <1>1, <1>2, <1>3, <1>4, <1>5, <1>6, <1>7, <1>8, <1>9, <1>10, <1>11, <1>12, <1>13, <1>14, <1>15, <1>16, <1>17, <1>18, <1>19, <1>20, <1>21, <1>22, <1>23, <1>24, <1>25, <1>26, <1>27, <1>28, <1>29, <1>30, <1>31, <1>32, <1>33, <1>34, <1>35, <1>36, <1>37, <1>38 DEF Next, RequestStep, TaskStep, RunnerStep, BackgroundStep, Failures

\* Every step keeps manifest rows with the key and the upload that own them.
LEMMA RowStepInv ==
    ASSUME IndInv, [Next]_vars
    PROVE  RowInv'
<1>1. ASSUME NEW u \in Requests, Begin(u) PROVE RowInv'
  BY <1>1, ConstAssumption DEF RowInv, Begin, IndInv, TypeOK, Rows, SetTask, Key, vars, gciVars, storeVars, objVars, reqVars, gcVars
<1>2. ASSUME NEW u \in Requests, Join(u) PROVE RowInv'
  BY <1>2, ConstAssumption DEF RowInv, Join, IndInv, TypeOK, Rows, SetTask, Key, vars, gciVars, storeVars, objVars, reqVars, gcVars
<1>3. ASSUME NEW u \in Requests, AbortDone(u) PROVE RowInv'
  BY <1>3, ConstAssumption DEF RowInv, AbortDone, IndInv, TypeOK, Rows, SetTask, Key, vars, gciVars, storeVars, objVars, reqVars, gcVars
<1>4. ASSUME NEW u \in Requests, PeekSource(u) PROVE RowInv'
  BY <1>4, ConstAssumption DEF RowInv, PeekSource, IndInv, TypeOK, Rows, SetTask, Key, vars, gciVars, storeVars, objVars, reqVars, gcVars
<1>5. ASSUME NEW u \in Requests, ReadSource(u) PROVE RowInv'
  BY <1>5, ConstAssumption DEF RowInv, ReadSource, IndInv, TypeOK, Rows, SetTask, Key, vars, gciVars, storeVars, objVars, reqVars, gcVars
<1>6. ASSUME NEW u \in Requests, LockHead(u) PROVE RowInv'
  BY <1>6, ConstAssumption DEF RowInv, LockHead, IndInv, TypeOK, Rows, SetTask, Key, vars, gciVars, storeVars, objVars, reqVars, gcVars
<1>7. ASSUME NEW u \in Requests, ReadManifest(u) PROVE RowInv'
  BY <1>7, ConstAssumption DEF RowInv, ReadManifest, IndInv, TypeOK, Rows, SetTask, Key, vars, gciVars, storeVars, objVars, reqVars, gcVars
<1>8. ASSUME NEW u \in Requests, LockManifest(u) PROVE RowInv'
  BY <1>8, ConstAssumption DEF RowInv, LockManifest, IndInv, TypeOK, Rows, SetTask, Key, vars, gciVars, storeVars, objVars, reqVars, gcVars
<1>9. ASSUME NEW u \in Requests, CommitManifest(u) PROVE RowInv'
  <2> USE <1>9 DEF CommitManifest
  <2>1. /\ job' = job /\ body' = body /\ Key(u) \in Objects /\ Indices(u) \subseteq Idx
    BY JobFacts DEF IndInv
  <2>2. \A v \in Requests, i \in Idx : task'[v][i] =
            IF v = u /\ i \in Indices(u) THEN "owned" ELSE task[v][i]
    BY DEF IndInv, TypeOK
  <2>3. ASSUME NEW o \in Objects, NEW r \in manifest'[o]
        PROVE  r \in manifest[o] \/ (o = Key(u) /\ r \in {u} \X Indices(u))
    BY <2>1 DEF IndInv, TypeOK, Installed
  <2>4. ASSUME NEW o \in Objects, NEW r \in manifest'[o]
        PROVE  task'[r[1]][r[2]] = "owned" /\ Key(r[1]) = o
    <3>1. CASE r \in manifest[o]
      <4>1. r \in Rows /\ task[r[1]][r[2]] = "owned" /\ Key(r[1]) = o
        BY <3>1 DEF IndInv, TypeOK, RowInv
      <4> QED
        BY <4>1, <2>2 DEF Rows
    <3>2. CASE o = Key(u) /\ r \in {u} \X Indices(u)
      BY <3>2, <2>1, <2>2
    <3> QED
      BY <3>1, <3>2, <2>3, <2>4
  <2> HIDE <1>9 DEF CommitManifest
  <2> QED
    BY <2>1, <2>4 DEF RowInv, Key
<1>10. ASSUME NEW u \in Requests, UpsertHead(u) PROVE RowInv'
  BY <1>10, ConstAssumption DEF RowInv, UpsertHead, IndInv, TypeOK, Rows, SetTask, Key, vars, gciVars, storeVars, objVars, reqVars, gcVars
<1>11. ASSUME NEW u \in Requests, PeekHead(u) PROVE RowInv'
  BY <1>11, ConstAssumption DEF RowInv, PeekHead, IndInv, TypeOK, Rows, SetTask, Key, vars, gciVars, storeVars, objVars, reqVars, gcVars
<1>12. ASSUME NEW u \in Requests, DeleteHead(u) PROVE RowInv'
  BY <1>12, ConstAssumption DEF RowInv, DeleteHead, IndInv, TypeOK, Rows, SetTask, Key, vars, gciVars, storeVars, objVars, reqVars, gcVars
<1>13. ASSUME NEW u \in Requests, NEW i \in Idx, NoteDuplicate(u, i) PROVE RowInv'
  BY <1>13, ConstAssumption DEF RowInv, NoteDuplicate, IndInv, TypeOK, Rows, SetTask, Key, Dispatchable, vars, gciVars, storeVars, objVars, reqVars, gcVars
<1>14. ASSUME NEW u \in Requests, NEW i \in Idx, LookupChunk(u, i) PROVE RowInv'
  <2>1. CASE SetTask(u, i, "hit")
    BY <1>14, <2>1 DEF LookupChunk, SetTask, RowInv, IndInv, TypeOK, Rows, Key, objVars, Dispatchable, gciVars
  <2>2. CASE SetTask(u, i, "store")
    BY <1>14, <2>2 DEF LookupChunk, SetTask, RowInv, IndInv, TypeOK, Rows, Key, objVars, Dispatchable, gciVars
  <2> QED
    BY <1>14, <2>1, <2>2 DEF LookupChunk
<1>15. ASSUME NEW u \in Requests, NEW i \in Idx, IncrementRef(u, i) PROVE RowInv'
  <2>1. CASE SetTask(u, i, "ref")
    BY <1>15, <2>1 DEF IncrementRef, SetTask, RowInv, IndInv, TypeOK, Rows, Key, objVars
  <2>2. CASE SetTask(u, i, "store")
    BY <1>15, <2>2 DEF IncrementRef, SetTask, RowInv, IndInv, TypeOK, Rows, Key, objVars
  <2> QED
    BY <1>15, <2>1, <2>2 DEF IncrementRef
<1>16. ASSUME NEW u \in Requests, NEW i \in Idx, StoreLock(u, i) PROVE RowInv'
  BY <1>16, ConstAssumption DEF RowInv, StoreLock, IndInv, TypeOK, Rows, SetTask, Key, vars, gciVars, storeVars, objVars, reqVars, gcVars
<1>17. ASSUME NEW u \in Requests, NEW i \in Idx, StorePut(u, i) PROVE RowInv'
  BY <1>17, ConstAssumption DEF RowInv, StorePut, IndInv, TypeOK, Rows, SetTask, Key, vars, gciVars, storeVars, objVars, reqVars, gcVars
<1>18. ASSUME NEW u \in Requests, NEW i \in Idx, StoreCommit(u, i) PROVE RowInv'
  BY <1>18, ConstAssumption DEF RowInv, StoreCommit, IndInv, TypeOK, Rows, SetTask, Key, vars, gciVars, storeVars, objVars, reqVars, gcVars
<1>19. ASSUME NEW u \in Requests, NEW i \in Idx, GrantWaiter(u, i) PROVE RowInv'
  <2>1. CASE SetTask(u, i, "ref")
    BY <1>19, <2>1 DEF GrantWaiter, SetTask, RowInv, IndInv, TypeOK, Rows, Key, objVars
  <2>2. CASE SetTask(u, i, "dead")
    BY <1>19, <2>2 DEF GrantWaiter, SetTask, RowInv, IndInv, TypeOK, Rows, Key, objVars
  <2> QED
    BY <1>19, <2>1, <2>2 DEF GrantWaiter
<1>20. ASSUME NEW u \in Requests, NEW i \in Idx, Abandon(u, i) PROVE RowInv'
  BY <1>20, ConstAssumption DEF RowInv, Abandon, IndInv, TypeOK, Rows, SetTask, Key, vars, gciVars, storeVars, objVars, reqVars, gcVars
<1>21. ASSUME NEW u \in Requests, NEW i \in Idx, Compensate(u, i) PROVE RowInv'
  BY <1>21, ConstAssumption DEF RowInv, Compensate, IndInv, TypeOK, Rows, SetTask, Key, vars, gciVars, storeVars, objVars, reqVars, gcVars
<1>22. ASSUME NEW g \in Runners, Reconcile(g) PROVE RowInv'
  BY <1>22, ConstAssumption DEF RowInv, Reconcile, IndInv, TypeOK, Rows, SetTask, Key, vars, gciVars, storeVars, objVars, reqVars, gcVars
<1>23. ASSUME NEW g \in Runners, SweepScan(g) PROVE RowInv'
  BY <1>23, ConstAssumption DEF RowInv, SweepScan, IndInv, TypeOK, Rows, SetTask, Key, vars, gciVars, storeVars, objVars, reqVars, gcVars
<1>24. ASSUME NEW g \in Runners, SweepRow(g) PROVE RowInv'
  BY <1>24, ConstAssumption DEF RowInv, SweepRow, IndInv, TypeOK, Rows, SetTask, Key, vars, gciVars, storeVars, objVars, reqVars, gcVars
<1>25. ASSUME NEW g \in Runners, SweepBlob(g) PROVE RowInv'
  BY <1>25, ConstAssumption DEF RowInv, SweepBlob, IndInv, TypeOK, Rows, SetTask, Key, vars, gciVars, storeVars, objVars, reqVars, gcVars
<1>26. ASSUME NEW g \in Runners, SweepDone(g) PROVE RowInv'
  BY <1>26, ConstAssumption DEF RowInv, SweepDone, IndInv, TypeOK, Rows, SetTask, Key, vars, gciVars, storeVars, objVars, reqVars, gcVars
<1>27. ASSUME NEW g \in Runners, NEW c \in Chunks, SweepLock(g, c) PROVE RowInv'
  BY <1>27, ConstAssumption DEF RowInv, SweepLock, IndInv, TypeOK, Rows, SetTask, Key, vars, gciVars, storeVars, objVars, reqVars, gcVars
<1>28. ASSUME NEW c \in Chunks, LoadRow(c) PROVE RowInv'
  BY <1>28, ConstAssumption DEF RowInv, LoadRow, IndInv, TypeOK, Rows, SetTask, Key, vars, gciVars, storeVars, objVars, reqVars, gcVars
<1>29. ASSUME NEW c \in Chunks, CacheSet(c) PROVE RowInv'
  BY <1>29, ConstAssumption DEF RowInv, CacheSet, IndInv, TypeOK, Rows, SetTask, Key, vars, gciVars, storeVars, objVars, reqVars, gcVars
<1>30. ASSUME NEW c \in Chunks, CacheEvict(c) PROVE RowInv'
  BY <1>30, ConstAssumption DEF RowInv, CacheEvict, IndInv, TypeOK, Rows, SetTask, Key, vars, gciVars, storeVars, objVars, reqVars, gcVars
<1>31. ASSUME NEW c \in Chunks, RecycleConn(c) PROVE RowInv'
  BY <1>31, ConstAssumption DEF RowInv, RecycleConn, IndInv, TypeOK, Rows, SetTask, Key, vars, gciVars, storeVars, objVars, reqVars, gcVars
<1>32. ASSUME Tick PROVE RowInv'
  BY <1>32, ConstAssumption DEF RowInv, Tick, IndInv, TypeOK, Rows, SetTask, Key, vars, gciVars, storeVars, objVars, reqVars, gcVars
<1>33. ASSUME NEW u \in Requests, Fail(u) PROVE RowInv'
  BY <1>33, ConstAssumption DEF RowInv, Fail, IndInv, TypeOK, Rows, SetTask, Key, vars, gciVars, storeVars, objVars, reqVars, gcVars
<1>34. ASSUME NEW u \in Requests, TxFail(u) PROVE RowInv'
  BY <1>34, ConstAssumption DEF RowInv, TxFail, IndInv, TypeOK, Rows, SetTask, Key, vars, gciVars, storeVars, objVars, reqVars, gcVars
<1>35. ASSUME NEW u \in Requests, NEW i \in Idx, StoreFail(u, i) PROVE RowInv'
  BY <1>35, ConstAssumption DEF RowInv, StoreFail, IndInv, TypeOK, Rows, SetTask, Key, vars, gciVars, storeVars, objVars, reqVars, gcVars
<1>36. ASSUME NEW g \in Runners, SweepFail(g) PROVE RowInv'
  BY <1>36, ConstAssumption DEF RowInv, SweepFail, IndInv, TypeOK, Rows, SetTask, Key, vars, gciVars, storeVars, objVars, reqVars, gcVars
<1>37. ASSUME Crash PROVE RowInv'
  BY <1>37, ConstAssumption DEF RowInv, Crash, IndInv, TypeOK, Rows, SetTask, Key, vars, gciVars, storeVars, objVars, reqVars, gcVars
<1>38. CASE UNCHANGED vars
  BY <1>38, ConstAssumption DEF RowInv, IndInv, TypeOK, Rows, SetTask, Key, vars, gciVars, storeVars, objVars, reqVars, gcVars
<1> QED
  BY <1>1, <1>2, <1>3, <1>4, <1>5, <1>6, <1>7, <1>8, <1>9, <1>10, <1>11, <1>12, <1>13, <1>14, <1>15, <1>16, <1>17, <1>18, <1>19, <1>20, <1>21, <1>22, <1>23, <1>24, <1>25, <1>26, <1>27, <1>28, <1>29, <1>30, <1>31, <1>32, <1>33, <1>34, <1>35, <1>36, <1>37, <1>38 DEF Next, RequestStep, TaskStep, RunnerStep, BackgroundStep, Failures

\* Every step keeps what a transaction is about to release in the manifest.
LEMMA SeenStepInv ==
    ASSUME IndInv, [Next]_vars
    PROVE  SeenInv'
<1>1. ASSUME NEW u \in Requests, Begin(u) PROVE SeenInv'
  <2>1. job' = job /\ body' = body /\ manifest' = manifest /\ rowLock' = rowLock /\ seen' = seen
    BY <1>1 DEF Begin, objVars
  <2>2. \A v \in Requests : pc'[v] = "commit" => pc[v] = "commit"
    BY <1>1, JobFacts DEF Begin, IndInv, TypeOK, Goto, Ops
  <2> QED
    BY <2>1, <2>2 DEF IndInv, SeenInv, Key
<1>2. ASSUME NEW u \in Requests, Join(u) PROVE SeenInv'
  <2>1. job' = job /\ body' = body /\ manifest' = manifest /\ rowLock' = rowLock /\ seen' = seen
    BY <1>2 DEF Join, objVars
  <2>2. \A v \in Requests : pc'[v] = "commit" => pc[v] = "commit"
    BY <1>2 DEF Join, IndInv, TypeOK, Goto
  <2> QED
    BY <2>1, <2>2 DEF IndInv, SeenInv, Key
<1>3. ASSUME NEW u \in Requests, AbortDone(u) PROVE SeenInv'
  BY <1>3, ConstAssumption DEF SeenInv, AbortDone, IndInv, TypeOK, Rows, Key, Goto, vars, gciVars, storeVars, objVars, reqVars, gcVars
<1>4. ASSUME NEW u \in Requests, PeekSource(u) PROVE SeenInv'
  <2>1. job' = job /\ body' = body /\ manifest' = manifest /\ rowLock' = rowLock /\ seen' = seen
    BY <1>4 DEF PeekSource, objVars
  <2>2. \A v \in Requests : pc'[v] = "commit" => pc[v] = "commit"
    BY <1>4 DEF PeekSource, IndInv, TypeOK, Goto
  <2> QED
    BY <2>1, <2>2 DEF IndInv, SeenInv, Key
<1>5. ASSUME NEW u \in Requests, ReadSource(u) PROVE SeenInv'
  <2>1. job' = job /\ manifest' = manifest /\ rowLock' = rowLock /\ seen' = seen
    BY <1>5 DEF ReadSource, objVars
  <2>2. \A v \in Requests : pc'[v] = "commit" => pc[v] = "commit"
    BY <1>5 DEF ReadSource, IndInv, TypeOK, Goto
  <2> QED
    BY <2>1, <2>2 DEF IndInv, SeenInv, Key
<1>6. ASSUME NEW u \in Requests, LockHead(u) PROVE SeenInv'
  BY <1>6, ConstAssumption DEF SeenInv, LockHead, IndInv, TypeOK, Rows, Key, Goto, vars, gciVars, storeVars, objVars, reqVars, gcVars
<1>7. ASSUME NEW u \in Requests, ReadManifest(u) PROVE SeenInv'
  BY <1>7, ConstAssumption DEF SeenInv, ReadManifest, IndInv, TypeOK, Rows, Key, Goto, vars, gciVars, storeVars, objVars, reqVars, gcVars
<1>8. ASSUME NEW u \in Requests, LockManifest(u) PROVE SeenInv'
  <2> USE <1>8 DEF LockManifest
  <2>1. job' = job /\ body' = body /\ manifest' = manifest /\ Key(u) \in Objects
    BY JobFacts DEF IndInv
  <2>2. ASSUME NEW v \in Requests, pc'[v] = "commit"
        PROVE  seen'[v] \subseteq manifest[Key(v)] /\ (seen'[v] # {} => rowLock'[Key(v)] = v)
    <3>1. CASE v = u
      BY <3>1, <2>1 DEF IndInv, TypeOK
    <3>2. CASE v # u
      <4>1. pc[v] = "commit" /\ seen'[v] = seen[v] /\ Key(v) \in Objects
        BY <2>2, <3>2, JobFacts DEF IndInv, TypeOK, Goto
      <4>2. seen[v] \subseteq manifest[Key(v)] /\ (seen[v] # {} => rowLock[Key(v)] = v)
        BY <4>1 DEF IndInv, SeenInv
      <4>3. seen[v] # {} => rowLock'[Key(v)] = v
        BY <4>2, <4>1, <3>2, ConstAssumption DEF IndInv, TypeOK
      <4> QED
        BY <4>1, <4>2, <4>3
    <3> QED
      BY <3>1, <3>2
  <2> QED
    BY <2>1, <2>2 DEF SeenInv, Key
<1>9. ASSUME NEW u \in Requests, CommitManifest(u) PROVE SeenInv'
  <2> USE <1>9 DEF CommitManifest
  <2>1. job' = job /\ body' = body /\ Key(u) \in Objects
    BY JobFacts DEF IndInv
  <2>2. ASSUME NEW v \in Requests, pc'[v] = "commit"
        PROVE  seen'[v] \subseteq manifest'[Key(v)] /\ (seen'[v] # {} => rowLock'[Key(v)] = v)
    <3>1. v # u /\ pc[v] = "commit" /\ seen'[v] = seen[v] /\ Key(v) \in Objects
      BY <2>2, JobFacts DEF IndInv, TypeOK, Goto
    <3>2. seen[v] \subseteq manifest[Key(v)] /\ (seen[v] # {} => rowLock[Key(v)] = v)
      BY <3>1 DEF IndInv, SeenInv
    <3>3. seen[v] # {} => rowLock'[Key(v)] = v
      BY <3>1, <3>2 DEF Unlock
    <3>4. seen[v] # {} => Key(v) # Key(u)
      BY <3>1, <3>2, ConstAssumption
    <3>5. Key(v) # Key(u) => manifest'[Key(v)] = manifest[Key(v)]
      BY <3>1 DEF IndInv, TypeOK
    <3> QED
      BY <3>1, <3>2, <3>3, <3>4, <3>5
  <2> QED
    BY <2>1, <2>2 DEF SeenInv, Key
<1>10. ASSUME NEW u \in Requests, UpsertHead(u) PROVE SeenInv'
  BY <1>10, ConstAssumption DEF SeenInv, UpsertHead, IndInv, TypeOK, Rows, Key, Goto, vars, gciVars, storeVars, objVars, reqVars, gcVars
<1>11. ASSUME NEW u \in Requests, PeekHead(u) PROVE SeenInv'
  <2>1. job' = job /\ body' = body /\ manifest' = manifest /\ rowLock' = rowLock /\ seen' = seen
    BY <1>11 DEF PeekHead, objVars
  <2>2. \A v \in Requests : pc'[v] = "commit" => pc[v] = "commit"
    BY <1>11 DEF PeekHead, IndInv, TypeOK, Goto
  <2> QED
    BY <2>1, <2>2 DEF IndInv, SeenInv, Key
<1>12. ASSUME NEW u \in Requests, DeleteHead(u) PROVE SeenInv'
  BY <1>12, ConstAssumption DEF SeenInv, DeleteHead, IndInv, TypeOK, Rows, Key, Goto, vars, gciVars, storeVars, objVars, reqVars, gcVars
<1>13. ASSUME NEW u \in Requests, NEW i \in Idx, NoteDuplicate(u, i) PROVE SeenInv'
  BY <1>13, ConstAssumption DEF SeenInv, NoteDuplicate, IndInv, TypeOK, Rows, Key, Goto, vars, gciVars, storeVars, objVars, reqVars, gcVars
<1>14. ASSUME NEW u \in Requests, NEW i \in Idx, LookupChunk(u, i) PROVE SeenInv'
  BY <1>14, ConstAssumption DEF SeenInv, LookupChunk, IndInv, TypeOK, Rows, Key, Goto, vars, gciVars, storeVars, objVars, reqVars, gcVars
<1>15. ASSUME NEW u \in Requests, NEW i \in Idx, IncrementRef(u, i) PROVE SeenInv'
  BY <1>15, ConstAssumption DEF SeenInv, IncrementRef, IndInv, TypeOK, Rows, Key, Goto, vars, gciVars, storeVars, objVars, reqVars, gcVars
<1>16. ASSUME NEW u \in Requests, NEW i \in Idx, StoreLock(u, i) PROVE SeenInv'
  BY <1>16, ConstAssumption DEF SeenInv, StoreLock, IndInv, TypeOK, Rows, Key, Goto, vars, gciVars, storeVars, objVars, reqVars, gcVars
<1>17. ASSUME NEW u \in Requests, NEW i \in Idx, StorePut(u, i) PROVE SeenInv'
  BY <1>17, ConstAssumption DEF SeenInv, StorePut, IndInv, TypeOK, Rows, Key, Goto, vars, gciVars, storeVars, objVars, reqVars, gcVars
<1>18. ASSUME NEW u \in Requests, NEW i \in Idx, StoreCommit(u, i) PROVE SeenInv'
  BY <1>18, ConstAssumption DEF SeenInv, StoreCommit, IndInv, TypeOK, Rows, Key, Goto, vars, gciVars, storeVars, objVars, reqVars, gcVars
<1>19. ASSUME NEW u \in Requests, NEW i \in Idx, GrantWaiter(u, i) PROVE SeenInv'
  BY <1>19, ConstAssumption DEF SeenInv, GrantWaiter, IndInv, TypeOK, Rows, Key, Goto, vars, gciVars, storeVars, objVars, reqVars, gcVars
<1>20. ASSUME NEW u \in Requests, NEW i \in Idx, Abandon(u, i) PROVE SeenInv'
  BY <1>20, ConstAssumption DEF SeenInv, Abandon, IndInv, TypeOK, Rows, Key, Goto, vars, gciVars, storeVars, objVars, reqVars, gcVars
<1>21. ASSUME NEW u \in Requests, NEW i \in Idx, Compensate(u, i) PROVE SeenInv'
  BY <1>21, ConstAssumption DEF SeenInv, Compensate, IndInv, TypeOK, Rows, Key, Goto, vars, gciVars, storeVars, objVars, reqVars, gcVars
<1>22. ASSUME NEW g \in Runners, Reconcile(g) PROVE SeenInv'
  BY <1>22, ConstAssumption DEF SeenInv, Reconcile, IndInv, TypeOK, Rows, Key, Goto, vars, gciVars, storeVars, objVars, reqVars, gcVars
<1>23. ASSUME NEW g \in Runners, SweepScan(g) PROVE SeenInv'
  BY <1>23, ConstAssumption DEF SeenInv, SweepScan, IndInv, TypeOK, Rows, Key, Goto, vars, gciVars, storeVars, objVars, reqVars, gcVars
<1>24. ASSUME NEW g \in Runners, SweepRow(g) PROVE SeenInv'
  BY <1>24, ConstAssumption DEF SeenInv, SweepRow, IndInv, TypeOK, Rows, Key, Goto, vars, gciVars, storeVars, objVars, reqVars, gcVars
<1>25. ASSUME NEW g \in Runners, SweepBlob(g) PROVE SeenInv'
  BY <1>25, ConstAssumption DEF SeenInv, SweepBlob, IndInv, TypeOK, Rows, Key, Goto, vars, gciVars, storeVars, objVars, reqVars, gcVars
<1>26. ASSUME NEW g \in Runners, SweepDone(g) PROVE SeenInv'
  BY <1>26, ConstAssumption DEF SeenInv, SweepDone, IndInv, TypeOK, Rows, Key, Goto, vars, gciVars, storeVars, objVars, reqVars, gcVars
<1>27. ASSUME NEW g \in Runners, NEW c \in Chunks, SweepLock(g, c) PROVE SeenInv'
  BY <1>27, ConstAssumption DEF SeenInv, SweepLock, IndInv, TypeOK, Rows, Key, Goto, vars, gciVars, storeVars, objVars, reqVars, gcVars
<1>28. ASSUME NEW c \in Chunks, LoadRow(c) PROVE SeenInv'
  BY <1>28, ConstAssumption DEF SeenInv, LoadRow, IndInv, TypeOK, Rows, Key, Goto, vars, gciVars, storeVars, objVars, reqVars, gcVars
<1>29. ASSUME NEW c \in Chunks, CacheSet(c) PROVE SeenInv'
  BY <1>29, ConstAssumption DEF SeenInv, CacheSet, IndInv, TypeOK, Rows, Key, Goto, vars, gciVars, storeVars, objVars, reqVars, gcVars
<1>30. ASSUME NEW c \in Chunks, CacheEvict(c) PROVE SeenInv'
  BY <1>30, ConstAssumption DEF SeenInv, CacheEvict, IndInv, TypeOK, Rows, Key, Goto, vars, gciVars, storeVars, objVars, reqVars, gcVars
<1>31. ASSUME NEW c \in Chunks, RecycleConn(c) PROVE SeenInv'
  BY <1>31, ConstAssumption DEF SeenInv, RecycleConn, IndInv, TypeOK, Rows, Key, Goto, vars, gciVars, storeVars, objVars, reqVars, gcVars
<1>32. ASSUME Tick PROVE SeenInv'
  BY <1>32, ConstAssumption DEF SeenInv, Tick, IndInv, TypeOK, Rows, Key, Goto, vars, gciVars, storeVars, objVars, reqVars, gcVars
<1>33. ASSUME NEW u \in Requests, Fail(u) PROVE SeenInv'
  BY <1>33, ConstAssumption DEF SeenInv, Fail, IndInv, TypeOK, Rows, Key, Goto, vars, gciVars, storeVars, objVars, reqVars, gcVars
<1>34. ASSUME NEW u \in Requests, TxFail(u) PROVE SeenInv'
  <2> USE <1>34 DEF TxFail
  <2>1. job' = job /\ body' = body /\ manifest' = manifest
    OBVIOUS
  <2>2. ASSUME NEW v \in Requests, pc'[v] = "commit"
        PROVE  v # u /\ pc[v] = "commit" /\ seen'[v] = seen[v] /\ Key(v) \in Objects
    BY <2>2, JobFacts DEF IndInv, TypeOK, Goto
  <2>3. \A o \in Objects, v \in Requests \ {u} : rowLock[o] = v => rowLock'[o] = v
    BY DEF Unlock
  <2> QED
    BY <2>1, <2>2, <2>3 DEF IndInv, SeenInv, Key
<1>35. ASSUME NEW u \in Requests, NEW i \in Idx, StoreFail(u, i) PROVE SeenInv'
  BY <1>35, ConstAssumption DEF SeenInv, StoreFail, IndInv, TypeOK, Rows, Key, Goto, vars, gciVars, storeVars, objVars, reqVars, gcVars
<1>36. ASSUME NEW g \in Runners, SweepFail(g) PROVE SeenInv'
  BY <1>36, ConstAssumption DEF SeenInv, SweepFail, IndInv, TypeOK, Rows, Key, Goto, vars, gciVars, storeVars, objVars, reqVars, gcVars
<1>37. ASSUME Crash PROVE SeenInv'
  BY <1>37, ConstAssumption DEF SeenInv, Crash, IndInv, TypeOK, Rows, Key, Goto, vars, gciVars, storeVars, objVars, reqVars, gcVars
<1>38. CASE UNCHANGED vars
  BY <1>38, ConstAssumption DEF SeenInv, IndInv, TypeOK, Rows, Key, Goto, vars, gciVars, storeVars, objVars, reqVars, gcVars
<1> QED
  BY <1>1, <1>2, <1>3, <1>4, <1>5, <1>6, <1>7, <1>8, <1>9, <1>10, <1>11, <1>12, <1>13, <1>14, <1>15, <1>16, <1>17, <1>18, <1>19, <1>20, <1>21, <1>22, <1>23, <1>24, <1>25, <1>26, <1>27, <1>28, <1>29, <1>30, <1>31, <1>32, <1>33, <1>34, <1>35, <1>36, <1>37, <1>38 DEF Next, RequestStep, TaskStep, RunnerStep, BackgroundStep, Failures

\* Every step keeps stores and sweeps under the advisory lock.
LEMMA LockStepInv ==
    ASSUME IndInv, [Next]_vars
    PROVE  LockInv'
<1>1. ASSUME NEW u \in Requests, Begin(u) PROVE LockInv'
  BY <1>1, ConstAssumption DEF LockInv, Begin, IndInv, TypeOK, TaskInv, Storing, Sweeping, Hash, SetTask, Goto, vars, gciVars, storeVars, objVars, reqVars, gcVars
<1>2. ASSUME NEW u \in Requests, Join(u) PROVE LockInv'
  BY <1>2, ConstAssumption DEF LockInv, Join, IndInv, TypeOK, TaskInv, Storing, Sweeping, Hash, SetTask, Goto, vars, gciVars, storeVars, objVars, reqVars, gcVars
<1>3. ASSUME NEW u \in Requests, AbortDone(u) PROVE LockInv'
  BY <1>3, ConstAssumption DEF LockInv, AbortDone, IndInv, TypeOK, TaskInv, Storing, Sweeping, Hash, SetTask, Goto, vars, gciVars, storeVars, objVars, reqVars, gcVars
<1>4. ASSUME NEW u \in Requests, PeekSource(u) PROVE LockInv'
  BY <1>4, ConstAssumption DEF LockInv, PeekSource, IndInv, TypeOK, TaskInv, Storing, Sweeping, Hash, SetTask, Goto, vars, gciVars, storeVars, objVars, reqVars, gcVars
<1>5. ASSUME NEW u \in Requests, ReadSource(u) PROVE LockInv'
  <2>1. /\ task' = task /\ lock' = lock /\ gcPc' = gcPc /\ cur' = cur
        /\ \A v \in Requests \ {u} : body'[v] = body[v]
    BY <1>5 DEF ReadSource, storeVars, gcVars, IndInv, TypeOK
  <2>2. \A i \in Idx : task[u][i] = "new"
    BY <1>5 DEF ReadSource, IndInv, TaskInv
  <2> QED
    BY <2>1, <2>2 DEF IndInv, LockInv, Storing, Sweeping, Hash
<1>6. ASSUME NEW u \in Requests, LockHead(u) PROVE LockInv'
  BY <1>6, ConstAssumption DEF LockInv, LockHead, IndInv, TypeOK, TaskInv, Storing, Sweeping, Hash, SetTask, Goto, vars, gciVars, storeVars, objVars, reqVars, gcVars
<1>7. ASSUME NEW u \in Requests, ReadManifest(u) PROVE LockInv'
  BY <1>7, ConstAssumption DEF LockInv, ReadManifest, IndInv, TypeOK, TaskInv, Storing, Sweeping, Hash, SetTask, Goto, vars, gciVars, storeVars, objVars, reqVars, gcVars
<1>8. ASSUME NEW u \in Requests, LockManifest(u) PROVE LockInv'
  BY <1>8, ConstAssumption DEF LockInv, LockManifest, IndInv, TypeOK, TaskInv, Storing, Sweeping, Hash, SetTask, Goto, vars, gciVars, storeVars, objVars, reqVars, gcVars
<1>9. ASSUME NEW u \in Requests, CommitManifest(u) PROVE LockInv'
  <2>1. job' = job /\ body' = body /\ lock' = lock /\ gcPc' = gcPc /\ cur' = cur
    BY <1>9 DEF CommitManifest, gcVars
  <2>2. \A v \in Requests, i \in Idx : task'[v][i] = task[v][i] \/ task'[v][i] = "owned"
    BY <1>9 DEF CommitManifest, IndInv, TypeOK
  <2> QED
    BY <2>1, <2>2 DEF IndInv, LockInv, Storing, Sweeping, Hash
<1>10. ASSUME NEW u \in Requests, UpsertHead(u) PROVE LockInv'
  BY <1>10, ConstAssumption DEF LockInv, UpsertHead, IndInv, TypeOK, TaskInv, Storing, Sweeping, Hash, SetTask, Goto, vars, gciVars, storeVars, objVars, reqVars, gcVars
<1>11. ASSUME NEW u \in Requests, PeekHead(u) PROVE LockInv'
  BY <1>11, ConstAssumption DEF LockInv, PeekHead, IndInv, TypeOK, TaskInv, Storing, Sweeping, Hash, SetTask, Goto, vars, gciVars, storeVars, objVars, reqVars, gcVars
<1>12. ASSUME NEW u \in Requests, DeleteHead(u) PROVE LockInv'
  BY <1>12, ConstAssumption DEF LockInv, DeleteHead, IndInv, TypeOK, TaskInv, Storing, Sweeping, Hash, SetTask, Goto, vars, gciVars, storeVars, objVars, reqVars, gcVars
<1>13. ASSUME NEW u \in Requests, NEW i \in Idx, NoteDuplicate(u, i) PROVE LockInv'
  BY <1>13, ConstAssumption DEF LockInv, NoteDuplicate, IndInv, TypeOK, TaskInv, Storing, Sweeping, Hash, SetTask, Goto, vars, gciVars, storeVars, objVars, reqVars, gcVars
<1>14. ASSUME NEW u \in Requests, NEW i \in Idx, LookupChunk(u, i) PROVE LockInv'
  <2>1. CASE SetTask(u, i, "hit")
    BY <1>14, <2>1 DEF LookupChunk, SetTask, LockInv, IndInv, TypeOK, Storing, Sweeping, Hash, gcVars, Dispatchable, gciVars
  <2>2. CASE SetTask(u, i, "store")
    BY <1>14, <2>2 DEF LookupChunk, SetTask, LockInv, IndInv, TypeOK, Storing, Sweeping, Hash, gcVars, Dispatchable, gciVars
  <2> QED
    BY <1>14, <2>1, <2>2 DEF LookupChunk
<1>15. ASSUME NEW u \in Requests, NEW i \in Idx, IncrementRef(u, i) PROVE LockInv'
  <2>1. CASE SetTask(u, i, "ref")
    BY <1>15, <2>1 DEF IncrementRef, SetTask, LockInv, IndInv, TypeOK, Storing, Sweeping, Hash, gcVars
  <2>2. CASE SetTask(u, i, "store")
    BY <1>15, <2>2 DEF IncrementRef, SetTask, LockInv, IndInv, TypeOK, Storing, Sweeping, Hash, gcVars
  <2> QED
    BY <1>15, <2>1, <2>2 DEF IncrementRef
<1>16. ASSUME NEW u \in Requests, NEW i \in Idx, StoreLock(u, i) PROVE LockInv'
  <2>1. /\ job' = job /\ body' = body /\ gcPc' = gcPc /\ cur' = cur /\ lock[Hash(u, i)] = Free
        /\ lock' = [lock EXCEPT ![Hash(u, i)] = u]
    BY <1>16 DEF StoreLock, gcVars
  <2>2. Hash(u, i) \in Chunks
    BY <1>16, JobFacts DEF IndInv, TaskInv, StoreLock
  <2>3. \A v \in Requests, j \in Idx : Storing(v, j)' => Storing(v, j) \/ (v = u /\ j = i)
    BY <1>16 DEF StoreLock, SetTask, IndInv, TypeOK, Storing
  <2>4. \A v \in Requests, j \in Idx : Storing(v, j) => lock'[Hash(v, j)] = v
    BY <2>1, <2>2, ConstAssumption DEF IndInv, TypeOK, LockInv
  <2>5. lock'[Hash(u, i)] = u
    BY <2>1, <2>2 DEF IndInv, TypeOK
  <2>6. \A g \in Runners : Sweeping(g) => cur[g] \in Chunks /\ lock'[cur[g]] = g
    BY <2>1, <2>2, ConstAssumption DEF IndInv, TypeOK, LockInv
  <2> QED
    BY <2>1, <2>3, <2>4, <2>5, <2>6 DEF LockInv, Sweeping, Hash
<1>17. ASSUME NEW u \in Requests, NEW i \in Idx, StorePut(u, i) PROVE LockInv'
  BY <1>17, ConstAssumption DEF LockInv, StorePut, IndInv, TypeOK, TaskInv, Storing, Sweeping, Hash, SetTask, Goto, vars, gciVars, storeVars, objVars, reqVars, gcVars
<1>18. ASSUME NEW u \in Requests, NEW i \in Idx, StoreCommit(u, i) PROVE LockInv'
  BY <1>18, ConstAssumption DEF LockInv, StoreCommit, IndInv, TypeOK, TaskInv, Storing, Sweeping, Hash, SetTask, Goto, vars, gciVars, storeVars, objVars, reqVars, gcVars
<1>19. ASSUME NEW u \in Requests, NEW i \in Idx, GrantWaiter(u, i) PROVE LockInv'
  <2>1. CASE SetTask(u, i, "ref")
    BY <1>19, <2>1 DEF GrantWaiter, SetTask, LockInv, IndInv, TypeOK, Storing, Sweeping, Hash, gcVars
  <2>2. CASE SetTask(u, i, "dead")
    BY <1>19, <2>2 DEF GrantWaiter, SetTask, LockInv, IndInv, TypeOK, Storing, Sweeping, Hash, gcVars
  <2> QED
    BY <1>19, <2>1, <2>2 DEF GrantWaiter
<1>20. ASSUME NEW u \in Requests, NEW i \in Idx, Abandon(u, i) PROVE LockInv'
  BY <1>20, ConstAssumption DEF LockInv, Abandon, IndInv, TypeOK, TaskInv, Storing, Sweeping, Hash, SetTask, Goto, vars, gciVars, storeVars, objVars, reqVars, gcVars
<1>21. ASSUME NEW u \in Requests, NEW i \in Idx, Compensate(u, i) PROVE LockInv'
  BY <1>21, ConstAssumption DEF LockInv, Compensate, IndInv, TypeOK, TaskInv, Storing, Sweeping, Hash, SetTask, Goto, vars, gciVars, storeVars, objVars, reqVars, gcVars
<1>22. ASSUME NEW g \in Runners, Reconcile(g) PROVE LockInv'
  BY <1>22, ConstAssumption DEF LockInv, Reconcile, IndInv, TypeOK, TaskInv, Storing, Sweeping, Hash, SetTask, Goto, vars, gciVars, storeVars, objVars, reqVars, gcVars
<1>23. ASSUME NEW g \in Runners, SweepScan(g) PROVE LockInv'
  BY <1>23, ConstAssumption DEF LockInv, SweepScan, IndInv, TypeOK, TaskInv, Storing, Sweeping, Hash, SetTask, Goto, vars, gciVars, storeVars, objVars, reqVars, gcVars
<1>24. ASSUME NEW g \in Runners, SweepRow(g) PROVE LockInv'
  <2> USE <1>24 DEF SweepRow
  <2>1. CASE Sweepable(cur[g])
    BY <2>1 DEF IndInv, TypeOK, LockInv, Storing, Sweeping, Hash, reqVars
  <2>2. CASE ~Sweepable(cur[g])
    <3>1. /\ \E h \in {Free, Pooled} : lock' = [lock EXCEPT ![cur[g]] = h]
          /\ job' = job /\ body' = body /\ task' = task
          /\ cur' = [cur EXCEPT ![g] = None] /\ gcPc' = [gcPc EXCEPT ![g] = "sweep"]
      BY <2>2 DEF UnlockChunk, reqVars
    <3>2. cur[g] \in Chunks /\ lock[cur[g]] = g
      BY DEF IndInv, LockInv, Sweeping
    <3> HIDE <1>24 DEF SweepRow
    <3> QED
      BY <3>1, <3>2, ConstAssumption DEF IndInv, TypeOK, LockInv, Storing, Sweeping, Hash
  <2> QED
    BY <2>1, <2>2
<1>25. ASSUME NEW g \in Runners, SweepBlob(g) PROVE LockInv'
  BY <1>25, ConstAssumption DEF LockInv, SweepBlob, IndInv, TypeOK, TaskInv, Storing, Sweeping, Hash, SetTask, Goto, UnlockChunk, vars, gciVars, storeVars, objVars, reqVars, gcVars
<1>26. ASSUME NEW g \in Runners, SweepDone(g) PROVE LockInv'
  BY <1>26, ConstAssumption DEF LockInv, SweepDone, IndInv, TypeOK, TaskInv, Storing, Sweeping, Hash, SetTask, Goto, vars, gciVars, storeVars, objVars, reqVars, gcVars
<1>27. ASSUME NEW g \in Runners, NEW c \in Chunks, SweepLock(g, c) PROVE LockInv'
  BY <1>27, ConstAssumption DEF LockInv, SweepLock, IndInv, TypeOK, TaskInv, Storing, Sweeping, Hash, SetTask, Goto, vars, gciVars, storeVars, objVars, reqVars, gcVars
<1>28. ASSUME NEW c \in Chunks, LoadRow(c) PROVE LockInv'
  BY <1>28, ConstAssumption DEF LockInv, LoadRow, IndInv, TypeOK, TaskInv, Storing, Sweeping, Hash, SetTask, Goto, vars, gciVars, storeVars, objVars, reqVars, gcVars
<1>29. ASSUME NEW c \in Chunks, CacheSet(c) PROVE LockInv'
  BY <1>29, ConstAssumption DEF LockInv, CacheSet, IndInv, TypeOK, TaskInv, Storing, Sweeping, Hash, SetTask, Goto, vars, gciVars, storeVars, objVars, reqVars, gcVars
<1>30. ASSUME NEW c \in Chunks, CacheEvict(c) PROVE LockInv'
  BY <1>30, ConstAssumption DEF LockInv, CacheEvict, IndInv, TypeOK, TaskInv, Storing, Sweeping, Hash, SetTask, Goto, vars, gciVars, storeVars, objVars, reqVars, gcVars
<1>31. ASSUME NEW c \in Chunks, RecycleConn(c) PROVE LockInv'
  BY <1>31, ConstAssumption DEF LockInv, RecycleConn, IndInv, TypeOK, TaskInv, Storing, Sweeping, Hash, SetTask, Goto, vars, gciVars, storeVars, objVars, reqVars, gcVars
<1>32. ASSUME Tick PROVE LockInv'
  BY <1>32, ConstAssumption DEF LockInv, Tick, IndInv, TypeOK, TaskInv, Storing, Sweeping, Hash, SetTask, Goto, vars, gciVars, storeVars, objVars, reqVars, gcVars
<1>33. ASSUME NEW u \in Requests, Fail(u) PROVE LockInv'
  BY <1>33, ConstAssumption DEF LockInv, Fail, IndInv, TypeOK, TaskInv, Storing, Sweeping, Hash, SetTask, Goto, vars, gciVars, storeVars, objVars, reqVars, gcVars
<1>34. ASSUME NEW u \in Requests, TxFail(u) PROVE LockInv'
  BY <1>34, ConstAssumption DEF LockInv, TxFail, IndInv, TypeOK, TaskInv, Storing, Sweeping, Hash, SetTask, Goto, vars, gciVars, storeVars, objVars, reqVars, gcVars
<1>35. ASSUME NEW u \in Requests, NEW i \in Idx, StoreFail(u, i) PROVE LockInv'
  BY <1>35, ConstAssumption DEF LockInv, StoreFail, IndInv, TypeOK, TaskInv, Storing, Sweeping, Hash, SetTask, Goto, vars, gciVars, storeVars, objVars, reqVars, gcVars
<1>36. ASSUME NEW g \in Runners, SweepFail(g) PROVE LockInv'
  <2>1. job' = job /\ body' = body /\ task' = task
    BY <1>36 DEF SweepFail, reqVars
  <2>2. CASE gcPc[g] # "row"
    BY <1>36, <2>1, <2>2 DEF SweepFail, IndInv, TypeOK, LockInv, Storing, Sweeping, Hash
  <2>3. CASE gcPc[g] = "row"
    <3>1. /\ \E h \in {Free, Pooled} : lock' = [lock EXCEPT ![cur[g]] = h]
          /\ cur' = [cur EXCEPT ![g] = None] /\ gcPc' = [gcPc EXCEPT ![g] = "sweep"]
      BY <1>36, <2>3 DEF SweepFail, UnlockChunk
    <3>2. cur[g] \in Chunks /\ lock[cur[g]] = g
      BY <2>3 DEF IndInv, LockInv, Sweeping
    <3> QED
      BY <2>1, <3>1, <3>2, ConstAssumption DEF IndInv, TypeOK, LockInv, Storing, Sweeping, Hash
  <2> QED
    BY <2>2, <2>3
<1>37. ASSUME Crash PROVE LockInv'
  BY <1>37, ConstAssumption DEF LockInv, Crash, IndInv, TypeOK, TaskInv, Storing, Sweeping, Hash, SetTask, Goto, vars, gciVars, storeVars, objVars, reqVars, gcVars
<1>38. CASE UNCHANGED vars
  BY <1>38, ConstAssumption DEF LockInv, IndInv, TypeOK, TaskInv, Storing, Sweeping, Hash, SetTask, Goto, vars, gciVars, storeVars, objVars, reqVars, gcVars
<1> QED
  BY <1>1, <1>2, <1>3, <1>4, <1>5, <1>6, <1>7, <1>8, <1>9, <1>10, <1>11, <1>12, <1>13, <1>14, <1>15, <1>16, <1>17, <1>18, <1>19, <1>20, <1>21, <1>22, <1>23, <1>24, <1>25, <1>26, <1>27, <1>28, <1>29, <1>30, <1>31, <1>32, <1>33, <1>34, <1>35, <1>36, <1>37, <1>38 DEF Next, RequestStep, TaskStep, RunnerStep, BackgroundStep, Failures

\* Every step keeps the blob of an indexed chunk.
LEMMA BlobStepInv ==
    ASSUME IndInv, [Next]_vars
    PROVE  BlobInv'
<1>1. ASSUME NEW u \in Requests, Begin(u) PROVE BlobInv'
  BY <1>1, ConstAssumption DEF BlobInv, Begin, IndInv, TypeOK, LockInv, Storing, Sweeping, Hash, SetTask, vars, gciVars, storeVars, objVars, reqVars, gcVars
<1>2. ASSUME NEW u \in Requests, Join(u) PROVE BlobInv'
  BY <1>2, ConstAssumption DEF BlobInv, Join, IndInv, TypeOK, LockInv, Storing, Sweeping, Hash, SetTask, vars, gciVars, storeVars, objVars, reqVars, gcVars
<1>3. ASSUME NEW u \in Requests, AbortDone(u) PROVE BlobInv'
  BY <1>3, ConstAssumption DEF BlobInv, AbortDone, IndInv, TypeOK, LockInv, Storing, Sweeping, Hash, SetTask, vars, gciVars, storeVars, objVars, reqVars, gcVars
<1>4. ASSUME NEW u \in Requests, PeekSource(u) PROVE BlobInv'
  BY <1>4, ConstAssumption DEF BlobInv, PeekSource, IndInv, TypeOK, LockInv, Storing, Sweeping, Hash, SetTask, vars, gciVars, storeVars, objVars, reqVars, gcVars
<1>5. ASSUME NEW u \in Requests, ReadSource(u) PROVE BlobInv'
  <2>1. /\ task' = task /\ blob' = blob /\ gcPc' = gcPc /\ cur' = cur /\ indexed' = indexed
        /\ \A v \in Requests \ {u} : body'[v] = body[v]
    BY <1>5 DEF ReadSource, gciVars, storeVars, gcVars, IndInv, TypeOK
  <2>2. \A i \in Idx : task[u][i] = "new"
    BY <1>5 DEF ReadSource, IndInv, TaskInv
  <2> QED
    BY <2>1, <2>2 DEF IndInv, BlobInv, Hash
<1>6. ASSUME NEW u \in Requests, LockHead(u) PROVE BlobInv'
  BY <1>6, ConstAssumption DEF BlobInv, LockHead, IndInv, TypeOK, LockInv, Storing, Sweeping, Hash, SetTask, vars, gciVars, storeVars, objVars, reqVars, gcVars
<1>7. ASSUME NEW u \in Requests, ReadManifest(u) PROVE BlobInv'
  BY <1>7, ConstAssumption DEF BlobInv, ReadManifest, IndInv, TypeOK, LockInv, Storing, Sweeping, Hash, SetTask, vars, gciVars, storeVars, objVars, reqVars, gcVars
<1>8. ASSUME NEW u \in Requests, LockManifest(u) PROVE BlobInv'
  BY <1>8, ConstAssumption DEF BlobInv, LockManifest, IndInv, TypeOK, LockInv, Storing, Sweeping, Hash, SetTask, vars, gciVars, storeVars, objVars, reqVars, gcVars
<1>9. ASSUME NEW u \in Requests, CommitManifest(u) PROVE BlobInv'
  <2>1. job' = job /\ body' = body /\ blob' = blob /\ gcPc' = gcPc /\ cur' = cur /\ indexed' = indexed
    BY <1>9 DEF CommitManifest, SwapRefs, gcVars
  <2>2. \A v \in Requests, i \in Idx : task'[v][i] = task[v][i] \/ task'[v][i] = "owned"
    BY <1>9 DEF CommitManifest, IndInv, TypeOK
  <2> QED
    BY <2>1, <2>2 DEF IndInv, BlobInv, Hash
<1>10. ASSUME NEW u \in Requests, UpsertHead(u) PROVE BlobInv'
  BY <1>10, ConstAssumption DEF BlobInv, UpsertHead, IndInv, TypeOK, LockInv, Storing, Sweeping, Hash, SetTask, vars, gciVars, storeVars, objVars, reqVars, gcVars
<1>11. ASSUME NEW u \in Requests, PeekHead(u) PROVE BlobInv'
  BY <1>11, ConstAssumption DEF BlobInv, PeekHead, IndInv, TypeOK, LockInv, Storing, Sweeping, Hash, SetTask, vars, gciVars, storeVars, objVars, reqVars, gcVars
<1>12. ASSUME NEW u \in Requests, DeleteHead(u) PROVE BlobInv'
  BY <1>12, ConstAssumption DEF BlobInv, DeleteHead, IndInv, TypeOK, LockInv, Storing, Sweeping, Hash, SetTask, vars, gciVars, storeVars, objVars, reqVars, gcVars
<1>13. ASSUME NEW u \in Requests, NEW i \in Idx, NoteDuplicate(u, i) PROVE BlobInv'
  BY <1>13, ConstAssumption DEF BlobInv, NoteDuplicate, IndInv, TypeOK, LockInv, Storing, Sweeping, Hash, SetTask, vars, gciVars, storeVars, objVars, reqVars, gcVars
<1>14. ASSUME NEW u \in Requests, NEW i \in Idx, LookupChunk(u, i) PROVE BlobInv'
  <2>1. CASE SetTask(u, i, "hit")
    BY <1>14, <2>1 DEF LookupChunk, SetTask, BlobInv, IndInv, TypeOK, Hash, gcVars, Dispatchable, gciVars
  <2>2. CASE SetTask(u, i, "store")
    BY <1>14, <2>2 DEF LookupChunk, SetTask, BlobInv, IndInv, TypeOK, Hash, gcVars, Dispatchable, gciVars
  <2> QED
    BY <1>14, <2>1, <2>2 DEF LookupChunk
<1>15. ASSUME NEW u \in Requests, NEW i \in Idx, IncrementRef(u, i) PROVE BlobInv'
  <2>1. CASE SetTask(u, i, "ref")
    BY <1>15, <2>1 DEF IncrementRef, SetTask, BlobInv, IndInv, TypeOK, Hash, gcVars
  <2>2. CASE SetTask(u, i, "store")
    BY <1>15, <2>2 DEF IncrementRef, SetTask, BlobInv, IndInv, TypeOK, Hash, gcVars
  <2> QED
    BY <1>15, <2>1, <2>2 DEF IncrementRef
<1>16. ASSUME NEW u \in Requests, NEW i \in Idx, StoreLock(u, i) PROVE BlobInv'
  BY <1>16, ConstAssumption DEF BlobInv, StoreLock, IndInv, TypeOK, LockInv, Storing, Sweeping, Hash, SetTask, vars, gciVars, storeVars, objVars, reqVars, gcVars
<1>17. ASSUME NEW u \in Requests, NEW i \in Idx, StorePut(u, i) PROVE BlobInv'
  <2>1. job' = job /\ body' = body /\ indexed' = indexed /\ gcPc' = gcPc /\ cur' = cur
    BY <1>17 DEF StorePut, gciVars, gcVars
  <2>2. Hash(u, i) \in Chunks /\ job[u].enc # NoBlob
    BY <1>17, JobFacts, ConstAssumption DEF IndInv, TaskInv, StorePut
  <2>3. blob'[Hash(u, i)] # NoBlob /\ \A c \in Chunks : blob[c] # NoBlob => blob'[c] # NoBlob
    BY <1>17, <2>2 DEF StorePut, IndInv, TypeOK
  <2>4. \A v \in Requests, j \in Idx : task'[v][j] = "put" => task[v][j] = "put" \/ (v = u /\ j = i)
    BY <1>17 DEF StorePut, SetTask, IndInv, TypeOK
  <2>5. \A v \in Requests, j \in Idx : task[v][j] = "put" => Hash(v, j) \in Chunks
    BY JobFacts DEF IndInv, TaskInv
  <2>6. indexed \subseteq Chunks
    BY DEF IndInv, TypeOK
  <2> QED
    BY <2>1, <2>3, <2>4, <2>5, <2>6 DEF IndInv, BlobInv, Hash
<1>18. ASSUME NEW u \in Requests, NEW i \in Idx, StoreCommit(u, i) PROVE BlobInv'
  <2>1. /\ job' = job /\ body' = body /\ blob' = blob /\ gcPc' = gcPc /\ cur' = cur
        /\ indexed' \subseteq indexed \cup {Hash(u, i)}
    BY <1>18 DEF StoreCommit, InsertChunk, gcVars
  <2>2. \A v \in Requests, j \in Idx : task'[v][j] = "put" => task[v][j] = "put"
    BY <1>18 DEF StoreCommit, SetTask, IndInv, TypeOK
  <2>3. task[u][i] = "put" /\ blob[Hash(u, i)] # NoBlob /\ lock[Hash(u, i)] = u
    BY <1>18 DEF StoreCommit, IndInv, BlobInv, LockInv, Storing
  <2>4. \A g \in Runners : gcPc[g] = "blob" => cur[g] # Hash(u, i)
    BY <2>3, ConstAssumption DEF IndInv, LockInv, Sweeping
  <2> QED
    BY <2>1, <2>2, <2>3, <2>4 DEF IndInv, BlobInv, Hash
<1>19. ASSUME NEW u \in Requests, NEW i \in Idx, GrantWaiter(u, i) PROVE BlobInv'
  <2>1. CASE SetTask(u, i, "ref")
    BY <1>19, <2>1 DEF GrantWaiter, SetTask, BlobInv, IndInv, TypeOK, Hash, gcVars
  <2>2. CASE SetTask(u, i, "dead")
    BY <1>19, <2>2 DEF GrantWaiter, SetTask, BlobInv, IndInv, TypeOK, Hash, gcVars
  <2> QED
    BY <1>19, <2>1, <2>2 DEF GrantWaiter
<1>20. ASSUME NEW u \in Requests, NEW i \in Idx, Abandon(u, i) PROVE BlobInv'
  BY <1>20, ConstAssumption DEF BlobInv, Abandon, IndInv, TypeOK, LockInv, Storing, Sweeping, Hash, SetTask, vars, gciVars, storeVars, objVars, reqVars, gcVars
<1>21. ASSUME NEW u \in Requests, NEW i \in Idx, Compensate(u, i) PROVE BlobInv'
  BY <1>21, ConstAssumption DEF BlobInv, Compensate, IndInv, TypeOK, LockInv, Storing, Sweeping, Hash, SetTask, SwapRefs, vars, gciVars, storeVars, objVars, reqVars, gcVars
<1>22. ASSUME NEW g \in Runners, Reconcile(g) PROVE BlobInv'
  BY <1>22, ConstAssumption DEF BlobInv, Reconcile, IndInv, TypeOK, LockInv, Storing, Sweeping, Hash, SetTask, vars, gciVars, storeVars, objVars, reqVars, gcVars
<1>23. ASSUME NEW g \in Runners, SweepScan(g) PROVE BlobInv'
  BY <1>23, ConstAssumption DEF BlobInv, SweepScan, IndInv, TypeOK, LockInv, Storing, Sweeping, Hash, SetTask, vars, gciVars, storeVars, objVars, reqVars, gcVars
<1>24. ASSUME NEW g \in Runners, SweepRow(g) PROVE BlobInv'
  <2>1. job' = job /\ body' = body /\ blob' = blob /\ task' = task
    BY <1>24 DEF SweepRow, reqVars
  <2>2. CASE Sweepable(cur[g])
    <3>1. indexed' = indexed \ {cur[g]} /\ cur' = cur /\ gcPc' = [gcPc EXCEPT ![g] = "blob"]
      BY <1>24, <2>2 DEF SweepRow
    <3> QED
      BY <2>1, <3>1 DEF IndInv, TypeOK, BlobInv, Hash
  <2>3. CASE ~Sweepable(cur[g])
    <3>1. /\ indexed' = indexed /\ cur' = [cur EXCEPT ![g] = None]
          /\ gcPc' = [gcPc EXCEPT ![g] = "sweep"]
      BY <1>24, <2>3 DEF SweepRow
    <3> QED
      BY <2>1, <3>1 DEF IndInv, TypeOK, BlobInv, Hash
  <2> QED
    BY <2>2, <2>3
<1>25. ASSUME NEW g \in Runners, SweepBlob(g) PROVE BlobInv'
  <2>1. job' = job /\ body' = body /\ task' = task /\ indexed' = indexed
    BY <1>25 DEF SweepBlob, reqVars, gciVars
  <2>2. /\ cur' = [cur EXCEPT ![g] = None] /\ gcPc' = [gcPc EXCEPT ![g] = "sweep"]
        /\ \A c \in Chunks : c # cur[g] => blob'[c] = blob[c]
    BY <1>25 DEF SweepBlob, IndInv, TypeOK
  <2>3. cur[g] \notin indexed /\ lock[cur[g]] = g
    BY <1>25 DEF SweepBlob, IndInv, BlobInv, LockInv, Sweeping
  <2>4. \A v \in Requests, j \in Idx : task[v][j] = "put" => Hash(v, j) \in Chunks /\ Hash(v, j) # cur[g]
    BY <2>3, JobFacts, ConstAssumption DEF IndInv, TaskInv, LockInv, Storing
  <2>5. indexed \subseteq Chunks
    BY DEF IndInv, TypeOK
  <2>6. \A h \in Runners : gcPc'[h] = "blob" => gcPc[h] = "blob" /\ cur'[h] = cur[h]
    BY <2>2 DEF IndInv, TypeOK
  <2> QED
    BY <2>1, <2>2, <2>3, <2>4, <2>5, <2>6 DEF IndInv, BlobInv, Hash
<1>26. ASSUME NEW g \in Runners, SweepDone(g) PROVE BlobInv'
  BY <1>26, ConstAssumption DEF BlobInv, SweepDone, IndInv, TypeOK, LockInv, Storing, Sweeping, Hash, SetTask, vars, gciVars, storeVars, objVars, reqVars, gcVars
<1>27. ASSUME NEW g \in Runners, NEW c \in Chunks, SweepLock(g, c) PROVE BlobInv'
  BY <1>27, ConstAssumption DEF BlobInv, SweepLock, IndInv, TypeOK, LockInv, Storing, Sweeping, Hash, SetTask, vars, gciVars, storeVars, objVars, reqVars, gcVars
<1>28. ASSUME NEW c \in Chunks, LoadRow(c) PROVE BlobInv'
  BY <1>28, ConstAssumption DEF BlobInv, LoadRow, IndInv, TypeOK, LockInv, Storing, Sweeping, Hash, SetTask, vars, gciVars, storeVars, objVars, reqVars, gcVars
<1>29. ASSUME NEW c \in Chunks, CacheSet(c) PROVE BlobInv'
  BY <1>29, ConstAssumption DEF BlobInv, CacheSet, IndInv, TypeOK, LockInv, Storing, Sweeping, Hash, SetTask, vars, gciVars, storeVars, objVars, reqVars, gcVars
<1>30. ASSUME NEW c \in Chunks, CacheEvict(c) PROVE BlobInv'
  BY <1>30, ConstAssumption DEF BlobInv, CacheEvict, IndInv, TypeOK, LockInv, Storing, Sweeping, Hash, SetTask, vars, gciVars, storeVars, objVars, reqVars, gcVars
<1>31. ASSUME NEW c \in Chunks, RecycleConn(c) PROVE BlobInv'
  BY <1>31, ConstAssumption DEF BlobInv, RecycleConn, IndInv, TypeOK, LockInv, Storing, Sweeping, Hash, SetTask, vars, gciVars, storeVars, objVars, reqVars, gcVars
<1>32. ASSUME Tick PROVE BlobInv'
  BY <1>32, ConstAssumption DEF BlobInv, Tick, IndInv, TypeOK, LockInv, Storing, Sweeping, Hash, SetTask, vars, gciVars, storeVars, objVars, reqVars, gcVars
<1>33. ASSUME NEW u \in Requests, Fail(u) PROVE BlobInv'
  BY <1>33, ConstAssumption DEF BlobInv, Fail, IndInv, TypeOK, LockInv, Storing, Sweeping, Hash, SetTask, vars, gciVars, storeVars, objVars, reqVars, gcVars
<1>34. ASSUME NEW u \in Requests, TxFail(u) PROVE BlobInv'
  BY <1>34, ConstAssumption DEF BlobInv, TxFail, IndInv, TypeOK, LockInv, Storing, Sweeping, Hash, SetTask, vars, gciVars, storeVars, objVars, reqVars, gcVars
<1>35. ASSUME NEW u \in Requests, NEW i \in Idx, StoreFail(u, i) PROVE BlobInv'
  BY <1>35, ConstAssumption DEF BlobInv, StoreFail, IndInv, TypeOK, LockInv, Storing, Sweeping, Hash, SetTask, vars, gciVars, storeVars, objVars, reqVars, gcVars
<1>36. ASSUME NEW g \in Runners, SweepFail(g) PROVE BlobInv'
  BY <1>36, ConstAssumption DEF BlobInv, SweepFail, IndInv, TypeOK, LockInv, Storing, Sweeping, Hash, SetTask, vars, gciVars, storeVars, objVars, reqVars, gcVars
<1>37. ASSUME Crash PROVE BlobInv'
  BY <1>37, ConstAssumption DEF BlobInv, Crash, IndInv, TypeOK, LockInv, Storing, Sweeping, Hash, SetTask, vars, gciVars, storeVars, objVars, reqVars, gcVars
<1>38. CASE UNCHANGED vars
  BY <1>38, ConstAssumption DEF BlobInv, IndInv, TypeOK, LockInv, Storing, Sweeping, Hash, SetTask, vars, gciVars, storeVars, objVars, reqVars, gcVars
<1> QED
  BY <1>1, <1>2, <1>3, <1>4, <1>5, <1>6, <1>7, <1>8, <1>9, <1>10, <1>11, <1>12, <1>13, <1>14, <1>15, <1>16, <1>17, <1>18, <1>19, <1>20, <1>21, <1>22, <1>23, <1>24, <1>25, <1>26, <1>27, <1>28, <1>29, <1>30, <1>31, <1>32, <1>33, <1>34, <1>35, <1>36, <1>37, <1>38 DEF Next, RequestStep, TaskStep, RunnerStep, BackgroundStep, Failures

\* Every step keeps the chunks that uploads reference recently accessed.
LEMMA AgeStepInv ==
    ASSUME IndInv, [Next]_vars
    PROVE  AgeInv'
<1>1. ASSUME NEW u \in Requests, Begin(u) PROVE AgeInv'
  BY <1>1, ConstAssumption DEF AgeInv, Begin, IndInv, TypeOK, Hash, SetTask, vars, gciVars, storeVars, objVars, reqVars, gcVars
<1>2. ASSUME NEW u \in Requests, Join(u) PROVE AgeInv'
  BY <1>2, ConstAssumption DEF AgeInv, Join, IndInv, TypeOK, Hash, SetTask, vars, gciVars, storeVars, objVars, reqVars, gcVars
<1>3. ASSUME NEW u \in Requests, AbortDone(u) PROVE AgeInv'
  BY <1>3, ConstAssumption DEF AgeInv, AbortDone, IndInv, TypeOK, Hash, SetTask, vars, gciVars, storeVars, objVars, reqVars, gcVars
<1>4. ASSUME NEW u \in Requests, PeekSource(u) PROVE AgeInv'
  BY <1>4, ConstAssumption DEF AgeInv, PeekSource, IndInv, TypeOK, Hash, SetTask, vars, gciVars, storeVars, objVars, reqVars, gcVars
<1>5. ASSUME NEW u \in Requests, ReadSource(u) PROVE AgeInv'
  <2>1. /\ task' = task /\ accessAge' = accessAge
        /\ \A v \in Requests \ {u} : body'[v] = body[v]
    BY <1>5 DEF ReadSource, gciVars, IndInv, TypeOK
  <2>2. \A i \in Idx : task[u][i] = "new"
    BY <1>5 DEF ReadSource, IndInv, TaskInv
  <2> QED
    BY <2>1, <2>2 DEF IndInv, AgeInv, Hash
<1>6. ASSUME NEW u \in Requests, LockHead(u) PROVE AgeInv'
  BY <1>6, ConstAssumption DEF AgeInv, LockHead, IndInv, TypeOK, Hash, SetTask, vars, gciVars, storeVars, objVars, reqVars, gcVars
<1>7. ASSUME NEW u \in Requests, ReadManifest(u) PROVE AgeInv'
  BY <1>7, ConstAssumption DEF AgeInv, ReadManifest, IndInv, TypeOK, Hash, SetTask, vars, gciVars, storeVars, objVars, reqVars, gcVars
<1>8. ASSUME NEW u \in Requests, LockManifest(u) PROVE AgeInv'
  BY <1>8, ConstAssumption DEF AgeInv, LockManifest, IndInv, TypeOK, Hash, SetTask, vars, gciVars, storeVars, objVars, reqVars, gcVars
<1>9. ASSUME NEW u \in Requests, CommitManifest(u) PROVE AgeInv'
  <2>1. body' = body /\ \A d \in Chunks : accessAge'[d] = accessAge[d] \/ accessAge'[d] = 0
    BY <1>9 DEF CommitManifest, SwapRefs
  <2>2. \A v \in Requests, i \in Idx : task'[v][i] = "ref" => task[v][i] = "ref"
    BY <1>9 DEF CommitManifest, IndInv, TypeOK
  <2>3. \A v \in Requests, j \in Idx : task[v][j] = "ref" => Hash(v, j) \in Chunks
    BY JobFacts DEF IndInv, TaskInv
  <2> QED
    BY <2>1, <2>2, <2>3, ConstAssumption DEF IndInv, AgeInv, Hash
<1>10. ASSUME NEW u \in Requests, UpsertHead(u) PROVE AgeInv'
  BY <1>10, ConstAssumption DEF AgeInv, UpsertHead, IndInv, TypeOK, Hash, SetTask, vars, gciVars, storeVars, objVars, reqVars, gcVars
<1>11. ASSUME NEW u \in Requests, PeekHead(u) PROVE AgeInv'
  BY <1>11, ConstAssumption DEF AgeInv, PeekHead, IndInv, TypeOK, Hash, SetTask, vars, gciVars, storeVars, objVars, reqVars, gcVars
<1>12. ASSUME NEW u \in Requests, DeleteHead(u) PROVE AgeInv'
  BY <1>12, ConstAssumption DEF AgeInv, DeleteHead, IndInv, TypeOK, Hash, SetTask, vars, gciVars, storeVars, objVars, reqVars, gcVars
<1>13. ASSUME NEW u \in Requests, NEW i \in Idx, NoteDuplicate(u, i) PROVE AgeInv'
  BY <1>13, ConstAssumption DEF AgeInv, NoteDuplicate, IndInv, TypeOK, Hash, SetTask, vars, gciVars, storeVars, objVars, reqVars, gcVars
<1>14. ASSUME NEW u \in Requests, NEW i \in Idx, LookupChunk(u, i) PROVE AgeInv'
  <2>1. job' = job /\ body' = body /\ accessAge' = accessAge
    BY <1>14 DEF LookupChunk, gciVars
  <2>2. \A v \in Requests, j \in Idx : task'[v][j] = "ref" => task[v][j] = "ref"
    <3>1. CASE SetTask(u, i, "hit")
      BY <3>1 DEF SetTask, IndInv, TypeOK
    <3>2. CASE SetTask(u, i, "store")
      BY <3>2 DEF SetTask, IndInv, TypeOK
    <3> QED
      BY <1>14, <3>1, <3>2 DEF LookupChunk
  <2> QED
    BY <2>1, <2>2 DEF IndInv, AgeInv, Hash
<1>15. ASSUME NEW u \in Requests, NEW i \in Idx, IncrementRef(u, i) PROVE AgeInv'
  <2> DEFINE c == Hash(u, i)
  <2>1. job' = job /\ body' = body /\ c \in Chunks /\ 0 \in 0..Grace
    BY <1>15, JobFacts, ConstAssumption DEF IncrementRef, IndInv, TaskInv
  <2>2. \/ accessAge' = accessAge /\ ~SetTask(u, i, "ref")
        \/ accessAge' = [accessAge EXCEPT ![c] = 0]
    BY <1>15, <2>1 DEF IncrementRef, TakeRef, SetTask, IndInv, TypeOK
  <2>3. \A v \in Requests, j \in Idx : task'[v][j] = "ref" => task[v][j] = "ref" \/ (SetTask(u, i, "ref") /\ v = u /\ j = i)
    BY <1>15 DEF IncrementRef, SetTask, IndInv, TypeOK
  <2>4. \A v \in Requests, j \in Idx : task[v][j] = "ref" => Hash(v, j) \in Chunks
    BY JobFacts DEF IndInv, TaskInv
  <2>5. \A d \in Chunks : accessAge'[d] = accessAge[d] \/ accessAge'[d] = 0
    BY <2>2 DEF IndInv, TypeOK
  <2>6. SetTask(u, i, "ref") => accessAge'[c] <= Grace
    BY <2>1, <2>2, ConstAssumption DEF IndInv, TypeOK
  <2> QED
    BY <2>1, <2>3, <2>4, <2>5, <2>6, ConstAssumption DEF IndInv, AgeInv, Hash
<1>16. ASSUME NEW u \in Requests, NEW i \in Idx, StoreLock(u, i) PROVE AgeInv'
  BY <1>16, ConstAssumption DEF AgeInv, StoreLock, IndInv, TypeOK, Hash, SetTask, vars, gciVars, storeVars, objVars, reqVars, gcVars
<1>17. ASSUME NEW u \in Requests, NEW i \in Idx, StorePut(u, i) PROVE AgeInv'
  BY <1>17, ConstAssumption DEF AgeInv, StorePut, IndInv, TypeOK, Hash, SetTask, vars, gciVars, storeVars, objVars, reqVars, gcVars
<1>18. ASSUME NEW u \in Requests, NEW i \in Idx, StoreCommit(u, i) PROVE AgeInv'
  <2> DEFINE c == Hash(u, i)
  <2>1. job' = job /\ body' = body /\ c \in Chunks /\ 0 \in 0..Grace
    BY <1>18, JobFacts, ConstAssumption DEF StoreCommit, IndInv, TaskInv
  <2>2. \/ accessAge' = accessAge /\ ~SetTask(u, i, "ref")
        \/ accessAge' = [accessAge EXCEPT ![c] = 0]
    BY <1>18, <2>1 DEF StoreCommit, InsertChunk, TakeRef, SetTask, IndInv, TypeOK
  <2>3. \A v \in Requests, j \in Idx : task'[v][j] = "ref" => task[v][j] = "ref" \/ (SetTask(u, i, "ref") /\ v = u /\ j = i)
    BY <1>18 DEF StoreCommit, SetTask, IndInv, TypeOK
  <2>4. \A v \in Requests, j \in Idx : task[v][j] = "ref" => Hash(v, j) \in Chunks
    BY JobFacts DEF IndInv, TaskInv
  <2>5. \A d \in Chunks : accessAge'[d] = accessAge[d] \/ accessAge'[d] = 0
    BY <2>2 DEF IndInv, TypeOK
  <2>6. SetTask(u, i, "ref") => accessAge'[c] <= Grace
    BY <2>1, <2>2, ConstAssumption DEF IndInv, TypeOK
  <2> QED
    BY <2>1, <2>3, <2>4, <2>5, <2>6, ConstAssumption DEF IndInv, AgeInv, Hash
<1>19. ASSUME NEW u \in Requests, NEW i \in Idx, GrantWaiter(u, i) PROVE AgeInv'
  <2> DEFINE c == Hash(u, i)
  <2>1. job' = job /\ body' = body /\ c \in Chunks /\ 0 \in 0..Grace
    BY <1>19, JobFacts, ConstAssumption DEF GrantWaiter, IndInv, TaskInv
  <2>2. \/ accessAge' = accessAge /\ ~SetTask(u, i, "ref")
        \/ accessAge' = [accessAge EXCEPT ![c] = 0]
    BY <1>19, <2>1 DEF GrantWaiter, TakeRef, SetTask, IndInv, TypeOK
  <2>3. \A v \in Requests, j \in Idx : task'[v][j] = "ref" => task[v][j] = "ref" \/ (SetTask(u, i, "ref") /\ v = u /\ j = i)
    BY <1>19 DEF GrantWaiter, SetTask, IndInv, TypeOK
  <2>4. \A v \in Requests, j \in Idx : task[v][j] = "ref" => Hash(v, j) \in Chunks
    BY JobFacts DEF IndInv, TaskInv
  <2>5. \A d \in Chunks : accessAge'[d] = accessAge[d] \/ accessAge'[d] = 0
    BY <2>2 DEF IndInv, TypeOK
  <2>6. SetTask(u, i, "ref") => accessAge'[c] <= Grace
    BY <2>1, <2>2, ConstAssumption DEF IndInv, TypeOK
  <2> QED
    BY <2>1, <2>3, <2>4, <2>5, <2>6, ConstAssumption DEF IndInv, AgeInv, Hash
<1>20. ASSUME NEW u \in Requests, NEW i \in Idx, Abandon(u, i) PROVE AgeInv'
  BY <1>20, ConstAssumption DEF AgeInv, Abandon, IndInv, TypeOK, Hash, SetTask, vars, gciVars, storeVars, objVars, reqVars, gcVars
<1>21. ASSUME NEW u \in Requests, NEW i \in Idx, Compensate(u, i) PROVE AgeInv'
  <2>1. body' = body /\ \A d \in Chunks : accessAge'[d] = accessAge[d] \/ accessAge'[d] = 0
    BY <1>21 DEF Compensate, SwapRefs, gciVars
  <2>2. \A v \in Requests, j \in Idx : task'[v][j] = "ref" => task[v][j] = "ref"
    BY <1>21 DEF Compensate, SetTask, IndInv, TypeOK
  <2>3. \A v \in Requests, j \in Idx : task[v][j] = "ref" => Hash(v, j) \in Chunks
    BY JobFacts DEF IndInv, TaskInv
  <2> QED
    BY <2>1, <2>2, <2>3, ConstAssumption DEF IndInv, AgeInv, Hash
<1>22. ASSUME NEW g \in Runners, Reconcile(g) PROVE AgeInv'
  BY <1>22, ConstAssumption DEF AgeInv, Reconcile, IndInv, TypeOK, Hash, SetTask, vars, gciVars, storeVars, objVars, reqVars, gcVars
<1>23. ASSUME NEW g \in Runners, SweepScan(g) PROVE AgeInv'
  BY <1>23, ConstAssumption DEF AgeInv, SweepScan, IndInv, TypeOK, Hash, SetTask, vars, gciVars, storeVars, objVars, reqVars, gcVars
<1>24. ASSUME NEW g \in Runners, SweepRow(g) PROVE AgeInv'
  <2>1. job' = job /\ body' = body /\ task' = task
    BY <1>24 DEF SweepRow, reqVars
  <2>2. \A d \in Chunks : accessAge'[d] = accessAge[d] \/ accessAge'[d] = 0
    BY <1>24 DEF SweepRow, IndInv, TypeOK
  <2>3. \A v \in Requests, j \in Idx : task[v][j] = "ref" => Hash(v, j) \in Chunks
    BY JobFacts DEF IndInv, TaskInv
  <2> QED
    BY <2>1, <2>2, <2>3, ConstAssumption DEF IndInv, AgeInv, Hash
<1>25. ASSUME NEW g \in Runners, SweepBlob(g) PROVE AgeInv'
  BY <1>25, ConstAssumption DEF AgeInv, SweepBlob, IndInv, TypeOK, Hash, SetTask, vars, gciVars, storeVars, objVars, reqVars, gcVars
<1>26. ASSUME NEW g \in Runners, SweepDone(g) PROVE AgeInv'
  BY <1>26, ConstAssumption DEF AgeInv, SweepDone, IndInv, TypeOK, Hash, SetTask, vars, gciVars, storeVars, objVars, reqVars, gcVars
<1>27. ASSUME NEW g \in Runners, NEW c \in Chunks, SweepLock(g, c) PROVE AgeInv'
  BY <1>27, ConstAssumption DEF AgeInv, SweepLock, IndInv, TypeOK, Hash, SetTask, vars, gciVars, storeVars, objVars, reqVars, gcVars
<1>28. ASSUME NEW c \in Chunks, LoadRow(c) PROVE AgeInv'
  BY <1>28, ConstAssumption DEF AgeInv, LoadRow, IndInv, TypeOK, Hash, SetTask, vars, gciVars, storeVars, objVars, reqVars, gcVars
<1>29. ASSUME NEW c \in Chunks, CacheSet(c) PROVE AgeInv'
  BY <1>29, ConstAssumption DEF AgeInv, CacheSet, IndInv, TypeOK, Hash, SetTask, vars, gciVars, storeVars, objVars, reqVars, gcVars
<1>30. ASSUME NEW c \in Chunks, CacheEvict(c) PROVE AgeInv'
  BY <1>30, ConstAssumption DEF AgeInv, CacheEvict, IndInv, TypeOK, Hash, SetTask, vars, gciVars, storeVars, objVars, reqVars, gcVars
<1>31. ASSUME NEW c \in Chunks, RecycleConn(c) PROVE AgeInv'
  BY <1>31, ConstAssumption DEF AgeInv, RecycleConn, IndInv, TypeOK, Hash, SetTask, vars, gciVars, storeVars, objVars, reqVars, gcVars
<1>32. ASSUME Tick PROVE AgeInv'
  <2>1. job' = job /\ body' = body /\ task' = task
    BY <1>32 DEF Tick, reqVars
  <2>2. \A d \in Chunks : accessAge[d] < Grace => accessAge'[d] <= Grace
    BY <1>32, ConstAssumption DEF Tick, Older, IndInv, TypeOK, Age
  <2>3. \A v \in Requests, j \in Idx : task[v][j] = "ref" => Hash(v, j) \in Chunks /\ accessAge[Hash(v, j)] < Grace
    BY <1>32, JobFacts DEF IndInv, TaskInv, Tick, UploadsWithinGrace
  <2> QED
    BY <2>1, <2>2, <2>3 DEF AgeInv, Hash
<1>33. ASSUME NEW u \in Requests, Fail(u) PROVE AgeInv'
  BY <1>33, ConstAssumption DEF AgeInv, Fail, IndInv, TypeOK, Hash, SetTask, vars, gciVars, storeVars, objVars, reqVars, gcVars
<1>34. ASSUME NEW u \in Requests, TxFail(u) PROVE AgeInv'
  BY <1>34, ConstAssumption DEF AgeInv, TxFail, IndInv, TypeOK, Hash, SetTask, vars, gciVars, storeVars, objVars, reqVars, gcVars
<1>35. ASSUME NEW u \in Requests, NEW i \in Idx, StoreFail(u, i) PROVE AgeInv'
  BY <1>35, ConstAssumption DEF AgeInv, StoreFail, IndInv, TypeOK, Hash, SetTask, vars, gciVars, storeVars, objVars, reqVars, gcVars
<1>36. ASSUME NEW g \in Runners, SweepFail(g) PROVE AgeInv'
  BY <1>36, ConstAssumption DEF AgeInv, SweepFail, IndInv, TypeOK, Hash, SetTask, vars, gciVars, storeVars, objVars, reqVars, gcVars
<1>37. ASSUME Crash PROVE AgeInv'
  BY <1>37, ConstAssumption DEF AgeInv, Crash, IndInv, TypeOK, Hash, SetTask, vars, gciVars, storeVars, objVars, reqVars, gcVars
<1>38. CASE UNCHANGED vars
  BY <1>38, ConstAssumption DEF AgeInv, IndInv, TypeOK, Hash, SetTask, vars, gciVars, storeVars, objVars, reqVars, gcVars
<1> QED
  BY <1>1, <1>2, <1>3, <1>4, <1>5, <1>6, <1>7, <1>8, <1>9, <1>10, <1>11, <1>12, <1>13, <1>14, <1>15, <1>16, <1>17, <1>18, <1>19, <1>20, <1>21, <1>22, <1>23, <1>24, <1>25, <1>26, <1>27, <1>28, <1>29, <1>30, <1>31, <1>32, <1>33, <1>34, <1>35, <1>36, <1>37, <1>38 DEF Next, RequestStep, TaskStep, RunnerStep, BackgroundStep, Failures

\* A step keeps the counts sound if they cover a set L that contains every
\* live reference of the next state.
LEMMA SoundStep ==
    ASSUME TypeOK', NEW L \in SUBSET Rows, LiveRefs' \subseteq L,
           \A r \in LiveRefs' : HashOf(r)' = HashOf(r),
           \A c \in Chunks : IF c \in indexed' THEN refCount'[c] >= Count(L, c)
                                               ELSE RowsOf(L, c) = {}
    PROVE  RefCountSound'
<1>1. ASSUME NEW c \in Chunks
      PROVE  IF c \in indexed' THEN refCount'[c] >= Count(LiveRefs, c)' ELSE RowsOf(LiveRefs, c)' = {}
  <2>1. RowsOf(LiveRefs, c)' = RowsOf(LiveRefs', c)
    BY DEF RowsOf
  <2>2. Count(LiveRefs, c)' = Count(LiveRefs', c)
    BY <2>1 DEF Count
  <2>3. RowsOf(LiveRefs', c) \subseteq RowsOf(L, c)
    BY DEF RowsOf
  <2>4. Count(LiveRefs', c) <= Count(L, c)
    BY CountMono
  <2>5. Count(LiveRefs', c) \in Nat /\ Count(L, c) \in Nat
    BY RowsFinite
  <2>6. refCount'[c] \in Nat
    BY DEF TypeOK
  <2> QED
    BY <2>1, <2>2, <2>3, <2>4, <2>5, <2>6
<1> QED
  BY <1>1 DEF RefCountSound

\* A step that takes no reference and touches no row of the index.
LEMMA QuietStep ==
    ASSUME IndInv, TypeOK', body' = body, indexed' = indexed, refCount' = refCount,
           LiveRefs' \subseteq LiveRefs
    PROVE  RefCountSound'
<1>1. LiveRefs \in SUBSET Rows
  BY DEF LiveRefs
<1>2. \A r \in LiveRefs' : HashOf(r)' = HashOf(r)
  BY DEF HashOf, Hash
<1> QED
  BY <1>1, <1>2, SoundStep DEF IndInv, RefCountSound

\* A step that changes neither the references nor the rows of the index.
LEMMA SameStep ==
    ASSUME IndInv, TypeOK', UNCHANGED <<body, task, manifest, indexed, refCount>>
    PROVE  RefCountSound'
  BY QuietStep DEF LiveRefs

\* A step that takes one reference, on a row of the index or on a new one.
LEMMA TakeStep ==
    ASSUME IndInv, TypeOK', body' = body, NEW u \in Requests, NEW i \in Idx, NEW c \in Chunks,
           Hash(u, i) = c,
           \/ c \in indexed /\ indexed' = indexed /\ TakeRef(c)
           \/ \E e \in Encodings : InsertChunk(c, e),
           LiveRefs' \subseteq LiveRefs \cup {<<u, i>>}
    PROVE  RefCountSound'
<1> DEFINE L == LiveRefs \cup {<<u, i>>}
<1>1. LiveRefs \in SUBSET Rows /\ <<u, i>> \in Rows /\ L \in SUBSET Rows
  BY DEF LiveRefs, Rows
<1>2. HashOf(<<u, i>>) = c
  BY DEF HashOf
<1>3. /\ indexed' = indexed \cup {c}
      /\ c \in indexed => refCount' = [refCount EXCEPT ![c] = @ + 1]
      /\ c \notin indexed => refCount' = [refCount EXCEPT ![c] = 1]
  BY DEF TakeRef, InsertChunk
<1>4. ASSUME NEW d \in Chunks
      PROVE  IF d \in indexed' THEN refCount'[d] >= Count(L, d) ELSE RowsOf(L, d) = {}
  <2>1. Count(L, d) <= Count(LiveRefs, d) + (IF c = d THEN 1 ELSE 0)
    BY <1>1, <1>2, CountAdd
  <2>2. Count(L, d) \in Nat /\ Count(LiveRefs, d) \in Nat
    BY <1>1, RowsFinite
  <2>3. refCount \in [Chunks -> Nat]
    BY DEF IndInv, TypeOK
  <2>4. IF d \in indexed THEN refCount[d] >= Count(LiveRefs, d) ELSE RowsOf(LiveRefs, d) = {}
    BY DEF IndInv, RefCountSound
  <2>5. RowsOf(LiveRefs, d) = {} => Count(LiveRefs, d) = 0
    BY FS_EmptySet DEF Count
  <2>6. CASE c = d
    <3>1. CASE c \in indexed
      <4>1. refCount'[d] = refCount[d] + 1
        BY <1>3, <2>3, <2>6, <3>1
      <4> QED
        BY <1>3, <2>1, <2>2, <2>3, <2>4, <2>6, <3>1, <4>1
    <3>2. CASE c \notin indexed
      <4>1. refCount'[d] = 1
        BY <1>3, <2>3, <2>6, <3>2
      <4> QED
        BY <1>3, <2>1, <2>2, <2>4, <2>5, <2>6, <3>2, <4>1
    <3> QED
      BY <3>1, <3>2
  <2>7. CASE c # d
    <3>1. refCount'[d] = refCount[d] /\ (d \in indexed' <=> d \in indexed)
      BY <1>3, <2>3, <2>7
    <3>2. RowsOf(L, d) = RowsOf(LiveRefs, d)
      BY <1>2, <2>7 DEF RowsOf
    <3> QED
      BY <2>1, <2>2, <2>3, <2>4, <2>7, <3>1, <3>2
  <2> QED
    BY <2>6, <2>7
<1>5. \A r \in LiveRefs' : HashOf(r)' = HashOf(r)
  BY DEF HashOf, Hash
<1> HIDE DEF L
<1> QED
  BY <1>1, <1>4, <1>5, SoundStep DEF L

\* A step that takes references on indexed chunks and releases references
\* nobody relies on afterwards.
LEMMA SwapStep ==
    ASSUME IndInv, TypeOK', body' = body, NEW R \in SUBSET LiveRefs, NEW A \in SUBSET Rows,
           SwapRefs(A, R), \A r \in A : HashOf(r) \in indexed,
           LiveRefs' \subseteq (LiveRefs \ R) \cup A
    PROVE  RefCountSound'
<1> DEFINE L == (LiveRefs \ R) \cup A
<1>1. L \in SUBSET Rows
  BY DEF LiveRefs
<1>2. indexed' = indexed /\ \A c \in indexed : refCount'[c] >= Count(L, c)
  BY Swap DEF IndInv
<1>3. \A c \in Chunks : c \notin indexed => RowsOf(L, c) = {}
  BY DEF IndInv, RefCountSound, RowsOf
<1>4. \A r \in LiveRefs' : HashOf(r)' = HashOf(r)
  BY DEF HashOf, Hash
<1> HIDE DEF L
<1> QED
  BY <1>1, <1>2, <1>3, <1>4, SoundStep DEF L

\* Every step keeps the reference counts sound.
LEMMA RefCountStepInv ==
    ASSUME IndInv, [Next]_vars
    PROVE  RefCountSound'
<1>0. TypeOK'
  BY TypeStep
<1>1. ASSUME NEW u \in Requests, Begin(u) PROVE RefCountSound'
  BY <1>0, <1>1, SameStep DEF Begin, gciVars, objVars, reqVars
<1>2. ASSUME NEW u \in Requests, Join(u) PROVE RefCountSound'
  BY <1>0, <1>2, SameStep DEF Join, gciVars, objVars, reqVars
<1>3. ASSUME NEW u \in Requests, AbortDone(u) PROVE RefCountSound'
  BY <1>0, <1>3, SameStep DEF AbortDone, gciVars, objVars, reqVars
<1>4. ASSUME NEW u \in Requests, PeekSource(u) PROVE RefCountSound'
  BY <1>0, <1>4, SameStep DEF PeekSource, gciVars, objVars, reqVars
<1>5. ASSUME NEW u \in Requests, ReadSource(u) PROVE RefCountSound'
  <2>1. /\ task' = task /\ manifest' = manifest /\ indexed' = indexed /\ refCount' = refCount
        /\ \A v \in Requests \ {u} : body'[v] = body[v]
    BY <1>5 DEF ReadSource, gciVars, objVars, IndInv, TypeOK
  <2>2. \A i \in Idx : task[u][i] = "new"
    BY <1>5 DEF ReadSource, IndInv, TaskInv
  <2>3. LiveRefs' = LiveRefs /\ LiveRefs \in SUBSET Rows
    BY <2>1 DEF LiveRefs
  <2>4. \A r \in LiveRefs : r[1] # u
    BY <2>2 DEF LiveRefs, Rows, IndInv, RowInv
  <2>5. \A r \in LiveRefs' : HashOf(r)' = HashOf(r)
    BY <2>1, <2>3, <2>4 DEF HashOf, Hash, LiveRefs, Rows
  <2> QED
    BY <1>0, <2>1, <2>3, <2>5, SoundStep DEF IndInv, RefCountSound
<1>6. ASSUME NEW u \in Requests, LockHead(u) PROVE RefCountSound'
  BY <1>0, <1>6, SameStep DEF LockHead, gciVars, objVars, reqVars
<1>7. ASSUME NEW u \in Requests, ReadManifest(u) PROVE RefCountSound'
  BY <1>0, <1>7, SameStep DEF ReadManifest, gciVars, objVars, reqVars
<1>8. ASSUME NEW u \in Requests, LockManifest(u) PROVE RefCountSound'
  BY <1>0, <1>8, SameStep DEF LockManifest, gciVars, objVars, reqVars
<1>9. ASSUME NEW u \in Requests, CommitManifest(u) PROVE RefCountSound'
  <2> DEFINE o == Key(u)
             new == {<<u, i>> : i \in Indices(u)}
             A == IF job[u].op = "copy" THEN new ELSE {}
  <2>1. job' = job /\ body' = body /\ SwapRefs(A, seen[u]) /\ o \in Objects /\ Indices(u) \subseteq Idx
    BY <1>9, JobFacts DEF CommitManifest, IndInv
  <2>2. /\ seen[u] \subseteq manifest[o]
        /\ job[u].op = "put" => \A i \in Indices(u) : task[u][i] = "ref"
        /\ job[u].op \notin {"put", "copy"} => Indices(u) = {}
    BY <1>9 DEF CommitManifest, IndInv, SeenInv, TaskInv, TxStates
  <2>3. \A v \in Requests, i \in Idx : task'[v][i] = "ref" => task[v][i] = "ref"
    BY <1>9 DEF CommitManifest, IndInv, TypeOK
  <2>4. \A p \in Objects \ {o} : manifest'[p] = manifest[p]
    BY <1>9 DEF CommitManifest, IndInv, TypeOK
  <2>5. manifest'[o] \subseteq (manifest[o] \ seen[u]) \cup new
    BY <1>9, <2>1, <2>2 DEF CommitManifest, Installed, IndInv, TypeOK
  <2>6. seen[u] \in SUBSET LiveRefs
    BY <2>1, <2>2 DEF LiveRefs, IndInv, TypeOK
  <2>7. \A r \in seen[u] : /\ task[r[1]][r[2]] = "owned"
                           /\ \A p \in Objects \ {o} : r \notin manifest[p]
    BY <2>1, <2>2 DEF IndInv, RowInv
  <2>8. new \subseteq (LiveRefs \ seen[u]) \cup A
    <3>1. CASE job[u].op = "put"
      BY <2>1, <2>2, <2>7, <3>1 DEF LiveRefs, Rows
    <3>2. CASE job[u].op # "put"
      BY <2>2, <3>2
    <3> QED
      BY <3>1, <3>2
  <2>10. A \in SUBSET Rows /\ \A r \in A : HashOf(r) \in indexed
    BY <1>9, <2>1 DEF CommitManifest, KeysPresent, Rows
  <2> HIDE DEF o, new, A
  <2>9. LiveRefs' \subseteq (LiveRefs \ seen[u]) \cup A
    <3> SUFFICES ASSUME NEW r \in LiveRefs' PROVE r \in (LiveRefs \ seen[u]) \cup A
      OBVIOUS
    <3>1. r \in Rows /\ r[1] \in Requests /\ r[2] \in Idx
      BY DEF LiveRefs, Rows
    <3>2. CASE task'[r[1]][r[2]] = "ref"
      <4>1. task[r[1]][r[2]] = "ref"
        BY <2>3, <3>1, <3>2
      <4> QED
        BY <2>7, <3>1, <4>1 DEF LiveRefs
    <3>3. CASE \E p \in Objects : r \in manifest'[p]
      <4>1. PICK p \in Objects : r \in manifest'[p]
        BY <3>3
      <4>2. CASE p # o
        BY <2>4, <2>7, <3>1, <4>1, <4>2 DEF LiveRefs
      <4>3. CASE p = o
        BY <2>1, <2>5, <2>8, <3>1, <4>1, <4>3 DEF LiveRefs
      <4> QED
        BY <4>2, <4>3
    <3> QED
      BY <3>2, <3>3 DEF LiveRefs
  <2> QED
    BY <1>0, <2>1, <2>6, <2>9, <2>10, SwapStep
<1>10. ASSUME NEW u \in Requests, UpsertHead(u) PROVE RefCountSound'
  BY <1>0, <1>10, SameStep DEF UpsertHead, gciVars, objVars, reqVars
<1>11. ASSUME NEW u \in Requests, PeekHead(u) PROVE RefCountSound'
  BY <1>0, <1>11, SameStep DEF PeekHead, gciVars, objVars, reqVars
<1>12. ASSUME NEW u \in Requests, DeleteHead(u) PROVE RefCountSound'
  BY <1>0, <1>12, SameStep DEF DeleteHead, gciVars, objVars, reqVars
<1>13. ASSUME NEW u \in Requests, NEW i \in Idx, NoteDuplicate(u, i) PROVE RefCountSound'
  <2>1. job' = job /\ body' = body /\ indexed' = indexed /\ refCount' = refCount /\ manifest' = manifest
    BY <1>13 DEF NoteDuplicate, gciVars, objVars, reqVars
  <2>2. \A v \in Requests, j \in Idx : task'[v][j] = "ref" => task[v][j] = "ref"
    BY <1>13 DEF NoteDuplicate, SetTask, IndInv, TypeOK, reqVars
  <2>3. LiveRefs' \subseteq LiveRefs
    BY <2>1, <2>2 DEF LiveRefs, Rows
  <2> QED
    BY <1>0, <2>1, <2>3, QuietStep
<1>14. ASSUME NEW u \in Requests, NEW i \in Idx, LookupChunk(u, i) PROVE RefCountSound'
  <2>1. job' = job /\ body' = body /\ indexed' = indexed /\ refCount' = refCount /\ manifest' = manifest
    BY <1>14 DEF LookupChunk, gciVars, objVars, reqVars
  <2>2. \A v \in Requests, j \in Idx : task'[v][j] = "ref" => task[v][j] = "ref"
    <3>1. CASE SetTask(u, i, "hit")
      BY <3>1 DEF SetTask, IndInv, TypeOK
    <3>2. CASE SetTask(u, i, "store")
      BY <3>2 DEF SetTask, IndInv, TypeOK
    <3> QED
      BY <1>14, <3>1, <3>2 DEF LookupChunk
  <2>3. LiveRefs' \subseteq LiveRefs
    BY <2>1, <2>2 DEF LiveRefs, Rows
  <2> QED
    BY <1>0, <2>1, <2>3, QuietStep
<1>15. ASSUME NEW u \in Requests, NEW i \in Idx, IncrementRef(u, i) PROVE RefCountSound'
  <2>1. job' = job /\ body' = body /\ indexed' = indexed /\ manifest' = manifest
    BY <1>15 DEF IncrementRef, objVars
  <2>2. Hash(u, i) \in Chunks
    BY <1>15, JobFacts DEF IncrementRef, IndInv, TaskInv
  <2>3. CASE Hash(u, i) \in indexed
    <3>1. TakeRef(Hash(u, i)) /\ SetTask(u, i, "ref")
      BY <1>15, <2>3 DEF IncrementRef
    <3>2. \A v \in Requests, j \in Idx : task'[v][j] = "ref" => task[v][j] = "ref" \/ (v = u /\ j = i)
      BY <3>1 DEF SetTask, IndInv, TypeOK
    <3>3. LiveRefs' \subseteq LiveRefs \cup {<<u, i>>}
      BY <2>1, <3>2 DEF LiveRefs, Rows
    <3> QED
      BY <1>0, <2>1, <2>2, <2>3, <3>1, <3>3, TakeStep
  <2>4. CASE Hash(u, i) \notin indexed
    <3>1. refCount' = refCount /\ SetTask(u, i, "store")
      BY <1>15, <2>4 DEF IncrementRef
    <3>2. \A v \in Requests, j \in Idx : task'[v][j] = "ref" => task[v][j] = "ref"
      BY <3>1 DEF SetTask, IndInv, TypeOK
    <3>3. LiveRefs' \subseteq LiveRefs
      BY <2>1, <3>2 DEF LiveRefs, Rows
    <3> QED
      BY <1>0, <2>1, <3>1, <3>3, QuietStep
  <2> QED
    BY <2>3, <2>4
<1>16. ASSUME NEW u \in Requests, NEW i \in Idx, StoreLock(u, i) PROVE RefCountSound'
  <2>1. job' = job /\ body' = body /\ indexed' = indexed /\ refCount' = refCount /\ manifest' = manifest
    BY <1>16 DEF StoreLock, gciVars, objVars, reqVars
  <2>2. \A v \in Requests, j \in Idx : task'[v][j] = "ref" => task[v][j] = "ref"
    BY <1>16 DEF StoreLock, SetTask, IndInv, TypeOK, reqVars
  <2>3. LiveRefs' \subseteq LiveRefs
    BY <2>1, <2>2 DEF LiveRefs, Rows
  <2> QED
    BY <1>0, <2>1, <2>3, QuietStep
<1>17. ASSUME NEW u \in Requests, NEW i \in Idx, StorePut(u, i) PROVE RefCountSound'
  <2>1. job' = job /\ body' = body /\ indexed' = indexed /\ refCount' = refCount /\ manifest' = manifest
    BY <1>17 DEF StorePut, gciVars, objVars, reqVars
  <2>2. \A v \in Requests, j \in Idx : task'[v][j] = "ref" => task[v][j] = "ref"
    BY <1>17 DEF StorePut, SetTask, IndInv, TypeOK, reqVars
  <2>3. LiveRefs' \subseteq LiveRefs
    BY <2>1, <2>2 DEF LiveRefs, Rows
  <2> QED
    BY <1>0, <2>1, <2>3, QuietStep
<1>18. ASSUME NEW u \in Requests, NEW i \in Idx, StoreCommit(u, i) PROVE RefCountSound'
  <2>1. job' = job /\ body' = body /\ manifest' = manifest
    BY <1>18 DEF StoreCommit, objVars
  <2>2. Hash(u, i) \in Chunks /\ job[u].enc \in Encodings
    BY <1>18, JobFacts DEF StoreCommit, IndInv, TaskInv
  <2>3. InsertChunk(Hash(u, i), job[u].enc) /\ SetTask(u, i, "ref")
    BY <1>18 DEF StoreCommit
  <2>4. \A v \in Requests, j \in Idx : task'[v][j] = "ref" => task[v][j] = "ref" \/ (v = u /\ j = i)
    BY <2>3 DEF SetTask, IndInv, TypeOK
  <2>5. LiveRefs' \subseteq LiveRefs \cup {<<u, i>>}
    BY <2>1, <2>4 DEF LiveRefs, Rows
  <2> QED
    BY <1>0, <2>1, <2>2, <2>3, <2>5, TakeStep
<1>19. ASSUME NEW u \in Requests, NEW i \in Idx, GrantWaiter(u, i) PROVE RefCountSound'
  <2>1. job' = job /\ body' = body /\ indexed' = indexed /\ manifest' = manifest
    BY <1>19 DEF GrantWaiter, objVars
  <2>2. Hash(u, i) \in Chunks
    BY <1>19, JobFacts DEF GrantWaiter, IndInv, TaskInv
  <2>3. CASE Hash(u, i) \in indexed
    <3>1. TakeRef(Hash(u, i)) /\ SetTask(u, i, "ref")
      BY <1>19, <2>3 DEF GrantWaiter
    <3>2. \A v \in Requests, j \in Idx : task'[v][j] = "ref" => task[v][j] = "ref" \/ (v = u /\ j = i)
      BY <3>1 DEF SetTask, IndInv, TypeOK
    <3>3. LiveRefs' \subseteq LiveRefs \cup {<<u, i>>}
      BY <2>1, <3>2 DEF LiveRefs, Rows
    <3> QED
      BY <1>0, <2>1, <2>2, <2>3, <3>1, <3>3, TakeStep
  <2>4. CASE Hash(u, i) \notin indexed
    <3>1. refCount' = refCount /\ SetTask(u, i, "dead")
      BY <1>19, <2>4 DEF GrantWaiter
    <3>2. \A v \in Requests, j \in Idx : task'[v][j] = "ref" => task[v][j] = "ref"
      BY <3>1 DEF SetTask, IndInv, TypeOK
    <3>3. LiveRefs' \subseteq LiveRefs
      BY <2>1, <3>2 DEF LiveRefs, Rows
    <3> QED
      BY <1>0, <2>1, <3>1, <3>3, QuietStep
  <2> QED
    BY <2>3, <2>4
<1>20. ASSUME NEW u \in Requests, NEW i \in Idx, Abandon(u, i) PROVE RefCountSound'
  <2>1. job' = job /\ body' = body /\ indexed' = indexed /\ refCount' = refCount /\ manifest' = manifest
    BY <1>20 DEF Abandon, gciVars, objVars, reqVars
  <2>2. \A v \in Requests, j \in Idx : task'[v][j] = "ref" => task[v][j] = "ref"
    BY <1>20 DEF Abandon, SetTask, IndInv, TypeOK, reqVars
  <2>3. LiveRefs' \subseteq LiveRefs
    BY <2>1, <2>2 DEF LiveRefs, Rows
  <2> QED
    BY <1>0, <2>1, <2>3, QuietStep
<1>21. ASSUME NEW u \in Requests, NEW i \in Idx, Compensate(u, i) PROVE RefCountSound'
  <2>1. /\ job' = job /\ body' = body /\ manifest' = manifest /\ task[u][i] = "ref" /\ SetTask(u, i, "dead")
        /\ SwapRefs({}, {<<u, i>>}) \/ UNCHANGED gciVars
    BY <1>21 DEF Compensate, objVars
  <2>2. \A v \in Requests, j \in Idx : task'[v][j] = "ref" => task[v][j] = "ref" /\ ~(v = u /\ j = i)
    BY <2>1 DEF SetTask, IndInv, TypeOK
  <2>3. <<u, i>> \in LiveRefs /\ \A o \in Objects : <<u, i>> \notin manifest[o]
    BY <2>1 DEF LiveRefs, Rows, IndInv, RowInv
  <2>4. LiveRefs' \subseteq LiveRefs \ {<<u, i>>}
    BY <2>1, <2>2, <2>3 DEF LiveRefs, Rows
  <2>5. CASE SwapRefs({}, {<<u, i>>})
    <3>1. {<<u, i>>} \in SUBSET LiveRefs /\ {} \in SUBSET Rows
      BY <2>3
    <3>2. LiveRefs' \subseteq (LiveRefs \ {<<u, i>>}) \cup {}
      BY <2>4
    <3> QED
      BY <1>0, <2>1, <2>5, <3>1, <3>2, SwapStep
  <2>6. CASE UNCHANGED gciVars
    <3>1. indexed' = indexed /\ refCount' = refCount /\ LiveRefs' \subseteq LiveRefs
      BY <2>4, <2>6 DEF gciVars
    <3> QED
      BY <1>0, <2>1, <3>1, QuietStep
  <2> QED
    BY <2>1, <2>5, <2>6
<1>22. ASSUME NEW g \in Runners, Reconcile(g) PROVE RefCountSound'
  <2> DEFINE n(c) == Count(ManifestRows, c)
             fix == {c \in indexed : accessAge[c] > Grace /\ refCount[c] # n(c)}
  <2>1. /\ job' = job /\ body' = body /\ indexed' = indexed /\ manifest' = manifest /\ task' = task
        /\ refCount' = [c \in Chunks |-> IF c \in fix THEN n(c) ELSE refCount[c]]
    BY <1>22 DEF Reconcile, objVars, reqVars
  <2>2. LiveRefs' = LiveRefs /\ LiveRefs \in SUBSET Rows
    BY <2>1 DEF LiveRefs
  <2>3. ASSUME NEW c \in Chunks, c \in fix PROVE RowsOf(LiveRefs, c) = RowsOf(ManifestRows, c)
    <3>1. ~(accessAge[c] <= Grace)
      <4>1. accessAge[c] \in Age /\ accessAge[c] > Grace
        BY <2>3 DEF IndInv, TypeOK
      <4> QED
        BY <4>1, ConstAssumption DEF Age
    <3>2. \A r \in Rows : HashOf(r) = c => task[r[1]][r[2]] # "ref"
      BY <3>1 DEF IndInv, AgeInv, HashOf, Rows
    <3>3. ManifestRows \in SUBSET Rows
      BY DEF IndInv, TypeOK, ManifestRows
    <3> QED
      BY <3>2, <3>3 DEF RowsOf, LiveRefs, ManifestRows
  <2>4. \A c \in Chunks : c \in fix => Count(LiveRefs, c) = n(c) /\ n(c) \in Nat
    BY <2>2, <2>3, RowsFinite DEF Count
  <2>5. fix \subseteq indexed
    OBVIOUS
  <2> HIDE DEF fix, n
  <2>6. \A c \in Chunks : IF c \in indexed' THEN refCount'[c] >= Count(LiveRefs, c)
                                            ELSE RowsOf(LiveRefs, c) = {}
    BY <2>1, <2>4, <2>5 DEF IndInv, RefCountSound
  <2> QED
    BY <1>0, <2>1, <2>2, <2>6, SoundStep DEF HashOf, Hash
<1>23. ASSUME NEW g \in Runners, SweepScan(g) PROVE RefCountSound'
  BY <1>0, <1>23, SameStep DEF SweepScan, gciVars, objVars, reqVars
<1>24. ASSUME NEW g \in Runners, SweepRow(g) PROVE RefCountSound'
  <2>1. /\ job' = job /\ body' = body /\ manifest' = manifest /\ task' = task /\ refCount' = refCount
    BY <1>24 DEF SweepRow, objVars, reqVars
  <2>2. LiveRefs' = LiveRefs /\ LiveRefs \in SUBSET Rows
    BY <2>1 DEF LiveRefs
  <2>3. CASE ~Sweepable(cur[g])
    <3>1. indexed' = indexed
      BY <1>24, <2>3 DEF SweepRow
    <3> QED
      BY <1>0, <2>1, <2>2, <3>1, QuietStep
  <2>4. CASE Sweepable(cur[g])
    <3>1. indexed' = indexed \ {cur[g]} /\ cur[g] \in indexed /\ refCount[cur[g]] = 0
      BY <1>24, <2>4 DEF SweepRow, Sweepable
    <3>2. cur[g] \in Chunks
      BY <3>1 DEF IndInv, TypeOK
    <3>3. 0 >= Count(LiveRefs, cur[g])
      BY <3>1, <3>2 DEF IndInv, RefCountSound
    <3>4. Count(LiveRefs, cur[g]) \in Nat /\ IsFiniteSet(RowsOf(LiveRefs, cur[g]))
      BY <2>2, <3>2, RowsFinite
    <3>5. Cardinality(RowsOf(LiveRefs, cur[g])) = 0
      BY <3>3, <3>4 DEF Count
    <3>6. RowsOf(LiveRefs, cur[g]) = {}
      BY <3>4, <3>5, FS_EmptySet
    <3>7. \A c \in Chunks : IF c \in indexed' THEN refCount'[c] >= Count(LiveRefs, c)
                                              ELSE RowsOf(LiveRefs, c) = {}
      BY <2>1, <3>1, <3>6 DEF IndInv, RefCountSound
    <3> QED
      BY <1>0, <2>1, <2>2, <3>7, SoundStep DEF HashOf, Hash
  <2> QED
    BY <2>3, <2>4
<1>25. ASSUME NEW g \in Runners, SweepBlob(g) PROVE RefCountSound'
  BY <1>0, <1>25, SameStep DEF SweepBlob, gciVars, objVars, reqVars
<1>26. ASSUME NEW g \in Runners, SweepDone(g) PROVE RefCountSound'
  BY <1>0, <1>26, SameStep DEF SweepDone, gciVars, objVars, reqVars
<1>27. ASSUME NEW g \in Runners, NEW c \in Chunks, SweepLock(g, c) PROVE RefCountSound'
  BY <1>0, <1>27, SameStep DEF SweepLock, gciVars, objVars, reqVars
<1>28. ASSUME NEW c \in Chunks, LoadRow(c) PROVE RefCountSound'
  BY <1>0, <1>28, SameStep DEF LoadRow, gciVars, objVars, reqVars
<1>29. ASSUME NEW c \in Chunks, CacheSet(c) PROVE RefCountSound'
  BY <1>0, <1>29, SameStep DEF CacheSet, gciVars, objVars, reqVars
<1>30. ASSUME NEW c \in Chunks, CacheEvict(c) PROVE RefCountSound'
  BY <1>0, <1>30, SameStep DEF CacheEvict, gciVars, objVars, reqVars
<1>31. ASSUME NEW c \in Chunks, RecycleConn(c) PROVE RefCountSound'
  BY <1>0, <1>31, SameStep DEF RecycleConn, gciVars, objVars, reqVars
<1>32. ASSUME Tick PROVE RefCountSound'
  BY <1>0, <1>32, SameStep DEF Tick, gciVars, objVars, reqVars
<1>33. ASSUME NEW u \in Requests, Fail(u) PROVE RefCountSound'
  BY <1>0, <1>33, SameStep DEF Fail, gciVars, objVars, reqVars
<1>34. ASSUME NEW u \in Requests, TxFail(u) PROVE RefCountSound'
  BY <1>0, <1>34, SameStep DEF TxFail, gciVars, objVars, reqVars
<1>35. ASSUME NEW u \in Requests, NEW i \in Idx, StoreFail(u, i) PROVE RefCountSound'
  <2>1. job' = job /\ body' = body /\ indexed' = indexed /\ refCount' = refCount /\ manifest' = manifest
    BY <1>35 DEF StoreFail, gciVars, objVars, reqVars
  <2>2. \A v \in Requests, j \in Idx : task'[v][j] = "ref" => task[v][j] = "ref"
    BY <1>35 DEF StoreFail, SetTask, IndInv, TypeOK, reqVars
  <2>3. LiveRefs' \subseteq LiveRefs
    BY <2>1, <2>2 DEF LiveRefs, Rows
  <2> QED
    BY <1>0, <2>1, <2>3, QuietStep
<1>36. ASSUME NEW g \in Runners, SweepFail(g) PROVE RefCountSound'
  BY <1>0, <1>36, SameStep DEF SweepFail, gciVars, objVars, reqVars
<1>37. ASSUME Crash PROVE RefCountSound'
  <2>1. job' = job /\ body' = body /\ indexed' = indexed /\ refCount' = refCount /\ manifest' = manifest
    BY <1>37 DEF Crash, gciVars, objVars, reqVars
  <2>2. \A v \in Requests, j \in Idx : task'[v][j] = "ref" => task[v][j] = "ref"
    BY <1>37 DEF Crash, SetTask, IndInv, TypeOK, reqVars
  <2>3. LiveRefs' \subseteq LiveRefs
    BY <2>1, <2>2 DEF LiveRefs, Rows
  <2> QED
    BY <1>0, <2>1, <2>3, QuietStep
<1>38. CASE UNCHANGED vars
  BY <1>0, <1>38, SameStep DEF vars, gciVars, objVars, reqVars
<1> QED
  BY <1>1, <1>2, <1>3, <1>4, <1>5, <1>6, <1>7, <1>8, <1>9, <1>10, <1>11, <1>12, <1>13, <1>14, <1>15, <1>16, <1>17, <1>18, <1>19, <1>20, <1>21, <1>22, <1>23, <1>24, <1>25, <1>26, <1>27, <1>28, <1>29, <1>30, <1>31, <1>32, <1>33, <1>34, <1>35, <1>36, <1>37, <1>38 DEF Next, RequestStep, TaskStep, RunnerStep, BackgroundStep, Failures

\* The initial states satisfy the inductive invariant.
LEMMA InitInd == Init => IndInv
<1> SUFFICES ASSUME Init PROVE IndInv
  OBVIOUS
<1>1. TypeOK
  <2>1. 0 \in Age /\ 0 \in 0..MaxCrashes /\ (CHOOSE e \in Encodings : TRUE) \in Encodings
    BY ConstAssumption DEF Age
  <2>2. \A u \in Requests : job[u] \in Jobs /\ job[u].body \in Seq(Chunks)
    BY ConstAssumption DEF Init, JobType
  <2>3. body \in [Requests -> [Idx -> Chunks \cup {None}]]
    <3>1. ASSUME NEW u \in Requests, NEW i \in Idx
          PROVE  (IF i <= Len(job[u].body) THEN job[u].body[i] ELSE None) \in Chunks \cup {None}
      BY <2>2, ConstAssumption DEF Idx
    <3> QED
      BY <3>1 DEF Init
  <2> QED
    BY <2>1, <2>3 DEF Init, TypeOK, TaskStates, PcStates, GcStates
<1>2. TaskInv /\ RowInv /\ SeenInv
  <2>1. ASSUME NEW u \in Requests, job[u].op \notin {"put", "copy"}
        PROVE  Indices(u) = {}
    <3>1. job[u] \in Jobs /\ job[u].body \in Seq(Chunks)
      BY ConstAssumption DEF Init, JobType
    <3>2. Len(job[u].body) = 0
      BY <2>1, <3>1, ConstAssumption
    <3> QED
      BY <3>2, ConstAssumption DEF Init, Indices, Idx
  <2> QED
    BY <2>1 DEF Init, TaskInv, RowInv, SeenInv, TxStates
<1>3. LockInv /\ BlobInv /\ AgeInv
  BY DEF Init, LockInv, BlobInv, AgeInv, Storing, Sweeping
<1>4. LiveRefs = {}
  BY DEF Init, LiveRefs, Rows
<1>5. RefCountSound
  BY <1>4 DEF Init, RefCountSound, RowsOf
<1> QED
  BY <1>1, <1>2, <1>3, <1>5 DEF IndInv

\* IndInv is inductive: it holds in every reachable state of the chunk store,
\* for any number of chunks, keys, requests, GC cycles and restarts.
THEOREM Inductive == Spec => []IndInv
<1>1. IndInv /\ [Next]_vars => IndInv'
  BY TypeStep, TaskStepInv, RowStepInv, SeenStepInv, LockStepInv, BlobStepInv, AgeStepInv,
     RefCountStepInv DEF IndInv
<1> QED
  BY InitInd, <1>1, PTL DEF Spec

\* The state keeps its types; in particular ref_count never drops below zero,
\* past which decrement_chunk_ref would never mark the row for deletion.
THEOREM Typed == Spec => []TypeOK
<1>1. IndInv => TypeOK
  BY DEF IndInv
<1> QED
  BY Inductive, <1>1, PTL

\* No interleaving of uploads, overwrites, deletes, reconcile, sweep, failures
\* and restarts leaves a ref_count below the references that are relied on.
THEOREM CountsSound == Spec => []RefCountSound
<1>1. IndInv => RefCountSound
  BY DEF IndInv
<1> QED
  BY Inductive, <1>1, PTL

\* No installed manifest names a chunk whose row or blob was swept.
THEOREM NoDanglingManifest == Spec => []ManifestBacked
<1>1. IndInv => ManifestBacked
  <2> HAVE IndInv
  <2> SUFFICES ASSUME NEW r \in ManifestRows
               PROVE  HashOf(r) \in indexed /\ blob[HashOf(r)] # NoBlob
    BY DEF ManifestBacked
  <2>1. PICK o \in Objects : r \in manifest[o]
    BY DEF ManifestRows
  <2>2. r \in Rows /\ r[1] \in Requests /\ r[2] \in Idx
    BY <2>1 DEF IndInv, TypeOK, Rows
  <2>3. r[2] \in Indices(r[1])
    BY <2>1, <2>2 DEF IndInv, RowInv, TaskInv
  <2>4. HashOf(r) \in Chunks
    BY <2>2, <2>3, JobFacts DEF IndInv, HashOf
  <2>5. r \in RowsOf(LiveRefs, HashOf(r))
    BY <2>1, <2>2 DEF RowsOf, LiveRefs
  <2>6. HashOf(r) \in indexed
    BY <2>4, <2>5 DEF IndInv, RefCountSound
  <2> QED
    BY <2>6 DEF IndInv, BlobInv
<1> QED
  BY Inductive, <1>1, PTL

\* Stores and sweeps of one chunk exclude each other.
THEOREM Exclusion == Spec => []StoreSweepExclusion
<1>1. IndInv => StoreSweepExclusion
  <2> HAVE IndInv
  <2>1. ASSUME NEW u \in Requests, NEW i \in Idx, NEW g \in Runners, Storing(u, i), Sweeping(g)
        PROVE  Hash(u, i) # cur[g]
    BY <2>1, ConstAssumption DEF IndInv, LockInv
  <2>2. ASSUME NEW r \in Rows, NEW s \in Rows, r # s, Storing(r[1], r[2]), Storing(s[1], s[2])
        PROVE  HashOf(r) # HashOf(s)
    <3>1. /\ r = <<r[1], r[2]>> /\ r[1] \in Requests /\ r[2] \in Idx
          /\ s = <<s[1], s[2]>> /\ s[1] \in Requests /\ s[2] \in Idx
      BY DEF Rows
    <3>2. HashOf(r) = HashOf(s) => r[1] = s[1]
      BY <2>2, <3>1 DEF IndInv, LockInv, HashOf
    <3>3. r[1] = s[1] => r[2] # s[2]
      BY <2>2, <3>1
    <3> QED
      BY <2>2, <3>1, <3>2, <3>3 DEF IndInv, TaskInv, Storing, HashOf
  <2>3. ASSUME NEW g \in Runners, NEW h \in Runners, g # h, Sweeping(g), Sweeping(h)
        PROVE  cur[g] # cur[h]
    BY <2>3 DEF IndInv, LockInv
  <2> QED
    BY <2>1, <2>2, <2>3 DEF StoreSweepExclusion
<1> QED
  BY Inductive, <1>1, PTL

=============================================================================
