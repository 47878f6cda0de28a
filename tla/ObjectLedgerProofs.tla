------------------------- MODULE ObjectLedgerProofs -------------------------
(* Proofs about ObjectLedger: no byte a row records is released, and the     *)
(* limit holds.                                                              *)
EXTENDS ObjectLedger, FiniteSetTheorems, TLAPS

\* What TypeOK says about a request's input.
LEMMA JobFacts ==
    ASSUME TypeOK
    PROVE  \A u \in Requests : Key(u) \in Objects /\ job[u].src \in Objects /\ Op(u) \in Ops
BY LedgerAssumption DEF TypeOK, JobType, Key, Op

\* Any set of bytes is finite and has a size.
LEMMA UnitsFinite ==
    /\ \A S \in SUBSET Units : IsFiniteSet(S) /\ Bytes(S) \in Nat
    /\ \A x \in Units : x[1] \in Requests
    /\ Bytes({}) = 0
<1>1. IsFiniteSet(1..MaxSize)
  BY FS_Interval, LedgerAssumption
<1>2. IsFiniteSet(Units)
  BY <1>1, FS_Product, LedgerAssumption DEF Units
<1>3. \A S \in SUBSET Units : IsFiniteSet(S) /\ Bytes(S) \in Nat
  BY <1>2, FS_Subset, FS_CardinalityType DEF Bytes
<1> QED
  BY <1>3, FS_EmptySet DEF Units, Bytes

\* A part is not larger than the whole.
LEMMA BytesMono ==
    ASSUME NEW T \in SUBSET Units, NEW S \in SUBSET T
    PROVE  Bytes(S) <= Bytes(T)
BY UnitsFinite, FS_Subset DEF Bytes

\* A union is not larger than its parts together, and as large if disjoint.
LEMMA BytesUnion ==
    ASSUME NEW S \in SUBSET Units, NEW T \in SUBSET Units
    PROVE  /\ Bytes(S \cup T) <= Bytes(S) + Bytes(T)
           /\ S \cap T = {} => Bytes(S \cup T) = Bytes(S) + Bytes(T)
<1>1. IsFiniteSet(S) /\ IsFiniteSet(T) /\ IsFiniteSet(S \cap T)
  BY UnitsFinite
<1>2. Cardinality(S \cup T) = Cardinality(S) + Cardinality(T) - Cardinality(S \cap T)
  BY <1>1, FS_Union
<1>3. Cardinality(S) \in Nat /\ Cardinality(T) \in Nat /\ Cardinality(S \cap T) \in Nat
  BY <1>1, FS_CardinalityType
<1>4. S \cap T = {} => Cardinality(S \cap T) = 0
  BY FS_EmptySet
<1> QED
  BY <1>2, <1>3, <1>4 DEF Bytes

\* The sets of bytes the actions speak of.
LEMMA Sets ==
    /\ \A u : Row(u) \in SUBSET Units /\ Ask(u) \in SUBSET Units
    /\ \A u : Excess(u) \in SUBSET Units /\ Short(u) \in SUBSET Units
    /\ \A u : Row(u) # {} => u \in Requests
    /\ \A u : Bytes(Row(u)) \in Nat /\ Bytes(Ask(u)) \in Nat /\ Bytes(Excess(u)) \in Nat /\ Bytes(Short(u)) \in Nat
<1>1. \A u : Row(u) \in SUBSET Units /\ Ask(u) \in SUBSET Units
  BY DEF Row, Ask
<1>2. \A u : Excess(u) \in SUBSET Units /\ Short(u) \in SUBSET Units
  BY <1>1 DEF Excess, Short
<1>3. \A u : Row(u) # {} => u \in Requests
  BY UnitsFinite DEF Row
<1> QED
  BY <1>1, <1>2, <1>3, UnitsFinite

\* A byte belongs to one request.
LEMMA Owner ==
    \A u : \A x \in Row(u) \cup Ask(u) \cup Excess(u) \cup Short(u) : x[1] = u
BY DEF Row, Ask, Excess, Short


\* Every step preserves the types.
LEMMA TypeStep ==
    ASSUME TypeOK, [Next]_vars
    PROVE  TypeOK'
<1>1. ASSUME NEW u \in Requests, Begin(u) PROVE TypeOK'
  <2>1. UNCHANGED <<quotaVars, objVars, job, localVars, ghostVars, crashes>>
    BY <1>1 DEF Begin
  <2>2. \E s \in PcStates : pc' = [pc EXCEPT ![u] = s]
    BY <1>1 DEF Begin, Goto, PcStates
  <2>3. pc' \in [Requests -> PcStates]
    BY <2>2 DEF TypeOK
  <2> QED
    BY <2>1, <2>3 DEF quotaVars, objVars, localVars, ghostVars, TypeOK
<1>2. ASSUME NEW u \in Requests, PeekSource(u) PROVE TypeOK'
  <2>1. UNCHANGED <<quotaVars, objVars, job, size, seen, old, ghostVars, crashes>>
    BY <1>2 DEF PeekSource
  <2>2. \A v \in {head[job[u].src]} \cup {None} : v # None => size[v] \in 0..MaxSize
    BY JobFacts DEF TypeOK
  <2>3. want' \in [Requests -> 0..MaxSize] /\ chunkedRow' \subseteq Requests
    BY <1>2, <2>2, LedgerAssumption DEF PeekSource, TypeOK
  <2>4. pc' \in [Requests -> PcStates]
    BY <1>2 DEF PeekSource, Goto, TypeOK, PcStates
  <2> QED
    BY <2>1, <2>3, <2>4 DEF quotaVars, objVars, ghostVars, TypeOK
<1>3. ASSUME NEW u \in Requests, OpenSource(u) PROVE TypeOK'
  <2>1. UNCHANGED <<quotaVars, objVars, job, chunkedRow, want, seen, old, ghostVars, crashes>>
    BY <1>3 DEF OpenSource
  <2>2. size' \in [Requests -> 0..MaxSize]
    BY <1>3, JobFacts DEF OpenSource, TypeOK
  <2>3. pc' \in [Requests -> PcStates]
    BY <1>3 DEF OpenSource, Goto, TypeOK, PcStates
  <2> QED
    BY <2>1, <2>2, <2>3 DEF quotaVars, objVars, ghostVars, TypeOK
<1>4. ASSUME NEW u \in Requests, ReadMeta(u) PROVE TypeOK'
  <2>1. UNCHANGED <<quotaVars, objVars, job, chunkedRow, want, seen, old, ghostVars, crashes>>
    BY <1>4 DEF ReadMeta
  <2>2. size' \in [Requests -> 0..MaxSize]
    BY <1>4, JobFacts DEF ReadMeta, TypeOK
  <2>3. pc' \in [Requests -> PcStates]
    BY <1>4 DEF ReadMeta, Goto, TypeOK, PcStates
  <2> QED
    BY <2>1, <2>2, <2>3 DEF quotaVars, objVars, ghostVars, TypeOK
<1>5. ASSUME NEW u \in Requests, Reserve(u) PROVE TypeOK'
  <2>1. UNCHANGED <<used, objVars, job, localVars, ghostVars, crashes>>
    BY <1>5 DEF Reserve
  <2>2. quotaLock' = quotaLock \/ quotaLock' = u
    BY <1>5 DEF Reserve, TakeQuota
  <2>3. \E s \in PcStates : pc' = [pc EXCEPT ![u] = s]
    BY <1>5 DEF Reserve, TakeQuota, Goto, AfterReserve, PcStates
  <2>4. pc' \in [Requests -> PcStates]
    BY <2>3 DEF TypeOK
  <2> QED
    BY <2>1, <2>2, <2>4 DEF objVars, localVars, ghostVars, TypeOK
<1>6. ASSUME NEW u \in Requests, Charge(u) PROVE TypeOK'
  <2>1. UNCHANGED <<objVars, job, localVars, unpaid, crashes>>
    BY <1>6 DEF Charge
  <2>2. Ask(u) \subseteq Units /\ Bytes(Ask(u)) \in Nat
    BY Sets
  <2>3. used' \in Nat /\ open' \subseteq Units
    BY <1>6, <2>2 DEF Charge, TypeOK
  <2>4. \E s \in PcStates : pc' = [pc EXCEPT ![u] = s]
    BY <1>6 DEF Charge, Goto, AfterReserve, PcStates
  <2>5. pc' \in [Requests -> PcStates] /\ quotaLock' \in Requests \cup {Free}
    BY <1>6, <2>4 DEF Charge, TypeOK
  <2> QED
    BY <2>1, <2>3, <2>5 DEF objVars, localVars, TypeOK
<1>7. ASSUME NEW u \in Requests, StoreBlob(u) PROVE TypeOK'
  <2>1. \E s \in {"lockHead", "refund"} : pc' = [pc EXCEPT ![u] = s]
    BY <1>7 DEF StoreBlob, Goto
  <2>2. UNCHANGED <<quotaVars, head, headLock, job, localVars, ghostVars, crashes>> /\ pc[u] = "store"
    BY <1>7 DEF StoreBlob
  <2>3. blob' \in [Objects -> Requests \cup {None}]
    BY <1>7, JobFacts DEF StoreBlob, TypeOK
  <2> QED
    BY <2>1, <2>2, <2>3, JobFacts, LedgerAssumption, Sets, UnitsFinite DEF quotaVars, localVars, ghostVars, TypeOK, PcStates, Units
<1>8. ASSUME NEW u \in Requests, LockHead(u) PROVE TypeOK'
  BY <1>8, JobFacts, LedgerAssumption, Sets, UnitsFinite DEF LockHead, Goto, quotaVars, ghostVars, TypeOK, PcStates, Units
<1>9. ASSUME NEW u \in Requests, CommitHead(u) PROVE TypeOK'
  BY <1>9, JobFacts, LedgerAssumption, Sets, UnitsFinite DEF CommitHead, Goto, Unlock, quotaVars, TypeOK, PcStates, Units
<1>10. ASSUME NEW u \in Requests, CommitFail(u) PROVE TypeOK'
  BY <1>10, JobFacts, LedgerAssumption, Sets, UnitsFinite DEF CommitFail, Goto, Unlock, quotaVars, ghostVars, TypeOK, PcStates, Units
<1>11. ASSUME NEW u \in Requests, Cleanup(u) PROVE TypeOK'
  BY <1>11, JobFacts, LedgerAssumption, Sets, UnitsFinite DEF Cleanup, Goto, quotaVars, localVars, ghostVars, TypeOK, PcStates, Units
<1>12. ASSUME NEW u \in Requests, Settle(u) PROVE TypeOK'
  BY <1>12, JobFacts, LedgerAssumption, Sets, UnitsFinite DEF Settle, Goto, TakeQuota, Release, quotaVars, objVars, localVars, TypeOK, PcStates, Units
<1>13. ASSUME NEW u \in Requests, Pay(u) PROVE TypeOK'
  BY <1>13, JobFacts, LedgerAssumption, Sets, UnitsFinite DEF Pay, Goto, objVars, localVars, TypeOK, PcStates, Units
<1>14. ASSUME NEW u \in Requests, ForceCharge(u) PROVE TypeOK'
  BY <1>14, JobFacts, LedgerAssumption, Sets, UnitsFinite DEF ForceCharge, Goto, objVars, localVars, TypeOK, PcStates, Units
<1>15. ASSUME NEW u \in Requests, ReleaseOld(u) PROVE TypeOK'
  BY <1>15, JobFacts, LedgerAssumption, Sets, UnitsFinite DEF ReleaseOld, Goto, Release, objVars, ghostVars, TypeOK, PcStates, Units
<1>16. ASSUME NEW u \in Requests, Refund(u) PROVE TypeOK'
  BY <1>16, JobFacts, LedgerAssumption, Sets, UnitsFinite DEF Refund, Goto, Release, objVars, localVars, TypeOK, PcStates, Units
<1>17. ASSUME NEW u \in Requests, PeekHead(u) PROVE TypeOK'
  BY <1>17, JobFacts, LedgerAssumption, Sets, UnitsFinite DEF PeekHead, Goto, quotaVars, objVars, localVars, ghostVars, TypeOK, PcStates, Units
<1>18. ASSUME NEW u \in Requests, DeleteBlob(u) PROVE TypeOK'
  BY <1>18, JobFacts, LedgerAssumption, Sets, UnitsFinite DEF DeleteBlob, Goto, quotaVars, localVars, ghostVars, TypeOK, PcStates, Units
<1>19. ASSUME NEW u \in Requests, DeleteHead(u) PROVE TypeOK'
  <2>1. UNCHANGED <<quotaVars, headLock, blob, job, chunkedRow, want, size, seen, ghostVars, crashes>>
    BY <1>19 DEF DeleteHead
  <2>2. head' \in [Objects -> Requests \cup {None}] /\ old' \in [Requests -> Requests \cup {None}]
    BY <1>19, JobFacts DEF DeleteHead, TypeOK
  <2>3. pc' \in [Requests -> PcStates]
    BY <1>19 DEF DeleteHead, Goto, TypeOK, PcStates
  <2> QED
    BY <2>1, <2>2, <2>3 DEF quotaVars, ghostVars, TypeOK
<1>20. CASE ReconcileStorageUsage
  <2>1. Bytes(Recorded) \in Nat
    BY UnitsFinite DEF Recorded
  <2> QED
    BY <1>20, <2>1 DEF ReconcileStorageUsage, objVars, localVars, TypeOK
<1>21. CASE Crash
  BY <1>21, JobFacts, LedgerAssumption, Sets, UnitsFinite DEF Crash, TypeOK, PcStates, Units
<1>22. CASE UNCHANGED vars
  BY <1>22 DEF vars, quotaVars, objVars, localVars, ghostVars, TypeOK, PcStates, Units
<1> QED
  BY <1>1, <1>2, <1>3, <1>4, <1>5, <1>6, <1>7, <1>8, <1>9, <1>10, <1>11, <1>12, <1>13, <1>14, <1>15, <1>16, <1>17, <1>18, <1>19, <1>20, <1>21, <1>22 DEF Next, RequestStep

\* Amounts change only where a copy reads its source.
LEMMA SizeFrame ==
    ASSUME TypeOK, [Next]_vars, NEW w \in Requests
    PROVE  /\ pc[w] # "peekSrc" => want'[w] = want[w]
           /\ pc[w] \notin {"openSrc", "readMeta"} => size'[w] = size[w]
<1>1. ASSUME NEW u \in Requests, PeekSource(u) \/ OpenSource(u) \/ ReadMeta(u)
      PROVE  /\ pc[w] # "peekSrc" => want'[w] = want[w]
             /\ pc[w] \notin {"openSrc", "readMeta"} => size'[w] = size[w]
  BY <1>1 DEF PeekSource, OpenSource, ReadMeta, TypeOK
<1>2. ASSUME NEW u \in Requests, Begin(u) \/ Reserve(u) \/ Charge(u) \/ StoreBlob(u) \/ LockHead(u) \/ CommitHead(u)
      PROVE  want' = want /\ size' = size
  BY <1>2 DEF Begin, Reserve, Charge, StoreBlob, LockHead, CommitHead, localVars
<1>3. ASSUME NEW u \in Requests, CommitFail(u) \/ Cleanup(u) \/ Settle(u) \/ Pay(u) \/ ForceCharge(u)
      PROVE  want' = want /\ size' = size
  BY <1>3 DEF CommitFail, Cleanup, Settle, Pay, ForceCharge, localVars
<1>4. ASSUME NEW u \in Requests, ReleaseOld(u) \/ Refund(u) \/ PeekHead(u) \/ DeleteBlob(u) \/ DeleteHead(u)
      PROVE  want' = want /\ size' = size
  BY <1>4 DEF ReleaseOld, Refund, PeekHead, DeleteBlob, DeleteHead, localVars
<1>5. CASE ReconcileStorageUsage \/ Crash \/ UNCHANGED vars
  BY <1>5 DEF ReconcileStorageUsage, Crash, vars, localVars
<1> QED
  BY <1>1, <1>2, <1>3, <1>4, <1>5 DEF Next, RequestStep

\* The sets of bytes of a request stay what they are outside those steps.
LEMMA SetFrame ==
    ASSUME TypeOK, [Next]_vars
    PROVE  \A w \in Requests :
              /\ pc[w] # "peekSrc" => Ask(w)' = Ask(w)
              /\ pc[w] \notin {"openSrc", "readMeta"} => Row(w)' = Row(w)
              /\ pc[w] \notin {"peekSrc", "openSrc", "readMeta"} => Short(w)' = Short(w) /\ Excess(w)' = Excess(w)
<1> SUFFICES ASSUME NEW w \in Requests
             PROVE  /\ pc[w] # "peekSrc" => Ask(w)' = Ask(w)
                    /\ pc[w] \notin {"openSrc", "readMeta"} => Row(w)' = Row(w)
                    /\ pc[w] \notin {"peekSrc", "openSrc", "readMeta"} => Short(w)' = Short(w) /\ Excess(w)' = Excess(w)
  OBVIOUS
<1>1. pc[w] # "peekSrc" => Ask(w)' = Ask(w)
  BY SizeFrame DEF Ask
<1>2. pc[w] \notin {"openSrc", "readMeta"} => Row(w)' = Row(w)
  BY SizeFrame DEF Row
<1> QED
  BY <1>1, <1>2 DEF Short, Excess

\* Rows stay where they are when a request moves on that has placed none.
LEMMA PlaceKept ==
    ASSUME PlaceInv, NEW u \in Requests, UNCHANGED <<head, old, job>>, pc[u] \notin After,
           \A v \in Requests \ {u} : pc'[v] = pc[v]
    PROVE  PlaceInv'
<1>1. \A v \in Requests : Placed(v) => pc'[v] = pc[v]
  BY DEF PlaceInv
<1>2. \A v \in Requests : old[v] # None => pc'[v] = pc[v]
  BY DEF PlaceInv
<1>3. \A v : Placed(v)' = Placed(v) /\ Key(v)' = Key(v)
  BY DEF Placed, Key
<1> QED
  BY <1>1, <1>2, <1>3 DEF PlaceInv, Key

\* Rows stay under one key, and in one place.
LEMMA PlaceStep ==
    ASSUME TypeOK, PlaceInv, SeenInv, [Next]_vars
    PROVE  PlaceInv'
<1>1. ASSUME NEW u \in Requests, Begin(u) PROVE PlaceInv'
  <2>1. UNCHANGED <<head, old, job>> /\ pc[u] \notin After
    BY <1>1 DEF Begin, objVars, localVars, After
  <2>2. \A v \in Requests \ {u} : pc'[v] = pc[v]
    BY <1>1 DEF Begin, Goto, objVars, localVars, TypeOK
  <2> QED
    BY <2>1, <2>2, PlaceKept
<1>2. ASSUME NEW u \in Requests, PeekSource(u) PROVE PlaceInv'
  <2>1. UNCHANGED <<head, old, job>> /\ pc[u] \notin After
    BY <1>2 DEF PeekSource, objVars, After
  <2>2. \A v \in Requests \ {u} : pc'[v] = pc[v]
    BY <1>2 DEF PeekSource, Goto, objVars, TypeOK
  <2> QED
    BY <2>1, <2>2, PlaceKept
<1>3. ASSUME NEW u \in Requests, OpenSource(u) PROVE PlaceInv'
  <2>1. UNCHANGED <<head, old, job>> /\ pc[u] \notin After
    BY <1>3 DEF OpenSource, objVars, After
  <2>2. \A v \in Requests \ {u} : pc'[v] = pc[v]
    BY <1>3 DEF OpenSource, Goto, objVars, TypeOK
  <2> QED
    BY <2>1, <2>2, PlaceKept
<1>4. ASSUME NEW u \in Requests, ReadMeta(u) PROVE PlaceInv'
  <2>1. UNCHANGED <<head, old, job>> /\ pc[u] \notin After
    BY <1>4 DEF ReadMeta, objVars, After
  <2>2. \A v \in Requests \ {u} : pc'[v] = pc[v]
    BY <1>4 DEF ReadMeta, Goto, objVars, TypeOK
  <2> QED
    BY <2>1, <2>2, PlaceKept
<1>5. ASSUME NEW u \in Requests, Reserve(u) PROVE PlaceInv'
  <2>1. UNCHANGED <<head, old, job>> /\ pc[u] \notin After
    BY <1>5 DEF Reserve, objVars, localVars, After
  <2>2. \A v \in Requests \ {u} : pc'[v] = pc[v]
    BY <1>5 DEF Reserve, TakeQuota, Goto, objVars, localVars, TypeOK
  <2> QED
    BY <2>1, <2>2, PlaceKept
<1>6. ASSUME NEW u \in Requests, Charge(u) PROVE PlaceInv'
  <2>1. UNCHANGED <<head, old, job>> /\ pc[u] \notin After
    BY <1>6 DEF Charge, objVars, localVars, After
  <2>2. \A v \in Requests \ {u} : pc'[v] = pc[v]
    BY <1>6 DEF Charge, Goto, objVars, localVars, TypeOK
  <2> QED
    BY <2>1, <2>2, PlaceKept
<1>7. ASSUME NEW u \in Requests, StoreBlob(u) PROVE PlaceInv'
  <2>1. \E s \in {"lockHead", "refund"} : pc' = [pc EXCEPT ![u] = s]
    BY <1>7 DEF StoreBlob, Goto
  <2>2. UNCHANGED <<quotaVars, head, headLock, job, localVars, ghostVars, crashes>> /\ pc[u] = "store"
    BY <1>7 DEF StoreBlob
  <2> QED
    BY <2>1, <2>2, JobFacts, LedgerAssumption DEF quotaVars, localVars, ghostVars, PlaceInv, Placed, After, TypeOK, PcStates, Key
<1>8. ASSUME NEW u \in Requests, LockHead(u) PROVE PlaceInv'
  BY <1>8, JobFacts, LedgerAssumption DEF LockHead, Goto, quotaVars, ghostVars, PlaceInv, Placed, After, TypeOK, PcStates, Key, SeenInv
<1>9. ASSUME NEW u \in Requests, CommitHead(u) PROVE PlaceInv'
  BY <1>9, JobFacts, LedgerAssumption DEF CommitHead, Goto, Unlock, quotaVars, PlaceInv, Placed, After, TypeOK, PcStates, Key, SeenInv
<1>10. ASSUME NEW u \in Requests, CommitFail(u) PROVE PlaceInv'
  BY <1>10, JobFacts, LedgerAssumption DEF CommitFail, Goto, Unlock, quotaVars, ghostVars, PlaceInv, Placed, After, TypeOK, PcStates, Key, SeenInv
<1>11. ASSUME NEW u \in Requests, Cleanup(u) PROVE PlaceInv'
  BY <1>11, JobFacts, LedgerAssumption DEF Cleanup, Goto, quotaVars, localVars, ghostVars, PlaceInv, Placed, After, TypeOK, PcStates, Key, SeenInv
<1>12. ASSUME NEW u \in Requests, Settle(u) PROVE PlaceInv'
  BY <1>12, JobFacts, LedgerAssumption DEF Settle, Goto, TakeQuota, Release, quotaVars, objVars, localVars, PlaceInv, Placed, After, TypeOK, PcStates, Key, SeenInv
<1>13. ASSUME NEW u \in Requests, Pay(u) PROVE PlaceInv'
  BY <1>13, JobFacts, LedgerAssumption DEF Pay, Goto, objVars, localVars, PlaceInv, Placed, After, TypeOK, PcStates, Key, SeenInv
<1>14. ASSUME NEW u \in Requests, ForceCharge(u) PROVE PlaceInv'
  BY <1>14, JobFacts, LedgerAssumption DEF ForceCharge, Goto, objVars, localVars, PlaceInv, Placed, After, TypeOK, PcStates, Key, SeenInv
<1>15. ASSUME NEW u \in Requests, ReleaseOld(u) PROVE PlaceInv'
  BY <1>15, JobFacts, LedgerAssumption DEF ReleaseOld, Goto, Release, objVars, ghostVars, PlaceInv, Placed, After, TypeOK, PcStates, Key, SeenInv
<1>16. ASSUME NEW u \in Requests, Refund(u) PROVE PlaceInv'
  BY <1>16, JobFacts, LedgerAssumption DEF Refund, Goto, Release, objVars, localVars, PlaceInv, Placed, After, TypeOK, PcStates, Key, SeenInv
<1>17. ASSUME NEW u \in Requests, PeekHead(u) PROVE PlaceInv'
  <2>1. UNCHANGED <<head, old, job>> /\ pc[u] \notin After
    BY <1>17 DEF PeekHead, objVars, localVars, After
  <2>2. \A v \in Requests \ {u} : pc'[v] = pc[v]
    BY <1>17 DEF PeekHead, Goto, objVars, localVars, TypeOK
  <2> QED
    BY <2>1, <2>2, PlaceKept
<1>18. ASSUME NEW u \in Requests, DeleteBlob(u) PROVE PlaceInv'
  <2>1. UNCHANGED <<head, old, job>> /\ pc[u] \notin After
    BY <1>18 DEF DeleteBlob, localVars, After
  <2>2. \A v \in Requests \ {u} : pc'[v] = pc[v]
    BY <1>18 DEF DeleteBlob, Goto, localVars, TypeOK
  <2> QED
    BY <2>1, <2>2, PlaceKept
<1>19. ASSUME NEW u \in Requests, DeleteHead(u) PROVE PlaceInv'
  <2>1. Key(u) \in Objects /\ pc[u] \notin After /\ UNCHANGED <<job, seen>>
    BY <1>19, JobFacts DEF DeleteHead, After
  <2>2. old[u] = None /\ ~Placed(u)
    BY <2>1, LedgerAssumption DEF PlaceInv
  <2>3. \A v \in Requests \ {u} : pc'[v] = pc[v]
    BY <1>19 DEF DeleteHead, Goto, TypeOK
  <2>4. CASE UNCHANGED <<old, head>>
    BY <2>1, <2>2, <2>3, <2>4 DEF PlaceInv, Placed, Key
  <2>5. CASE /\ old' = [old EXCEPT ![u] = head[Key(u)]] /\ head' = [head EXCEPT ![Key(u)] = None]
             /\ pc' = [pc EXCEPT ![u] = "release"]
    <3>1. /\ old'[u] = head[Key(u)] /\ \A v \in Requests \ {u} : old'[v] = old[v]
          /\ head'[Key(u)] = None /\ \A o \in Objects \ {Key(u)} : head'[o] = head[o]
          /\ pc'[u] \in After \ {"done", "failed"}
      BY <2>1, <2>5 DEF TypeOK, After
    <3>2. \A v \in Requests : Placed(v)' => Placed(v)
      BY <2>1, <3>1, LedgerAssumption DEF Placed
    <3>3. \A o \in Objects : head'[o] # None => Key(head[o])' = o
      <4>1. \A o \in Objects : head'[o] # None => head'[o] = head[o]
        BY <3>1
      <4>2. \A o \in Objects : Key(head[o])' = job[head'[o]].key
        BY <2>1 DEF Key
      <4> QED
        BY <4>1, <4>2 DEF PlaceInv, Key
    <3>4. \A v \in Requests : Placed(v)' => pc'[v] \in After
      BY <2>3, <3>1, <3>2 DEF PlaceInv
    <3>5. \A v \in Requests : old'[v] # None => \A o \in Objects : head'[o] # old'[v]
      BY <2>1, <3>1 DEF PlaceInv, Key
    <3>6. \A v \in Requests : old'[v] # None => \A w \in Requests : old'[w] = old'[v] => w = v
      BY <2>1, <3>1 DEF PlaceInv
    <3>7. \A v \in Requests : old'[v] # None => pc'[v] \in After \ {"done", "failed"}
      BY <2>3, <3>1 DEF PlaceInv
    <3> QED
      BY <3>3, <3>4, <3>5, <3>6, <3>7, Zenon DEF PlaceInv
  <2> QED
    BY <1>19, <2>4, <2>5 DEF DeleteHead, Goto
<1>20. CASE ReconcileStorageUsage
  BY <1>20, JobFacts, LedgerAssumption DEF ReconcileStorageUsage, objVars, localVars, PlaceInv, Placed, After, TypeOK, PcStates, Key, SeenInv
<1>21. CASE Crash
  BY <1>21, JobFacts, LedgerAssumption DEF Crash, PlaceInv, Placed, After, TypeOK, PcStates, Key, SeenInv
<1>22. CASE UNCHANGED vars
  BY <1>22 DEF vars, quotaVars, objVars, localVars, ghostVars, PlaceInv, Placed, After, TypeOK, PcStates, Key, SeenInv
<1> QED
  BY <1>1, <1>2, <1>3, <1>4, <1>5, <1>6, <1>7, <1>8, <1>9, <1>10, <1>11, <1>12, <1>13, <1>14, <1>15, <1>16, <1>17, <1>18, <1>19, <1>20, <1>21, <1>22 DEF Next, RequestStep

\* The head row lock keeps what its holder saw.
LEMMA SeenStep ==
    ASSUME TypeOK, SeenInv, [Next]_vars
    PROVE  SeenInv'
<1>1. ASSUME NEW u \in Requests, Begin(u) PROVE SeenInv'
  BY <1>1, JobFacts, LedgerAssumption DEF Begin, Goto, quotaVars, objVars, localVars, ghostVars, SeenInv, TypeOK, PcStates, Key
<1>2. ASSUME NEW u \in Requests, PeekSource(u) PROVE SeenInv'
  BY <1>2, JobFacts, LedgerAssumption DEF PeekSource, Goto, quotaVars, objVars, ghostVars, SeenInv, TypeOK, PcStates, Key
<1>3. ASSUME NEW u \in Requests, OpenSource(u) PROVE SeenInv'
  BY <1>3, JobFacts, LedgerAssumption DEF OpenSource, Goto, quotaVars, objVars, ghostVars, SeenInv, TypeOK, PcStates, Key
<1>4. ASSUME NEW u \in Requests, ReadMeta(u) PROVE SeenInv'
  BY <1>4, JobFacts, LedgerAssumption DEF ReadMeta, Goto, quotaVars, objVars, ghostVars, SeenInv, TypeOK, PcStates, Key
<1>5. ASSUME NEW u \in Requests, Reserve(u) PROVE SeenInv'
  BY <1>5, JobFacts, LedgerAssumption DEF Reserve, Goto, TakeQuota, AfterReserve, objVars, localVars, ghostVars, SeenInv, TypeOK, PcStates, Key
<1>6. ASSUME NEW u \in Requests, Charge(u) PROVE SeenInv'
  BY <1>6, JobFacts, LedgerAssumption DEF Charge, Goto, AfterReserve, objVars, localVars, SeenInv, TypeOK, PcStates, Key
<1>7. ASSUME NEW u \in Requests, StoreBlob(u) PROVE SeenInv'
  BY <1>7, JobFacts, LedgerAssumption DEF StoreBlob, Goto, quotaVars, localVars, ghostVars, SeenInv, TypeOK, PcStates, Key
<1>8. ASSUME NEW u \in Requests, LockHead(u) PROVE SeenInv'
  BY <1>8, JobFacts, LedgerAssumption DEF LockHead, Goto, quotaVars, ghostVars, SeenInv, TypeOK, PcStates, Key
<1>9. ASSUME NEW u \in Requests, CommitHead(u) PROVE SeenInv'
  BY <1>9, JobFacts, LedgerAssumption DEF CommitHead, Goto, Unlock, quotaVars, SeenInv, TypeOK, PcStates, Key
<1>10. ASSUME NEW u \in Requests, CommitFail(u) PROVE SeenInv'
  BY <1>10, JobFacts, LedgerAssumption DEF CommitFail, Goto, Unlock, quotaVars, ghostVars, SeenInv, TypeOK, PcStates, Key
<1>11. ASSUME NEW u \in Requests, Cleanup(u) PROVE SeenInv'
  BY <1>11, JobFacts, LedgerAssumption DEF Cleanup, Goto, quotaVars, localVars, ghostVars, SeenInv, TypeOK, PcStates, Key
<1>12. ASSUME NEW u \in Requests, Settle(u) PROVE SeenInv'
  BY <1>12, JobFacts, LedgerAssumption DEF Settle, Goto, TakeQuota, Release, quotaVars, objVars, localVars, SeenInv, TypeOK, PcStates, Key
<1>13. ASSUME NEW u \in Requests, Pay(u) PROVE SeenInv'
  BY <1>13, JobFacts, LedgerAssumption DEF Pay, Goto, objVars, localVars, SeenInv, TypeOK, PcStates, Key
<1>14. ASSUME NEW u \in Requests, ForceCharge(u) PROVE SeenInv'
  BY <1>14, JobFacts, LedgerAssumption DEF ForceCharge, Goto, objVars, localVars, SeenInv, TypeOK, PcStates, Key
<1>15. ASSUME NEW u \in Requests, ReleaseOld(u) PROVE SeenInv'
  BY <1>15, JobFacts, LedgerAssumption DEF ReleaseOld, Goto, Release, objVars, ghostVars, SeenInv, TypeOK, PcStates, Key
<1>16. ASSUME NEW u \in Requests, Refund(u) PROVE SeenInv'
  BY <1>16, JobFacts, LedgerAssumption DEF Refund, Goto, Release, objVars, localVars, SeenInv, TypeOK, PcStates, Key
<1>17. ASSUME NEW u \in Requests, PeekHead(u) PROVE SeenInv'
  BY <1>17, JobFacts, LedgerAssumption DEF PeekHead, Goto, quotaVars, objVars, localVars, ghostVars, SeenInv, TypeOK, PcStates, Key
<1>18. ASSUME NEW u \in Requests, DeleteBlob(u) PROVE SeenInv'
  BY <1>18, JobFacts, LedgerAssumption DEF DeleteBlob, Goto, quotaVars, localVars, ghostVars, SeenInv, TypeOK, PcStates, Key
<1>19. ASSUME NEW u \in Requests, DeleteHead(u) PROVE SeenInv'
  BY <1>19, JobFacts, LedgerAssumption DEF DeleteHead, Goto, quotaVars, ghostVars, SeenInv, TypeOK, PcStates, Key
<1>20. CASE ReconcileStorageUsage
  BY <1>20, JobFacts, LedgerAssumption DEF ReconcileStorageUsage, objVars, localVars, SeenInv, TypeOK, PcStates, Key
<1>21. CASE Crash
  BY <1>21, JobFacts, LedgerAssumption DEF Crash, SeenInv, TypeOK, PcStates, Key
<1>22. CASE UNCHANGED vars
  BY <1>22 DEF vars, quotaVars, objVars, localVars, ghostVars, SeenInv, TypeOK, PcStates, Key
<1> QED
  BY <1>1, <1>2, <1>3, <1>4, <1>5, <1>6, <1>7, <1>8, <1>9, <1>10, <1>11, <1>12, <1>13, <1>14, <1>15, <1>16, <1>17, <1>18, <1>19, <1>20, <1>21, <1>22 DEF Next, RequestStep

\* The quota row lock keeps the room its holder saw.
LEMMA QuotaStep ==
    ASSUME TypeOK, QuotaInv, [Next]_vars
    PROVE  QuotaInv'
<1>1. ASSUME NEW u \in Requests, Begin(u) PROVE QuotaInv'
  BY <1>1, JobFacts, LedgerAssumption, SetFrame, Sets DEF Begin, Goto, quotaVars, objVars, localVars, ghostVars, QuotaInv, TypeOK, PcStates, Bytes
<1>2. ASSUME NEW u \in Requests, PeekSource(u) PROVE QuotaInv'
  BY <1>2, JobFacts, LedgerAssumption, SetFrame, Sets DEF PeekSource, Goto, quotaVars, objVars, ghostVars, QuotaInv, TypeOK, PcStates, Bytes
<1>3. ASSUME NEW u \in Requests, OpenSource(u) PROVE QuotaInv'
  BY <1>3, JobFacts, LedgerAssumption, SetFrame, Sets DEF OpenSource, Goto, quotaVars, objVars, ghostVars, QuotaInv, TypeOK, PcStates, Bytes
<1>4. ASSUME NEW u \in Requests, ReadMeta(u) PROVE QuotaInv'
  BY <1>4, JobFacts, LedgerAssumption, SetFrame, Sets DEF ReadMeta, Goto, quotaVars, objVars, ghostVars, QuotaInv, TypeOK, PcStates, Bytes
<1>5. ASSUME NEW u \in Requests, Reserve(u) PROVE QuotaInv'
  BY <1>5, JobFacts, LedgerAssumption, SetFrame, Sets DEF Reserve, Goto, TakeQuota, AfterReserve, objVars, localVars, ghostVars, QuotaInv, TypeOK, PcStates, Bytes
<1>6. ASSUME NEW u \in Requests, Charge(u) PROVE QuotaInv'
  BY <1>6, JobFacts, LedgerAssumption, SetFrame, Sets DEF Charge, Goto, AfterReserve, objVars, localVars, QuotaInv, TypeOK, PcStates, Bytes
<1>7. ASSUME NEW u \in Requests, StoreBlob(u) PROVE QuotaInv'
  <2>1. \E s \in {"lockHead", "refund"} : pc' = [pc EXCEPT ![u] = s]
    BY <1>7 DEF StoreBlob, Goto
  <2>2. UNCHANGED <<quotaVars, head, headLock, job, localVars, ghostVars, crashes>> /\ pc[u] = "store"
    BY <1>7 DEF StoreBlob
  <2> QED
    BY <2>1, <2>2, JobFacts, LedgerAssumption, SetFrame, Sets DEF quotaVars, localVars, ghostVars, QuotaInv, TypeOK, PcStates, Bytes
<1>8. ASSUME NEW u \in Requests, LockHead(u) PROVE QuotaInv'
  BY <1>8, JobFacts, LedgerAssumption, SetFrame, Sets DEF LockHead, Goto, quotaVars, ghostVars, QuotaInv, TypeOK, PcStates, Bytes
<1>9. ASSUME NEW u \in Requests, CommitHead(u) PROVE QuotaInv'
  BY <1>9, JobFacts, LedgerAssumption, SetFrame, Sets DEF CommitHead, Goto, Unlock, quotaVars, QuotaInv, TypeOK, PcStates, Bytes
<1>10. ASSUME NEW u \in Requests, CommitFail(u) PROVE QuotaInv'
  BY <1>10, JobFacts, LedgerAssumption, SetFrame, Sets DEF CommitFail, Goto, Unlock, quotaVars, ghostVars, QuotaInv, TypeOK, PcStates, Bytes
<1>11. ASSUME NEW u \in Requests, Cleanup(u) PROVE QuotaInv'
  BY <1>11, JobFacts, LedgerAssumption, SetFrame, Sets DEF Cleanup, Goto, quotaVars, localVars, ghostVars, QuotaInv, TypeOK, PcStates, Bytes
<1>12. ASSUME NEW u \in Requests, Settle(u) PROVE QuotaInv'
  BY <1>12, JobFacts, LedgerAssumption, SetFrame, Sets DEF Settle, Goto, TakeQuota, Release, quotaVars, objVars, localVars, QuotaInv, TypeOK, PcStates, Bytes
<1>13. ASSUME NEW u \in Requests, Pay(u) PROVE QuotaInv'
  BY <1>13, JobFacts, LedgerAssumption, SetFrame, Sets DEF Pay, Goto, objVars, localVars, QuotaInv, TypeOK, PcStates, Bytes
<1>14. ASSUME NEW u \in Requests, ForceCharge(u) PROVE QuotaInv'
  BY <1>14, JobFacts, LedgerAssumption, SetFrame, Sets DEF ForceCharge, Goto, objVars, localVars, QuotaInv, TypeOK, PcStates, Bytes
<1>15. ASSUME NEW u \in Requests, ReleaseOld(u) PROVE QuotaInv'
  BY <1>15, JobFacts, LedgerAssumption, SetFrame, Sets DEF ReleaseOld, Goto, Release, objVars, ghostVars, QuotaInv, TypeOK, PcStates, Bytes
<1>16. ASSUME NEW u \in Requests, Refund(u) PROVE QuotaInv'
  BY <1>16, JobFacts, LedgerAssumption, SetFrame, Sets DEF Refund, Goto, Release, objVars, localVars, QuotaInv, TypeOK, PcStates, Bytes
<1>17. ASSUME NEW u \in Requests, PeekHead(u) PROVE QuotaInv'
  BY <1>17, JobFacts, LedgerAssumption, SetFrame, Sets DEF PeekHead, Goto, quotaVars, objVars, localVars, ghostVars, QuotaInv, TypeOK, PcStates, Bytes
<1>18. ASSUME NEW u \in Requests, DeleteBlob(u) PROVE QuotaInv'
  BY <1>18, JobFacts, LedgerAssumption, SetFrame, Sets DEF DeleteBlob, Goto, quotaVars, localVars, ghostVars, QuotaInv, TypeOK, PcStates, Bytes
<1>19. ASSUME NEW u \in Requests, DeleteHead(u) PROVE QuotaInv'
  BY <1>19, JobFacts, LedgerAssumption, SetFrame, Sets DEF DeleteHead, Goto, quotaVars, ghostVars, QuotaInv, TypeOK, PcStates, Bytes
<1>20. CASE ReconcileStorageUsage
  BY <1>20 DEF ReconcileStorageUsage, Quiescent, QuotaInv
<1>21. CASE Crash
  BY <1>21, JobFacts, LedgerAssumption, SetFrame, Sets DEF Crash, QuotaInv, TypeOK, PcStates, Bytes
<1>22. CASE UNCHANGED vars
  BY <1>22 DEF vars, quotaVars, localVars, QuotaInv, Ask, Short, Row
<1> QED
  BY <1>1, <1>2, <1>3, <1>4, <1>5, <1>6, <1>7, <1>8, <1>9, <1>10, <1>11, <1>12, <1>13, <1>14, <1>15, <1>16, <1>17, <1>18, <1>19, <1>20, <1>21, <1>22 DEF Next, RequestStep

\* Steps that touch neither quota, rows nor reservations, and where they lead.
LEMMA QuietMove ==
    ASSUME TypeOK, NEW u \in Requests,
           \/ Begin(u) \/ PeekSource(u) \/ OpenSource(u) \/ ReadMeta(u) \/ Reserve(u) \/ StoreBlob(u)
           \/ LockHead(u) \/ CommitFail(u) \/ Cleanup(u) \/ PeekHead(u) \/ DeleteBlob(u)
    PROVE  /\ UNCHANGED <<used, head, old, open, unpaid>>
           /\ \E s \in PcStates :
                 /\ pc' = [pc EXCEPT ![u] = s]
                 /\ s \in Holding => pc[u] \in Holding \/ (pc[u] = "reserve" /\ Ask(u) = {})
                 /\ pc[u] \in Holding => s \in Holding \cup {"settle"}
                 /\ pc[u] \in {"cleanup", "settle"} => s = "settle"
                 /\ s \in {"cleanup", "settle"} => pc[u] \in {"lockHead", "commit", "cleanup"}
                 /\ pc[u] \in After => s \in After
<1> DEFINE Move(s) ==
        /\ s \in PcStates
        /\ pc' = [pc EXCEPT ![u] = s]
        /\ s \in Holding => pc[u] \in Holding \/ (pc[u] = "reserve" /\ Ask(u) = {})
        /\ pc[u] \in Holding => s \in Holding \cup {"settle"}
        /\ pc[u] \in {"cleanup", "settle"} => s = "settle"
        /\ s \in {"cleanup", "settle"} => pc[u] \in {"lockHead", "commit", "cleanup"}
        /\ pc[u] \in After => s \in After
<1> SUFFICES UNCHANGED <<used, head, old, open, unpaid>> /\ \E s : Move(s)
  BY Zenon
<1>1. CASE Begin(u) \/ PeekHead(u) \/ DeleteBlob(u)
  <2>1. \/ pc[u] = "idle" /\ \E s \in {"reserve", "peekSrc", "peekHead", "unhead"} : pc' = [pc EXCEPT ![u] = s]
        \/ pc[u] \in {"peekHead", "unblob"} /\ \E s \in {"unblob", "unhead", "failed"} : pc' = [pc EXCEPT ![u] = s]
    BY <1>1 DEF Begin, PeekHead, DeleteBlob, Goto
  <2>2. \E s : Move(s)
    BY <2>1 DEF PcStates, Holding, After
  <2> QED
    BY <1>1, <2>2 DEF Begin, PeekHead, DeleteBlob, quotaVars, objVars, localVars, ghostVars
<1>2. CASE PeekSource(u) \/ OpenSource(u)
  <2>1. /\ pc[u] \in {"peekSrc", "openSrc"}
        /\ \E s \in {"reserve", "failed", "openSrc"} : pc' = [pc EXCEPT ![u] = s]
    BY <1>2 DEF PeekSource, OpenSource, Goto
  <2>2. \E s : Move(s)
    BY <2>1 DEF PcStates, Holding, After
  <2> QED
    BY <1>2, <2>2 DEF PeekSource, OpenSource, quotaVars, objVars, localVars, ghostVars
<1>3. CASE ReadMeta(u) \/ StoreBlob(u) \/ LockHead(u)
  <2>1. /\ pc[u] \in {"readMeta", "store", "lockHead"}
        /\ \E s \in {"lockHead", "refund", "commit"} : pc' = [pc EXCEPT ![u] = s]
    BY <1>3 DEF ReadMeta, StoreBlob, LockHead, Goto
  <2>2. \E s : Move(s)
    BY <2>1 DEF PcStates, Holding, After
  <2> QED
    BY <1>3, <2>2 DEF ReadMeta, StoreBlob, LockHead, quotaVars, objVars, localVars, ghostVars
<1>4. CASE CommitFail(u) \/ Cleanup(u)
  <2>1. \/ pc[u] \in {"lockHead", "commit"} /\ \E s \in {"settle", "refund"} : pc' = [pc EXCEPT ![u] = s]
        \/ pc[u] = "cleanup" /\ pc' = [pc EXCEPT ![u] = "settle"]
    BY <1>4 DEF CommitFail, Cleanup, Goto
  <2>2. \E s : Move(s)
    BY <2>1 DEF PcStates, Holding, After
  <2> QED
    BY <1>4, <2>2 DEF CommitFail, Cleanup, quotaVars, objVars, localVars, ghostVars
<1>5. CASE Reserve(u)
  <2>1. want[u] = 0 => Ask(u) = {}
    BY LedgerAssumption DEF Ask, Units
  <2>2. \/ \E s \in {"charge", "failed"} : pc' = [pc EXCEPT ![u] = s]
        \/ want[u] = 0 /\ \E s \in {"failed", "readMeta", "store"} : pc' = [pc EXCEPT ![u] = s]
    BY <1>5 DEF Reserve, TakeQuota, AfterReserve, Goto
  <2>3. pc[u] = "reserve"
    BY <1>5 DEF Reserve
  <2>4. \E s : Move(s)
    BY <2>1, <2>2, <2>3 DEF PcStates, Holding, After
  <2> QED
    BY <1>5, <2>4 DEF Reserve, objVars, localVars, ghostVars
<1> QED
  BY <1>1, <1>2, <1>3, <1>4, <1>5

\* A request with a row, or with bytes to be released, has no reservation to
\* read its size for.
LEMMA PlacedFrame ==
    ASSUME TypeOK, PlaceInv, [Next]_vars, NEW v \in Requests, Placed(v)
    PROVE  Row(v)' = Row(v)
BY SetFrame DEF PlaceInv, After

\* The steps that leave rows and reservations alone keep the two apart.
LEMMA OpenQuiet ==
    ASSUME TypeOK, PlaceInv, OpenInv, [Next]_vars, NEW u \in Requests,
           \/ Begin(u) \/ PeekSource(u) \/ OpenSource(u) \/ ReadMeta(u) \/ Reserve(u) \/ StoreBlob(u)
           \/ LockHead(u) \/ CommitFail(u) \/ Cleanup(u) \/ PeekHead(u) \/ DeleteBlob(u)
    PROVE  OpenInv'
<1>1. UNCHANGED <<used, head, old, open, unpaid>>
  BY QuietMove
<1>2. PICK s \in PcStates :
        /\ pc' = [pc EXCEPT ![u] = s]
        /\ s \in Holding => pc[u] \in Holding \/ (pc[u] = "reserve" /\ Ask(u) = {})
        /\ pc[u] \in Holding => s \in Holding \cup {"settle"}
        /\ pc[u] \in {"cleanup", "settle"} => s = "settle"
        /\ s \in {"cleanup", "settle"} => pc[u] \in {"lockHead", "commit", "cleanup"}
        /\ pc[u] \in After => s \in After
  BY QuietMove, Zenon
<1>3. pc'[u] = s /\ \A w \in Requests : w # u => pc'[w] = pc[w]
  BY <1>2 DEF TypeOK
<1>4. \A w \in Requests : pc'[w] \in Holding => Ask(w)' \subseteq open'
  BY <1>1, <1>2, <1>3, SetFrame DEF OpenInv, Holding
<1>5. \A x \in open' : pc'[x[1]] \in Holding \cup {"cleanup", "settle"}
  BY <1>1, <1>2, <1>3, UnitsFinite DEF OpenInv, TypeOK
<1>6. \A w \in Requests : pc'[w] \in {"cleanup", "settle"} => Excess(w)' \subseteq open'
  <2>1. \A w \in Requests : pc[w] \in {"lockHead", "commit", "cleanup", "settle"} => Excess(w) \subseteq open
    BY DEF OpenInv, Holding, Excess
  <2>2. \A w \in Requests : pc'[w] \in {"cleanup", "settle"} => pc[w] \in {"lockHead", "commit", "cleanup", "settle"}
    BY <1>2, <1>3
  <2> QED
    BY <1>1, <2>1, <2>2, SetFrame
<1>7. \A v \in Requests : Placed(v)' => open' \cap Row(v)' = {}
  BY <1>1, PlacedFrame DEF OpenInv, Placed
<1>8. \A x \in unpaid' : x \in Short(x[1])' /\ pc'[x[1]] \in After
  BY <1>1, <1>2, <1>3, SetFrame, UnitsFinite DEF OpenInv, After, TypeOK
<1> QED
  BY <1>4, <1>5, <1>6, <1>7, <1>8 DEF OpenInv


\* Reservations and rows stay apart.
LEMMA OpenStep ==
    ASSUME TypeOK, PlaceInv, SeenInv, OpenInv, [Next]_vars
    PROVE  OpenInv'
<1>1. ASSUME NEW u \in Requests,
             \/ Begin(u) \/ PeekSource(u) \/ OpenSource(u) \/ ReadMeta(u) \/ Reserve(u) \/ StoreBlob(u)
             \/ LockHead(u) \/ CommitFail(u) \/ Cleanup(u) \/ PeekHead(u) \/ DeleteBlob(u)
      PROVE  OpenInv'
  BY <1>1, OpenQuiet
<1>2. ASSUME NEW u \in Requests, Charge(u) PROVE OpenInv'
  <2>1. pc[u] = "charge" /\ pc'[u] \in {"readMeta", "store", "failed"} /\ \A w \in Requests : w # u => pc'[w] = pc[w]
    BY <1>2 DEF Charge, Goto, TypeOK, AfterReserve
  <2>2. UNCHANGED <<head, old, unpaid>> /\ (pc'[u] = "failed" \/ open' = open \cup Ask(u))
    BY <1>2 DEF Charge, objVars, localVars, Goto, TypeOK, AfterReserve
  <2>3. (open' = open \/ open' = open \cup Ask(u)) /\ ~ Placed(u) /\ (open' = open => pc'[u] = "failed" \/ Ask(u) \subseteq open')
    BY <1>2, <2>1, <2>2 DEF Charge, PlaceInv, After
  <2>4. open' = open \cup Ask(u) => pc'[u] # "failed" \/ open' = open
    BY <1>2, <2>1 DEF Charge, Goto, AfterReserve, TypeOK
  <2>5. \A w \in Requests : pc'[w] \in Holding => Ask(w)' \subseteq open'
    BY <2>1, <2>2, <2>3, <2>4, SetFrame, Owner DEF OpenInv, Holding
  <2>6. \A x \in open' : pc'[x[1]] \in Holding \cup {"cleanup", "settle"}
    BY <2>1, <2>2, <2>3, <2>4, UnitsFinite, Owner DEF OpenInv, Holding, TypeOK
  <2>7. \A w \in Requests : pc'[w] \in {"cleanup", "settle"} => Excess(w)' \subseteq open'
    BY <2>1, <2>2, <2>3, <2>4, SetFrame, Owner DEF OpenInv, Holding, Excess
  <2>8. \A v \in Requests : Placed(v)' => open' \cap Row(v)' = {}
    BY <2>1, <2>2, <2>3, PlacedFrame, Owner DEF OpenInv, Placed
  <2>9. \A x \in unpaid' : x \in Short(x[1])' /\ pc'[x[1]] \in After
    BY <2>1, <2>2, <2>3, <2>4, SetFrame, UnitsFinite, Owner DEF OpenInv, After, TypeOK
  <2> QED
    BY <2>5, <2>6, <2>7, <2>8, <2>9 DEF OpenInv
<1>3. ASSUME NEW u \in Requests, CommitHead(u) PROVE OpenInv'
  <2>1. pc[u] = "commit" /\ pc'[u] \in {"cleanup", "settle"} /\ \A w \in Requests : w # u => pc'[w] = pc[w]
    BY <1>3 DEF CommitHead, Goto, TypeOK
  <2>2. /\ open' = open \ Row(u) /\ unpaid' = unpaid \cup (Row(u) \ open)
        /\ head' = [head EXCEPT ![Key(u)] = u] /\ old' = [old EXCEPT ![u] = seen[u]]
    BY <1>3 DEF CommitHead
  <2>3. \A v \in Requests : Placed(v)' => v = u \/ Placed(v)
    BY <2>2, JobFacts, LedgerAssumption DEF Placed, SeenInv, TypeOK
  <2>4. Row(u)' = Row(u) /\ Short(u)' = Short(u) /\ Row(u) \ open \subseteq Short(u) /\ Ask(u) \subseteq open
    BY <2>1, SetFrame DEF OpenInv, Holding, Short
  <2>5. \A w \in Requests : pc'[w] \in Holding => Ask(w)' \subseteq open'
    BY <2>1, <2>2, <2>3, <2>4, SetFrame, Owner DEF OpenInv, Holding
  <2>6. \A x \in open' : pc'[x[1]] \in Holding \cup {"cleanup", "settle"}
    BY <2>1, <2>2, <2>3, <2>4, UnitsFinite, Owner DEF OpenInv, Holding, TypeOK
  <2>7. \A w \in Requests : pc'[w] \in {"cleanup", "settle"} => Excess(w)' \subseteq open'
    BY <2>1, <2>2, <2>3, <2>4, SetFrame, Owner DEF OpenInv, Holding, Excess
  <2>8. \A v \in Requests : Placed(v)' => open' \cap Row(v)' = {}
    BY <2>1, <2>2, <2>3, <2>4, PlacedFrame, Owner DEF OpenInv
  <2>9. \A x \in unpaid' : x \in Short(x[1])' /\ pc'[x[1]] \in After
    BY <2>1, <2>2, <2>3, <2>4, SetFrame, UnitsFinite, Owner DEF OpenInv, After, TypeOK
  <2> QED
    BY <2>5, <2>6, <2>7, <2>8, <2>9 DEF OpenInv
<1>4. ASSUME NEW u \in Requests, Settle(u) PROVE OpenInv'
  <2>1. pc[u] = "settle" /\ pc'[u] \in {"pay", "force", "release"} /\ \A w \in Requests : w # u => pc'[w] = pc[w]
    BY <1>4 DEF Settle, Goto, TypeOK, TakeQuota
  <2>2. UNCHANGED <<head, old, unpaid>>
    BY <1>4 DEF Settle, objVars, localVars
  <2>3. open' = open \ Of(u, open) /\ \A x \in open' : x[1] # u
    BY <1>4 DEF Settle, Of
  <2>4. \A w \in Requests : pc'[w] \in Holding => Ask(w)' \subseteq open'
    BY <2>1, <2>2, <2>3, SetFrame, Owner DEF OpenInv, Holding, Of
  <2>5. \A x \in open' : pc'[x[1]] \in Holding \cup {"cleanup", "settle"}
    BY <2>1, <2>2, <2>3, UnitsFinite, Owner DEF OpenInv, Holding, TypeOK, Of
  <2>6. \A w \in Requests : pc'[w] \in {"cleanup", "settle"} => Excess(w)' \subseteq open'
    BY <2>1, <2>2, <2>3, SetFrame, Owner DEF OpenInv, Holding, Excess, Of
  <2>7. \A v \in Requests : Placed(v)' => open' \cap Row(v)' = {}
    BY <2>2, <2>3, PlacedFrame DEF OpenInv, Placed
  <2>8. \A x \in unpaid' : x \in Short(x[1])' /\ pc'[x[1]] \in After
    BY <2>1, <2>2, <2>3, SetFrame, UnitsFinite, Owner DEF OpenInv, After, TypeOK, Of
  <2> QED
    BY <2>4, <2>5, <2>6, <2>7, <2>8 DEF OpenInv
<1>5. ASSUME NEW u \in Requests, Pay(u) \/ ForceCharge(u) PROVE OpenInv'
  <2>1. pc[u] \in {"pay", "force"} /\ pc'[u] = "release" /\ \A w \in Requests : w # u => pc'[w] = pc[w]
    BY <1>5 DEF Pay, ForceCharge, Goto, TypeOK
  <2>2. UNCHANGED <<head, old, open>> /\ unpaid' \subseteq unpaid
    BY <1>5 DEF Pay, ForceCharge, objVars, localVars
  <2>3. \A w \in Requests : pc'[w] \in Holding => Ask(w)' \subseteq open'
    BY <2>1, <2>2, SetFrame, Owner DEF OpenInv, Holding
  <2>4. \A x \in open' : pc'[x[1]] \in Holding \cup {"cleanup", "settle"}
    BY <2>1, <2>2, UnitsFinite, Owner DEF OpenInv, Holding, TypeOK
  <2>5. \A w \in Requests : pc'[w] \in {"cleanup", "settle"} => Excess(w)' \subseteq open'
    BY <2>1, <2>2, SetFrame, Owner DEF OpenInv, Holding, Excess
  <2>6. \A v \in Requests : Placed(v)' => open' \cap Row(v)' = {}
    BY <2>2, PlacedFrame DEF OpenInv, Placed
  <2>7. \A x \in unpaid' : x \in Short(x[1])' /\ pc'[x[1]] \in After
    BY <2>1, <2>2, SetFrame, UnitsFinite, Owner DEF OpenInv, After, TypeOK
  <2> QED
    BY <2>3, <2>4, <2>5, <2>6, <2>7 DEF OpenInv
<1>6. ASSUME NEW u \in Requests, ReleaseOld(u) PROVE OpenInv'
  <2>1. pc[u] = "release" /\ pc'[u] \in {"done"} /\ \A w \in Requests : w # u => pc'[w] = pc[w]
    BY <1>6 DEF ReleaseOld, Goto, TypeOK
  <2>2. UNCHANGED <<open, unpaid>> /\ \A v \in Requests : Placed(v)' => Placed(v)
    BY <1>6, LedgerAssumption DEF ReleaseOld, objVars, ghostVars, Placed, TypeOK
  <2>3. \A w \in Requests : pc'[w] \in Holding => Ask(w)' \subseteq open'
    BY <2>1, <2>2, SetFrame, Owner DEF OpenInv, Holding
  <2>4. \A x \in open' : pc'[x[1]] \in Holding \cup {"cleanup", "settle"}
    BY <2>1, <2>2, UnitsFinite, Owner DEF OpenInv, Holding, TypeOK
  <2>5. \A w \in Requests : pc'[w] \in {"cleanup", "settle"} => Excess(w)' \subseteq open'
    BY <2>1, <2>2, SetFrame, Owner DEF OpenInv, Holding, Excess
  <2>6. \A v \in Requests : Placed(v)' => open' \cap Row(v)' = {}
    BY <2>1, <2>2, PlacedFrame, Owner DEF OpenInv
  <2>7. \A x \in unpaid' : x \in Short(x[1])' /\ pc'[x[1]] \in After
    BY <2>1, <2>2, SetFrame, UnitsFinite, Owner DEF OpenInv, After, TypeOK
  <2> QED
    BY <2>3, <2>4, <2>5, <2>6, <2>7 DEF OpenInv
<1>7. ASSUME NEW u \in Requests, Refund(u) PROVE OpenInv'
  <2>1. pc[u] = "refund" /\ pc'[u] \in {"failed"} /\ \A w \in Requests : w # u => pc'[w] = pc[w]
    BY <1>7 DEF Refund, Goto, TypeOK
  <2>2. UNCHANGED <<head, old, unpaid>>
    BY <1>7 DEF Refund, objVars, localVars
  <2>3. open' = open \ Of(u, open) /\ \A x \in open' : x[1] # u
    BY <1>7 DEF Refund, Of
  <2>4. \A w \in Requests : pc'[w] \in Holding => Ask(w)' \subseteq open'
    BY <2>1, <2>2, <2>3, SetFrame, Owner DEF OpenInv, Holding, Of
  <2>5. \A x \in open' : pc'[x[1]] \in Holding \cup {"cleanup", "settle"}
    BY <2>1, <2>2, <2>3, UnitsFinite, Owner DEF OpenInv, Holding, TypeOK, Of
  <2>6. \A w \in Requests : pc'[w] \in {"cleanup", "settle"} => Excess(w)' \subseteq open'
    BY <2>1, <2>2, <2>3, SetFrame, Owner DEF OpenInv, Holding, Excess, Of
  <2>7. \A v \in Requests : Placed(v)' => open' \cap Row(v)' = {}
    BY <2>2, <2>3, PlacedFrame DEF OpenInv, Placed
  <2>8. \A x \in unpaid' : x \in Short(x[1])' /\ pc'[x[1]] \in After
    BY <2>1, <2>2, <2>3, SetFrame, UnitsFinite, Owner DEF OpenInv, After, TypeOK, Of
  <2> QED
    BY <2>4, <2>5, <2>6, <2>7, <2>8 DEF OpenInv
<1>8. ASSUME NEW u \in Requests, DeleteHead(u) PROVE OpenInv'
  <2>1. pc[u] = "unhead" /\ pc'[u] \in {"release", "done"} /\ \A w \in Requests : w # u => pc'[w] = pc[w]
    BY <1>8 DEF DeleteHead, Goto, TypeOK
  <2>2. UNCHANGED <<open, unpaid>> /\ \A v \in Requests : Placed(v)' => Placed(v)
    BY <1>8, JobFacts, LedgerAssumption DEF DeleteHead, ghostVars, Placed, TypeOK
  <2>3. \A w \in Requests : pc'[w] \in Holding => Ask(w)' \subseteq open'
    BY <2>1, <2>2, SetFrame, Owner DEF OpenInv, Holding
  <2>4. \A x \in open' : pc'[x[1]] \in Holding \cup {"cleanup", "settle"}
    BY <2>1, <2>2, UnitsFinite, Owner DEF OpenInv, Holding, TypeOK
  <2>5. \A w \in Requests : pc'[w] \in {"cleanup", "settle"} => Excess(w)' \subseteq open'
    BY <2>1, <2>2, SetFrame, Owner DEF OpenInv, Holding, Excess
  <2>6. \A v \in Requests : Placed(v)' => open' \cap Row(v)' = {}
    BY <2>1, <2>2, PlacedFrame, Owner DEF OpenInv
  <2>7. \A x \in unpaid' : x \in Short(x[1])' /\ pc'[x[1]] \in After
    BY <2>1, <2>2, SetFrame, UnitsFinite, Owner DEF OpenInv, After, TypeOK
  <2> QED
    BY <2>3, <2>4, <2>5, <2>6, <2>7 DEF OpenInv
<1>9. CASE ReconcileStorageUsage
  <2>1. UNCHANGED <<pc, head, old, open>> /\ unpaid' = {}
    BY <1>9 DEF ReconcileStorageUsage, objVars, localVars
  <2>2. \A w \in Requests : pc'[w] \in Holding => Ask(w)' \subseteq open'
    BY <2>1, SetFrame, Owner DEF OpenInv, Holding
  <2>3. \A x \in open' : pc'[x[1]] \in Holding \cup {"cleanup", "settle"}
    BY <2>1, UnitsFinite, Owner DEF OpenInv, Holding, TypeOK
  <2>4. \A w \in Requests : pc'[w] \in {"cleanup", "settle"} => Excess(w)' \subseteq open'
    BY <2>1, SetFrame, Owner DEF OpenInv, Holding, Excess
  <2>5. \A v \in Requests : Placed(v)' => open' \cap Row(v)' = {}
    BY <2>1, PlacedFrame DEF OpenInv, Placed
  <2>6. \A x \in unpaid' : x \in Short(x[1])' /\ pc'[x[1]] \in After
    BY <2>1, SetFrame, UnitsFinite, Owner DEF OpenInv, After, TypeOK
  <2> QED
    BY <2>2, <2>3, <2>4, <2>5, <2>6 DEF OpenInv
<1>10. CASE Crash
  <2>1. open' = {} /\ unpaid' = unpaid /\ \A w \in Requests : pc'[w] \in {"idle", "done", "failed"} /\ (pc[w] \in After => pc'[w] \in After)
    BY <1>10 DEF Crash, After
  <2>2. \A w \in Requests : pc'[w] \in Holding => Ask(w)' \subseteq open'
    BY <2>1, SetFrame, Owner DEF OpenInv, Holding
  <2>3. \A x \in open' : pc'[x[1]] \in Holding \cup {"cleanup", "settle"}
    BY <2>1, UnitsFinite, Owner DEF OpenInv, Holding, TypeOK
  <2>4. \A w \in Requests : pc'[w] \in {"cleanup", "settle"} => Excess(w)' \subseteq open'
    BY <2>1, SetFrame, Owner DEF OpenInv, Holding, Excess
  <2>5. \A v \in Requests : Placed(v)' => open' \cap Row(v)' = {}
    BY <2>1, PlacedFrame, Owner DEF OpenInv
  <2>6. \A x \in unpaid' : x \in Short(x[1])' /\ pc'[x[1]] \in After
    BY <2>1, SetFrame, UnitsFinite, Owner DEF OpenInv, After, TypeOK
  <2> QED
    BY <2>2, <2>3, <2>4, <2>5, <2>6 DEF OpenInv
<1>11. CASE UNCHANGED vars
  BY <1>11 DEF vars, objVars, localVars, ghostVars, OpenInv, Placed, Ask, Short, Row, Excess
<1> QED
  BY <1>1, <1>2, <1>3, <1>4, <1>5, <1>6, <1>7, <1>8, <1>9, <1>10, <1>11 DEF Next, RequestStep

\* What must stay charged grows only by new reservations, while no row appears.
LEMMA HeldMono ==
    ASSUME TypeOK, PlaceInv, [Next]_vars, NEW S, open' \subseteq open \cup S,
           \A v \in Requests : Placed(v)' => Placed(v)
    PROVE  Held' \subseteq Held \cup S
BY PlacedFrame, UnitsFinite DEF Held

\* Releasing bytes no longer held leaves enough charged.
LEMMA ReleaseKeeps ==
    ASSUME TypeOK, TypeOK', ChargeInv, unpaid' = unpaid, Held' \subseteq Held,
           NEW S \in SUBSET Held, Held' \cap S = {}, Release(S)
    PROVE  ChargeInv'
<1>1. S \in SUBSET Units /\ Held \in SUBSET Units /\ Held' \in SUBSET Units
  BY DEF Held
<1>2. Bytes(Held' \cup S) = Bytes(Held') + Bytes(S)
  BY <1>1, BytesUnion
<1>3. Bytes(Held' \cup S) <= Bytes(Held)
  BY <1>1, BytesMono
<1>4. Bytes(S) \in Nat /\ Bytes(Held) \in Nat /\ Bytes(Held') \in Nat /\ Bytes(unpaid) \in Nat
  BY <1>1, UnitsFinite DEF TypeOK
<1>5. used' >= used - Bytes(S) /\ used \in Nat /\ used' \in Nat
  BY <1>4 DEF Release, TypeOK
<1>6. used + Bytes(unpaid) >= Bytes(Held)
  BY DEF ChargeInv
<1>7. used' + Bytes(unpaid) >= Bytes(Held')
  BY <1>2, <1>3, <1>4, <1>5, <1>6
<1> QED
  BY <1>7 DEF ChargeInv, Bytes

\* Holding fewer bytes is no reason to charge more.
LEMMA ShrinkKeeps ==
    ASSUME TypeOK, TypeOK', ChargeInv, UNCHANGED <<used, unpaid>>, Held' \subseteq Held
    PROVE  ChargeInv'
<1>1. Held \in SUBSET Units /\ Held' \in SUBSET Units
  BY DEF Held
<1>2. Bytes(Held') <= Bytes(Held)
  BY <1>1, BytesMono
<1>3. Bytes(Held) \in Nat /\ Bytes(Held') \in Nat /\ Bytes(unpaid) \in Nat
  BY <1>1, UnitsFinite DEF TypeOK
<1>4. used' + Bytes(unpaid) >= Bytes(Held')
  BY <1>2, <1>3 DEF ChargeInv, TypeOK
<1> QED
  BY <1>4 DEF ChargeInv, Bytes

\* Charging the shortfall pays for what was recorded beyond the reservation.
LEMMA PayKeeps ==
    ASSUME TypeOK, TypeOK', ChargeInv, Held' \subseteq Held, NEW S \in SUBSET Units,
           used' = used + Bytes(S), unpaid' = unpaid \ S
    PROVE  ChargeInv'
<1>1. Held \in SUBSET Units /\ Held' \in SUBSET Units /\ unpaid \in SUBSET Units /\ unpaid \ S \in SUBSET Units
  BY DEF Held, TypeOK
<1>2. Bytes(Held') <= Bytes(Held)
  BY <1>1, BytesMono
<1>3. Bytes((unpaid \ S) \cup S) <= Bytes(unpaid \ S) + Bytes(S)
  BY <1>1, BytesUnion
<1>4. Bytes(unpaid) <= Bytes((unpaid \ S) \cup S)
  <2>1. (unpaid \ S) \cup S \in SUBSET Units /\ unpaid \in SUBSET ((unpaid \ S) \cup S)
    BY <1>1
  <2> QED
    BY <2>1, BytesMono
<1>5. /\ Bytes(Held) \in Nat /\ Bytes(Held') \in Nat /\ Bytes(unpaid) \in Nat /\ Bytes(unpaid \ S) \in Nat
      /\ Bytes(S) \in Nat /\ Bytes((unpaid \ S) \cup S) \in Nat
  BY <1>1, UnitsFinite
<1>6. used + Bytes(unpaid) >= Bytes(Held) /\ used \in Nat
  BY DEF ChargeInv, TypeOK
<1>7. used + Bytes(S) + Bytes(unpaid \ S) >= Bytes(Held')
  BY <1>2, <1>3, <1>4, <1>5, <1>6
<1> QED
  BY <1>7 DEF ChargeInv, Bytes

\* The quota covers every byte held.
LEMMA ChargeStep ==
    ASSUME TypeOK, TypeOK', PlaceInv, SeenInv, OpenInv, ChargeInv, [Next]_vars
    PROVE  ChargeInv'
<1>1. ASSUME NEW u \in Requests,
             \/ Begin(u) \/ PeekSource(u) \/ OpenSource(u) \/ ReadMeta(u) \/ Reserve(u) \/ StoreBlob(u)
             \/ LockHead(u) \/ CommitFail(u) \/ Cleanup(u) \/ PeekHead(u) \/ DeleteBlob(u)
      PROVE  ChargeInv'
  <2>1. UNCHANGED <<used, head, old, open, unpaid>>
    BY <1>1, QuietMove
  <2>2. Held' \subseteq Held
    BY <2>1, HeldMono DEF Placed
  <2> QED
    BY <2>1, <2>2, ShrinkKeeps
<1>2. ASSUME NEW u \in Requests, Charge(u) PROVE ChargeInv'
  <2>1. UNCHANGED <<head, old, unpaid>>
    BY <1>2 DEF Charge, objVars, localVars
  <2>2. CASE used' = used + Bytes(Ask(u)) /\ open' = open \cup Ask(u)
    <3>1. Held' \subseteq Held \cup Ask(u)
      BY <2>1, <2>2, HeldMono DEF Placed
    <3>2. Held \in SUBSET Units /\ Held' \in SUBSET Units /\ Ask(u) \in SUBSET Units /\ Held \cup Ask(u) \in SUBSET Units
      BY Sets DEF Held
    <3>3. Bytes(Held') <= Bytes(Held \cup Ask(u)) /\ Bytes(Held \cup Ask(u)) <= Bytes(Held) + Bytes(Ask(u))
      BY <3>1, <3>2, BytesMono, BytesUnion
    <3>4. /\ Bytes(Held) \in Nat /\ Bytes(Held') \in Nat /\ Bytes(Ask(u)) \in Nat /\ Bytes(Held \cup Ask(u)) \in Nat
          /\ Bytes(unpaid) \in Nat /\ used \in Nat
      BY <3>2, UnitsFinite DEF TypeOK
    <3>5. used' + Bytes(unpaid) >= Bytes(Held')
      BY <2>2, <3>3, <3>4 DEF ChargeInv
    <3> QED
      BY <2>1, <3>5 DEF ChargeInv, Bytes
  <2>3. CASE UNCHANGED <<used, open>>
    BY <2>1, <2>3, HeldMono, ShrinkKeeps DEF Placed
  <2> QED
    BY <1>2, <2>2, <2>3 DEF Charge
<1>3. ASSUME NEW u \in Requests, CommitHead(u) PROVE ChargeInv'
  <2> DEFINE S == Row(u) \ open
  <2>1. /\ used' = used /\ open' = open \ Row(u) /\ unpaid' = unpaid \cup S /\ pc[u] = "commit"
        /\ head' = [head EXCEPT ![Key(u)] = u] /\ old' = [old EXCEPT ![u] = seen[u]]
    BY <1>3 DEF CommitHead, quotaVars
  <2>2. \A v \in Requests : Placed(v)' => v = u \/ Placed(v)
    BY <2>1, JobFacts, LedgerAssumption DEF Placed, SeenInv, TypeOK
  <2>3. Row(u)' = Row(u)
    BY <2>1, SetFrame
  <2>4. Held' \subseteq Held \cup S
    BY <2>1, <2>2, <2>3, PlacedFrame, UnitsFinite DEF Held
  <2>5. unpaid \cap S = {}
    BY <2>1, Owner DEF OpenInv, After
  <2>6. /\ Held \in SUBSET Units /\ Held' \in SUBSET Units /\ S \in SUBSET Units /\ unpaid \in SUBSET Units
        /\ Held \cup S \in SUBSET Units /\ unpaid \cup S \in SUBSET Units
    BY Sets DEF Held, TypeOK
  <2> HIDE DEF S
  <2>7. Bytes(Held') <= Bytes(Held \cup S) /\ Bytes(Held \cup S) <= Bytes(Held) + Bytes(S)
    BY <2>4, <2>6, BytesMono, BytesUnion
  <2>8. Bytes(unpaid \cup S) = Bytes(unpaid) + Bytes(S)
    BY <2>5, <2>6, BytesUnion
  <2>9. /\ Bytes(Held) \in Nat /\ Bytes(Held') \in Nat /\ Bytes(S) \in Nat /\ Bytes(Held \cup S) \in Nat
        /\ Bytes(unpaid) \in Nat /\ Bytes(unpaid \cup S) \in Nat /\ used \in Nat
    BY <2>6, UnitsFinite DEF TypeOK
  <2>10. used + Bytes(unpaid \cup S) >= Bytes(Held')
    BY <2>7, <2>8, <2>9 DEF ChargeInv
  <2> QED
    BY <2>1, <2>10 DEF ChargeInv, Bytes
<1>4. ASSUME NEW u \in Requests, Settle(u) PROVE ChargeInv'
  <2>1. /\ UNCHANGED <<head, old, unpaid>> /\ pc[u] = "settle"
        /\ open' = open \ Of(u, open) /\ \A x \in open' : x[1] # u
    BY <1>4 DEF Settle, objVars, localVars, Of
  <2>2. Held' \subseteq Held
    BY <2>1, HeldMono DEF Placed
  <2>3. CASE Release(Excess(u))
    <3>1. Excess(u) \in SUBSET Held
      BY <2>1, Sets DEF OpenInv, Held
    <3>2. Row(u)' = Row(u)
      BY <2>1, SetFrame
    <3>3. Held' \cap Excess(u) = {}
      BY <2>1, <3>2, Owner DEF Held, Excess
    <3> QED
      BY <2>1, <2>2, <2>3, <3>1, <3>3, ReleaseKeeps
  <2>4. CASE used' = used
    BY <2>1, <2>2, <2>4, ShrinkKeeps
  <2> QED
    BY <1>4, <2>3, <2>4 DEF Settle, quotaVars
<1>5. ASSUME NEW u \in Requests, Pay(u) \/ ForceCharge(u) PROVE ChargeInv'
  <2>1. UNCHANGED <<head, old, open>>
    BY <1>5 DEF Pay, ForceCharge, objVars, localVars
  <2>2. Held' \subseteq Held
    BY <2>1, HeldMono DEF Placed
  <2>3. CASE used' = used + Bytes(Short(u)) /\ unpaid' = unpaid \ Short(u)
    BY <2>2, <2>3, Sets, PayKeeps
  <2>4. CASE UNCHANGED <<used, unpaid>>
    BY <2>2, <2>4, ShrinkKeeps
  <2> QED
    BY <1>5, <2>3, <2>4 DEF Pay, ForceCharge
<1>6. ASSUME NEW u \in Requests, ReleaseOld(u) PROVE ChargeInv'
  <2>1. UNCHANGED <<head, open, unpaid>> /\ old' = [old EXCEPT ![u] = None]
    BY <1>6 DEF ReleaseOld, objVars, ghostVars
  <2>2. \A v \in Requests : Placed(v)' => Placed(v)
    BY <2>1, LedgerAssumption DEF Placed, TypeOK
  <2>3. Held' \subseteq Held
    BY <2>1, <2>2, HeldMono
  <2>4. CASE Release(Row(old[u]))
    <3>1. PICK v : v = old[u]
      OBVIOUS
    <3>2. Row(v) \in SUBSET Held
      BY <3>1, Sets, Owner DEF Held, Placed
    <3>3. v # None => ~ Placed(v)'
      BY <2>1, <3>1, LedgerAssumption DEF Placed, PlaceInv, TypeOK
    <3>4. Row(v) # {} => v # None /\ open \cap Row(v) = {}
      BY <3>1, Sets, LedgerAssumption DEF Placed, OpenInv
    <3>5. Held' \cap Row(v) = {}
      BY <2>1, <3>3, <3>4, Owner DEF Held
    <3>6. Release(Row(v))
      BY <2>4, <3>1
    <3> QED
      BY <2>1, <2>3, <3>2, <3>5, <3>6, ReleaseKeeps
  <2>5. CASE used' = used
    BY <2>1, <2>3, <2>5, ShrinkKeeps
  <2> QED
    BY <1>6, <2>4, <2>5 DEF ReleaseOld
<1>7. ASSUME NEW u \in Requests, Refund(u) PROVE ChargeInv'
  <2>1. /\ UNCHANGED <<head, old, unpaid>> /\ pc[u] = "refund"
        /\ open' = open \ Of(u, open) /\ \A x \in open' : x[1] # u
    BY <1>7 DEF Refund, objVars, localVars, Of
  <2>2. Held' \subseteq Held
    BY <2>1, HeldMono DEF Placed
  <2>3. CASE Release(Ask(u))
    <3>1. Ask(u) \in SUBSET Held
      BY <2>1, Sets DEF OpenInv, Held, Holding
    <3>2. ~ Placed(u)'
      BY <2>1 DEF PlaceInv, After, Placed
    <3>3. Held' \cap Ask(u) = {}
      BY <2>1, <3>2, Owner DEF Held
    <3> QED
      BY <2>1, <2>2, <2>3, <3>1, <3>3, ReleaseKeeps
  <2>4. CASE used' = used
    BY <2>1, <2>2, <2>4, ShrinkKeeps
  <2> QED
    BY <1>7, <2>3, <2>4 DEF Refund
<1>8. ASSUME NEW u \in Requests, DeleteHead(u) PROVE ChargeInv'
  <2>1. UNCHANGED <<used, open, unpaid>> /\ \A v \in Requests : Placed(v)' => Placed(v)
    BY <1>8, JobFacts, LedgerAssumption DEF DeleteHead, quotaVars, ghostVars, Placed, TypeOK
  <2> QED
    BY <2>1, HeldMono, ShrinkKeeps
<1>9. CASE ReconcileStorageUsage
  <2>1. UNCHANGED <<pc, head, old, open>> /\ unpaid' = {} /\ used' = Bytes(Recorded) /\ Quiescent
    BY <1>9 DEF ReconcileStorageUsage, objVars, localVars
  <2>2. Held' \subseteq Held
    BY <2>1, HeldMono DEF Placed
  <2>3. open = {} /\ \A u \in Requests : old[u] = None
    BY <2>1, UnitsFinite DEF OpenInv, PlaceInv, Quiescent, Holding, After, TypeOK
  <2>4. Held \subseteq Recorded
    BY <2>3, UnitsFinite, LedgerAssumption DEF Held, Recorded, Placed
  <2>5. Held' \in SUBSET Recorded /\ Recorded \in SUBSET Units
    BY <2>2, <2>4 DEF Recorded
  <2>6. Bytes(Held') <= Bytes(Recorded) /\ Bytes(Recorded) \in Nat /\ Bytes({}) = 0
    BY <2>5, BytesMono, UnitsFinite
  <2>7. used' + Bytes({}) >= Bytes(Held')
    BY <2>1, <2>5, <2>6, UnitsFinite
  <2> QED
    BY <2>1, <2>7 DEF ChargeInv, Bytes
<1>10. CASE Crash
  <2>1. UNCHANGED <<used, head, unpaid>> /\ open' = {} /\ \A u \in Requests : old'[u] = None
    BY <1>10 DEF Crash
  <2>2. \A v \in Requests : Placed(v)' => Placed(v)
    BY <2>1, LedgerAssumption DEF Placed
  <2> QED
    BY <2>1, <2>2, HeldMono, ShrinkKeeps
<1>11. CASE UNCHANGED vars
  <2>1. UNCHANGED <<used, head, old, open, unpaid>>
    BY <1>11 DEF vars, quotaVars, objVars, localVars, ghostVars
  <2> QED
    BY <2>1, HeldMono, ShrinkKeeps DEF Placed
<1> QED
  BY <1>1, <1>2, <1>3, <1>4, <1>5, <1>6, <1>7, <1>8, <1>9, <1>10, <1>11 DEF Next, RequestStep

\* Nothing is stored, reserved or charged at the start.
LEMMA InitInd == Init => IndInv
<1> SUFFICES ASSUME Init PROVE IndInv
  OBVIOUS
<1>1. job \in [Requests -> Jobs] /\ \A u \in Requests : job[u].size \in 0..MaxSize
  BY LedgerAssumption DEF Init, JobType
<1>2. TypeOK
  BY <1>1, LedgerAssumption DEF Init, TypeOK, PcStates
<1>3. PlaceInv
  BY LedgerAssumption DEF Init, PlaceInv, Placed
<1>4. SeenInv /\ QuotaInv
  BY DEF Init, SeenInv, QuotaInv
<1>5. OpenInv
  BY LedgerAssumption DEF Init, OpenInv, Placed, Holding
<1>6. Held = {}
  BY UnitsFinite, LedgerAssumption DEF Init, Held, Placed
<1>7. ChargeInv
  BY <1>6, UnitsFinite DEF ChargeInv, Init
<1> QED
  BY <1>2, <1>3, <1>4, <1>5, <1>7 DEF IndInv

\* The inductive invariant: rows in one place, the head row locked while it is
\* displaced, reservations apart from rows, room kept by the quota row lock,
\* and every byte reserved, recorded or about to be released charged.
THEOREM LedgerInductive == Spec => []IndInv
<1>1. IndInv /\ [Next]_vars => IndInv'
  <2> SUFFICES ASSUME IndInv, [Next]_vars PROVE IndInv'
    OBVIOUS
  <2>1. TypeOK /\ PlaceInv /\ SeenInv /\ OpenInv /\ QuotaInv /\ ChargeInv
    BY DEF IndInv
  <2>2. TypeOK' /\ PlaceInv' /\ SeenInv' /\ QuotaInv' /\ OpenInv'
    BY <2>1, TypeStep, PlaceStep, SeenStep, QuotaStep, OpenStep
  <2>3. ChargeInv'
    BY <2>1, <2>2, ChargeStep
  <2> QED
    BY <2>2, <2>3 DEF IndInv
<1> QED
  BY <1>1, InitInd, PTL DEF Spec

\* Every variable keeps its type; in particular the quota never goes negative.
THEOREM LedgerTyped == Spec => []TypeOK
<1>1. IndInv => TypeOK
  BY DEF IndInv
<1> QED
  BY <1>1, LedgerInductive, PTL

\* The quota never counts less than the rows record, uncharged excess of a copy
\* aside, whatever requests overlap, fail or are cut off by a restart.
THEOREM NotUnderbilled == Spec => []NeverUnderbilled
<1>1. IndInv => NeverUnderbilled
  <2> SUFFICES ASSUME IndInv PROVE NeverUnderbilled
    OBVIOUS
  <2>1. Held \in SUBSET Units /\ Recorded \in SUBSET Held
    BY UnitsFinite DEF Held, Recorded, Placed
  <2>2. Bytes(Recorded) <= Bytes(Held) /\ Bytes(Recorded) \in Nat /\ Bytes(Held) \in Nat /\ Bytes(unpaid) \in Nat
    BY <2>1, BytesMono, UnitsFinite DEF IndInv, TypeOK
  <2> QED
    BY <2>2 DEF IndInv, ChargeInv, NeverUnderbilled, TypeOK
<1> QED
  BY <1>1, LedgerInductive, PTL

\* The quota passes the limit only by charging bytes already stored.
THEOREM LimitKept == Spec => LimitHolds
<1> DEFINE Stored == (\E u \in Requests : pc[u] = "force" /\ pc'[u] = "release") \/ (Quiescent /\ unpaid # {})
<1>1. IndInv /\ [Next]_vars => [used' > used /\ used' > Limit => Stored]_vars
  <2> SUFFICES ASSUME IndInv, Next, used' > used, used' > Limit PROVE Stored
    BY DEF vars
  <2>1. TypeOK /\ QuotaInv
    BY DEF IndInv
  <2>2. ASSUME NEW u \in Requests,
               \/ Begin(u) \/ PeekSource(u) \/ OpenSource(u) \/ ReadMeta(u) \/ Reserve(u) \/ StoreBlob(u)
               \/ LockHead(u) \/ CommitFail(u) \/ Cleanup(u) \/ PeekHead(u) \/ DeleteBlob(u)
        PROVE  FALSE
    BY <2>1, <2>2, QuietMove DEF TypeOK
  <2>3. ASSUME NEW u \in Requests, Charge(u) \/ Pay(u) PROVE FALSE
    BY <2>1, <2>3, LedgerAssumption, Sets DEF Charge, Pay, QuotaInv, TypeOK
  <2>4. ASSUME NEW u \in Requests, Settle(u) \/ ReleaseOld(u) \/ Refund(u) PROVE FALSE
    BY <2>1, <2>4, Sets DEF Settle, ReleaseOld, Refund, Release, quotaVars, TypeOK
  <2>5. ASSUME NEW u \in Requests, ForceCharge(u) PROVE Stored
    BY <2>1, <2>5 DEF ForceCharge, Goto, TypeOK
  <2>6. ASSUME NEW u \in Requests, CommitHead(u) \/ DeleteHead(u) PROVE FALSE
    BY <2>1, <2>6 DEF CommitHead, DeleteHead, quotaVars, TypeOK
  <2>7. CASE Crash
    BY <2>1, <2>7 DEF Crash, TypeOK
  <2>8. CASE ReconcileStorageUsage
    <3>1. Recorded \in SUBSET Held /\ Held \in SUBSET Units
      BY UnitsFinite DEF Held, Recorded, Placed
    <3>2. Bytes(Recorded) <= Bytes(Held) /\ Bytes(Recorded) \in Nat /\ Bytes(Held) \in Nat
      BY <3>1, BytesMono, UnitsFinite
    <3>3. unpaid = {} => Bytes(Recorded) <= used
      BY <2>1, <3>2, UnitsFinite DEF IndInv, ChargeInv, TypeOK
    <3> QED
      BY <2>1, <2>8, <3>2, <3>3 DEF ReconcileStorageUsage, TypeOK
  <2> QED
    BY <2>2, <2>3, <2>4, <2>5, <2>6, <2>7, <2>8 DEF Next, RequestStep
<1> QED
  BY <1>1, LedgerInductive, PTL DEF Spec, LimitHolds

=============================================================================
