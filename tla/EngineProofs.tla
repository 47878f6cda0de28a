---------------------------- MODULE EngineProofs ----------------------------
(* Proofs about Engine: bodies are stored whole, healthy backends are used,  *)
(* an object that is held is found, and a calm GET reads what was PUT.       *)
EXTENDS Engine, TLAPS, FiniteSetTheorems

\* What TypeOK says about a request's input.
LEMMA JobFacts ==
    ASSUME TypeOK, NEW r \in Requests
    PROVE  /\ Op(r) \in {"put", "get", "delete"}
           /\ Op(r) = "put" => /\ job[r].class \in Backends \cup {None}
                               /\ job[r].region \in Backends \cup {None}
                               /\ job[r].seekable \in BOOLEAN
           /\ Op(r) = "get" => job[r].range \in BOOLEAN
<1>1. job[r] \in JobType
  BY EngineAssumption DEF TypeOK
<1> QED
  BY <1>1 DEF JobType, Op

\* The end of a call keeps the types of the breakers.
LEMMA OutcomeType ==
    ASSUME TypeOK, NEW r \in Requests, at[r] \in Backends, NEW o \in Outcomes, Outcome(r, o)
    PROVE  /\ last' \in [Requests -> Outcomes]
           /\ breaker' \in [Backends -> {"closed", "open", "half"}]
           /\ fails' \in [Backends -> Nat] /\ cooled' \in [Backends -> BOOLEAN]
<1>1. CASE RecordSuccess(at[r])
  BY <1>1 DEF Outcome, RecordSuccess, TypeOK
<1>2. CASE RecordFailure(at[r])
  <2>1. fails' \in [Backends -> Nat] /\ last' \in [Requests -> Outcomes]
    BY <1>2 DEF Outcome, RecordFailure, TypeOK
  <2>2. CASE breaker' = [breaker EXCEPT ![at[r]] = "open"] /\ cooled' = [cooled EXCEPT ![at[r]] = FALSE]
    BY <2>1, <2>2 DEF TypeOK
  <2>3. CASE UNCHANGED <<breaker, cooled>>
    BY <2>1, <2>3 DEF TypeOK
  <2> QED
    BY <1>2, <2>2, <2>3 DEF RecordFailure
<1>3. CASE UNCHANGED breakers
  BY <1>3 DEF Outcome, breakers, TypeOK
<1> QED
  BY <1>1, <1>2, <1>3 DEF Outcome

\* Every step preserves the types.
LEMMA TypeStep ==
    ASSUME TypeOK, PlaceInv, [Next]_vars
    PROVE  TypeOK'
<1> USE DEF Goto, PcStates, Names, Outcomes, Arrive, past, fixed, records, breakers, plan, walk, io, Listed, EndWalk
<1>1. ASSUME NEW r \in Requests, StartGet(r) PROVE TypeOK'
  BY <1>1 DEF StartGet, TypeOK
<1>2. ASSUME NEW r \in Requests, Hint(r) PROVE TypeOK'
  BY <1>2 DEF Hint, TypeOK
<1>3. ASSUME NEW r \in Requests, Lookup(r) PROVE TypeOK'
  <2>1. UNCHANGED <<fixed, primary, blob, records, breakers, at, drained, hint, last, io>>
    BY <1>3 DEF Lookup
  <2>2. \E b \in Names, s \in {"try", "seed"} :
            pc' = [pc EXCEPT ![r] = s] /\ first' = [first EXCEPT ![r] = b]
    BY <1>3 DEF Lookup, TypeOK
  <2>3. second' = [second EXCEPT ![r] = primary] /\ left' = [left EXCEPT ![r] = Backends]
    BY <1>3 DEF Lookup
  <2>4. /\ pc' \in [Requests -> PcStates] /\ first' \in [Requests -> Names \cup {None}]
        /\ second' \in [Requests -> Names \cup {None}] /\ left' \in [Requests -> SUBSET Backends]
    BY <2>2, <2>3 DEF TypeOK
  <2> QED
    BY <2>1, <2>4 DEF TypeOK
<1>4. ASSUME NEW r \in Requests, Seed(r) PROVE TypeOK'
  BY <1>4 DEF Seed, TypeOK, PlaceInv
<1>5. ASSUME NEW r \in Requests, StartPut(r) PROVE TypeOK'
  <2>1. UNCHANGED <<job, gone, restarts, primary, blob, records, breakers, second, left, at, drained, hint, last, io>>
    BY <1>5 DEF StartPut
  <2>2. \E b \in Names : first' = [first EXCEPT ![r] = b]
    BY <1>5, JobFacts DEF StartPut, ResolveStorageClass, TypeOK
  <2>3. pc' = [pc EXCEPT ![r] = "list"]
    BY <1>5 DEF StartPut
  <2>4. pc' \in [Requests -> PcStates] /\ first' \in [Requests -> Names \cup {None}]
    BY <2>2, <2>3 DEF TypeOK
  <2>5. calm' \in Requests \cup {None} /\ settled' \in Requests \cup {None}
    BY <1>5 DEF StartPut, TypeOK
  <2> QED
    BY <2>1, <2>4, <2>5 DEF TypeOK
<1>6. ASSUME NEW r \in Requests, ListForPut(r) PROVE TypeOK'
  BY <1>6 DEF ListForPut, Writable, TypeOK
<1>7. ASSUME NEW r \in Requests, StartDelete(r) PROVE TypeOK'
  BY <1>7 DEF StartDelete, TypeOK
<1>8. ASSUME NEW r \in Requests, Admit(r) PROVE TypeOK'
  <2>1. PICK b \in NextUp(r) :
        /\ left' = [left EXCEPT ![r] = @ \ {b}]
        /\ \/ UNCHANGED <<at, pc, breaker>>
           \/ /\ breaker' = [breaker EXCEPT ![b] = IF @ = "open" THEN "half" ELSE @]
              /\ at' = [at EXCEPT ![r] = b] /\ pc' = [pc EXCEPT ![r] = "call"]
    BY <1>8 DEF Admit
  <2>2. NextUp(r) \subseteq Backends
    BY DEF NextUp, TypeOK
  <2>3. left' \in [Requests -> SUBSET Backends]
    BY <2>1 DEF TypeOK
  <2>4. at' \in [Requests -> Backends \cup {None}] /\ pc' \in [Requests -> PcStates]
    BY <2>1, <2>2 DEF TypeOK
  <2>5. breaker' \in [Backends -> {"closed", "open", "half"}]
    BY <2>1, <2>2 DEF TypeOK
  <2>6. UNCHANGED <<fixed, primary, blob, records, fails, cooled, first, second, drained, hint, last, io>>
    BY <1>8 DEF Admit
  <2> QED
    BY <2>3, <2>4, <2>5, <2>6 DEF TypeOK
<1>9. ASSUME NEW r \in Requests, PutOK(r) PROVE TypeOK'
  <2>1. at[r] \in Backends
    BY <1>9 DEF PutOK, PlaceInv
  <2>2. /\ last' \in [Requests -> Outcomes]
        /\ breaker' \in [Backends -> {"closed", "open", "half"}]
        /\ fails' \in [Backends -> Nat] /\ cooled' \in [Backends -> BOOLEAN]
    BY <1>9, <2>1, OutcomeType DEF PutOK
  <2> QED
    BY <1>9, <2>1, <2>2 DEF PutOK, TypeOK
<1>10. ASSUME NEW r \in Requests, PutFail(r) PROVE TypeOK'
  <2>1. at[r] \in Backends
    BY <1>10 DEF PutFail, PlaceInv
  <2>2. PICK outcome \in {"failed", "refused", "aborted"}, more \in BOOLEAN, applied \in BOOLEAN :
        /\ drained' = [drained EXCEPT ![r] = @ \/ more]
        /\ blob' = IF applied THEN [blob EXCEPT ![at[r]] = r] ELSE blob
        /\ Outcome(r, outcome)
        /\ left' = [left EXCEPT ![r] = IF drained'[r] /\ ~Rewindable(r) THEN {} ELSE @]
    BY <1>10 DEF PutFail
  <2>3. /\ last' \in [Requests -> Outcomes]
        /\ breaker' \in [Backends -> {"closed", "open", "half"}]
        /\ fails' \in [Backends -> Nat] /\ cooled' \in [Backends -> BOOLEAN]
    BY <2>1, <2>2, OutcomeType
  <2>4. drained' \in [Requests -> BOOLEAN]
    BY <2>2, Zenon DEF TypeOK
  <2>5. blob' \in [Backends -> Requests \cup {None, Short}]
    BY <2>1, <2>2 DEF TypeOK
  <2>6. left' \in [Requests -> SUBSET Backends]
    BY <2>2 DEF TypeOK
  <2> QED
    BY <1>10, <2>3, <2>4, <2>5, <2>6 DEF PutFail, TypeOK
<1>11. ASSUME NEW r \in Requests, GetOK(r) PROVE TypeOK'
  <2>1. at[r] \in Backends
    BY <1>11 DEF GetOK, PlaceInv
  <2>2. /\ last' \in [Requests -> Outcomes]
        /\ breaker' \in [Backends -> {"closed", "open", "half"}]
        /\ fails' \in [Backends -> Nat] /\ cooled' \in [Backends -> BOOLEAN]
    BY <1>11, <2>1, OutcomeType DEF GetOK
  <2> QED
    BY <1>11, <2>1, <2>2 DEF GetOK, TypeOK
<1>12. ASSUME NEW r \in Requests, GetFail(r) PROVE TypeOK'
  <2>1. at[r] \in Backends
    BY <1>12 DEF GetFail, PlaceInv
  <2>2. /\ last' \in [Requests -> Outcomes]
        /\ breaker' \in [Backends -> {"closed", "open", "half"}]
        /\ fails' \in [Backends -> Nat] /\ cooled' \in [Backends -> BOOLEAN]
    BY <1>12, <2>1, OutcomeType DEF GetFail
  <2> QED
    BY <1>12, <2>1, <2>2 DEF GetFail, TypeOK
<1>13. ASSUME NEW r \in Requests, DeleteOK(r) PROVE TypeOK'
  <2>1. at[r] \in Backends
    BY <1>13 DEF DeleteOK, PlaceInv
  <2>2. /\ last' \in [Requests -> Outcomes]
        /\ breaker' \in [Backends -> {"closed", "open", "half"}]
        /\ fails' \in [Backends -> Nat] /\ cooled' \in [Backends -> BOOLEAN]
    BY <1>13, <2>1, OutcomeType DEF DeleteOK
  <2> QED
    BY <1>13, <2>1, <2>2 DEF DeleteOK, TypeOK
<1>14. ASSUME NEW r \in Requests, DeleteFail(r) PROVE TypeOK'
  <2>1. at[r] \in Backends
    BY <1>14 DEF DeleteFail, PlaceInv
  <2>2. /\ last' \in [Requests -> Outcomes]
        /\ breaker' \in [Backends -> {"closed", "open", "half"}]
        /\ fails' \in [Backends -> Nat] /\ cooled' \in [Backends -> BOOLEAN]
    BY <1>14, <2>1, OutcomeType DEF DeleteFail
  <2> QED
    BY <1>14, <2>1, <2>2 DEF DeleteFail, TypeOK
<1>15. ASSUME NEW r \in Requests, Exhausted(r) PROVE TypeOK'
  BY <1>15 DEF Exhausted, TypeOK
<1>16. ASSUME NEW r \in Requests, StartRegionPut(r) PROVE TypeOK'
  BY <1>16 DEF StartRegionPut, TypeOK
<1>17. ASSUME NEW r \in Requests, RegionPut(r) PROVE TypeOK'
  <2>1. job[r].region \in Backends
    BY <1>17, JobFacts DEF RegionPut, PlaceInv
  <2> QED
    <3>1. UNCHANGED <<fixed, primary, records, breakers, walk, got, seen>>
      BY <1>17 DEF RegionPut
    <3>2. /\ blob' = blob \/ blob' = [blob EXCEPT ![job[r].region] = r]
          /\ landed' = landed \/ landed' = [landed EXCEPT ![r] = job[r].region]
          /\ pc' = [pc EXCEPT ![r] = "landed"] \/ pc' = [pc EXCEPT ![r] = "failed"]
      BY <1>17 DEF RegionPut
    <3>3. blob' \in [Backends -> Requests \cup {None, Short}]
      BY <2>1, <3>2 DEF TypeOK
    <3>4. landed' \in [Requests -> Backends \cup {None}]
      BY <2>1, <3>2 DEF TypeOK
    <3>5. pc' \in [Requests -> PcStates]
      BY <3>2 DEF TypeOK
    <3> QED
      BY <3>1, <3>3, <3>4, <3>5 DEF TypeOK
<1>18. ASSUME NEW r \in Requests, Note(r) PROVE TypeOK'
  BY <1>18 DEF Note, TypeOK
<1>19. ASSUME NEW r \in Requests, UpsertHead(r) PROVE TypeOK'
  BY <1>19 DEF UpsertHead, TypeOK
<1>20. ASSUME NEW r \in Requests, RecordLocation(r) PROVE TypeOK'
  BY <1>20 DEF RecordLocation, TypeOK
<1>21. ASSUME NEW r \in Requests, Unmap(r) \/ Unlist(r) \/ DeleteHead(r) PROVE TypeOK'
  BY <1>21 DEF Unmap, Unlist, DeleteHead, TypeOK
<1>26. ASSUME NEW r \in Requests, Drop(r) PROVE TypeOK'
  BY <1>26 DEF Drop, TypeOK
<1>22. ASSUME NEW name \in Primaries, SetPrimary(name) PROVE TypeOK'
  BY <1>22 DEF SetPrimary, TypeOK
<1>23. ASSUME NEW b \in Backends, Age(b) \/ Cool(b) PROVE TypeOK'
  <2>1. CASE Age(b)
    <3>1. fails' \in [Backends -> Nat]
      BY <2>1 DEF Age, TypeOK
    <3> QED
      BY <2>1, <3>1 DEF Age, TypeOK
  <2>2. CASE Cool(b)
    BY <2>2 DEF Cool, TypeOK
  <2> QED
    BY <1>23, <2>1, <2>2
<1>24. CASE Restart
  BY <1>24, EngineAssumption DEF Restart, Fresh, Ended, TypeOK
<1>25. CASE UNCHANGED vars
  BY <1>25 DEF vars, TypeOK
<1> QED
  BY <1>1, <1>2, <1>3, <1>4, <1>5, <1>6, <1>7, <1>8, <1>9, <1>10, <1>11, <1>12, <1>13, <1>14, <1>15,
     <1>16, <1>17, <1>18, <1>19, <1>20, <1>21, <1>22, <1>23, <1>24, <1>25, <1>26 DEF Next, Step

\* Requests keep to the control states of their kind.
LEMMA PlaceStep ==
    ASSUME TypeOK, PlaceInv, [Next]_vars
    PROVE  PlaceInv'
<1> USE DEF Goto, Op, Arrive, past, fixed, records, breakers, plan, walk, io, Listed, EndWalk
<1>1. ASSUME NEW r \in Requests, StartGet(r) PROVE PlaceInv'
  BY <1>1, EngineAssumption DEF StartGet, TypeOK, PlaceInv, Names
<1>2. ASSUME NEW r \in Requests, Hint(r) PROVE PlaceInv'
  BY <1>2, EngineAssumption DEF Hint, TypeOK, PlaceInv, Names
<1>3. ASSUME NEW r \in Requests, Lookup(r) PROVE PlaceInv'
  BY <1>3, EngineAssumption DEF Lookup, TypeOK, PlaceInv, Names
<1>4. ASSUME NEW r \in Requests, Seed(r) PROVE PlaceInv'
  BY <1>4, EngineAssumption DEF Seed, TypeOK, PlaceInv, Names
<1>5. ASSUME NEW r \in Requests, StartPut(r) PROVE PlaceInv'
  BY <1>5, EngineAssumption DEF StartPut, TypeOK, PlaceInv, Names
<1>6. ASSUME NEW r \in Requests, ListForPut(r) PROVE PlaceInv'
  BY <1>6, EngineAssumption DEF ListForPut, TypeOK, PlaceInv, Names
<1>7. ASSUME NEW r \in Requests, StartDelete(r) PROVE PlaceInv'
  BY <1>7, EngineAssumption DEF StartDelete, TypeOK, PlaceInv, Names
<1>8. ASSUME NEW r \in Requests, Admit(r) PROVE PlaceInv'
  BY <1>8, EngineAssumption DEF Admit, NextUp, TypeOK, PlaceInv, Names
<1>9. ASSUME NEW r \in Requests, PutOK(r) PROVE PlaceInv'
  BY <1>9, EngineAssumption DEF PutOK, TypeOK, PlaceInv, Names
<1>10. ASSUME NEW r \in Requests, PutFail(r) PROVE PlaceInv'
  BY <1>10, EngineAssumption DEF PutFail, TypeOK, PlaceInv, Names
<1>11. ASSUME NEW r \in Requests, GetOK(r) PROVE PlaceInv'
  BY <1>11, EngineAssumption DEF GetOK, TypeOK, PlaceInv, Names
<1>12. ASSUME NEW r \in Requests, GetFail(r) PROVE PlaceInv'
  BY <1>12, EngineAssumption DEF GetFail, TypeOK, PlaceInv, Names
<1>13. ASSUME NEW r \in Requests, DeleteOK(r) PROVE PlaceInv'
  BY <1>13, EngineAssumption DEF DeleteOK, TypeOK, PlaceInv, Names
<1>14. ASSUME NEW r \in Requests, DeleteFail(r) PROVE PlaceInv'
  BY <1>14, EngineAssumption DEF DeleteFail, TypeOK, PlaceInv, Names
<1>15. ASSUME NEW r \in Requests, Exhausted(r) PROVE PlaceInv'
  BY <1>15, EngineAssumption DEF Exhausted, TypeOK, PlaceInv, Names
<1>16. ASSUME NEW r \in Requests, StartRegionPut(r) PROVE PlaceInv'
  BY <1>16, EngineAssumption DEF StartRegionPut, TypeOK, PlaceInv, Names
<1>17. ASSUME NEW r \in Requests, RegionPut(r) PROVE PlaceInv'
  BY <1>17, EngineAssumption DEF RegionPut, TypeOK, PlaceInv, Names
<1>18. ASSUME NEW r \in Requests, Note(r) PROVE PlaceInv'
  BY <1>18, EngineAssumption DEF Note, TypeOK, PlaceInv, Names
<1>19. ASSUME NEW r \in Requests, UpsertHead(r) PROVE PlaceInv'
  BY <1>19, EngineAssumption DEF UpsertHead, TypeOK, PlaceInv, Names
<1>20. ASSUME NEW r \in Requests, RecordLocation(r) PROVE PlaceInv'
  BY <1>20, EngineAssumption DEF RecordLocation, TypeOK, PlaceInv, Names
<1>21. ASSUME NEW r \in Requests, Unmap(r) PROVE PlaceInv'
  BY <1>21, EngineAssumption DEF Unmap, TypeOK, PlaceInv, Names
<1>22. ASSUME NEW r \in Requests, Unlist(r) PROVE PlaceInv'
  BY <1>22, EngineAssumption DEF Unlist, TypeOK, PlaceInv, Names
<1>23. ASSUME NEW r \in Requests, DeleteHead(r) PROVE PlaceInv'
  BY <1>23, EngineAssumption DEF DeleteHead, TypeOK, PlaceInv, Names
<1>24. ASSUME NEW r \in Requests, Drop(r) PROVE PlaceInv'
  BY <1>24, EngineAssumption DEF Drop, TypeOK, PlaceInv, Names
<1>25. ASSUME NEW name \in Primaries, SetPrimary(name) PROVE PlaceInv'
  BY <1>25, EngineAssumption DEF SetPrimary, TypeOK, PlaceInv, Names
<1>26. ASSUME NEW c \in Backends, Age(c) \/ Cool(c) PROVE PlaceInv'
  BY <1>26, EngineAssumption DEF Age, Cool, TypeOK, PlaceInv, Names
<1>27. CASE Restart
  BY <1>27, EngineAssumption DEF Restart, Fresh, Ended, TypeOK, PlaceInv, Names
<1>28. CASE UNCHANGED vars
  BY <1>28, EngineAssumption DEF vars, TypeOK, PlaceInv, Names
<1> QED
  BY <1>1, <1>2, <1>3, <1>4, <1>5, <1>6, <1>7, <1>8, <1>9, <1>10, <1>11, <1>12, <1>13, <1>14, <1>15, <1>16,
     <1>17, <1>18, <1>19, <1>20, <1>21, <1>22, <1>23, <1>24, <1>25, <1>26, <1>27, <1>28 DEF Next, Step

\* A body read from and not rewindable stays without candidates.
LEMMA DrainStep ==
    ASSUME TypeOK, PlaceInv, DrainInv, [Next]_vars
    PROVE  DrainInv'
<1> USE DEF Goto, Op, Arrive, past, fixed, records, breakers, plan, walk, io, Listed, EndWalk
<1>1. ASSUME NEW r \in Requests, StartGet(r) PROVE DrainInv'
  BY <1>1 DEF StartGet, TypeOK, PlaceInv, DrainInv, Rewindable
<1>2. ASSUME NEW r \in Requests, Hint(r) PROVE DrainInv'
  BY <1>2 DEF Hint, TypeOK, PlaceInv, DrainInv, Rewindable
<1>3. ASSUME NEW r \in Requests, Lookup(r) PROVE DrainInv'
  BY <1>3 DEF Lookup, TypeOK, PlaceInv, DrainInv, Rewindable
<1>4. ASSUME NEW r \in Requests, Seed(r) PROVE DrainInv'
  BY <1>4 DEF Seed, TypeOK, PlaceInv, DrainInv, Rewindable
<1>5. ASSUME NEW r \in Requests, StartPut(r) PROVE DrainInv'
  BY <1>5 DEF StartPut, TypeOK, PlaceInv, DrainInv, Rewindable
<1>6. ASSUME NEW r \in Requests, ListForPut(r) PROVE DrainInv'
  BY <1>6 DEF ListForPut, TypeOK, PlaceInv, DrainInv, Rewindable
<1>7. ASSUME NEW r \in Requests, StartDelete(r) PROVE DrainInv'
  BY <1>7 DEF StartDelete, TypeOK, PlaceInv, DrainInv, Rewindable
<1>8. ASSUME NEW r \in Requests, Admit(r) PROVE DrainInv'
  BY <1>8 DEF Admit, NextUp, TypeOK, PlaceInv, DrainInv, Rewindable
<1>9. ASSUME NEW r \in Requests, PutOK(r) PROVE DrainInv'
  BY <1>9 DEF PutOK, TypeOK, PlaceInv, DrainInv, Rewindable
<1>10. ASSUME NEW r \in Requests, PutFail(r) PROVE DrainInv'
  BY <1>10 DEF PutFail, TypeOK, PlaceInv, DrainInv, Rewindable
<1>11. ASSUME NEW r \in Requests, GetOK(r) PROVE DrainInv'
  BY <1>11 DEF GetOK, TypeOK, PlaceInv, DrainInv, Rewindable
<1>12. ASSUME NEW r \in Requests, GetFail(r) PROVE DrainInv'
  BY <1>12 DEF GetFail, TypeOK, PlaceInv, DrainInv, Rewindable
<1>13. ASSUME NEW r \in Requests, DeleteOK(r) PROVE DrainInv'
  BY <1>13 DEF DeleteOK, TypeOK, PlaceInv, DrainInv, Rewindable
<1>14. ASSUME NEW r \in Requests, DeleteFail(r) PROVE DrainInv'
  BY <1>14 DEF DeleteFail, TypeOK, PlaceInv, DrainInv, Rewindable
<1>15. ASSUME NEW r \in Requests, Exhausted(r) PROVE DrainInv'
  BY <1>15 DEF Exhausted, TypeOK, PlaceInv, DrainInv, Rewindable
<1>16. ASSUME NEW r \in Requests, StartRegionPut(r) PROVE DrainInv'
  BY <1>16 DEF StartRegionPut, TypeOK, PlaceInv, DrainInv, Rewindable
<1>17. ASSUME NEW r \in Requests, RegionPut(r) PROVE DrainInv'
  BY <1>17 DEF RegionPut, TypeOK, PlaceInv, DrainInv, Rewindable
<1>18. ASSUME NEW r \in Requests, Note(r) PROVE DrainInv'
  BY <1>18 DEF Note, TypeOK, PlaceInv, DrainInv, Rewindable
<1>19. ASSUME NEW r \in Requests, UpsertHead(r) PROVE DrainInv'
  BY <1>19 DEF UpsertHead, TypeOK, PlaceInv, DrainInv, Rewindable
<1>20. ASSUME NEW r \in Requests, RecordLocation(r) PROVE DrainInv'
  BY <1>20 DEF RecordLocation, TypeOK, PlaceInv, DrainInv, Rewindable
<1>21. ASSUME NEW r \in Requests, Unmap(r) PROVE DrainInv'
  BY <1>21 DEF Unmap, TypeOK, PlaceInv, DrainInv, Rewindable
<1>22. ASSUME NEW r \in Requests, Unlist(r) PROVE DrainInv'
  BY <1>22 DEF Unlist, TypeOK, PlaceInv, DrainInv, Rewindable
<1>23. ASSUME NEW r \in Requests, DeleteHead(r) PROVE DrainInv'
  BY <1>23 DEF DeleteHead, TypeOK, PlaceInv, DrainInv, Rewindable
<1>24. ASSUME NEW r \in Requests, Drop(r) PROVE DrainInv'
  BY <1>24 DEF Drop, TypeOK, PlaceInv, DrainInv, Rewindable
<1>25. ASSUME NEW name \in Primaries, SetPrimary(name) PROVE DrainInv'
  BY <1>25 DEF SetPrimary, TypeOK, PlaceInv, DrainInv, Rewindable
<1>26. ASSUME NEW c \in Backends, Age(c) \/ Cool(c) PROVE DrainInv'
  BY <1>26 DEF Age, Cool, TypeOK, PlaceInv, DrainInv, Rewindable
<1>27. CASE Restart
  BY <1>27 DEF Restart, Fresh, Ended, TypeOK, PlaceInv, DrainInv, Rewindable
<1>28. CASE UNCHANGED vars
  BY <1>28 DEF vars, TypeOK, PlaceInv, DrainInv, Rewindable
<1> QED
  BY <1>1, <1>2, <1>3, <1>4, <1>5, <1>6, <1>7, <1>8, <1>9, <1>10, <1>11, <1>12, <1>13, <1>14, <1>15, <1>16,
     <1>17, <1>18, <1>19, <1>20, <1>21, <1>22, <1>23, <1>24, <1>25, <1>26, <1>27, <1>28 DEF Next, Step

\* A backend stores a body from its start.
LEMMA WholeStep ==
    ASSUME TypeOK, PlaceInv, DrainInv, WholeBodies, [Next]_vars
    PROVE  WholeBodies'
<1> USE DEF Goto, Op, Arrive, past, fixed, records, breakers, plan, walk, io, Listed, EndWalk
<1>1. ASSUME NEW r \in Requests, StartGet(r) PROVE WholeBodies'
  BY <1>1, EngineAssumption DEF StartGet, TypeOK, PlaceInv, DrainInv, WholeBodies, Whole
<1>2. ASSUME NEW r \in Requests, Hint(r) PROVE WholeBodies'
  BY <1>2, EngineAssumption DEF Hint, TypeOK, PlaceInv, DrainInv, WholeBodies, Whole
<1>3. ASSUME NEW r \in Requests, Lookup(r) PROVE WholeBodies'
  BY <1>3, EngineAssumption DEF Lookup, TypeOK, PlaceInv, DrainInv, WholeBodies, Whole
<1>4. ASSUME NEW r \in Requests, Seed(r) PROVE WholeBodies'
  BY <1>4, EngineAssumption DEF Seed, TypeOK, PlaceInv, DrainInv, WholeBodies, Whole
<1>5. ASSUME NEW r \in Requests, StartPut(r) PROVE WholeBodies'
  BY <1>5, EngineAssumption DEF StartPut, TypeOK, PlaceInv, DrainInv, WholeBodies, Whole
<1>6. ASSUME NEW r \in Requests, ListForPut(r) PROVE WholeBodies'
  BY <1>6, EngineAssumption DEF ListForPut, TypeOK, PlaceInv, DrainInv, WholeBodies, Whole
<1>7. ASSUME NEW r \in Requests, StartDelete(r) PROVE WholeBodies'
  BY <1>7, EngineAssumption DEF StartDelete, TypeOK, PlaceInv, DrainInv, WholeBodies, Whole
<1>8. ASSUME NEW r \in Requests, Admit(r) PROVE WholeBodies'
  BY <1>8, EngineAssumption DEF Admit, NextUp, TypeOK, PlaceInv, DrainInv, WholeBodies, Whole
<1>9. ASSUME NEW r \in Requests, PutOK(r) PROVE WholeBodies'
  BY <1>9, EngineAssumption DEF PutOK, TypeOK, PlaceInv, DrainInv, WholeBodies, Whole
<1>10. ASSUME NEW r \in Requests, PutFail(r) PROVE WholeBodies'
  BY <1>10, EngineAssumption DEF PutFail, TypeOK, PlaceInv, DrainInv, WholeBodies, Whole
<1>11. ASSUME NEW r \in Requests, GetOK(r) PROVE WholeBodies'
  BY <1>11, EngineAssumption DEF GetOK, TypeOK, PlaceInv, DrainInv, WholeBodies, Whole
<1>12. ASSUME NEW r \in Requests, GetFail(r) PROVE WholeBodies'
  BY <1>12, EngineAssumption DEF GetFail, TypeOK, PlaceInv, DrainInv, WholeBodies, Whole
<1>13. ASSUME NEW r \in Requests, DeleteOK(r) PROVE WholeBodies'
  BY <1>13, EngineAssumption DEF DeleteOK, TypeOK, PlaceInv, DrainInv, WholeBodies, Whole
<1>14. ASSUME NEW r \in Requests, DeleteFail(r) PROVE WholeBodies'
  BY <1>14, EngineAssumption DEF DeleteFail, TypeOK, PlaceInv, DrainInv, WholeBodies, Whole
<1>15. ASSUME NEW r \in Requests, Exhausted(r) PROVE WholeBodies'
  BY <1>15, EngineAssumption DEF Exhausted, TypeOK, PlaceInv, DrainInv, WholeBodies, Whole
<1>16. ASSUME NEW r \in Requests, StartRegionPut(r) PROVE WholeBodies'
  BY <1>16, EngineAssumption DEF StartRegionPut, TypeOK, PlaceInv, DrainInv, WholeBodies, Whole
<1>17. ASSUME NEW r \in Requests, RegionPut(r) PROVE WholeBodies'
  BY <1>17, EngineAssumption DEF RegionPut, TypeOK, PlaceInv, DrainInv, WholeBodies, Whole
<1>18. ASSUME NEW r \in Requests, Note(r) PROVE WholeBodies'
  BY <1>18, EngineAssumption DEF Note, TypeOK, PlaceInv, DrainInv, WholeBodies, Whole
<1>19. ASSUME NEW r \in Requests, UpsertHead(r) PROVE WholeBodies'
  BY <1>19, EngineAssumption DEF UpsertHead, TypeOK, PlaceInv, DrainInv, WholeBodies, Whole
<1>20. ASSUME NEW r \in Requests, RecordLocation(r) PROVE WholeBodies'
  BY <1>20, EngineAssumption DEF RecordLocation, TypeOK, PlaceInv, DrainInv, WholeBodies, Whole
<1>21. ASSUME NEW r \in Requests, Unmap(r) PROVE WholeBodies'
  BY <1>21, EngineAssumption DEF Unmap, TypeOK, PlaceInv, DrainInv, WholeBodies, Whole
<1>22. ASSUME NEW r \in Requests, Unlist(r) PROVE WholeBodies'
  BY <1>22, EngineAssumption DEF Unlist, TypeOK, PlaceInv, DrainInv, WholeBodies, Whole
<1>23. ASSUME NEW r \in Requests, DeleteHead(r) PROVE WholeBodies'
  BY <1>23, EngineAssumption DEF DeleteHead, TypeOK, PlaceInv, DrainInv, WholeBodies, Whole
<1>24. ASSUME NEW r \in Requests, Drop(r) PROVE WholeBodies'
  BY <1>24, EngineAssumption DEF Drop, TypeOK, PlaceInv, DrainInv, WholeBodies, Whole
<1>25. ASSUME NEW name \in Primaries, SetPrimary(name) PROVE WholeBodies'
  BY <1>25, EngineAssumption DEF SetPrimary, TypeOK, PlaceInv, DrainInv, WholeBodies, Whole
<1>26. ASSUME NEW c \in Backends, Age(c) \/ Cool(c) PROVE WholeBodies'
  BY <1>26, EngineAssumption DEF Age, Cool, TypeOK, PlaceInv, DrainInv, WholeBodies, Whole
<1>27. CASE Restart
  BY <1>27, EngineAssumption DEF Restart, Fresh, Ended, TypeOK, PlaceInv, DrainInv, WholeBodies, Whole
<1>28. CASE UNCHANGED vars
  BY <1>28, EngineAssumption DEF vars, TypeOK, PlaceInv, DrainInv, WholeBodies, Whole
<1> QED
  BY <1>1, <1>2, <1>3, <1>4, <1>5, <1>6, <1>7, <1>8, <1>9, <1>10, <1>11, <1>12, <1>13, <1>14, <1>15, <1>16,
     <1>17, <1>18, <1>19, <1>20, <1>21, <1>22, <1>23, <1>24, <1>25, <1>26, <1>27, <1>28 DEF Next, Step

\* A walk does not come back to a candidate, and only a ranged GET walks twice.
LEMMA WalkStep ==
    ASSUME TypeOK, PlaceInv, WalkInv, [Next]_vars
    PROVE  WalkInv'
<1> USE DEF Goto, Op, Arrive, past, fixed, records, breakers, plan, walk, io, Listed, EndWalk
<1>1. ASSUME NEW r \in Requests, StartGet(r) PROVE WalkInv'
  BY <1>1, EngineAssumption DEF StartGet, TypeOK, PlaceInv, WalkInv, Ranged, Ended
<1>2. ASSUME NEW r \in Requests, Hint(r) PROVE WalkInv'
  BY <1>2, EngineAssumption DEF Hint, TypeOK, PlaceInv, WalkInv, Ranged, Ended
<1>3. ASSUME NEW r \in Requests, Lookup(r) PROVE WalkInv'
  BY <1>3, EngineAssumption DEF Lookup, TypeOK, PlaceInv, WalkInv, Ranged, Ended
<1>4. ASSUME NEW r \in Requests, Seed(r) PROVE WalkInv'
  BY <1>4, EngineAssumption DEF Seed, TypeOK, PlaceInv, WalkInv, Ranged, Ended
<1>5. ASSUME NEW r \in Requests, StartPut(r) PROVE WalkInv'
  BY <1>5, EngineAssumption DEF StartPut, TypeOK, PlaceInv, WalkInv, Ranged, Ended
<1>6. ASSUME NEW r \in Requests, ListForPut(r) PROVE WalkInv'
  BY <1>6, EngineAssumption DEF ListForPut, TypeOK, PlaceInv, WalkInv, Ranged, Ended
<1>7. ASSUME NEW r \in Requests, StartDelete(r) PROVE WalkInv'
  BY <1>7, EngineAssumption DEF StartDelete, TypeOK, PlaceInv, WalkInv, Ranged, Ended
<1>8. ASSUME NEW r \in Requests, Admit(r) PROVE WalkInv'
  BY <1>8, EngineAssumption DEF Admit, NextUp, TypeOK, PlaceInv, WalkInv, Ranged, Ended
<1>9. ASSUME NEW r \in Requests, PutOK(r) PROVE WalkInv'
  BY <1>9, EngineAssumption DEF PutOK, TypeOK, PlaceInv, WalkInv, Ranged, Ended
<1>10. ASSUME NEW r \in Requests, PutFail(r) PROVE WalkInv'
  BY <1>10, EngineAssumption DEF PutFail, TypeOK, PlaceInv, WalkInv, Ranged, Ended
<1>11. ASSUME NEW r \in Requests, GetOK(r) PROVE WalkInv'
  BY <1>11, EngineAssumption DEF GetOK, TypeOK, PlaceInv, WalkInv, Ranged, Ended
<1>12. ASSUME NEW r \in Requests, GetFail(r) PROVE WalkInv'
  BY <1>12, EngineAssumption DEF GetFail, TypeOK, PlaceInv, WalkInv, Ranged, Ended
<1>13. ASSUME NEW r \in Requests, DeleteOK(r) PROVE WalkInv'
  BY <1>13, EngineAssumption DEF DeleteOK, TypeOK, PlaceInv, WalkInv, Ranged, Ended
<1>14. ASSUME NEW r \in Requests, DeleteFail(r) PROVE WalkInv'
  BY <1>14, EngineAssumption DEF DeleteFail, TypeOK, PlaceInv, WalkInv, Ranged, Ended
<1>15. ASSUME NEW r \in Requests, Exhausted(r) PROVE WalkInv'
  BY <1>15, EngineAssumption DEF Exhausted, TypeOK, PlaceInv, WalkInv, Ranged, Ended
<1>16. ASSUME NEW r \in Requests, StartRegionPut(r) PROVE WalkInv'
  BY <1>16, EngineAssumption DEF StartRegionPut, TypeOK, PlaceInv, WalkInv, Ranged, Ended
<1>17. ASSUME NEW r \in Requests, RegionPut(r) PROVE WalkInv'
  BY <1>17, EngineAssumption DEF RegionPut, TypeOK, PlaceInv, WalkInv, Ranged, Ended
<1>18. ASSUME NEW r \in Requests, Note(r) PROVE WalkInv'
  BY <1>18, EngineAssumption DEF Note, TypeOK, PlaceInv, WalkInv, Ranged, Ended
<1>19. ASSUME NEW r \in Requests, UpsertHead(r) PROVE WalkInv'
  BY <1>19, EngineAssumption DEF UpsertHead, TypeOK, PlaceInv, WalkInv, Ranged, Ended
<1>20. ASSUME NEW r \in Requests, RecordLocation(r) PROVE WalkInv'
  BY <1>20, EngineAssumption DEF RecordLocation, TypeOK, PlaceInv, WalkInv, Ranged, Ended
<1>21. ASSUME NEW r \in Requests, Unmap(r) PROVE WalkInv'
  BY <1>21, EngineAssumption DEF Unmap, TypeOK, PlaceInv, WalkInv, Ranged, Ended
<1>22. ASSUME NEW r \in Requests, Unlist(r) PROVE WalkInv'
  BY <1>22, EngineAssumption DEF Unlist, TypeOK, PlaceInv, WalkInv, Ranged, Ended
<1>23. ASSUME NEW r \in Requests, DeleteHead(r) PROVE WalkInv'
  BY <1>23, EngineAssumption DEF DeleteHead, TypeOK, PlaceInv, WalkInv, Ranged, Ended
<1>24. ASSUME NEW r \in Requests, Drop(r) PROVE WalkInv'
  BY <1>24, EngineAssumption DEF Drop, TypeOK, PlaceInv, WalkInv, Ranged, Ended
<1>25. ASSUME NEW name \in Primaries, SetPrimary(name) PROVE WalkInv'
  BY <1>25, EngineAssumption DEF SetPrimary, TypeOK, PlaceInv, WalkInv, Ranged, Ended
<1>26. ASSUME NEW c \in Backends, Age(c) \/ Cool(c) PROVE WalkInv'
  BY <1>26, EngineAssumption DEF Age, Cool, TypeOK, PlaceInv, WalkInv, Ranged, Ended
<1>27. CASE Restart
  BY <1>27, EngineAssumption DEF Restart, Fresh, Ended, TypeOK, PlaceInv, WalkInv, Ranged
<1>28. CASE UNCHANGED vars
  BY <1>28, EngineAssumption DEF vars, TypeOK, PlaceInv, WalkInv, Ranged, Ended
<1> QED
  BY <1>1, <1>2, <1>3, <1>4, <1>5, <1>6, <1>7, <1>8, <1>9, <1>10, <1>11, <1>12, <1>13, <1>14, <1>15, <1>16,
     <1>17, <1>18, <1>19, <1>20, <1>21, <1>22, <1>23, <1>24, <1>25, <1>26, <1>27, <1>28 DEF Next, Step

\* Failover and recommendations do not bring local into a PUT's candidates.
LEMMA LocalStep ==
    ASSUME TypeOK, PlaceInv, LocalInv, [Next]_vars
    PROVE  LocalInv'
<1> USE DEF Goto, Op, Arrive, past, fixed, records, breakers, plan, walk, io, Listed, EndWalk
<1>1. ASSUME NEW r \in Requests, StartGet(r) PROVE LocalInv'
  BY <1>1, EngineAssumption
     DEF StartGet, TypeOK, PlaceInv, LocalInv, ResolveStorageClass, Recommended, Writable
<1>2. ASSUME NEW r \in Requests, Hint(r) PROVE LocalInv'
  BY <1>2, EngineAssumption DEF Hint, TypeOK, PlaceInv, LocalInv, ResolveStorageClass, Recommended, Writable
<1>3. ASSUME NEW r \in Requests, Lookup(r) PROVE LocalInv'
  BY <1>3, EngineAssumption DEF Lookup, TypeOK, PlaceInv, LocalInv, ResolveStorageClass, Recommended, Writable
<1>4. ASSUME NEW r \in Requests, Seed(r) PROVE LocalInv'
  BY <1>4, EngineAssumption DEF Seed, TypeOK, PlaceInv, LocalInv, ResolveStorageClass, Recommended, Writable
<1>5. ASSUME NEW r \in Requests, StartPut(r) PROVE LocalInv'
  BY <1>5, EngineAssumption
     DEF StartPut, TypeOK, PlaceInv, LocalInv, ResolveStorageClass, Recommended, Writable
<1>6. ASSUME NEW r \in Requests, ListForPut(r) PROVE LocalInv'
  BY <1>6, EngineAssumption
     DEF ListForPut, TypeOK, PlaceInv, LocalInv, ResolveStorageClass, Recommended, Writable
<1>7. ASSUME NEW r \in Requests, StartDelete(r) PROVE LocalInv'
  BY <1>7, EngineAssumption
     DEF StartDelete, TypeOK, PlaceInv, LocalInv, ResolveStorageClass, Recommended, Writable
<1>8. ASSUME NEW r \in Requests, Admit(r) PROVE LocalInv'
  BY <1>8, EngineAssumption
     DEF Admit, NextUp, TypeOK, PlaceInv, LocalInv, ResolveStorageClass, Recommended, Writable
<1>9. ASSUME NEW r \in Requests, PutOK(r) PROVE LocalInv'
  BY <1>9, EngineAssumption DEF PutOK, TypeOK, PlaceInv, LocalInv, ResolveStorageClass, Recommended, Writable
<1>10. ASSUME NEW r \in Requests, PutFail(r) PROVE LocalInv'
  BY <1>10, EngineAssumption
     DEF PutFail, TypeOK, PlaceInv, LocalInv, ResolveStorageClass, Recommended, Writable
<1>11. ASSUME NEW r \in Requests, GetOK(r) PROVE LocalInv'
  BY <1>11, EngineAssumption DEF GetOK, TypeOK, PlaceInv, LocalInv, ResolveStorageClass, Recommended, Writable
<1>12. ASSUME NEW r \in Requests, GetFail(r) PROVE LocalInv'
  BY <1>12, EngineAssumption
     DEF GetFail, TypeOK, PlaceInv, LocalInv, ResolveStorageClass, Recommended, Writable
<1>13. ASSUME NEW r \in Requests, DeleteOK(r) PROVE LocalInv'
  BY <1>13, EngineAssumption
     DEF DeleteOK, TypeOK, PlaceInv, LocalInv, ResolveStorageClass, Recommended, Writable
<1>14. ASSUME NEW r \in Requests, DeleteFail(r) PROVE LocalInv'
  BY <1>14, EngineAssumption
     DEF DeleteFail, TypeOK, PlaceInv, LocalInv, ResolveStorageClass, Recommended, Writable
<1>15. ASSUME NEW r \in Requests, Exhausted(r) PROVE LocalInv'
  BY <1>15, EngineAssumption
     DEF Exhausted, TypeOK, PlaceInv, LocalInv, ResolveStorageClass, Recommended, Writable
<1>16. ASSUME NEW r \in Requests, StartRegionPut(r) PROVE LocalInv'
  BY <1>16, EngineAssumption
     DEF StartRegionPut, TypeOK, PlaceInv, LocalInv, ResolveStorageClass, Recommended, Writable
<1>17. ASSUME NEW r \in Requests, RegionPut(r) PROVE LocalInv'
  BY <1>17, EngineAssumption
     DEF RegionPut, TypeOK, PlaceInv, LocalInv, ResolveStorageClass, Recommended, Writable
<1>18. ASSUME NEW r \in Requests, Note(r) PROVE LocalInv'
  BY <1>18, EngineAssumption DEF Note, TypeOK, PlaceInv, LocalInv, ResolveStorageClass, Recommended, Writable
<1>19. ASSUME NEW r \in Requests, UpsertHead(r) PROVE LocalInv'
  BY <1>19, EngineAssumption
     DEF UpsertHead, TypeOK, PlaceInv, LocalInv, ResolveStorageClass, Recommended, Writable
<1>20. ASSUME NEW r \in Requests, RecordLocation(r) PROVE LocalInv'
  BY <1>20, EngineAssumption
     DEF RecordLocation, TypeOK, PlaceInv, LocalInv, ResolveStorageClass, Recommended, Writable
<1>21. ASSUME NEW r \in Requests, Unmap(r) PROVE LocalInv'
  BY <1>21, EngineAssumption DEF Unmap, TypeOK, PlaceInv, LocalInv, ResolveStorageClass, Recommended, Writable
<1>22. ASSUME NEW r \in Requests, Unlist(r) PROVE LocalInv'
  BY <1>22, EngineAssumption
     DEF Unlist, TypeOK, PlaceInv, LocalInv, ResolveStorageClass, Recommended, Writable
<1>23. ASSUME NEW r \in Requests, DeleteHead(r) PROVE LocalInv'
  BY <1>23, EngineAssumption
     DEF DeleteHead, TypeOK, PlaceInv, LocalInv, ResolveStorageClass, Recommended, Writable
<1>24. ASSUME NEW r \in Requests, Drop(r) PROVE LocalInv'
  BY <1>24, EngineAssumption DEF Drop, TypeOK, PlaceInv, LocalInv, ResolveStorageClass, Recommended, Writable
<1>25. ASSUME NEW name \in Primaries, SetPrimary(name) PROVE LocalInv'
  BY <1>25, EngineAssumption
     DEF SetPrimary, TypeOK, PlaceInv, LocalInv, ResolveStorageClass, Recommended, Writable
<1>26. ASSUME NEW c \in Backends, Age(c) \/ Cool(c) PROVE LocalInv'
  BY <1>26, EngineAssumption
     DEF Age, Cool, TypeOK, PlaceInv, LocalInv, ResolveStorageClass, Recommended, Writable
<1>27. CASE Restart
  BY <1>27, EngineAssumption
     DEF Restart, Fresh, Ended, TypeOK, PlaceInv, LocalInv, ResolveStorageClass, Recommended, Writable
<1>28. CASE UNCHANGED vars
  BY <1>28, EngineAssumption DEF vars, TypeOK, PlaceInv, LocalInv, ResolveStorageClass, Recommended, Writable
<1> QED
  BY <1>1, <1>2, <1>3, <1>4, <1>5, <1>6, <1>7, <1>8, <1>9, <1>10, <1>11, <1>12, <1>13, <1>14, <1>15, <1>16,
     <1>17, <1>18, <1>19, <1>20, <1>21, <1>22, <1>23, <1>24, <1>25, <1>26, <1>27, <1>28 DEF Next, Step

\* What local stores was sent to it on purpose.
LEMMA PurposeStep ==
    ASSUME TypeOK, PlaceInv, LocalInv, LocalOnPurpose, [Next]_vars
    PROVE  LocalOnPurpose'
<1> USE DEF Goto, Op, Arrive, past, fixed, records, breakers, plan, walk, io, Listed, EndWalk
<1>1. ASSUME NEW r \in Requests, StartGet(r) PROVE LocalOnPurpose'
  BY <1>1, EngineAssumption DEF StartGet, TypeOK, PlaceInv, LocalInv, LocalOnPurpose
<1>2. ASSUME NEW r \in Requests, Hint(r) PROVE LocalOnPurpose'
  BY <1>2, EngineAssumption DEF Hint, TypeOK, PlaceInv, LocalInv, LocalOnPurpose
<1>3. ASSUME NEW r \in Requests, Lookup(r) PROVE LocalOnPurpose'
  BY <1>3, EngineAssumption DEF Lookup, TypeOK, PlaceInv, LocalInv, LocalOnPurpose
<1>4. ASSUME NEW r \in Requests, Seed(r) PROVE LocalOnPurpose'
  BY <1>4, EngineAssumption DEF Seed, TypeOK, PlaceInv, LocalInv, LocalOnPurpose
<1>5. ASSUME NEW r \in Requests, StartPut(r) PROVE LocalOnPurpose'
  BY <1>5, EngineAssumption DEF StartPut, TypeOK, PlaceInv, LocalInv, LocalOnPurpose
<1>6. ASSUME NEW r \in Requests, ListForPut(r) PROVE LocalOnPurpose'
  BY <1>6, EngineAssumption DEF ListForPut, TypeOK, PlaceInv, LocalInv, LocalOnPurpose
<1>7. ASSUME NEW r \in Requests, StartDelete(r) PROVE LocalOnPurpose'
  BY <1>7, EngineAssumption DEF StartDelete, TypeOK, PlaceInv, LocalInv, LocalOnPurpose
<1>8. ASSUME NEW r \in Requests, Admit(r) PROVE LocalOnPurpose'
  BY <1>8, EngineAssumption DEF Admit, NextUp, TypeOK, PlaceInv, LocalInv, LocalOnPurpose
<1>9. ASSUME NEW r \in Requests, PutOK(r) PROVE LocalOnPurpose'
  BY <1>9, EngineAssumption DEF PutOK, TypeOK, PlaceInv, LocalInv, LocalOnPurpose
<1>10. ASSUME NEW r \in Requests, PutFail(r) PROVE LocalOnPurpose'
  BY <1>10, EngineAssumption DEF PutFail, TypeOK, PlaceInv, LocalInv, LocalOnPurpose
<1>11. ASSUME NEW r \in Requests, GetOK(r) PROVE LocalOnPurpose'
  BY <1>11, EngineAssumption DEF GetOK, TypeOK, PlaceInv, LocalInv, LocalOnPurpose
<1>12. ASSUME NEW r \in Requests, GetFail(r) PROVE LocalOnPurpose'
  BY <1>12, EngineAssumption DEF GetFail, TypeOK, PlaceInv, LocalInv, LocalOnPurpose
<1>13. ASSUME NEW r \in Requests, DeleteOK(r) PROVE LocalOnPurpose'
  BY <1>13, EngineAssumption DEF DeleteOK, TypeOK, PlaceInv, LocalInv, LocalOnPurpose
<1>14. ASSUME NEW r \in Requests, DeleteFail(r) PROVE LocalOnPurpose'
  BY <1>14, EngineAssumption DEF DeleteFail, TypeOK, PlaceInv, LocalInv, LocalOnPurpose
<1>15. ASSUME NEW r \in Requests, Exhausted(r) PROVE LocalOnPurpose'
  BY <1>15, EngineAssumption DEF Exhausted, TypeOK, PlaceInv, LocalInv, LocalOnPurpose
<1>16. ASSUME NEW r \in Requests, StartRegionPut(r) PROVE LocalOnPurpose'
  BY <1>16, EngineAssumption DEF StartRegionPut, TypeOK, PlaceInv, LocalInv, LocalOnPurpose
<1>17. ASSUME NEW r \in Requests, RegionPut(r) PROVE LocalOnPurpose'
  BY <1>17, EngineAssumption DEF RegionPut, TypeOK, PlaceInv, LocalInv, LocalOnPurpose
<1>18. ASSUME NEW r \in Requests, Note(r) PROVE LocalOnPurpose'
  BY <1>18, EngineAssumption DEF Note, TypeOK, PlaceInv, LocalInv, LocalOnPurpose
<1>19. ASSUME NEW r \in Requests, UpsertHead(r) PROVE LocalOnPurpose'
  BY <1>19, EngineAssumption DEF UpsertHead, TypeOK, PlaceInv, LocalInv, LocalOnPurpose
<1>20. ASSUME NEW r \in Requests, RecordLocation(r) PROVE LocalOnPurpose'
  BY <1>20, EngineAssumption DEF RecordLocation, TypeOK, PlaceInv, LocalInv, LocalOnPurpose
<1>21. ASSUME NEW r \in Requests, Unmap(r) PROVE LocalOnPurpose'
  BY <1>21, EngineAssumption DEF Unmap, TypeOK, PlaceInv, LocalInv, LocalOnPurpose
<1>22. ASSUME NEW r \in Requests, Unlist(r) PROVE LocalOnPurpose'
  BY <1>22, EngineAssumption DEF Unlist, TypeOK, PlaceInv, LocalInv, LocalOnPurpose
<1>23. ASSUME NEW r \in Requests, DeleteHead(r) PROVE LocalOnPurpose'
  BY <1>23, EngineAssumption DEF DeleteHead, TypeOK, PlaceInv, LocalInv, LocalOnPurpose
<1>24. ASSUME NEW r \in Requests, Drop(r) PROVE LocalOnPurpose'
  BY <1>24, EngineAssumption DEF Drop, TypeOK, PlaceInv, LocalInv, LocalOnPurpose
<1>25. ASSUME NEW name \in Primaries, SetPrimary(name) PROVE LocalOnPurpose'
  BY <1>25, EngineAssumption DEF SetPrimary, TypeOK, PlaceInv, LocalInv, LocalOnPurpose
<1>26. ASSUME NEW c \in Backends, Age(c) \/ Cool(c) PROVE LocalOnPurpose'
  BY <1>26, EngineAssumption DEF Age, Cool, TypeOK, PlaceInv, LocalInv, LocalOnPurpose
<1>27. CASE Restart
  BY <1>27, EngineAssumption DEF Restart, Fresh, Ended, TypeOK, PlaceInv, LocalInv, LocalOnPurpose
<1>28. CASE UNCHANGED vars
  BY <1>28, EngineAssumption DEF vars, TypeOK, PlaceInv, LocalInv, LocalOnPurpose
<1> QED
  BY <1>1, <1>2, <1>3, <1>4, <1>5, <1>6, <1>7, <1>8, <1>9, <1>10, <1>11, <1>12, <1>13, <1>14, <1>15, <1>16,
     <1>17, <1>18, <1>19, <1>20, <1>21, <1>22, <1>23, <1>24, <1>25, <1>26, <1>27, <1>28 DEF Next, Step

-----------------------------------------------------------------------------
(* What a backend that is well is charged with *)

\* There are finitely many suspects, before a step and after it.
LEMMA SuspectsFinite ==
    ASSUME NEW S, NEW T, S \subseteq Requests, T \subseteq Requests
    PROVE  IsFiniteSet((S \X {1}) \cup (T \X {2}))
<1>1. IsFiniteSet(S) /\ IsFiniteSet(T)
  BY EngineAssumption, FS_Subset
<1>2. IsFiniteSet({1}) /\ IsFiniteSet({2})
  BY FS_Singleton
<1>3. IsFiniteSet(S \X {1}) /\ IsFiniteSet(T \X {2})
  BY <1>1, <1>2, FS_Product
<1> QED
  BY <1>3, FS_Union

\* A request stays what it is, and a client that went away stays away.
LEMMA GoneStay ==
    ASSUME [Next]_vars
    PROVE  job' = job /\ gone \subseteq gone'
BY ZenonT(40) DEF Next, Step, StartGet, Hint, Lookup, Seed, StartPut, ListForPut, StartDelete, Admit, PutOK, PutFail,
       GetOK, GetFail, DeleteOK, DeleteFail, Exhausted, StartRegionPut, RegionPut, Note, UpsertHead,
       RecordLocation, Unmap, Unlist, DeleteHead, Drop, SetPrimary, Age, Cool, Restart, fixed, vars

\* Suspects become more and never fewer.
LEMMA SuspectsGrow ==
    ASSUME TypeOK, TypeOK', [Next]_vars
    PROVE  /\ job' = job /\ gone \subseteq gone' /\ Suspects \subseteq Suspects'
           /\ FewSuspects' => FewSuspects
<1>1. job' = job /\ gone \subseteq gone'
  BY GoneStay
<1>2. Suspects \subseteq Suspects'
  BY <1>1 DEF Suspects, Ranged, Op
<1>3. IsFiniteSet(Suspects')
  BY SuspectsFinite DEF TypeOK, Ranged, Suspects
<1>4. IsFiniteSet(Suspects) /\ Cardinality(Suspects) <= Cardinality(Suspects')
  BY <1>2, <1>3, FS_Subset
<1>5. Cardinality(Suspects) \in Nat /\ Cardinality(Suspects') \in Nat
  BY <1>3, <1>4, FS_CardinalityType
<1> QED
  BY <1>1, <1>2, <1>4, <1>5, EngineAssumption DEF FewSuspects

\* A walk that has passed a backend does not come back to it.
LEMMA PassedStays ==
    ASSUME TypeOK, PlaceInv, WalkInv, [Next]_vars,
           NEW q \in Requests, NEW b \in Backends
    PROVE  /\ got[q] # None => got'[q] # None
           /\ got[q] # None /\ Passed(q, b) => Passed(q, b)'
           /\ Passed(q, b) => got'[q] # None \/ Passed(q, b)'
<1> DEFINE Kept == /\ got[q] # None => got'[q] # None
                   /\ got[q] # None /\ Passed(q, b) => Passed(q, b)'
                   /\ Passed(q, b) => got'[q] # None \/ Passed(q, b)'
<1> USE DEF Goto, Op, Arrive, past, fixed, records, breakers, plan, walk, io, Listed, EndWalk
<1>1. ASSUME NEW r \in Requests, StartGet(r) PROVE Kept
  BY <1>1, EngineAssumption DEF StartGet, TypeOK, PlaceInv, WalkInv, Passed, Ahead, Ended
<1>2. ASSUME NEW r \in Requests, Hint(r) PROVE Kept
  BY <1>2, EngineAssumption DEF Hint, TypeOK, PlaceInv, WalkInv, Passed, Ahead, Ended
<1>3. ASSUME NEW r \in Requests, Lookup(r) PROVE Kept
  BY <1>3, EngineAssumption DEF Lookup, TypeOK, PlaceInv, WalkInv, Passed, Ahead, Ended
<1>4. ASSUME NEW r \in Requests, Seed(r) PROVE Kept
  BY <1>4, EngineAssumption DEF Seed, TypeOK, PlaceInv, WalkInv, Passed, Ahead, Ended
<1>5. ASSUME NEW r \in Requests, StartPut(r) PROVE Kept
  BY <1>5, EngineAssumption DEF StartPut, TypeOK, PlaceInv, WalkInv, Passed, Ahead, Ended
<1>6. ASSUME NEW r \in Requests, ListForPut(r) PROVE Kept
  BY <1>6, EngineAssumption DEF ListForPut, TypeOK, PlaceInv, WalkInv, Passed, Ahead, Ended
<1>7. ASSUME NEW r \in Requests, StartDelete(r) PROVE Kept
  BY <1>7, EngineAssumption DEF StartDelete, TypeOK, PlaceInv, WalkInv, Passed, Ahead, Ended
<1>8. ASSUME NEW r \in Requests, Admit(r) PROVE Kept
  BY <1>8, EngineAssumption DEF Admit, NextUp, TypeOK, PlaceInv, WalkInv, Passed, Ahead, Ended
<1>9. ASSUME NEW r \in Requests, PutOK(r) PROVE Kept
  BY <1>9, EngineAssumption DEF PutOK, TypeOK, PlaceInv, WalkInv, Passed, Ahead, Ended
<1>10. ASSUME NEW r \in Requests, PutFail(r) PROVE Kept
  BY <1>10, EngineAssumption DEF PutFail, TypeOK, PlaceInv, WalkInv, Passed, Ahead, Ended
<1>11. ASSUME NEW r \in Requests, GetOK(r) PROVE Kept
  BY <1>11, EngineAssumption DEF GetOK, TypeOK, PlaceInv, WalkInv, Passed, Ahead, Ended
<1>12. ASSUME NEW r \in Requests, GetFail(r) PROVE Kept
  BY <1>12, EngineAssumption DEF GetFail, TypeOK, PlaceInv, WalkInv, Passed, Ahead, Ended
<1>13. ASSUME NEW r \in Requests, DeleteOK(r) PROVE Kept
  BY <1>13, EngineAssumption DEF DeleteOK, TypeOK, PlaceInv, WalkInv, Passed, Ahead, Ended
<1>14. ASSUME NEW r \in Requests, DeleteFail(r) PROVE Kept
  BY <1>14, EngineAssumption DEF DeleteFail, TypeOK, PlaceInv, WalkInv, Passed, Ahead, Ended
<1>15. ASSUME NEW r \in Requests, Exhausted(r) PROVE Kept
  BY <1>15, EngineAssumption DEF Exhausted, TypeOK, PlaceInv, WalkInv, Passed, Ahead, Ended
<1>16. ASSUME NEW r \in Requests, StartRegionPut(r) PROVE Kept
  BY <1>16, EngineAssumption DEF StartRegionPut, TypeOK, PlaceInv, WalkInv, Passed, Ahead, Ended
<1>17. ASSUME NEW r \in Requests, RegionPut(r) PROVE Kept
  BY <1>17, EngineAssumption DEF RegionPut, TypeOK, PlaceInv, WalkInv, Passed, Ahead, Ended
<1>18. ASSUME NEW r \in Requests, Note(r) PROVE Kept
  BY <1>18, EngineAssumption DEF Note, TypeOK, PlaceInv, WalkInv, Passed, Ahead, Ended
<1>19. ASSUME NEW r \in Requests, UpsertHead(r) PROVE Kept
  BY <1>19, EngineAssumption DEF UpsertHead, TypeOK, PlaceInv, WalkInv, Passed, Ahead, Ended
<1>20. ASSUME NEW r \in Requests, RecordLocation(r) PROVE Kept
  BY <1>20, EngineAssumption DEF RecordLocation, TypeOK, PlaceInv, WalkInv, Passed, Ahead, Ended
<1>21. ASSUME NEW r \in Requests, Unmap(r) PROVE Kept
  BY <1>21, EngineAssumption DEF Unmap, TypeOK, PlaceInv, WalkInv, Passed, Ahead, Ended
<1>22. ASSUME NEW r \in Requests, Unlist(r) PROVE Kept
  BY <1>22, EngineAssumption DEF Unlist, TypeOK, PlaceInv, WalkInv, Passed, Ahead, Ended
<1>23. ASSUME NEW r \in Requests, DeleteHead(r) PROVE Kept
  BY <1>23, EngineAssumption DEF DeleteHead, TypeOK, PlaceInv, WalkInv, Passed, Ahead, Ended
<1>24. ASSUME NEW r \in Requests, Drop(r) PROVE Kept
  BY <1>24, EngineAssumption DEF Drop, TypeOK, PlaceInv, WalkInv, Passed, Ahead, Ended
<1>25. ASSUME NEW name \in Primaries, SetPrimary(name) PROVE Kept
  BY <1>25, EngineAssumption DEF SetPrimary, TypeOK, PlaceInv, WalkInv, Passed, Ahead, Ended
<1>26. ASSUME NEW c \in Backends, Age(c) \/ Cool(c) PROVE Kept
  BY <1>26, EngineAssumption DEF Age, Cool, TypeOK, PlaceInv, WalkInv, Passed, Ahead, Ended
<1>27. CASE Restart
  BY <1>27, EngineAssumption DEF Restart, Fresh, Ended, TypeOK, PlaceInv, WalkInv, Passed, Ahead
<1>28. CASE UNCHANGED vars
  BY <1>28, EngineAssumption DEF vars, TypeOK, PlaceInv, WalkInv, Passed, Ahead, Ended
<1> QED
  BY <1>1, <1>2, <1>3, <1>4, <1>5, <1>6, <1>7, <1>8, <1>9, <1>10, <1>11, <1>12, <1>13, <1>14, <1>15, <1>16,
     <1>17, <1>18, <1>19, <1>20, <1>21, <1>22, <1>23, <1>24, <1>25, <1>26, <1>27, <1>28 DEF Next, Step

\* A suspect walk that may have charged a backend has done so for good.
LEMMA SpentGrows ==
    ASSUME TypeOK, TypeOK', PlaceInv, WalkInv, [Next]_vars, NEW b \in Backends
    PROVE  Spent(b) \subseteq Spent(b)'
<1>1. Suspects \subseteq Suspects' /\ Suspects \subseteq Requests \X {1, 2}
  BY SuspectsGrow DEF Suspects, Ranged, TypeOK
<1>2. ASSUME NEW s \in Spent(b) PROVE s \in Spent(b)'
  <2>1. s \in Suspects /\ s[1] \in Requests
    BY <1>1, <1>2 DEF Spent
  <2>2. /\ got[s[1]] # None => got'[s[1]] # None
        /\ got[s[1]] # None /\ Passed(s[1], b) => Passed(s[1], b)'
        /\ Passed(s[1], b) => got'[s[1]] # None \/ Passed(s[1], b)'
    BY <2>1, PassedStays
  <2>3. \/ s[2] = 1 /\ (got[s[1]] # None \/ Passed(s[1], b))
        \/ s[2] = 2 /\ got[s[1]] # None /\ Passed(s[1], b)
    BY <1>2 DEF Spent
  <2>4. \/ s[2] = 1 /\ (got'[s[1]] # None \/ Passed(s[1], b)')
        \/ s[2] = 2 /\ got'[s[1]] # None /\ Passed(s[1], b)'
    BY <2>2, <2>3
  <2> QED
    BY <1>1, <2>1, <2>4 DEF Spent
<1> QED
  BY <1>2

\* The calls that hold something against a backend that is well, and whose they are.
LEMMA ChargedCall ==
    ASSUME TypeOK, PlaceInv, DrainInv, WalkInv, NEW r \in Requests, PutFail(r) \/ GetFail(r) \/ DeleteFail(r),
           NEW b \in Backends \ Flaky, fails'[b] # fails[b]
    PROVE  /\ at[r] = b /\ pc[r] = "call" /\ fails'[b] = fails[b] + 1
           /\ r \in gone \/ (got[r] # None /\ r \in Ranged)
           /\ pc' = [pc EXCEPT ![r] = "try"] /\ left'[r] \subseteq left[r] /\ got' = got
<1> USE DEF Goto, breakers, plan, io
<1>1. CASE PutFail(r)
  <2>1. PICK outcome \in {"failed", "refused", "aborted"}, more \in BOOLEAN :
        /\ outcome = "failed" => at[r] \in Flaky \/ ~Whole(r)
        /\ outcome = "aborted" => r \in gone
        /\ Outcome(r, outcome)
        /\ left' = [left EXCEPT ![r] = IF drained'[r] /\ ~Rewindable(r) THEN {} ELSE @]
    BY <1>1 DEF PutFail
  <2>2. pc[r] = "call" /\ Op(r) = "put" /\ pc' = [pc EXCEPT ![r] = "try"] /\ got' = got /\ at[r] \in Backends
    BY <1>1 DEF PutFail, PlaceInv
  <2>3. Whole(r)
    BY <2>2, JobFacts DEF DrainInv, Whole, TypeOK
  <2>4. left'[r] \subseteq left[r]
    BY <2>1 DEF TypeOK
  <2>5. fails' = [fails EXCEPT ![at[r]] = @ + 1] /\ outcome \in {"failed", "aborted"}
    BY <2>1, <2>2 DEF Outcome, RecordSuccess, RecordFailure, isBackendFailure
  <2>6. at[r] = b /\ fails'[b] = fails[b] + 1
    BY <2>2, <2>5 DEF TypeOK
  <2> QED
    BY <2>1, <2>2, <2>3, <2>4, <2>5, <2>6
<1>2. CASE GetFail(r)
  <2>1. pc[r] = "call" /\ pc' = [pc EXCEPT ![r] = "try"] /\ got' = got /\ at[r] \in Backends
    BY <1>2 DEF GetFail, PlaceInv
  <2>2. left'[r] \subseteq left[r]
    BY <1>2 DEF GetFail, TypeOK
  <2>3. PICK outcome \in {"failed", "aborted", "missing", "short", "refused"} :
        /\ Outcome(r, outcome)
        /\ outcome = "failed" => at[r] \in Flaky
        /\ outcome = "aborted" => r \in gone
        /\ outcome = "short" => got[r] # None
    BY <1>2 DEF GetFail
  <2>4. fails' = [fails EXCEPT ![at[r]] = @ + 1] /\ outcome \in {"failed", "aborted", "short"}
    BY <2>3 DEF Outcome, RecordSuccess, RecordFailure, isBackendFailure
  <2>5. at[r] = b /\ fails'[b] = fails[b] + 1
    BY <2>1, <2>4 DEF TypeOK
  <2> QED
    BY <2>1, <2>2, <2>3, <2>4, <2>5 DEF WalkInv, Ended
<1>3. CASE DeleteFail(r)
  <2>1. /\ pc[r] = "call" /\ pc' = [pc EXCEPT ![r] = "try"] /\ got' = got /\ left' = left
        /\ at[r] \in Backends
    BY <1>3 DEF DeleteFail, PlaceInv
  <2>2. PICK outcome \in {"failed", "aborted", "missing"} :
        /\ Outcome(r, outcome)
        /\ outcome = "failed" => at[r] \in Flaky
        /\ outcome = "aborted" => r \in gone
    BY <1>3 DEF DeleteFail
  <2>3. fails' = [fails EXCEPT ![at[r]] = @ + 1] /\ outcome \in {"failed", "aborted"}
    BY <2>2 DEF Outcome, RecordSuccess, RecordFailure, isBackendFailure
  <2>4. at[r] = b /\ fails'[b] = fails[b] + 1
    BY <2>1, <2>3 DEF TypeOK
  <2> QED
    BY <2>1, <2>2, <2>3, <2>4
<1> QED
  BY <1>1, <1>2, <1>3

\* Any other step leaves the failures held against a backend as they are, or lowers them.
LEMMA OtherCalls ==
    ASSUME TypeOK, PlaceInv, [Next]_vars, NEW b \in Backends,
           \A r \in Requests : ~(PutFail(r) \/ GetFail(r) \/ DeleteFail(r))
    PROVE  fails'[b] <= fails[b]
<1> USE DEF breakers, Outcome, RecordSuccess
<1>1. ASSUME NEW r \in Requests, PutOK(r) \/ GetOK(r) \/ DeleteOK(r) PROVE fails'[b] <= fails[b]
  <2>1. at[r] \in Backends /\ fails' = [fails EXCEPT ![at[r]] = 0]
    BY <1>1 DEF PutOK, GetOK, DeleteOK, PlaceInv
  <2> QED
    BY <2>1 DEF TypeOK
<1>2. CASE \E c \in Backends : Age(c)
  BY <1>2 DEF Age, TypeOK
<1>3. CASE Restart
  BY <1>3 DEF Restart, TypeOK
<1>4. CASE UNCHANGED fails
  BY <1>4 DEF TypeOK
<1> QED
  BY <1>1, <1>2, <1>3, <1>4
  DEF Next, Step, StartGet, Hint, Lookup, Seed, StartPut, ListForPut, StartDelete, Admit,
      Exhausted, StartRegionPut, RegionPut, Note, UpsertHead,
      RecordLocation, Unmap, Unlist, DeleteHead, Drop, SetPrimary, Cool, vars

\* Every failure held against a backend that is well is a suspect walk of its own.
LEMMA ChargeStep ==
    ASSUME TypeOK, TypeOK', PlaceInv, DrainInv, WalkInv, ChargeInv, [Next]_vars
    PROVE  ChargeInv'
<1> SUFFICES ASSUME NEW b \in Backends \ Flaky PROVE fails'[b] <= Cardinality(Spent(b)')
  BY DEF ChargeInv
<1>1. /\ IsFiniteSet(Spent(b)') /\ IsFiniteSet(Spent(b))
      /\ Cardinality(Spent(b)) \in Nat /\ Cardinality(Spent(b)') \in Nat
  <2>1. IsFiniteSet(Suspects') /\ IsFiniteSet(Suspects)
    BY SuspectsFinite DEF TypeOK, Ranged, Suspects
  <2>2. Spent(b)' \subseteq Suspects' /\ Spent(b) \subseteq Suspects
    BY DEF Spent
  <2>3. IsFiniteSet(Spent(b)') /\ IsFiniteSet(Spent(b))
    BY <2>1, <2>2, FS_Subset
  <2> QED
    BY <2>3, FS_CardinalityType
<1>2. Spent(b) \subseteq Spent(b)' /\ Cardinality(Spent(b)) <= Cardinality(Spent(b)')
  BY <1>1, SpentGrows, FS_Subset
<1>3. fails[b] \in Nat /\ fails'[b] \in Nat /\ fails[b] <= Cardinality(Spent(b))
  BY DEF TypeOK, ChargeInv
<1>4. CASE fails'[b] <= fails[b]
  BY <1>1, <1>2, <1>3, <1>4
<1>5. CASE ~(fails'[b] <= fails[b])
  <2>1. PICK r \in Requests : PutFail(r) \/ GetFail(r) \/ DeleteFail(r)
    BY <1>5, OtherCalls
  <2>2. fails'[b] # fails[b]
    BY <1>3, <1>5
  <2>3. /\ at[r] = b /\ pc[r] = "call" /\ fails'[b] = fails[b] + 1
        /\ r \in gone \/ (got[r] # None /\ r \in Ranged)
        /\ pc' = [pc EXCEPT ![r] = "try"] /\ left'[r] \subseteq left[r] /\ got' = got
    BY <2>1, <2>2, ChargedCall
  <2>4. ~Passed(r, b) /\ Passed(r, b)'
    BY <2>3 DEF Passed, Ahead, WalkInv, TypeOK
  <2>5. \E s \in Suspects : s \in Spent(b)' /\ s \notin Spent(b)
    <3>1. CASE got[r] = None
      <4>1. <<r, 1>> \in Suspects /\ <<r, 1>> \in Suspects'
        BY <2>3, <3>1, SuspectsGrow DEF Suspects
      <4>2. <<r, 1>> \in Spent(b)' /\ <<r, 1>> \notin Spent(b)
        BY <2>3, <2>4, <3>1, <4>1 DEF Spent
      <4> QED
        BY <4>1, <4>2
    <3>2. CASE got[r] # None
      <4>1. r \in Ranged
        BY <2>3, <3>2 DEF WalkInv, Ended
      <4>2. <<r, 2>> \in Suspects /\ <<r, 2>> \in Suspects'
        BY <4>1, SuspectsGrow DEF Suspects
      <4>3. <<r, 2>> \in Spent(b)' /\ <<r, 2>> \notin Spent(b)
        BY <2>3, <2>4, <3>2, <4>2 DEF Spent
      <4> QED
        BY <4>2, <4>3
    <3> QED
      BY <3>1, <3>2
  <2>6. PICK s : s \in Spent(b)' /\ s \notin Spent(b)
    BY <2>5
  <2>7. /\ IsFiniteSet(Spent(b) \cup {s})
        /\ Cardinality(Spent(b) \cup {s}) = Cardinality(Spent(b)) + 1
    BY <1>1, <2>6, FS_AddElement
  <2>8. Spent(b) \cup {s} \subseteq Spent(b)'
    BY <1>2, <2>6
  <2>9. Cardinality(Spent(b) \cup {s}) <= Cardinality(Spent(b)')
    BY <1>1, <2>8, FS_Subset
  <2> QED
    BY <1>1, <1>3, <2>3, <2>7, <2>9
<1> QED
  BY <1>4, <1>5

\* A breaker leaves the closed state only by a failure that reaches the threshold.
LEMMA OpensAtThreshold ==
    ASSUME TypeOK, PlaceInv, [Next]_vars, NEW b \in Backends, breaker[b] = "closed"
    PROVE  breaker'[b] = "closed" \/ fails'[b] >= Threshold
<1> DEFINE Good == breaker'[b] = "closed" \/ fails'[b] >= Threshold
<1> USE DEF breakers
<1>1. ASSUME NEW r \in Requests, NEW o \in Outcomes, Outcome(r, o), at[r] \in Backends PROVE Good
  BY <1>1, EngineAssumption DEF Outcome, RecordSuccess, RecordFailure, TypeOK
<1>2. ASSUME NEW r \in Requests, PutOK(r) \/ GetOK(r) \/ DeleteOK(r) \/ PutFail(r) \/ GetFail(r) \/ DeleteFail(r)
      PROVE  at[r] \in Backends /\ \E o \in Outcomes : Outcome(r, o)
  BY <1>2 DEF PutOK, GetOK, DeleteOK, PutFail, GetFail, DeleteFail, PlaceInv, Outcomes
<1>3. ASSUME NEW r \in Requests, Admit(r) PROVE Good
  BY <1>3 DEF Admit, TypeOK
<1>4. CASE Restart
  BY <1>4 DEF Restart
<1>5. CASE UNCHANGED breaker
  BY <1>5
<1> QED
  BY <1>1, <1>2, <1>3, <1>4, <1>5
  DEF Next, Step, StartGet, Hint, Lookup, Seed, StartPut, ListForPut, StartDelete,
      Exhausted, StartRegionPut, RegionPut, Note, UpsertHead,
      RecordLocation, Unmap, Unlist, DeleteHead, Drop, SetPrimary, Age, Cool, vars

\* With fewer suspects than the threshold, the breaker of a backend that is well stays closed.
LEMMA HealthyStep ==
    ASSUME TypeOK, TypeOK', PlaceInv, ChargeInv', HealthyAdmitted, [Next]_vars
    PROVE  HealthyAdmitted'
<1> SUFFICES ASSUME FewSuspects', NEW b \in Backends \ Flaky PROVE breaker'[b] = "closed"
  BY DEF HealthyAdmitted
<1>1. breaker[b] = "closed"
  BY SuspectsGrow DEF HealthyAdmitted
<1>2. fails'[b] <= Cardinality(Spent(b)')
  BY DEF ChargeInv
<1>3. IsFiniteSet(Suspects')
  BY SuspectsFinite DEF TypeOK, Ranged, Suspects
<1>4. Spent(b)' \subseteq Suspects'
  BY DEF Spent
<1>5. IsFiniteSet(Spent(b)') /\ Cardinality(Spent(b)') <= Cardinality(Suspects')
  BY <1>3, <1>4, FS_Subset
<1>6. Cardinality(Spent(b)') \in Nat /\ Cardinality(Suspects') \in Nat
  BY <1>3, <1>5, FS_CardinalityType
<1>7. Cardinality(Suspects') < Threshold
  BY DEF FewSuspects
<1>8. ~(fails'[b] >= Threshold)
  BY <1>2, <1>5, <1>6, <1>7, EngineAssumption DEF TypeOK
<1> QED
  BY <1>1, <1>8, OpensAtThreshold

-----------------------------------------------------------------------------
(* What a GET finds *)

\* A GET comes to every backend that held a body and does not fail.
LEMMA SeenStep ==
    ASSUME TypeOK, TypeOK', PlaceInv, WalkInv, HealthyAdmitted, SeenInv, [Next]_vars
    PROVE  SeenInv'
<1> USE DEF Goto, Op, Arrive, past, fixed, records, breakers, plan, walk, io, Listed, EndWalk
<1>0. job' = job /\ gone \subseteq gone' /\ (FewSuspects' => FewSuspects)
  BY SuspectsGrow
<1>1. ASSUME NEW r \in Requests, StartGet(r) PROVE SeenInv'
  BY <1>1, <1>0, EngineAssumption
     DEF StartGet, TypeOK, PlaceInv, WalkInv, HealthyAdmitted, SeenInv, Ahead, Outcome
<1>2. ASSUME NEW r \in Requests, Hint(r) PROVE SeenInv'
  BY <1>2, <1>0, EngineAssumption
     DEF Hint, TypeOK, PlaceInv, WalkInv, HealthyAdmitted, SeenInv, Ahead, Outcome
<1>3. ASSUME NEW r \in Requests, Lookup(r) PROVE SeenInv'
  BY <1>3, <1>0, EngineAssumption
     DEF Lookup, TypeOK, PlaceInv, WalkInv, HealthyAdmitted, SeenInv, Ahead, Outcome
<1>4. ASSUME NEW r \in Requests, Seed(r) PROVE SeenInv'
  BY <1>4, <1>0, EngineAssumption
     DEF Seed, TypeOK, PlaceInv, WalkInv, HealthyAdmitted, SeenInv, Ahead, Outcome
<1>5. ASSUME NEW r \in Requests, StartPut(r) PROVE SeenInv'
  BY <1>5, <1>0, EngineAssumption
     DEF StartPut, TypeOK, PlaceInv, WalkInv, HealthyAdmitted, SeenInv, Ahead, Outcome
<1>6. ASSUME NEW r \in Requests, ListForPut(r) PROVE SeenInv'
  BY <1>6, <1>0, EngineAssumption
     DEF ListForPut, TypeOK, PlaceInv, WalkInv, HealthyAdmitted, SeenInv, Ahead, Outcome
<1>7. ASSUME NEW r \in Requests, StartDelete(r) PROVE SeenInv'
  BY <1>7, <1>0, EngineAssumption
     DEF StartDelete, TypeOK, PlaceInv, WalkInv, HealthyAdmitted, SeenInv, Ahead, Outcome
<1>8. ASSUME NEW r \in Requests, Admit(r) PROVE SeenInv'
  BY <1>8, <1>0, EngineAssumption
     DEF Admit, NextUp, TypeOK, PlaceInv, WalkInv, HealthyAdmitted, SeenInv, Ahead, Outcome
<1>9. ASSUME NEW r \in Requests, PutOK(r) PROVE SeenInv'
  BY <1>9, <1>0, EngineAssumption
     DEF PutOK, TypeOK, PlaceInv, WalkInv, HealthyAdmitted, SeenInv, Ahead, Outcome
<1>10. ASSUME NEW r \in Requests, PutFail(r) PROVE SeenInv'
  BY <1>10, <1>0, EngineAssumption
     DEF PutFail, TypeOK, PlaceInv, WalkInv, HealthyAdmitted, SeenInv, Ahead, Outcome
<1>11. ASSUME NEW r \in Requests, GetOK(r) PROVE SeenInv'
  BY <1>11, <1>0, EngineAssumption
     DEF GetOK, TypeOK, PlaceInv, WalkInv, HealthyAdmitted, SeenInv, Ahead, Outcome
<1>12. ASSUME NEW r \in Requests, GetFail(r) PROVE SeenInv'
  BY <1>12, <1>0, EngineAssumption
     DEF GetFail, TypeOK, PlaceInv, WalkInv, HealthyAdmitted, SeenInv, Ahead, Outcome
<1>13. ASSUME NEW r \in Requests, DeleteOK(r) PROVE SeenInv'
  BY <1>13, <1>0, EngineAssumption
     DEF DeleteOK, TypeOK, PlaceInv, WalkInv, HealthyAdmitted, SeenInv, Ahead, Outcome
<1>14. ASSUME NEW r \in Requests, DeleteFail(r) PROVE SeenInv'
  BY <1>14, <1>0, EngineAssumption
     DEF DeleteFail, TypeOK, PlaceInv, WalkInv, HealthyAdmitted, SeenInv, Ahead, Outcome
<1>15. ASSUME NEW r \in Requests, Exhausted(r) PROVE SeenInv'
  BY <1>15, <1>0, EngineAssumption
     DEF Exhausted, TypeOK, PlaceInv, WalkInv, HealthyAdmitted, SeenInv, Ahead, Outcome
<1>16. ASSUME NEW r \in Requests, StartRegionPut(r) PROVE SeenInv'
  BY <1>16, <1>0, EngineAssumption
     DEF StartRegionPut, TypeOK, PlaceInv, WalkInv, HealthyAdmitted, SeenInv, Ahead, Outcome
<1>17. ASSUME NEW r \in Requests, RegionPut(r) PROVE SeenInv'
  <2>1. UNCHANGED <<job, gone, breakers, walk, seen>>
    BY <1>17 DEF RegionPut
  <2>2. \A b \in Backends : blob[b] # None => blob'[b] # None
    BY <1>17, EngineAssumption DEF RegionPut, TypeOK
  <2>3. \A q \in Requests : pc'[q] \in {"seed", "try", "call"} => pc'[q] = pc[q]
    BY <1>17 DEF RegionPut, TypeOK
  <2>4. \A q \in Requests : seen[q] \subseteq Backends
    BY DEF TypeOK
  <2> QED
    BY <1>0, <2>1, <2>2, <2>3, <2>4 DEF SeenInv, Ahead
<1>18. ASSUME NEW r \in Requests, Note(r) PROVE SeenInv'
  BY <1>18, <1>0, EngineAssumption
     DEF Note, TypeOK, PlaceInv, WalkInv, HealthyAdmitted, SeenInv, Ahead, Outcome
<1>19. ASSUME NEW r \in Requests, UpsertHead(r) PROVE SeenInv'
  BY <1>19, <1>0, EngineAssumption
     DEF UpsertHead, TypeOK, PlaceInv, WalkInv, HealthyAdmitted, SeenInv, Ahead, Outcome
<1>20. ASSUME NEW r \in Requests, RecordLocation(r) PROVE SeenInv'
  BY <1>20, <1>0, EngineAssumption
     DEF RecordLocation, TypeOK, PlaceInv, WalkInv, HealthyAdmitted, SeenInv, Ahead, Outcome
<1>21. ASSUME NEW r \in Requests, Unmap(r) PROVE SeenInv'
  BY <1>21, <1>0, EngineAssumption
     DEF Unmap, TypeOK, PlaceInv, WalkInv, HealthyAdmitted, SeenInv, Ahead, Outcome
<1>22. ASSUME NEW r \in Requests, Unlist(r) PROVE SeenInv'
  BY <1>22, <1>0, EngineAssumption
     DEF Unlist, TypeOK, PlaceInv, WalkInv, HealthyAdmitted, SeenInv, Ahead, Outcome
<1>23. ASSUME NEW r \in Requests, DeleteHead(r) PROVE SeenInv'
  BY <1>23, <1>0, EngineAssumption
     DEF DeleteHead, TypeOK, PlaceInv, WalkInv, HealthyAdmitted, SeenInv, Ahead, Outcome
<1>24. ASSUME NEW r \in Requests, Drop(r) PROVE SeenInv'
  BY <1>24, <1>0, EngineAssumption
     DEF Drop, TypeOK, PlaceInv, WalkInv, HealthyAdmitted, SeenInv, Ahead, Outcome
<1>25. ASSUME NEW name \in Primaries, SetPrimary(name) PROVE SeenInv'
  BY <1>25, <1>0, EngineAssumption
     DEF SetPrimary, TypeOK, PlaceInv, WalkInv, HealthyAdmitted, SeenInv, Ahead, Outcome
<1>26. ASSUME NEW c \in Backends, Age(c) \/ Cool(c) PROVE SeenInv'
  BY <1>26, <1>0, EngineAssumption
     DEF Age, Cool, TypeOK, PlaceInv, WalkInv, HealthyAdmitted, SeenInv, Ahead, Outcome
<1>27. CASE Restart
  BY <1>27, <1>0, EngineAssumption
     DEF Restart, Fresh, Ended, TypeOK, PlaceInv, WalkInv, HealthyAdmitted, SeenInv, Ahead, Outcome
<1>28. CASE UNCHANGED vars
  BY <1>28, <1>0, EngineAssumption
     DEF vars, TypeOK, PlaceInv, WalkInv, HealthyAdmitted, SeenInv, Ahead, Outcome
<1> QED
  BY <1>1, <1>2, <1>3, <1>4, <1>5, <1>6, <1>7, <1>8, <1>9, <1>10, <1>11, <1>12, <1>13, <1>14, <1>15, <1>16,
     <1>17, <1>18, <1>19, <1>20, <1>21, <1>22, <1>23, <1>24, <1>25, <1>26, <1>27, <1>28 DEF Next, Step

\* A GET that ends with "missing" has tried every backend that could answer.
LEMMA FoundStep ==
    ASSUME TypeOK, TypeOK', PlaceInv, WalkInv, SeenInv, HeldFound, [Next]_vars
    PROVE  HeldFound'
<1> USE DEF Goto, Op, Arrive, past, fixed, records, breakers, plan, walk, io, Listed, EndWalk
<1>0. job' = job /\ gone \subseteq gone' /\ (FewSuspects' => FewSuspects)
  BY SuspectsGrow
<1>1. ASSUME NEW r \in Requests, StartGet(r) PROVE HeldFound'
  BY <1>1, <1>0, EngineAssumption DEF StartGet, TypeOK, PlaceInv, WalkInv, SeenInv, HeldFound, Ahead, Outcome
<1>2. ASSUME NEW r \in Requests, Hint(r) PROVE HeldFound'
  BY <1>2, <1>0, EngineAssumption DEF Hint, TypeOK, PlaceInv, WalkInv, SeenInv, HeldFound, Ahead, Outcome
<1>3. ASSUME NEW r \in Requests, Lookup(r) PROVE HeldFound'
  BY <1>3, <1>0, EngineAssumption, SMTT(30)
     DEF Lookup, TypeOK, PlaceInv, WalkInv, SeenInv, HeldFound, Ahead, Outcome
<1>4. ASSUME NEW r \in Requests, Seed(r) PROVE HeldFound'
  BY <1>4, <1>0, EngineAssumption DEF Seed, TypeOK, PlaceInv, WalkInv, SeenInv, HeldFound, Ahead, Outcome
<1>5. ASSUME NEW r \in Requests, StartPut(r) PROVE HeldFound'
  BY <1>5, <1>0, EngineAssumption DEF StartPut, TypeOK, PlaceInv, WalkInv, SeenInv, HeldFound, Ahead, Outcome
<1>6. ASSUME NEW r \in Requests, ListForPut(r) PROVE HeldFound'
  BY <1>6, <1>0, EngineAssumption
     DEF ListForPut, TypeOK, PlaceInv, WalkInv, SeenInv, HeldFound, Ahead, Outcome
<1>7. ASSUME NEW r \in Requests, StartDelete(r) PROVE HeldFound'
  BY <1>7, <1>0, EngineAssumption
     DEF StartDelete, TypeOK, PlaceInv, WalkInv, SeenInv, HeldFound, Ahead, Outcome
<1>8. ASSUME NEW r \in Requests, Admit(r) PROVE HeldFound'
  BY <1>8, <1>0, EngineAssumption
     DEF Admit, NextUp, TypeOK, PlaceInv, WalkInv, SeenInv, HeldFound, Ahead, Outcome
<1>9. ASSUME NEW r \in Requests, PutOK(r) PROVE HeldFound'
  BY <1>9, <1>0, EngineAssumption DEF PutOK, TypeOK, PlaceInv, WalkInv, SeenInv, HeldFound, Ahead, Outcome
<1>10. ASSUME NEW r \in Requests, PutFail(r) PROVE HeldFound'
  BY <1>10, <1>0, EngineAssumption DEF PutFail, TypeOK, PlaceInv, WalkInv, SeenInv, HeldFound, Ahead, Outcome
<1>11. ASSUME NEW r \in Requests, GetOK(r) PROVE HeldFound'
  BY <1>11, <1>0, EngineAssumption DEF GetOK, TypeOK, PlaceInv, WalkInv, SeenInv, HeldFound, Ahead, Outcome
<1>12. ASSUME NEW r \in Requests, GetFail(r) PROVE HeldFound'
  BY <1>12, <1>0, EngineAssumption DEF GetFail, TypeOK, PlaceInv, WalkInv, SeenInv, HeldFound, Ahead, Outcome
<1>13. ASSUME NEW r \in Requests, DeleteOK(r) PROVE HeldFound'
  BY <1>13, <1>0, EngineAssumption DEF DeleteOK, TypeOK, PlaceInv, WalkInv, SeenInv, HeldFound, Ahead, Outcome
<1>14. ASSUME NEW r \in Requests, DeleteFail(r) PROVE HeldFound'
  BY <1>14, <1>0, EngineAssumption
     DEF DeleteFail, TypeOK, PlaceInv, WalkInv, SeenInv, HeldFound, Ahead, Outcome
<1>15. ASSUME NEW r \in Requests, Exhausted(r) PROVE HeldFound'
  BY <1>15, <1>0, EngineAssumption
     DEF Exhausted, TypeOK, PlaceInv, WalkInv, SeenInv, HeldFound, Ahead, Outcome
<1>16. ASSUME NEW r \in Requests, StartRegionPut(r) PROVE HeldFound'
  BY <1>16, <1>0, EngineAssumption
     DEF StartRegionPut, TypeOK, PlaceInv, WalkInv, SeenInv, HeldFound, Ahead, Outcome
<1>17. ASSUME NEW r \in Requests, RegionPut(r) PROVE HeldFound'
  BY <1>17, <1>0, EngineAssumption
     DEF RegionPut, TypeOK, PlaceInv, WalkInv, SeenInv, HeldFound, Ahead, Outcome
<1>18. ASSUME NEW r \in Requests, Note(r) PROVE HeldFound'
  BY <1>18, <1>0, EngineAssumption DEF Note, TypeOK, PlaceInv, WalkInv, SeenInv, HeldFound, Ahead, Outcome
<1>19. ASSUME NEW r \in Requests, UpsertHead(r) PROVE HeldFound'
  BY <1>19, <1>0, EngineAssumption
     DEF UpsertHead, TypeOK, PlaceInv, WalkInv, SeenInv, HeldFound, Ahead, Outcome
<1>20. ASSUME NEW r \in Requests, RecordLocation(r) PROVE HeldFound'
  BY <1>20, <1>0, EngineAssumption
     DEF RecordLocation, TypeOK, PlaceInv, WalkInv, SeenInv, HeldFound, Ahead, Outcome
<1>21. ASSUME NEW r \in Requests, Unmap(r) PROVE HeldFound'
  BY <1>21, <1>0, EngineAssumption DEF Unmap, TypeOK, PlaceInv, WalkInv, SeenInv, HeldFound, Ahead, Outcome
<1>22. ASSUME NEW r \in Requests, Unlist(r) PROVE HeldFound'
  BY <1>22, <1>0, EngineAssumption DEF Unlist, TypeOK, PlaceInv, WalkInv, SeenInv, HeldFound, Ahead, Outcome
<1>23. ASSUME NEW r \in Requests, DeleteHead(r) PROVE HeldFound'
  BY <1>23, <1>0, EngineAssumption
     DEF DeleteHead, TypeOK, PlaceInv, WalkInv, SeenInv, HeldFound, Ahead, Outcome
<1>24. ASSUME NEW r \in Requests, Drop(r) PROVE HeldFound'
  BY <1>24, <1>0, EngineAssumption DEF Drop, TypeOK, PlaceInv, WalkInv, SeenInv, HeldFound, Ahead, Outcome
<1>25. ASSUME NEW name \in Primaries, SetPrimary(name) PROVE HeldFound'
  BY <1>25, <1>0, EngineAssumption
     DEF SetPrimary, TypeOK, PlaceInv, WalkInv, SeenInv, HeldFound, Ahead, Outcome
<1>26. ASSUME NEW c \in Backends, Age(c) \/ Cool(c) PROVE HeldFound'
  BY <1>26, <1>0, EngineAssumption
     DEF Age, Cool, TypeOK, PlaceInv, WalkInv, SeenInv, HeldFound, Ahead, Outcome
<1>27. CASE Restart
  BY <1>27, <1>0, EngineAssumption
     DEF Restart, Fresh, Ended, TypeOK, PlaceInv, WalkInv, SeenInv, HeldFound, Ahead, Outcome
<1>28. CASE UNCHANGED vars
  BY <1>28, <1>0, EngineAssumption DEF vars, TypeOK, PlaceInv, WalkInv, SeenInv, HeldFound, Ahead, Outcome
<1> QED
  BY <1>1, <1>2, <1>3, <1>4, <1>5, <1>6, <1>7, <1>8, <1>9, <1>10, <1>11, <1>12, <1>13, <1>14, <1>15, <1>16,
     <1>17, <1>18, <1>19, <1>20, <1>21, <1>22, <1>23, <1>24, <1>25, <1>26, <1>27, <1>28 DEF Next, Step

\* An arrival stores nothing.
LEMMA CalmArrive ==
    ASSUME TypeOK, CalmInv, NEW r \in Requests, Arrive(r), NEW s \in PcStates \ {"landed", "head"},
           pc' = [pc EXCEPT ![r] = s], UNCHANGED <<job, head, landed, blob>>
    PROVE  CalmInv'
<1>1. \A q \in Requests : pc'[q] = IF q = r THEN s ELSE pc[q]
  BY DEF TypeOK
<1>2. ASSUME NEW t \in Requests, calm' = t
      PROVE  /\ \A q \in Requests \ {t} : pc'[q] \in Ended
             /\ pc'[t] \in {"landed", "head"} => blob'[landed'[t]] = t
  <2>1. t = r /\ \A q \in Requests \ {r} : pc[q] \in Ended
    BY <1>2, EngineAssumption DEF Arrive
  <2> QED
    BY <1>1, <2>1
<1>3. ASSUME settled' # None
      PROVE  /\ settled' = settled /\ Op(r) = "get"
    BY <1>3 DEF Arrive
<1> QED
  BY <1>1, <1>2, <1>3 DEF CalmInv, Op

\* A step of a running request that stores nothing, and does not say that it has.
LEMMA CalmWalk ==
    ASSUME TypeOK, CalmInv, NEW r \in Requests, pc[r] \notin Ended, NEW s \in PcStates \ {"landed"},
           s = "head" => pc[r] = "landed", pc' = [pc EXCEPT ![r] = s],
           UNCHANGED <<job, calm, settled, head, landed, blob>>
    PROVE  CalmInv'
<1>1. \A q \in Requests : pc'[q] = IF q = r THEN s ELSE pc[q]
  BY DEF TypeOK
<1>2. ASSUME NEW t \in Requests, calm' = t
      PROVE  /\ \A q \in Requests \ {t} : pc'[q] \in Ended
             /\ pc'[t] \in {"landed", "head"} => blob'[landed'[t]] = t
  <2>1. t = r /\ \A q \in Requests \ {r} : pc[q] \in Ended
    BY <1>2 DEF CalmInv
  <2> QED
    BY <1>1, <1>2, <2>1 DEF CalmInv
<1>3. settled # None => Op(r) = "get"
  BY DEF CalmInv
<1> QED
  BY <1>1, <1>2, <1>3 DEF CalmInv, Op

\* While a PUT or a DELETE runs nothing is settled, and nobody else is calm.
LEMMA CalmAlone ==
    ASSUME TypeOK, CalmInv, NEW r \in Requests, pc[r] \notin Ended, Op(r) # "get",
           NEW s \in PcStates \ {"landed", "head"}, pc' = [pc EXCEPT ![r] = s],
           UNCHANGED <<job, calm, settled>>
    PROVE  CalmInv'
<1>1. \A q \in Requests : pc'[q] = IF q = r THEN s ELSE pc[q]
  BY DEF TypeOK
<1>2. ASSUME NEW t \in Requests, calm' = t
      PROVE  /\ \A q \in Requests \ {t} : pc'[q] \in Ended
             /\ pc'[t] \in {"landed", "head"} => blob'[landed'[t]] = t
  <2>1. t = r /\ \A q \in Requests \ {r} : pc[q] \in Ended
    BY <1>2 DEF CalmInv
  <2> QED
    BY <1>1, <2>1
<1>3. settled' = None
  BY DEF CalmInv
<1> QED
  BY <1>2, <1>3 DEF CalmInv

\* While a request runs alone nobody else touches what it wrote.
LEMMA CalmStep ==
    ASSUME TypeOK, PlaceInv, DrainInv, CalmInv, [Next]_vars
    PROVE  CalmInv'
<1> USE DEF Goto, Op, Arrive, past, fixed, records, breakers, plan, walk, io, Listed, EndWalk
<1>1. ASSUME NEW r \in Requests, StartGet(r) PROVE CalmInv'
  <2>1. Arrive(r) /\ pc' = [pc EXCEPT ![r] = "hint"] /\ UNCHANGED <<job, head, landed, blob>>
    BY <1>1 DEF StartGet
  <2> QED
    BY <2>1, CalmArrive DEF PcStates
<1>2. ASSUME NEW r \in Requests, Hint(r) PROVE CalmInv'
  BY <1>2, EngineAssumption DEF Hint, TypeOK, PlaceInv, DrainInv, CalmInv, Ended, Whole
<1>3. ASSUME NEW r \in Requests, Lookup(r) PROVE CalmInv'
  BY <1>3, EngineAssumption DEF Lookup, TypeOK, PlaceInv, DrainInv, CalmInv, Ended, Whole
<1>4. ASSUME NEW r \in Requests, Seed(r) PROVE CalmInv'
  BY <1>4, EngineAssumption DEF Seed, TypeOK, PlaceInv, DrainInv, CalmInv, Ended, Whole
<1>5. ASSUME NEW r \in Requests, StartPut(r) PROVE CalmInv'
  <2>1. Arrive(r) /\ pc' = [pc EXCEPT ![r] = "list"] /\ UNCHANGED <<job, head, landed, blob>>
    BY <1>5 DEF StartPut
  <2> QED
    BY <2>1, CalmArrive DEF PcStates
<1>6. ASSUME NEW r \in Requests, ListForPut(r) PROVE CalmInv'
  BY <1>6, EngineAssumption DEF ListForPut, TypeOK, PlaceInv, DrainInv, CalmInv, Ended, Whole
<1>7. ASSUME NEW r \in Requests, StartDelete(r) PROVE CalmInv'
  <2>1. Arrive(r) /\ pc' = [pc EXCEPT ![r] = "try"] /\ UNCHANGED <<job, head, landed, blob>>
    BY <1>7 DEF StartDelete
  <2> QED
    BY <2>1, CalmArrive DEF PcStates
<1>8. ASSUME NEW r \in Requests, Admit(r) PROVE CalmInv'
  <2>1. pc[r] = "try" /\ UNCHANGED <<job, calm, settled, head, landed, blob>>
    BY <1>8 DEF Admit
  <2>2. CASE UNCHANGED pc
    BY <2>1, <2>2 DEF CalmInv
  <2>3. CASE pc' = [pc EXCEPT ![r] = "call"]
    BY <2>1, <2>3, CalmWalk DEF PcStates, Ended
  <2> QED
    BY <1>8, <2>2, <2>3 DEF Admit
<1>9. ASSUME NEW r \in Requests, PutOK(r) PROVE CalmInv'
  <2>1. /\ pc[r] = "call" /\ Op(r) = "put" /\ pc' = [pc EXCEPT ![r] = "landed"]
        /\ landed' = [landed EXCEPT ![r] = at[r]]
        /\ UNCHANGED <<job, calm, settled>>
    BY <1>9 DEF PutOK
  <2>2. settled = None /\ \A t \in Requests : calm = t => t = r
    BY <2>1 DEF CalmInv, Ended
  <2>3. at[r] \in Backends /\ Whole(r)
    BY <2>1 DEF PlaceInv, DrainInv, Whole
  <2>4. landed'[r] = at[r] /\ blob'[at[r]] = r
    BY <1>9, <2>1, <2>3 DEF PutOK, TypeOK
  <2>5. \A q \in Requests \ {r} : pc'[q] = pc[q]
    BY <2>1 DEF TypeOK
  <2> QED
    BY <2>1, <2>2, <2>4, <2>5 DEF CalmInv
<1>10. ASSUME NEW r \in Requests, PutFail(r) PROVE CalmInv'
  <2>1. /\ pc[r] = "call" /\ Op(r) = "put" /\ pc' = [pc EXCEPT ![r] = "try"]
        /\ UNCHANGED <<job, calm, settled>>
    BY <1>10 DEF PutFail
  <2> QED
    BY <2>1, CalmAlone DEF PcStates, Ended
<1>11. ASSUME NEW r \in Requests, GetOK(r) PROVE CalmInv'
  BY <1>11, EngineAssumption DEF GetOK, TypeOK, PlaceInv, DrainInv, CalmInv, Ended, Whole
<1>12. ASSUME NEW r \in Requests, GetFail(r) PROVE CalmInv'
  <2>1. /\ pc[r] = "call" /\ pc' = [pc EXCEPT ![r] = "try"]
        /\ UNCHANGED <<job, calm, settled, head, landed, blob>>
    BY <1>12 DEF GetFail
  <2> QED
    BY <2>1, CalmWalk DEF PcStates, Ended
<1>13. ASSUME NEW r \in Requests, DeleteOK(r) PROVE CalmInv'
  <2>1. /\ pc[r] = "call" /\ Op(r) = "delete" /\ pc' = [pc EXCEPT ![r] = "unmap"]
        /\ UNCHANGED <<job, calm, settled>>
    BY <1>13 DEF DeleteOK
  <2> QED
    BY <2>1, CalmAlone DEF PcStates, Ended
<1>14. ASSUME NEW r \in Requests, DeleteFail(r) PROVE CalmInv'
  <2>1. /\ pc[r] = "call" /\ Op(r) = "delete" /\ pc' = [pc EXCEPT ![r] = "try"]
        /\ UNCHANGED <<job, calm, settled>>
    BY <1>14 DEF DeleteFail
  <2> QED
    BY <2>1, CalmAlone DEF PcStates, Ended
<1>15. ASSUME NEW r \in Requests, Exhausted(r) PROVE CalmInv'
  BY <1>15, EngineAssumption DEF Exhausted, TypeOK, PlaceInv, DrainInv, CalmInv, Ended, Whole
<1>16. ASSUME NEW r \in Requests, StartRegionPut(r) PROVE CalmInv'
  <2>1. Arrive(r) /\ pc' = [pc EXCEPT ![r] = "region"] /\ UNCHANGED <<job, head, landed, blob>>
    BY <1>16 DEF StartRegionPut
  <2> QED
    BY <2>1, CalmArrive DEF PcStates
<1>17. ASSUME NEW r \in Requests, RegionPut(r) PROVE CalmInv'
  <2>1. job[r].region \in Backends /\ Op(r) = "put" /\ pc[r] = "region"
    BY <1>17, JobFacts DEF RegionPut, PlaceInv
  <2>2. settled = None /\ UNCHANGED <<calm, settled>>
    BY <1>17, <2>1 DEF RegionPut, CalmInv, Ended
  <2>3. CASE pc' = [pc EXCEPT ![r] = "failed"]
    BY <1>17, <2>2, <2>3, EngineAssumption DEF RegionPut, CalmInv, Ended, TypeOK
  <2>4. CASE /\ pc' = [pc EXCEPT ![r] = "landed"] /\ blob' = [blob EXCEPT ![job[r].region] = r]
             /\ landed' = [landed EXCEPT ![r] = job[r].region]
    BY <2>1, <2>2, <2>4, EngineAssumption DEF CalmInv, Ended, TypeOK
  <2> QED
    BY <1>17, <2>3, <2>4 DEF RegionPut
<1>18. ASSUME NEW r \in Requests, Note(r) PROVE CalmInv'
  <2>1. /\ pc[r] = "landed" /\ pc' = [pc EXCEPT ![r] = "head"]
        /\ UNCHANGED <<job, calm, settled, head, landed, blob>>
    BY <1>18 DEF Note
  <2> QED
    BY <2>1, CalmWalk DEF PcStates, Ended
<1>19. ASSUME NEW r \in Requests, UpsertHead(r) PROVE CalmInv'
  <2>1. pc[r] = "head" /\ Op(r) = "put" /\ landed[r] # None
    BY <1>19 DEF UpsertHead, PlaceInv
  <2>2. CASE pc' = [pc EXCEPT ![r] = "failed"] /\ UNCHANGED settled
    BY <1>19, <2>1, <2>2, CalmAlone DEF UpsertHead, PcStates, Ended
  <2>3. CASE /\ head' = r /\ pc' = [pc EXCEPT ![r] = "done"]
             /\ settled' = IF calm = r THEN r ELSE None
    <3>1. UNCHANGED <<job, calm, landed, blob>>
      BY <1>19 DEF UpsertHead
    <3>2. pc'[r] = "done" /\ \A q \in Requests \ {r} : pc'[q] = pc[q]
      BY <2>3 DEF TypeOK
    <3>3. \A t \in Requests : calm = t => t = r
      BY <2>1 DEF CalmInv, Ended
    <3>4. calm = r => blob[landed[r]] = r /\ \A q \in Requests \ {r} : pc[q] \in Ended
      BY <2>1 DEF CalmInv
    <3> QED
      BY <2>1, <2>3, <3>1, <3>2, <3>3, <3>4 DEF CalmInv, Ended
  <2> QED
    BY <1>19, <2>2, <2>3 DEF UpsertHead
<1>20. ASSUME NEW r \in Requests, RecordLocation(r) PROVE CalmInv'
  BY <1>20, EngineAssumption DEF RecordLocation, TypeOK, PlaceInv, DrainInv, CalmInv, Ended, Whole
<1>21. ASSUME NEW r \in Requests, Unmap(r) PROVE CalmInv'
  BY <1>21, EngineAssumption DEF Unmap, TypeOK, PlaceInv, DrainInv, CalmInv, Ended, Whole
<1>22. ASSUME NEW r \in Requests, Unlist(r) PROVE CalmInv'
  BY <1>22, EngineAssumption DEF Unlist, TypeOK, PlaceInv, DrainInv, CalmInv, Ended, Whole
<1>23. ASSUME NEW r \in Requests, DeleteHead(r) PROVE CalmInv'
  BY <1>23, EngineAssumption DEF DeleteHead, TypeOK, PlaceInv, DrainInv, CalmInv, Ended, Whole
<1>24. ASSUME NEW r \in Requests, Drop(r) PROVE CalmInv'
  BY <1>24, EngineAssumption DEF Drop, TypeOK, PlaceInv, DrainInv, CalmInv, Ended, Whole
<1>25. ASSUME NEW name \in Primaries, SetPrimary(name) PROVE CalmInv'
  BY <1>25, EngineAssumption DEF SetPrimary, TypeOK, PlaceInv, DrainInv, CalmInv, Ended, Whole
<1>26. ASSUME NEW c \in Backends, Age(c) \/ Cool(c) PROVE CalmInv'
  BY <1>26, EngineAssumption DEF Age, Cool, TypeOK, PlaceInv, DrainInv, CalmInv, Ended, Whole
<1>27. CASE Restart
  BY <1>27, EngineAssumption DEF Restart, Fresh, Ended, TypeOK, PlaceInv, DrainInv, CalmInv, Whole
<1>28. CASE UNCHANGED vars
  BY <1>28, EngineAssumption DEF vars, TypeOK, PlaceInv, DrainInv, CalmInv, Ended, Whole
<1> QED
  BY <1>1, <1>2, <1>3, <1>4, <1>5, <1>6, <1>7, <1>8, <1>9, <1>10, <1>11, <1>12, <1>13, <1>14, <1>15, <1>16,
     <1>17, <1>18, <1>19, <1>20, <1>21, <1>22, <1>23, <1>24, <1>25, <1>26, <1>27, <1>28 DEF Next, Step

\* A GET that runs alone goes to the backend of the PUT acknowledged last.
LEMMA ReadStep ==
    ASSUME TypeOK, TypeOK', PlaceInv, WalkInv, HealthyAdmitted, CalmInv, ReadInv, [Next]_vars
    PROVE  ReadInv'
<1> USE DEF Goto, Op, Arrive, past, fixed, records, breakers, plan, walk, io, Listed, EndWalk
<1>0. job' = job /\ gone \subseteq gone' /\ (FewSuspects' => FewSuspects)
  BY SuspectsGrow
<1>1. ASSUME NEW r \in Requests, StartGet(r) PROVE ReadInv'
  BY <1>1, <1>0, EngineAssumption
     DEF StartGet, TypeOK, PlaceInv, WalkInv, HealthyAdmitted, CalmInv, ReadInv, Ended, Outcome
<1>2. ASSUME NEW r \in Requests, Hint(r) PROVE ReadInv'
  BY <1>2, <1>0, EngineAssumption
     DEF Hint, TypeOK, PlaceInv, WalkInv, HealthyAdmitted, CalmInv, ReadInv, Ended, Outcome
<1>3. ASSUME NEW r \in Requests, Lookup(r) PROVE ReadInv'
  BY <1>3, <1>0, EngineAssumption
     DEF Lookup, TypeOK, PlaceInv, WalkInv, HealthyAdmitted, CalmInv, ReadInv, Ended, Outcome
<1>4. ASSUME NEW r \in Requests, Seed(r) PROVE ReadInv'
  BY <1>4, <1>0, EngineAssumption
     DEF Seed, TypeOK, PlaceInv, WalkInv, HealthyAdmitted, CalmInv, ReadInv, Ended, Outcome
<1>5. ASSUME NEW r \in Requests, StartPut(r) PROVE ReadInv'
  BY <1>5, <1>0, EngineAssumption
     DEF StartPut, TypeOK, PlaceInv, WalkInv, HealthyAdmitted, CalmInv, ReadInv, Ended, Outcome
<1>6. ASSUME NEW r \in Requests, ListForPut(r) PROVE ReadInv'
  BY <1>6, <1>0, EngineAssumption
     DEF ListForPut, TypeOK, PlaceInv, WalkInv, HealthyAdmitted, CalmInv, ReadInv, Ended, Outcome
<1>7. ASSUME NEW r \in Requests, StartDelete(r) PROVE ReadInv'
  BY <1>7, <1>0, EngineAssumption
     DEF StartDelete, TypeOK, PlaceInv, WalkInv, HealthyAdmitted, CalmInv, ReadInv, Ended, Outcome
<1>8. ASSUME NEW r \in Requests, Admit(r) PROVE ReadInv'
  BY <1>8, <1>0, EngineAssumption
     DEF Admit, NextUp, TypeOK, PlaceInv, WalkInv, HealthyAdmitted, CalmInv, ReadInv, Ended, Outcome
<1>9. ASSUME NEW r \in Requests, PutOK(r) PROVE ReadInv'
  BY <1>9, <1>0, EngineAssumption
     DEF PutOK, TypeOK, PlaceInv, WalkInv, HealthyAdmitted, CalmInv, ReadInv, Ended, Outcome
<1>10. ASSUME NEW r \in Requests, PutFail(r) PROVE ReadInv'
  BY <1>10, <1>0, EngineAssumption
     DEF PutFail, TypeOK, PlaceInv, WalkInv, HealthyAdmitted, CalmInv, ReadInv, Ended, Outcome
<1>11. ASSUME NEW r \in Requests, GetOK(r) PROVE ReadInv'
  BY <1>11, <1>0, EngineAssumption
     DEF GetOK, TypeOK, PlaceInv, WalkInv, HealthyAdmitted, CalmInv, ReadInv, Ended, Outcome
<1>12. ASSUME NEW r \in Requests, GetFail(r) PROVE ReadInv'
  BY <1>12, <1>0, EngineAssumption
     DEF GetFail, TypeOK, PlaceInv, WalkInv, HealthyAdmitted, CalmInv, ReadInv, Ended, Outcome
<1>13. ASSUME NEW r \in Requests, DeleteOK(r) PROVE ReadInv'
  BY <1>13, <1>0, EngineAssumption
     DEF DeleteOK, TypeOK, PlaceInv, WalkInv, HealthyAdmitted, CalmInv, ReadInv, Ended, Outcome
<1>14. ASSUME NEW r \in Requests, DeleteFail(r) PROVE ReadInv'
  BY <1>14, <1>0, EngineAssumption
     DEF DeleteFail, TypeOK, PlaceInv, WalkInv, HealthyAdmitted, CalmInv, ReadInv, Ended, Outcome
<1>15. ASSUME NEW r \in Requests, Exhausted(r) PROVE ReadInv'
  BY <1>15, <1>0, EngineAssumption
     DEF Exhausted, TypeOK, PlaceInv, WalkInv, HealthyAdmitted, CalmInv, ReadInv, Ended, Outcome
<1>16. ASSUME NEW r \in Requests, StartRegionPut(r) PROVE ReadInv'
  BY <1>16, <1>0, EngineAssumption
     DEF StartRegionPut, TypeOK, PlaceInv, WalkInv, HealthyAdmitted, CalmInv, ReadInv, Ended, Outcome
<1>17. ASSUME NEW r \in Requests, RegionPut(r) PROVE ReadInv'
  BY <1>17, <1>0, EngineAssumption
     DEF RegionPut, TypeOK, PlaceInv, WalkInv, HealthyAdmitted, CalmInv, ReadInv, Ended, Outcome
<1>18. ASSUME NEW r \in Requests, Note(r) PROVE ReadInv'
  BY <1>18, <1>0, EngineAssumption
     DEF Note, TypeOK, PlaceInv, WalkInv, HealthyAdmitted, CalmInv, ReadInv, Ended, Outcome
<1>19. ASSUME NEW r \in Requests, UpsertHead(r) PROVE ReadInv'
  BY <1>19, <1>0, EngineAssumption
     DEF UpsertHead, TypeOK, PlaceInv, WalkInv, HealthyAdmitted, CalmInv, ReadInv, Ended, Outcome
<1>20. ASSUME NEW r \in Requests, RecordLocation(r) PROVE ReadInv'
  BY <1>20, <1>0, EngineAssumption
     DEF RecordLocation, TypeOK, PlaceInv, WalkInv, HealthyAdmitted, CalmInv, ReadInv, Ended, Outcome
<1>21. ASSUME NEW r \in Requests, Unmap(r) PROVE ReadInv'
  BY <1>21, <1>0, EngineAssumption
     DEF Unmap, TypeOK, PlaceInv, WalkInv, HealthyAdmitted, CalmInv, ReadInv, Ended, Outcome
<1>22. ASSUME NEW r \in Requests, Unlist(r) PROVE ReadInv'
  BY <1>22, <1>0, EngineAssumption
     DEF Unlist, TypeOK, PlaceInv, WalkInv, HealthyAdmitted, CalmInv, ReadInv, Ended, Outcome
<1>23. ASSUME NEW r \in Requests, DeleteHead(r) PROVE ReadInv'
  BY <1>23, <1>0, EngineAssumption
     DEF DeleteHead, TypeOK, PlaceInv, WalkInv, HealthyAdmitted, CalmInv, ReadInv, Ended, Outcome
<1>24. ASSUME NEW r \in Requests, Drop(r) PROVE ReadInv'
  BY <1>24, <1>0, EngineAssumption
     DEF Drop, TypeOK, PlaceInv, WalkInv, HealthyAdmitted, CalmInv, ReadInv, Ended, Outcome
<1>25. ASSUME NEW name \in Primaries, SetPrimary(name) PROVE ReadInv'
  BY <1>25, <1>0, EngineAssumption
     DEF SetPrimary, TypeOK, PlaceInv, WalkInv, HealthyAdmitted, CalmInv, ReadInv, Ended, Outcome
<1>26. ASSUME NEW c \in Backends, Age(c) \/ Cool(c) PROVE ReadInv'
  BY <1>26, <1>0, EngineAssumption
     DEF Age, Cool, TypeOK, PlaceInv, WalkInv, HealthyAdmitted, CalmInv, ReadInv, Ended, Outcome
<1>27. CASE Restart
  BY <1>27, <1>0, EngineAssumption
     DEF Restart, Fresh, Ended, TypeOK, PlaceInv, WalkInv, HealthyAdmitted, CalmInv, ReadInv, Outcome
<1>28. CASE UNCHANGED vars
  BY <1>28, <1>0, EngineAssumption
     DEF vars, TypeOK, PlaceInv, WalkInv, HealthyAdmitted, CalmInv, ReadInv, Ended, Outcome
<1> QED
  BY <1>1, <1>2, <1>3, <1>4, <1>5, <1>6, <1>7, <1>8, <1>9, <1>10, <1>11, <1>12, <1>13, <1>14, <1>15, <1>16,
     <1>17, <1>18, <1>19, <1>20, <1>21, <1>22, <1>23, <1>24, <1>25, <1>26, <1>27, <1>28 DEF Next, Step

-----------------------------------------------------------------------------
(* The invariants *)

\* Nothing is stored and nothing runs at the start.
LEMMA InitInd == Init => IndInv
<1> SUFFICES ASSUME Init PROVE IndInv
  OBVIOUS
<1>1. TypeOK
  BY EngineAssumption DEF Init, TypeOK, Fresh, PcStates, Outcomes, Names
<1>2. PlaceInv /\ DrainInv /\ WholeBodies /\ WalkInv /\ HealthyAdmitted
  BY EngineAssumption DEF Init, Fresh, PlaceInv, DrainInv, WholeBodies, WalkInv, HealthyAdmitted
<1>3. LocalInv /\ LocalOnPurpose /\ SeenInv /\ HeldFound /\ CalmInv /\ ReadInv
  BY EngineAssumption DEF Init, Fresh, LocalInv, LocalOnPurpose, SeenInv, HeldFound, CalmInv, ReadInv, Names, Ended
<1>4. ChargeInv
  <2> SUFFICES ASSUME NEW b \in Backends \ Flaky PROVE fails[b] <= Cardinality(Spent(b))
    BY DEF ChargeInv
  <2>1. IsFiniteSet(Spent(b))
    <3>1. IsFiniteSet(Suspects)
      BY <1>1, SuspectsFinite DEF TypeOK, Ranged, Suspects
    <3>2. Spent(b) \subseteq Suspects
      BY DEF Spent
    <3> QED
      BY <3>1, <3>2, FS_Subset
  <2>2. Cardinality(Spent(b)) \in Nat
    BY <2>1, FS_CardinalityType
  <2> QED
    BY <2>2 DEF Init
<1> QED
  BY <1>1, <1>2, <1>3, <1>4 DEF IndInv

\* The conjunction of the invariants below with what makes them inductive: control states,
\* drained bodies, suspect walks and charges, local candidates, the backends a GET has yet to
\* try, and what a request that runs alone leaves behind.
THEOREM EngineInductive == Spec => []IndInv
<1>1. IndInv /\ [Next]_vars => IndInv'
  <2> SUFFICES ASSUME IndInv, [Next]_vars PROVE IndInv'
    OBVIOUS
  <2>1. /\ TypeOK /\ PlaceInv /\ DrainInv /\ WholeBodies /\ WalkInv /\ ChargeInv /\ HealthyAdmitted
        /\ LocalInv /\ LocalOnPurpose /\ SeenInv /\ HeldFound /\ CalmInv /\ ReadInv
    BY DEF IndInv
  <2>2. TypeOK' /\ PlaceInv' /\ DrainInv' /\ WholeBodies' /\ WalkInv'
    BY <2>1, TypeStep, PlaceStep, DrainStep, WholeStep, WalkStep
  <2>3. ChargeInv' /\ LocalInv' /\ LocalOnPurpose'
    BY <2>1, <2>2, ChargeStep, LocalStep, PurposeStep
  <2>4. HealthyAdmitted' /\ SeenInv' /\ HeldFound'
    BY <2>1, <2>2, <2>3, HealthyStep, SeenStep, FoundStep
  <2>5. CalmInv' /\ ReadInv'
    BY <2>1, <2>2, CalmStep, ReadStep
  <2> QED
    BY <2>2, <2>3, <2>4, <2>5 DEF IndInv
<1> QED
  BY <1>1, InitInd, PTL DEF Spec

\* The engine's state is well typed: a walk calls registered drivers only, and the records name
\* them only.
THEOREM EngineTyped == Spec => []TypeOK
<1>1. IndInv => TypeOK
  BY DEF IndInv
<1> QED
  BY <1>1, EngineInductive, PTL

\* No backend ever stores what is left of a drained stream: Put rewinds a body, or stops with
\* ErrNoFailover.
THEOREM BodiesWhole == Spec => []WholeBodies
<1>1. IndInv => WholeBodies
  BY DEF IndInv
<1> QED
  BY <1>1, EngineInductive, PTL

\* Whatever other backends do and however requests overlap, the breaker of a backend that does not
\* fail stays closed until Threshold walks of dropped requests or of GetRange.
THEOREM HealthyStayAdmitted == Spec => []HealthyAdmitted
<1>1. IndInv => HealthyAdmitted
  BY DEF IndInv
<1> QED
  BY <1>1, EngineInductive, PTL

\* Failover and recommendations never bring a body to local (buildWriteCandidateList,
\* applyBackendRecommendation).
THEOREM LocalNeverByFailover == Spec => []LocalOnPurpose
<1>1. IndInv => LocalOnPurpose
  BY DEF IndInv
<1> QED
  BY <1>1, EngineInductive, PTL

\* Without DELETEs, and with fewer suspects than Threshold, a GET does not answer "missing" for
\* a body that a backend that does not fail held as the GET began.
THEOREM HeldIsFound == Spec => []HeldFound
<1>1. IndInv => HeldFound
  BY DEF IndInv
<1> QED
  BY <1>1, EngineInductive, PTL

\* A GET that runs alone after a PUT that ran alone answers that PUT's body, whatever copies
\* earlier PUTs left elsewhere and whatever the map, the location row and the primary say.
THEOREM ReadBackHolds == Spec => []ReadBack
<1>1. IndInv => ReadBack
  BY DEF IndInv, ReadInv, ReadBack
<1> QED
  BY <1>1, EngineInductive, PTL

=============================================================================
