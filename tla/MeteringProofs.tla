--------------------------- MODULE MeteringProofs ---------------------------
(* Proofs about Metering: one event for a meter and a day, with the day's    *)
(* egress, in time, and one alert for a level and a month.                   *)
EXTENDS Metering, FiniteSetTheorems, WellFoundedInduction, TLAPS

\* A later day is not in an earlier month.
LEMMA MonthMono ==
    ASSUME NEW d \in Days
    PROVE  Month(d) \in Months
<1>1. d \in Nat /\ MaxDay \in Nat /\ d <= MaxDay /\ DaysPerMonth \in Nat /\ DaysPerMonth > 0
  BY MeteringAssumption DEF Days
<1>2. d \div DaysPerMonth \in Nat /\ MaxDay \div DaysPerMonth \in Nat
  BY <1>1
<1>3. d \div DaysPerMonth <= MaxDay \div DaysPerMonth
  BY <1>1
<1> QED
  BY <1>2, <1>3 DEF Month, Months

\* A set of levels that is not empty has a least one.
LEMMA MinIsLevel ==
    ASSUME NEW T \in SUBSET Levels, T # {}
    PROVE  Min(T) \in T
<1> DEFINE R == OpToRel(<, Nat)
<1>1. T \subseteq Nat
  BY MeteringAssumption
<1>2. PICK x \in T : \A y \in T : ~(<<y, x>> \in R)
  BY <1>1, NatLessThanWellFounded, WFMin
<1>3. \A y \in T : <<y, x>> \in Nat \X Nat => ~(y < x)
  BY <1>2, Zenon DEF OpToRel
<1>4. \A y \in T : ~(y < x) /\ x \in Nat /\ y \in Nat
  BY <1>1, <1>3, Zenon
<1>5. \A y \in T : y >= x
  BY <1>4
<1> QED
  BY <1>5 DEF Min

\* What a unit of the budget pays for.
LEMMA SpendKeeps ==
    ASSUME ClockType, NEW what \in {"requests", "stops", "faults"}, Spend(what)
    PROVE  /\ budget' \in [from : Days, requests : 0..MaxServed, stops : Nat, faults : Nat]
           /\ budget'.from = budget.from
           /\ budget'.requests = IF what = "requests" THEN budget.requests - 1 ELSE budget.requests
           /\ what = "requests" => budget.requests > 0
<1>1. CASE what = "requests"
  BY <1>1, MeteringAssumption DEF ClockType, Spend
<1>2. CASE what = "stops"
  BY <1>2 DEF ClockType, Spend
<1>3. CASE what = "faults"
  BY <1>3 DEF ClockType, Spend
<1> QED
  BY <1>1, <1>2, <1>3

\* The clock moves on by days, the budget shrinks.
LEMMA ClockStep ==
    ASSUME ClockType, [Next]_vars
    PROVE  ClockType'
<1> USE DEF clockVars
<1>1. CASE UNCHANGED <<day, hour, gauge, budget>>
  BY <1>1 DEF ClockType
<1>2. ASSUME UNCHANGED <<day, hour, gauge>>, Spend("requests") \/ Spend("stops") \/ Spend("faults") PROVE ClockType'
  BY <1>2, SpendKeeps DEF ClockType
<1>3. CASE Record \/ Signal \/ Crash
  BY <1>2, <1>3 DEF Record, Signal, Crash, Gone
<1>4. ASSUME NEW f \in Flushers, TakeBuffer(f) \/ StartWrite(f) \/ CommitWrite(f) PROVE ClockType'
  BY <1>1, <1>2, <1>4 DEF TakeBuffer, StartWrite, CommitWrite, Fails, Fault
<1>5. CASE Startup \/ DailyTick \/ CheckReport \/ Send \/ RecordReport \/ NextMeter
  BY <1>1, <1>2, <1>5 DEF Startup, DailyTick, ListTenants, CheckReport, Send, RecordReport, NextMeter, Miss, Fails, Fault
<1>6. CASE checkSpendingCaps \/ GuardAlert \/ SendAlert
  BY <1>1, <1>2, <1>6 DEF checkSpendingCaps, GuardAlert, SendAlert, Fails, Fault
<1>7. ASSUME CapsTick \/ EndRun \/ (\E inTime \in BOOLEAN : Drained(inTime)) \/ Exit \/ Restart
             \/ UNCHANGED vars
      PROVE  ClockType'
  BY <1>1, <1>7 DEF CapsTick, EndRun, Drained, Exit, Gone, Restart, vars
<1>8. CASE HourPasses
  BY <1>8, SpendKeeps DEF HourPasses, Fault, ClockType
<1>9. CASE Midnight
  BY <1>9, MeteringAssumption DEF Midnight, ClockType, Days
<1>10. CASE Store
  BY <1>10 DEF Store, ClockType
<1> QED
  BY <1>3, <1>4, <1>5, <1>6, <1>7, <1>8, <1>9, <1>10 DEF Next

\* Which steps move the clock, the tracker and the budget.
LEMMA Moves ==
    ASSUME ClockType, [Next]_vars
    PROVE  /\ budget'.from = budget.from
           /\ budget'.requests = budget.requests \/ Record
           /\ day' = day \/ Midnight
           /\ \/ UNCHANGED trackVars \/ Record \/ Exit \/ Crash
              \/ \E f \in Flushers : TakeBuffer(f) \/ StartWrite(f) \/ CommitWrite(f)
<1> USE DEF clockVars
<1>1. CASE Record
  BY <1>1, SpendKeeps DEF Record
<1>2. CASE Signal \/ Crash
  BY <1>2, SpendKeeps DEF Signal, Crash, Gone
<1>3. ASSUME NEW f \in Flushers, TakeBuffer(f)
      PROVE  budget' = budget /\ day' = day
  BY <1>3 DEF TakeBuffer
<1>4. ASSUME NEW f \in Flushers, StartWrite(f) \/ CommitWrite(f)
      PROVE  budget'.from = budget.from /\ budget'.requests = budget.requests /\ day' = day
  BY <1>4, SpendKeeps DEF StartWrite, CommitWrite, Fails, Fault
<1>5. CASE Startup \/ DailyTick \/ CheckReport \/ Send \/ RecordReport \/ NextMeter
  BY <1>5, SpendKeeps DEF Startup, DailyTick, ListTenants, CheckReport, Send, RecordReport, NextMeter, Miss, Fails, Fault
<1>6. CASE checkSpendingCaps \/ GuardAlert \/ SendAlert
  BY <1>6, SpendKeeps DEF checkSpendingCaps, GuardAlert, SendAlert, Fails, Fault
<1>7. CASE CapsTick \/ EndRun \/ Exit \/ Restart
  BY <1>7 DEF CapsTick, EndRun, Exit, Gone, Restart
<1>8. ASSUME NEW inTime \in BOOLEAN, Drained(inTime) PROVE UNCHANGED <<budget, day, trackVars>>
  BY <1>8 DEF Drained
<1>9. CASE HourPasses
  BY <1>9, SpendKeeps DEF HourPasses, Fault
<1>10. CASE Midnight \/ Store \/ UNCHANGED vars
  BY <1>10 DEF Midnight, Store, vars
<1> QED
  BY <1>1, <1>2, <1>3, <1>4, <1>5, <1>6, <1>7, <1>8, <1>9, <1>10 DEF Next

\* Bytes are buffered, taken and written; none is written twice.
LEMMA TrackStep ==
    ASSUME ClockType, TrackType, CountInv, [Next]_vars
    PROVE  TrackType' /\ CountInv'
<1> USE MeteringAssumption DEF trackVars, clockVars
<1>0. ClockType' /\ day \in Days /\ Days \subseteq Nat /\ day \in Nat
  BY ClockStep DEF ClockType, Days
<1>1. budget'.from \in 1..day' /\ day' \in Nat /\ day' >= day
  <2>1. budget.from \in 1..day /\ budget'.from = budget.from /\ (day' = day \/ Midnight)
    BY Moves DEF CountInv
  <2>2. day' = day \/ day' = day + 1
    BY <2>1 DEF Midnight
  <2> QED
    BY <1>0, <2>1, <2>2
<1>2. CASE Record
  <2>1. /\ served' = served + 1 /\ buffer' = buffer + 1 /\ full' = (buffer' >= FlushAt)
        /\ UNCHANGED <<day, batch, stamp, daily>>
    BY <1>2 DEF Record
  <2>2. budget'.requests = budget.requests - 1 /\ budget.requests \in Nat /\ budget.requests > 0
    BY <1>2, SpendKeeps DEF Record, ClockType
  <2>3. served' + budget'.requests <= MaxServed /\ served' \in 0..MaxServed
    BY <2>1, <2>2 DEF TrackType, CountInv
  <2>4. /\ \A d \in Days :
             daily[d] + buffer + batch["request"] + batch["ticker"] + batch["shutdown"] <= served
        /\ \A d \in Days : daily[d] \in Nat
        /\ {buffer, batch["request"], batch["ticker"], batch["shutdown"], served} \subseteq Nat
    BY DEF TrackType, CountInv, Flushers
  <2>5. buffer + 1 <= served + 1
    BY <2>4, <1>0
  <2>6. buffer' \in 0..MaxServed
    BY <2>1, <2>3, <2>4, <2>5
  <2>7. TrackType'
    BY <2>1, <2>3, <2>6 DEF TrackType
  <2> QED
    BY <1>1, <2>1, <2>3, <2>4, <2>7 DEF CountInv
<1>3. ASSUME NEW f \in Flushers, TakeBuffer(f) PROVE TrackType' /\ CountInv'
  <2>1. /\ batch[f] = 0 /\ batch' = [batch EXCEPT ![f] = buffer] /\ buffer' = 0
        /\ full' \in BOOLEAN /\ UNCHANGED <<day, served, stamp, daily, budget>>
    BY <1>3 DEF TakeBuffer
  <2>2. TrackType'
    BY <2>1 DEF TrackType
  <2>3. CountInv'
    BY <1>1, <2>1, <2>2 DEF TrackType, CountInv, Flushers
  <2> QED
    BY <2>2, <2>3
<1>7. ASSUME NEW f \in Flushers, StartWrite(f) PROVE TrackType' /\ CountInv'
  <2>1. /\ batch' = batch \/ batch' = [batch EXCEPT ![f] = 0]
        /\ stamp' = stamp \/ stamp' = [stamp EXCEPT ![f] = day]
        /\ UNCHANGED <<day, served, buffer, full, daily>>
    BY <1>7 DEF StartWrite
  <2>2. budget'.requests = budget.requests
    BY <1>7, SpendKeeps DEF StartWrite, Fails, Fault
  <2>3. TrackType'
    BY <1>0, <2>1 DEF TrackType
  <2>4. \A g \in Flushers : stamp'[g] # None => stamp'[g] <= day
    BY <1>0, <2>1 DEF TrackType, CountInv
  <2> QED
    BY <1>1, <2>1, <2>2, <2>3, <2>4 DEF TrackType, CountInv, Flushers
<1>4. ASSUME NEW f \in Flushers, CommitWrite(f) PROVE TrackType' /\ CountInv'
  <2>0. stamp[f] \in Days
    BY <1>4 DEF CommitWrite, TrackType
  <2>1. /\ batch' = [batch EXCEPT ![f] = 0] /\ UNCHANGED <<day, served, buffer, full>>
        /\ stamp' = [stamp EXCEPT ![f] = None]
        /\ daily' = [daily EXCEPT ![stamp[f]] = @ + batch[f]] \/ daily' = daily
    BY <1>4 DEF CommitWrite
  <2>2. \A g \in Flushers : stamp'[g] # None => stamp'[g] <= day
    BY <2>1 DEF TrackType, CountInv
  <2>3. budget'.requests = budget.requests
    BY <1>4, SpendKeeps DEF CommitWrite, Fault
  <2>4. /\ \A d \in Days :
             daily[d] + buffer + batch["request"] + batch["ticker"] + batch["shutdown"] <= served
        /\ \A d \in Days : daily[d] \in Nat
        /\ {buffer, batch["request"], batch["ticker"], batch["shutdown"], served} \subseteq Nat
        /\ served <= MaxServed
    BY DEF TrackType, CountInv, Flushers
  <2>5. \A d \in Days : daily'[d] \in Nat /\
             daily'[d] + buffer + batch'["request"] + batch'["ticker"] + batch'["shutdown"] <= served
    <3>1. CASE f = "request"
      BY <1>0, <2>0, <2>1, <2>4, <3>1 DEF TrackType, Flushers
    <3>2. CASE f = "ticker"
      BY <1>0, <2>0, <2>1, <2>4, <3>2 DEF TrackType, Flushers
    <3>3. CASE f = "shutdown"
      BY <1>0, <2>0, <2>1, <2>4, <3>3 DEF TrackType, Flushers
    <3> QED
      BY <3>1, <3>2, <3>3 DEF Flushers
  <2>6. batch' \in [Flushers -> 0..MaxServed]
    BY <2>1 DEF TrackType
  <2>7. \A d \in Days : daily'[d] \in 0..MaxServed
    BY <2>4, <2>5, <2>6 DEF Flushers
  <2>8. daily' \in [Days -> 0..MaxServed]
    BY <2>1, <2>7 DEF TrackType
  <2>9. TrackType'
    BY <2>1, <2>6, <2>8 DEF TrackType
  <2> QED
    BY <1>1, <2>1, <2>2, <2>3, <2>5, <2>9 DEF CountInv
<1>5. CASE Exit \/ Crash
  <2>1. /\ buffer' = 0 /\ batch' = Idle /\ stamp' = Unstamped /\ full' = FALSE
        /\ UNCHANGED <<served, daily>>
    BY <1>5 DEF Exit, Crash, Gone
  <2>2. budget'.requests = budget.requests
    BY <1>5, SpendKeeps DEF Exit, Crash
  <2>3. TrackType'
    <3>1. Idle \in [Flushers -> 0..MaxServed] /\ Unstamped \in [Flushers -> Days \cup {None}]
      BY DEF Idle, Unstamped
    <3>2. buffer' \in 0..MaxServed
      BY <2>1
    <3>3. full' \in BOOLEAN
      BY <2>1, Zenon
    <3> QED
      BY <2>1, <3>1, <3>2, <3>3, Zenon DEF TrackType
  <2> QED
    BY <1>1, <2>1, <2>2, <2>3 DEF TrackType, CountInv, Idle, Unstamped, Flushers
<1>6. CASE UNCHANGED trackVars
  <2>1. budget'.requests = budget.requests
    BY <1>6, Moves DEF Record, TrackType
  <2> QED
    <3>1. \A g \in Flushers : stamp[g] # None => stamp[g] \in Nat /\ stamp[g] <= day
      BY <1>0 DEF TrackType, CountInv
    <3>2. \A g \in Flushers : stamp'[g] # None => stamp'[g] <= day'
      BY <1>0, <1>1, <1>6, <3>1
    <3>3. TrackType'
      BY <1>6 DEF TrackType
    <3> QED
      BY <1>1, <1>6, <2>1, <3>2, <3>3 DEF CountInv
<1> QED
  BY <1>2, <1>3, <1>4, <1>5, <1>6, <1>7, Moves

\* The rows hold a number of bytes.
LEMMA WrittenNat ==
    ASSUME TrackType
    PROVE  /\ IsFiniteSet(UNION {{d} \X (1..daily[d]) : d \in Days})
           /\ Written \in Nat
<1> DEFINE U == UNION {{d} \X (1..daily[d]) : d \in Days}
<1>1. IsFiniteSet(Days) /\ IsFiniteSet(1..MaxServed)
  BY FS_Interval, MeteringAssumption DEF Days
<1>2. IsFiniteSet(Days \X (1..MaxServed))
  BY <1>1, FS_Product
<1>3. U \subseteq Days \X (1..MaxServed)
  BY MeteringAssumption DEF TrackType
<1>4. IsFiniteSet(U)
  BY <1>2, <1>3, FS_Subset
<1>5. Cardinality(U) \in Nat
  BY <1>4, FS_CardinalityType
<1> QED
  BY <1>4, <1>5 DEF Written

\* Adding to a day's row adds as many bytes to what is written.
LEMMA WrittenGrows ==
    ASSUME TrackType, NEW e \in Days, NEW b \in Nat, daily' = [daily EXCEPT ![e] = @ + b]
    PROVE  Written' = Written + b
<1> DEFINE U == UNION {{d} \X (1..daily[d]) : d \in Days}
           N == (daily[e] + 1)..(daily[e] + b)
           D == {e} \X N
           V == UNION {{d} \X (1..daily'[d]) : d \in Days}
<1>0. daily[e] \in Nat /\ \A d \in Days : daily[d] \in Nat
  BY MeteringAssumption DEF TrackType
<1>1. IsFiniteSet(U)
  BY WrittenNat
<1>2. IsFiniteSet(N) /\ Cardinality(N) = b
  <2>1. daily[e] + 1 \in Int /\ daily[e] + b \in Int
    BY <1>0
  <2>2. IsFiniteSet(N) /\ Cardinality(N) = IF daily[e] + 1 > daily[e] + b THEN 0 ELSE (daily[e] + b) - (daily[e] + 1) + 1
    BY <2>1, FS_Interval
  <2> QED
    BY <1>0, <2>2
<1>3. IsFiniteSet(D) /\ Cardinality(D) = b
  <2>1. IsFiniteSet({e}) /\ Cardinality({e}) = 1
    BY FS_Singleton
  <2>2. IsFiniteSet(D) /\ Cardinality(D) = Cardinality({e}) * Cardinality(N)
    BY <1>2, <2>1, FS_Product, Zenon
  <2> HIDE DEF D, N
  <2> QED
    BY <1>2, <2>1, <2>2
<1>4. U \cap D = {}
  BY <1>0
<1>5. V = U \cup D
  <2>1. \A d \in Days : daily'[d] = IF d = e THEN daily[e] + b ELSE daily[d]
    BY DEF TrackType
  <2>2. ASSUME NEW x \in V PROVE x \in U \cup D
    <3>1. PICK d \in Days : x \in {d} \X (1..daily'[d])
      OBVIOUS
    <3>2. CASE d = e
      BY <1>0, <2>1, <3>1, <3>2
    <3>3. CASE d # e
      BY <2>1, <3>1, <3>3
    <3> QED
      BY <3>2, <3>3
  <2>3. ASSUME NEW x \in U PROVE x \in V
    <3>1. PICK d \in Days : x \in {d} \X (1..daily[d])
      OBVIOUS
    <3>2. x \in {d} \X (1..daily'[d])
      BY <1>0, <2>1, <3>1
    <3> QED
      BY <3>2
  <2>4. ASSUME NEW x \in D PROVE x \in V
    <3>1. x \in {e} \X (1..daily'[e])
      BY <1>0, <2>1, <2>4
    <3> QED
      BY <3>1
  <2> QED
    BY <2>2, <2>3, <2>4
<1>6. Cardinality(U \cup D) = Cardinality(U) + Cardinality(D) - Cardinality(U \cap D)
  BY <1>1, <1>3, FS_Union
<1>7. Cardinality(U \cap D) = 0 /\ Cardinality(U) \in Nat
  BY <1>1, <1>4, FS_EmptySet, FS_CardinalityType
<1>8. Cardinality(V) = Cardinality(U) + b
  <2> HIDE DEF U, D, V
  <2> QED
    BY <1>3, <1>5, <1>6, <1>7
<1> QED
  BY <1>8 DEF Written

\* What was lost stays lost.
LEMMA LossStays ==
    ASSUME HistoryType, [Next]_vars
    PROVE  (lossy => lossy') /\ (dropped => dropped')
<1> USE DEF historyVars
<1>1. CASE Record \/ Signal \/ Restart
  BY <1>1 DEF Record, Signal, Restart
<1>2. ASSUME NEW f \in Flushers, TakeBuffer(f) \/ StartWrite(f) \/ CommitWrite(f) PROVE (lossy => lossy') /\ (dropped => dropped')
  <2>1. /\ dropped' = dropped \/ dropped' = (dropped \/ ~(late \/ stage = "up"))
        /\ lossy' = lossy \/ lossy' = TRUE \/ lossy' = (lossy \/ late \/ stage = "up")
    BY <1>2 DEF TakeBuffer, StartWrite, CommitWrite
  <2> QED
    BY <2>1 DEF HistoryType
<1>3. CASE Exit \/ Crash
  <2>1. /\ lossy' = (lossy \/ (late /\ Unwritten)) \/ lossy' = (lossy \/ Unwritten)
        /\ dropped' = (dropped \/ (~late /\ Unwritten)) \/ dropped' = dropped
    BY <1>3 DEF Exit, Crash
  <2> QED
    BY <2>1 DEF HistoryType
<1>4. CASE Startup \/ DailyTick \/ CheckReport \/ Send \/ RecordReport \/ NextMeter
  BY <1>4 DEF Startup, DailyTick, ListTenants, CheckReport, Send, RecordReport, NextMeter
<1>5. CASE CapsTick \/ checkSpendingCaps \/ GuardAlert \/ SendAlert \/ EndRun
  BY <1>5 DEF CapsTick, checkSpendingCaps, GuardAlert, SendAlert, EndRun
<1>6. ASSUME NEW inTime \in BOOLEAN, Drained(inTime) PROVE (lossy => lossy') /\ (dropped => dropped')
  BY <1>6 DEF Drained
<1>7. CASE HourPasses \/ Midnight \/ Store \/ UNCHANGED vars
  BY <1>7 DEF HourPasses, Midnight, Store, vars
<1> QED
  BY <1>1, <1>2, <1>3, <1>4, <1>5, <1>6, <1>7 DEF Next

\* Every byte served is waiting, written or known to be lost.
LEMMA ExactStep ==
    ASSUME ClockType, TrackType, HistoryType, EgressExact, [Next]_vars
    PROVE  EgressExact'
<1> USE DEF trackVars, clockVars
<1>0. /\ Written \in Nat /\ {buffer, batch["request"], batch["ticker"], batch["shutdown"]} \subseteq Nat
      /\ Waiting \in Nat /\ served \in Nat /\ Counted \in Nat /\ Counted <= served
  BY WrittenNat, MeteringAssumption DEF TrackType, Flushers, EgressExact, Waiting, Counted
<1>1. daily' = daily => Written' = Written
  BY DEF Written
<1>2. ASSUME NEW k \in {0, 1}, Counted' = Counted + k, served' = served + k
      PROVE  EgressExact'
  <2>1. Counted' <= served' /\ (Counted = served => Counted' = served')
    BY <1>0, <1>2
  <2> QED
    BY <2>1, LossStays, Zenon DEF EgressExact
<1>3. CASE Record
  <2>1. served' = served + 1 /\ Waiting' = Waiting + 1 /\ Written' = Written
    BY <1>0, <1>1, <1>3 DEF Record, Waiting
  <2>2. Counted' = Counted + 1
    BY <1>0, <2>1 DEF Counted
  <2> QED
    BY <1>2, <2>1, <2>2
<1>4. ASSUME NEW f \in Flushers, TakeBuffer(f) PROVE EgressExact'
  <2>1. batch[f] = 0 /\ batch' = [batch EXCEPT ![f] = buffer] /\ buffer' = 0 /\ UNCHANGED <<served, daily>>
    BY <1>4 DEF TakeBuffer
  <2>2. Waiting' = Waiting
    BY <1>0, <2>1 DEF Waiting, TrackType, Flushers
  <2>3. Counted' = Counted + 0 /\ served' = served + 0
    BY <1>0, <1>1, <2>1, <2>2 DEF Counted
  <2> QED
    BY <1>2, <2>3
<1>5. ASSUME NEW f \in Flushers, CommitWrite(f) PROVE EgressExact'
  <2>1. /\ batch' = [batch EXCEPT ![f] = 0] /\ UNCHANGED <<served, buffer>>
        /\ stamp[f] \in Days
    BY <1>5 DEF CommitWrite, TrackType
  <2>2. Waiting' = Waiting - batch[f] /\ batch[f] \in Nat
    BY <1>0, <2>1 DEF Waiting, TrackType, Flushers
  <2>3. CASE daily' = [daily EXCEPT ![stamp[f]] = @ + batch[f]]
    <3>1. Written' = Written + batch[f]
      BY <2>1, <2>2, <2>3, WrittenGrows
    <3>2. Counted' = Counted + 0 /\ served' = served + 0
      BY <1>0, <2>1, <2>2, <3>1 DEF Counted
    <3> QED
      BY <1>2, <3>2
  <2>4. CASE daily' = daily /\ lossy' = TRUE
    <3>1. Counted' = Counted - batch[f]
      BY <1>0, <1>1, <2>2, <2>4 DEF Counted
    <3>2. Counted' <= served'
      BY <1>0, <2>1, <2>2, <3>1
    <3> QED
      BY <2>4, <3>2, Zenon DEF EgressExact
  <2> QED
    BY <1>5, <2>3, <2>4, Zenon DEF CommitWrite
<1>8. ASSUME NEW f \in Flushers, StartWrite(f) PROVE EgressExact'
  <2>1. UNCHANGED <<served, buffer, daily>>
    BY <1>8 DEF StartWrite
  <2>2. CASE batch' = batch
    <3>1. Counted' = Counted + 0 /\ served' = served + 0
      BY <1>0, <1>1, <2>1, <2>2 DEF Counted, Waiting
    <3> QED
      BY <1>2, <3>1
  <2>3. CASE batch' = [batch EXCEPT ![f] = 0] /\ (lossy' \/ dropped')
    <3>1. Waiting' = Waiting - batch[f] /\ batch[f] \in Nat
      BY <1>0, <2>1, <2>3 DEF Waiting, TrackType, Flushers
    <3>2. Counted' <= served'
      BY <1>0, <1>1, <2>1, <3>1 DEF Counted
    <3> QED
      BY <2>3, <3>2, Zenon DEF EgressExact
  <2>4. batch' = batch \/ (batch' = [batch EXCEPT ![f] = 0] /\ (lossy' \/ dropped'))
    BY <1>8, Zenon DEF StartWrite
  <2> QED
    BY <2>2, <2>3, <2>4
<1>6. CASE Exit \/ Crash
  <2>1. buffer' = 0 /\ batch' = Idle /\ UNCHANGED <<served, daily>>
    BY <1>6 DEF Exit, Crash, Gone
  <2>2. Waiting' = 0 /\ Written' = Written
    BY <1>1, <2>1 DEF Waiting, Idle, Flushers
  <2>3. Counted' = Counted - Waiting
    BY <1>0, <2>2 DEF Counted
  <2>4. CASE Unwritten
    <3>1. lossy' \/ dropped'
      BY <1>6, <2>4, Zenon DEF Exit, Crash
    <3>2. Counted' <= served'
      BY <1>0, <2>1, <2>3
    <3> QED
      BY <3>1, <3>2, Zenon DEF EgressExact
  <2>5. CASE ~Unwritten
    <3>1. Waiting = 0
      BY <1>0, <2>5 DEF Unwritten, Idle, Waiting, Flushers
    <3>2. Counted' = Counted + 0 /\ served' = served + 0
      BY <1>0, <2>1, <2>3, <3>1
    <3> QED
      BY <1>2, <3>2
  <2> QED
    BY <2>4, <2>5
<1>7. CASE UNCHANGED trackVars
  <2>1. Waiting' = Waiting /\ Written' = Written /\ served' = served
    BY <1>1, <1>7 DEF Waiting
  <2>2. Counted' = Counted + 0 /\ served' = served + 0
    BY <1>0, <2>1 DEF Counted
  <2> QED
    BY <1>2, <2>2
<1> QED
  BY <1>3, <1>4, <1>5, <1>6, <1>7, <1>8, Moves

\* The process, its ticker and the reporter keep to their control states.
LEMMA ProcessStep ==
    ASSUME ProcessType, [Next]_vars
    PROVE  ProcessType'
<1> USE DEF tickVars
<1>1. CASE Record \/ Signal \/ Crash \/ Exit \/ Restart
  BY <1>1 DEF Record, Signal, Crash, Exit, Gone, Restart, ProcessType
<1>2. ASSUME NEW f \in Flushers, TakeBuffer(f) \/ StartWrite(f) \/ CommitWrite(f) PROVE ProcessType'
  BY <1>2 DEF TakeBuffer, StartWrite, CommitWrite, ProcessType
<1>3. CASE Startup \/ DailyTick \/ CheckReport \/ Send \/ RecordReport \/ NextMeter
  BY <1>3 DEF Startup, DailyTick, ListTenants, CheckReport, Send, RecordReport, NextMeter, Miss, ProcessType
<1>4. CASE CapsTick \/ checkSpendingCaps \/ GuardAlert \/ SendAlert \/ EndRun
  BY <1>4 DEF CapsTick, checkSpendingCaps, GuardAlert, SendAlert, EndRun, ProcessType
<1>5. ASSUME NEW inTime \in BOOLEAN, Drained(inTime) PROVE ProcessType'
  BY <1>5 DEF Drained, ProcessType
<1>6. CASE HourPasses \/ Midnight \/ Store \/ UNCHANGED vars
  BY <1>6 DEF HourPasses, Midnight, Store, vars, ProcessType
<1> QED
  BY <1>1, <1>2, <1>3, <1>4, <1>5, <1>6 DEF Next

\* Which steps move the report, its record and the alerts.
LEMMA ReportMoves ==
    ASSUME [Next]_vars
    PROVE  /\ \/ UNCHANGED <<runVars, records, events>>
              \/ Startup \/ DailyTick \/ Send \/ RecordReport \/ NextMeter \/ Exit \/ Crash
           /\ \/ UNCHANGED capVars
              \/ checkSpendingCaps \/ GuardAlert \/ SendAlert \/ EndRun \/ Exit \/ Crash
           /\ \/ UNCHANGED <<records, events>> \/ Send \/ RecordReport
           /\ UNCHANGED <<alerts, mails>> \/ GuardAlert \/ SendAlert
<1> USE DEF runVars, capVars
<1>1. CASE Record \/ Signal \/ Crash \/ Exit \/ Restart
  BY <1>1 DEF Record, Signal, Crash, Exit, Gone, Restart
<1>2. ASSUME NEW f \in Flushers, TakeBuffer(f) \/ StartWrite(f) \/ CommitWrite(f)
      PROVE  UNCHANGED <<runVars, records, events, capVars>>
  BY <1>2 DEF TakeBuffer, StartWrite, CommitWrite
<1>3. CASE Startup \/ DailyTick \/ CheckReport \/ Send \/ RecordReport \/ NextMeter
  BY <1>3 DEF Startup, DailyTick, ListTenants, CheckReport, Send, RecordReport, NextMeter
<1>4. CASE CapsTick \/ checkSpendingCaps \/ GuardAlert \/ SendAlert \/ EndRun
  BY <1>4 DEF CapsTick, checkSpendingCaps, GuardAlert, SendAlert, EndRun
<1>5. ASSUME NEW inTime \in BOOLEAN, Drained(inTime) PROVE UNCHANGED <<runVars, records, events, capVars>>
  BY <1>5 DEF Drained
<1>6. CASE HourPasses \/ Midnight \/ Store \/ UNCHANGED vars
  BY <1>6 DEF HourPasses, Midnight, Store, vars
<1> QED
  BY <1>1, <1>2, <1>3, <1>4, <1>5, <1>6 DEF Next

\* A report has the value of a gauge or of a day's row.
LEMMA ReportStep ==
    ASSUME ClockType, TrackType, CountInv, RunInv, ReportType, [Next]_vars
    PROVE  ReportType'
<1> USE MeteringAssumption
<1>0. /\ Yesterday \in Days /\ 0 \in Days /\ 0 \in Amounts /\ gauge \in Amounts
      /\ \A d \in Days : daily[d] \in Amounts
  <2>1. day \in 1..MaxDay
    BY DEF ClockType, CountInv, Days
  <2>2. {MaxGauge, MaxServed, MaxDay} \subseteq Nat
    OBVIOUS
  <2>3. Yesterday \in Days /\ 0 \in Days
    BY <2>1, <2>2 DEF Yesterday, Days
  <2>4. gauge \in Amounts /\ 0 \in Amounts
    BY <2>2 DEF ClockType, Amounts
  <2>5. \A d \in Days : daily[d] \in 0..MaxServed
    BY DEF TrackType
  <2> QED
    BY <2>2, <2>3, <2>4, <2>5 DEF Amounts
<1>1. CASE Startup \/ DailyTick
  BY <1>0, <1>1 DEF Startup, DailyTick, ListTenants, NoRun, ReportType, Meters
<1>2. CASE Send
  <2>1. meter \in Meters
    BY <1>2 DEF Send, RunInv, Steps
  <2> DEFINE e == [id |-> <<meter, target>>, meter |-> meter, day |-> target, value |-> value]
  <2>2. e \in [id : Meters \X Days, meter : Meters, day : Days, value : Amounts]
    BY <2>1 DEF ReportType
  <2>3. events' \subseteq events \cup {e} /\ UNCHANGED <<runVars, records>>
    BY <1>2 DEF Send, Accept, Identifier
  <2> QED
    BY <2>2, <2>3 DEF ReportType, runVars
<1>3. CASE RecordReport
  <2>1. meter \in Meters /\ target \in Days /\ value \in Amounts /\ UNCHANGED <<runVars, events>>
    BY <1>3 DEF RecordReport, RunInv, Steps, ReportType
  <2>2. records' \in [Meters -> [Days -> Amounts \cup {None}]]
    BY <1>3, <2>1 DEF RecordReport, ReportType
  <2> QED
    BY <2>1, <2>2 DEF ReportType, runVars
<1>4. CASE NextMeter
  BY <1>0, <1>4 DEF NextMeter, NoRun, ReportType, Meters
<1>5. CASE Exit \/ Crash
  BY <1>0, <1>5 DEF Exit, Crash, Gone, NoRun, ReportType
<1>6. CASE UNCHANGED <<runVars, records, events>>
  BY <1>6 DEF runVars, ReportType
<1> QED
  BY <1>1, <1>2, <1>3, <1>4, <1>5, <1>6, ReportMoves

\* Alerts and mails are about a level and a month.
LEMMA CapStep ==
    ASSUME ClockType, CapType, AlertInv, [Next]_vars
    PROVE  CapType'
<1>0. Month(day) \in Months /\ 0 \in Months
  <2>1. MaxDay \in Days /\ day \in Days
    BY MeteringAssumption DEF ClockType, Days
  <2>2. Month(MaxDay) \in Months
    BY <2>1, MonthMono
  <2>3. 0 \in Months
    BY <2>2 DEF Months
  <2> QED
    BY <2>1, <2>3, MonthMono
<1>1. CASE checkSpendingCaps
  BY <1>0, <1>1 DEF checkSpendingCaps, CapType
<1>2. CASE GuardAlert
  <2>1. Min(todo) \in Levels
    BY <1>2, MinIsLevel DEF GuardAlert, CapType
  <2> QED
    BY <1>2, <2>1 DEF GuardAlert, CapType
<1>3. CASE SendAlert
  <2>1. Min(todo) \in Levels
    BY <1>3, MinIsLevel DEF SendAlert, CapType, AlertInv
  <2>2. mails' \in [Levels \X Months -> Nat]
    BY <1>3, <2>1 DEF SendAlert, CapType
  <2> QED
    BY <1>3, <2>2 DEF SendAlert, CapType
<1>4. CASE EndRun \/ Exit \/ Crash
  BY <1>0, <1>4 DEF EndRun, Exit, Crash, Gone, CapType
<1>5. CASE UNCHANGED capVars
  BY <1>5 DEF capVars, CapType
<1> QED
  BY <1>1, <1>2, <1>3, <1>4, <1>5, ReportMoves

\* Excuses are about meters and days.
LEMMA HistoryStep ==
    ASSUME ClockType, TrackType, CountInv, RunInv, ReportType, HistoryType, [Next]_vars
    PROVE  HistoryType'
<1> USE DEF clockVars, trackVars, tickVars, runVars, capVars, historyVars
<1>1. CASE Record
  BY <1>1, MeteringAssumption DEF Record, Spend, HistoryType, ClockType, CountInv, RunInv, ReportType, Days, Meters, Steps
<1>2. ASSUME NEW f \in Flushers, TakeBuffer(f) PROVE HistoryType'
  BY <1>2, MeteringAssumption DEF TakeBuffer, HistoryType, ClockType, CountInv, RunInv, ReportType, Days, Meters, Steps
<1>3. ASSUME NEW f \in Flushers, CommitWrite(f) PROVE HistoryType'
  <2>1. /\ UNCHANGED <<dropped, excused>> /\ (lossy' = lossy \/ lossy' = TRUE)
        /\ stamp[f] # None /\ tardy' \subseteq tardy \cup {stamp[f]}
    BY <1>3 DEF CommitWrite
  <2>2. stamp[f] \in Days
    BY <2>1 DEF TrackType
  <2> QED
    BY <2>1, <2>2 DEF HistoryType
<1>4. CASE Startup \/ DailyTick
  <2>1. ListTenants
    BY <1>4 DEF Startup, DailyTick
  <2>2. /\ UNCHANGED <<lossy, dropped, tardy>>
        /\ excused' \subseteq excused \/ excused' = excused \cup Meters \X {day - 1}
    BY <2>1 DEF ListTenants, Yesterday
  <2>3. day - 1 \in Days
    BY MeteringAssumption DEF ClockType, CountInv, Days
  <2> QED
    BY <2>2, <2>3 DEF HistoryType
<1>5. CASE CheckReport
  BY <1>5, MeteringAssumption DEF CheckReport, Miss, HistoryType, ClockType, CountInv, RunInv, ReportType, Days, Meters, Steps
<1>6. CASE Send
  BY <1>6, MeteringAssumption DEF Send, Miss, Accept, Identifier, HistoryType, ClockType, CountInv, RunInv, ReportType, Days, Meters, Steps
<1>7. CASE RecordReport
  BY <1>7, MeteringAssumption DEF RecordReport, Miss, HistoryType, ClockType, CountInv, RunInv, ReportType, Days, Meters, Steps
<1>8. CASE NextMeter
  BY <1>8, MeteringAssumption DEF NextMeter, NoRun, HistoryType, ClockType, CountInv, RunInv, ReportType, Days, Meters, Steps
<1>9. CASE CapsTick
  BY <1>9, MeteringAssumption DEF CapsTick, HistoryType, ClockType, CountInv, RunInv, ReportType, Days, Meters, Steps
<1>10. CASE checkSpendingCaps
  BY <1>10, MeteringAssumption DEF checkSpendingCaps, HistoryType, ClockType, CountInv, RunInv, ReportType, Days, Meters, Steps
<1>11. CASE GuardAlert
  BY <1>11, MeteringAssumption DEF GuardAlert, IsNew, HistoryType, ClockType, CountInv, RunInv, ReportType, Days, Meters, Steps
<1>12. CASE SendAlert
  BY <1>12, MeteringAssumption DEF SendAlert, HistoryType, ClockType, CountInv, RunInv, ReportType, Days, Meters, Steps
<1>13. CASE EndRun
  BY <1>13, MeteringAssumption DEF EndRun, HistoryType, ClockType, CountInv, RunInv, ReportType, Days, Meters, Steps
<1>14. CASE Signal
  BY <1>14, MeteringAssumption DEF Signal, HistoryType, ClockType, CountInv, RunInv, ReportType, Days, Meters, Steps
<1>15. ASSUME NEW f \in Flushers, StartWrite(f) PROVE HistoryType'
  BY <1>15, MeteringAssumption DEF StartWrite, HistoryType, ClockType, CountInv, RunInv, ReportType, Days, Meters, Steps
<1>16. ASSUME NEW inTime \in BOOLEAN, Drained(inTime) PROVE HistoryType'
  BY <1>16, MeteringAssumption DEF Drained, HistoryType, ClockType, CountInv, RunInv, ReportType, Days, Meters, Steps
<1>17. CASE Exit
  BY <1>17, MeteringAssumption DEF Exit, Gone, NoRun, HistoryType, ClockType, CountInv, RunInv, ReportType, Days, Meters, Steps
<1>18. CASE Crash
  BY <1>18, MeteringAssumption DEF Crash, Gone, NoRun, HistoryType, ClockType, CountInv, RunInv, ReportType, Days, Meters, Steps
<1>19. CASE Restart
  BY <1>19, MeteringAssumption DEF Restart, HistoryType, ClockType, CountInv, RunInv, ReportType, Days, Meters, Steps
<1>20. CASE HourPasses
  <2>1. /\ UNCHANGED <<lossy, dropped, tardy>>
        /\ excused' = excused \/ excused' = excused \cup Meters \X {day - 1}
    BY <1>20 DEF HourPasses
  <2>2. day - 1 \in Days
    BY MeteringAssumption DEF ClockType, CountInv, Days
  <2> QED
    BY <2>1, <2>2 DEF HistoryType
<1>21. CASE Midnight
  <2>1. /\ UNCHANGED <<lossy, dropped, tardy>>
        /\ excused' = excused \cup Missed /\ Missed \subseteq Meters \X {day - 1, day}
    BY <1>21 DEF Midnight, Missed
  <2>2. day - 1 \in Days /\ day \in Days
    BY MeteringAssumption DEF ClockType, CountInv, Days
  <2> QED
    BY <2>1, <2>2 DEF HistoryType
<1>22. CASE Store
  BY <1>22, MeteringAssumption DEF Store, HistoryType, ClockType, CountInv, RunInv, ReportType, Days, Meters, Steps
<1>23. CASE UNCHANGED vars
  BY <1>23, MeteringAssumption DEF vars, HistoryType, ClockType, CountInv, RunInv, ReportType, Days, Meters, Steps
<1> QED
  BY <1>1, <1>2, <1>3, <1>4, <1>5, <1>6, <1>7, <1>8, <1>9, <1>10, <1>11, <1>12, <1>13, <1>14, <1>15, <1>16, <1>17, <1>18, <1>19, <1>20, <1>21, <1>22, <1>23 DEF Next

\* A commit adds to a row; to the row of a day that is over only with a mark.
LEMMA CommitGrows ==
    ASSUME ClockType, TrackType, NEW f \in Flushers, CommitWrite(f)
    PROVE  /\ UNCHANGED <<day, rpc, meter, value, target, events, records>>
           /\ \A d \in Days : /\ d \in tardy => d \in tardy'
                              /\ daily[d] \in Int /\ daily'[d] \in Int
                              /\ daily[d] <= daily'[d]
                              /\ d < day /\ d \notin tardy' => daily'[d] = daily[d]
<1>1. UNCHANGED <<day, rpc, meter, value, target, events, records>>
  BY DEF CommitWrite, runVars, clockVars
<1>2. stamp[f] \in Days /\ batch[f] \in Nat /\ \A d \in Days : daily[d] \in Nat
  BY MeteringAssumption DEF CommitWrite, TrackType
<1>3. CASE daily' = daily /\ tardy' = tardy
  BY <1>1, <1>2, <1>3
<1>4. CASE /\ daily' = [daily EXCEPT ![stamp[f]] = @ + batch[f]]
           /\ tardy' = IF stamp[f] < day THEN tardy \cup {stamp[f]} ELSE tardy
  <2>1. \A d \in Days : daily'[d] = IF d = stamp[f] THEN daily[d] + batch[f] ELSE daily[d]
    BY <1>2, <1>4 DEF TrackType
  <2> QED
    BY <1>1, <1>2, <1>4, <2>1
<1> QED
  BY <1>3, <1>4 DEF CommitWrite

\* A run is about a day that is over, and its value is at most the row, which grows only with a
\* mark.
LEMMA RunStep ==
    ASSUME ClockType, TrackType, CountInv, ReportType, RunInv, [Next]_vars
    PROVE  RunInv'
<1> USE DEF clockVars, trackVars, tickVars, runVars, capVars, historyVars
<1>1. CASE Record
  BY <1>1, MeteringAssumption DEF Record, Spend, RunInv, ClockType, TrackType, CountInv, ReportType, Days, Meters, Steps
<1>2. ASSUME NEW f \in Flushers, TakeBuffer(f) PROVE RunInv'
  BY <1>2, MeteringAssumption DEF TakeBuffer, RunInv, ClockType, TrackType, CountInv, ReportType, Days, Meters, Steps
<1>3. ASSUME NEW f \in Flushers, CommitWrite(f) PROVE RunInv'
  <2>1. /\ UNCHANGED <<day, rpc, meter, value, target, events, records>>
        /\ \A d \in Days : /\ d \in tardy => d \in tardy'
                           /\ daily[d] \in Int /\ daily'[d] \in Int
                           /\ daily[d] <= daily'[d]
                           /\ d < day /\ d \notin tardy' => daily'[d] = daily[d]
    BY <1>3, CommitGrows
  <2>2. rpc \in Steps => target < day /\ target \in Days
    BY DEF RunInv, ReportType
  <2>4. rpc \in Steps /\ meter = "egress" => value <= daily'[target] /\ (target \notin tardy' => value = daily'[target])
    <3> SUFFICES ASSUME rpc \in Steps, meter = "egress"
                 PROVE  value <= daily'[target] /\ (target \notin tardy' => value = daily'[target])
      OBVIOUS
    <3>1. value \in Int
      BY MeteringAssumption DEF ReportType, Amounts
    <3>2. value <= daily[target] /\ (target \notin tardy => value = daily[target])
      BY DEF RunInv
    <3>3. /\ target \in tardy => target \in tardy'
          /\ daily[target] \in Int /\ daily'[target] \in Int /\ daily[target] <= daily'[target]
          /\ target \notin tardy' => daily'[target] = daily[target]
      BY <2>1, <2>2
    <3> QED
      BY <3>1, <3>2, <3>3
  <2> QED
    BY <2>1, <2>4 DEF RunInv
<1>4. CASE Startup \/ DailyTick
  <2>1. UNCHANGED <<day, events>>
    BY <1>4 DEF Startup, DailyTick, ListTenants
  <2>2. \/ rpc' = "check" /\ meter' = "storage" /\ target' = day - 1
        \/ rpc' = "caps"
    BY <1>4 DEF Startup, DailyTick, ListTenants, Yesterday
  <2>3. day - 1 < day
    BY DEF ClockType, Days
  <2> QED
    BY <2>1, <2>2, <2>3 DEF RunInv, Steps, Meters
<1>5. CASE CheckReport
  BY <1>5, MeteringAssumption DEF CheckReport, Miss, RunInv, ClockType, TrackType, CountInv, ReportType, Days, Meters, Steps
<1>6. CASE Send
  <2> DEFINE e == [id |-> <<meter, target>>, meter |-> meter, day |-> target, value |-> value]
  <2>1. /\ meter \in Meters /\ target < day
        /\ meter = "egress" => value <= daily[target] /\ (target \notin tardy => value = daily[target])
    BY <1>6 DEF Send, RunInv, Steps
  <2>2. UNCHANGED <<day, daily, tardy, meter, value, target>> /\ rpc' \in {"record", "next"}
    BY <1>6 DEF Send, Miss
  <2>3. /\ events' = events \/ events' = events \cup {e}
        /\ rpc' = "record" => \E x \in events' : x.id = <<meter, target>>
    <3>1. events' = Accept(e) \/ (events' = events /\ rpc' = "next")
      BY <1>6 DEF Send, Miss, Identifier
    <3>2. CASE Accept(e) = events /\ \E x \in events : x.id = e.id
      BY <3>1, <3>2
    <3>3. CASE Accept(e) = events \cup {e}
      BY <3>1, <3>3
    <3> QED
      BY <3>2, <3>3 DEF Accept
  <2>4. \A x \in events' : x.id = <<x.meter, x.day>> /\ x.day < day
    BY <2>1, <2>3 DEF RunInv
  <2>5. rpc' = "record" => \E x \in events' : x.meter = meter /\ x.day = target
    BY <2>3, <2>4
  <2> QED
    BY <2>1, <2>2, <2>4, <2>5 DEF RunInv, Steps
<1>7. CASE RecordReport
  BY <1>7, MeteringAssumption DEF RecordReport, Miss, RunInv, ClockType, TrackType, CountInv, ReportType, Days, Meters, Steps
<1>8. CASE NextMeter
  <2>1. /\ UNCHANGED <<day, events, daily, tardy>> /\ rpc = "next"
        /\ \/ rpc' = "check" /\ meter' = "egress" /\ value' = daily[target] /\ target' = target
           \/ rpc' = "caps"
    BY <1>8 DEF NextMeter
  <2>2. target < day /\ target \in Days
    BY <2>1 DEF RunInv, ReportType, Steps
  <2>3. daily[target] \in Int
    BY <2>2, MeteringAssumption DEF TrackType
  <2> QED
    BY <2>1, <2>2, <2>3 DEF RunInv, Steps, Meters
<1>9. CASE CapsTick
  BY <1>9, MeteringAssumption DEF CapsTick, RunInv, ClockType, TrackType, CountInv, ReportType, Days, Meters, Steps
<1>10. CASE checkSpendingCaps
  BY <1>10, MeteringAssumption DEF checkSpendingCaps, RunInv, ClockType, TrackType, CountInv, ReportType, Days, Meters, Steps
<1>11. CASE GuardAlert
  BY <1>11, MeteringAssumption DEF GuardAlert, IsNew, RunInv, ClockType, TrackType, CountInv, ReportType, Days, Meters, Steps
<1>12. CASE SendAlert
  BY <1>12, MeteringAssumption DEF SendAlert, RunInv, ClockType, TrackType, CountInv, ReportType, Days, Meters, Steps
<1>13. CASE EndRun
  BY <1>13, MeteringAssumption DEF EndRun, RunInv, ClockType, TrackType, CountInv, ReportType, Days, Meters, Steps
<1>14. CASE Signal
  BY <1>14, MeteringAssumption DEF Signal, RunInv, ClockType, TrackType, CountInv, ReportType, Days, Meters, Steps
<1>15. ASSUME NEW f \in Flushers, StartWrite(f) PROVE RunInv'
  BY <1>15, MeteringAssumption DEF StartWrite, RunInv, ClockType, TrackType, CountInv, ReportType, Days, Meters, Steps
<1>16. ASSUME NEW inTime \in BOOLEAN, Drained(inTime) PROVE RunInv'
  BY <1>16, MeteringAssumption DEF Drained, RunInv, ClockType, TrackType, CountInv, ReportType, Days, Meters, Steps
<1>17. CASE Exit
  BY <1>17, MeteringAssumption DEF Exit, Gone, NoRun, RunInv, ClockType, TrackType, CountInv, ReportType, Days, Meters, Steps
<1>18. CASE Crash
  BY <1>18, MeteringAssumption DEF Crash, Gone, NoRun, RunInv, ClockType, TrackType, CountInv, ReportType, Days, Meters, Steps
<1>19. CASE Restart
  BY <1>19, MeteringAssumption DEF Restart, RunInv, ClockType, TrackType, CountInv, ReportType, Days, Meters, Steps
<1>20. CASE HourPasses
  BY <1>20, MeteringAssumption DEF HourPasses, RunInv, ClockType, TrackType, CountInv, ReportType, Days, Meters, Steps
<1>21. CASE Midnight
  <2>1. day' = day + 1 /\ UNCHANGED <<rpc, meter, value, target, events, daily, tardy>> /\ day \in Nat
    BY <1>21 DEF Midnight, ClockType, Days
  <2>2. \A x \in events : x.day \in Nat
    BY DEF ReportType, Days
  <2>3. \A x \in events : x.day < day + 1
    BY <2>1, <2>2 DEF RunInv
  <2>4. rpc \in Steps => target < day + 1
    BY <2>1 DEF RunInv, ReportType, Days
  <2> QED
    BY <2>1, <2>3, <2>4 DEF RunInv
<1>22. CASE Store
  BY <1>22, MeteringAssumption DEF Store, RunInv, ClockType, TrackType, CountInv, ReportType, Days, Meters, Steps
<1>23. CASE UNCHANGED vars
  BY <1>23, MeteringAssumption DEF vars, RunInv, ClockType, TrackType, CountInv, ReportType, Days, Meters, Steps
<1> QED
  BY <1>1, <1>2, <1>3, <1>4, <1>5, <1>6, <1>7, <1>8, <1>9, <1>10, <1>11, <1>12, <1>13, <1>14, <1>15, <1>16, <1>17, <1>18, <1>19, <1>20, <1>21, <1>22, <1>23 DEF Next

\* Stripe keeps one event for an identifier.
LEMMA BilledStep ==
    ASSUME RunInv, ReportType, BilledOnce, [Next]_vars
    PROVE  BilledOnce'
<1> USE DEF clockVars, trackVars, tickVars, runVars, capVars, historyVars
<1>1. CASE Record
  BY <1>1 DEF Record, Spend, RunInv, BilledOnce, Steps
<1>2. ASSUME NEW f \in Flushers, TakeBuffer(f) PROVE BilledOnce'
  BY <1>2 DEF TakeBuffer, RunInv, BilledOnce, Steps
<1>3. ASSUME NEW f \in Flushers, CommitWrite(f) PROVE BilledOnce'
  BY <1>3 DEF CommitWrite, RunInv, BilledOnce, Steps
<1>4. CASE Startup \/ DailyTick
  BY <1>4 DEF Startup, DailyTick, ListTenants, Yesterday, NoRun, RunInv, BilledOnce, Steps
<1>5. CASE CheckReport
  BY <1>5 DEF CheckReport, Miss, RunInv, BilledOnce, Steps
<1>6. CASE Send
  BY <1>6 DEF Send, Miss, Accept, Identifier, RunInv, BilledOnce, Steps
<1>7. CASE RecordReport
  BY <1>7 DEF RecordReport, Miss, RunInv, BilledOnce, Steps
<1>8. CASE NextMeter
  BY <1>8 DEF NextMeter, NoRun, RunInv, BilledOnce, Steps
<1>9. CASE CapsTick
  BY <1>9 DEF CapsTick, RunInv, BilledOnce, Steps
<1>10. CASE checkSpendingCaps
  BY <1>10 DEF checkSpendingCaps, RunInv, BilledOnce, Steps
<1>11. CASE GuardAlert
  BY <1>11 DEF GuardAlert, IsNew, RunInv, BilledOnce, Steps
<1>12. CASE SendAlert
  BY <1>12 DEF SendAlert, RunInv, BilledOnce, Steps
<1>13. CASE EndRun
  BY <1>13 DEF EndRun, RunInv, BilledOnce, Steps
<1>14. CASE Signal
  BY <1>14 DEF Signal, RunInv, BilledOnce, Steps
<1>15. ASSUME NEW f \in Flushers, StartWrite(f) PROVE BilledOnce'
  BY <1>15 DEF StartWrite, RunInv, BilledOnce, Steps
<1>16. ASSUME NEW inTime \in BOOLEAN, Drained(inTime) PROVE BilledOnce'
  BY <1>16 DEF Drained, RunInv, BilledOnce, Steps
<1>17. CASE Exit
  BY <1>17 DEF Exit, Gone, NoRun, RunInv, BilledOnce, Steps
<1>18. CASE Crash
  BY <1>18 DEF Crash, Gone, NoRun, RunInv, BilledOnce, Steps
<1>19. CASE Restart
  BY <1>19 DEF Restart, RunInv, BilledOnce, Steps
<1>20. CASE HourPasses
  BY <1>20 DEF HourPasses, RunInv, BilledOnce, Steps
<1>21. CASE Midnight
  BY <1>21 DEF Midnight, RunInv, BilledOnce, Steps
<1>22. CASE Store
  BY <1>22 DEF Store, RunInv, BilledOnce, Steps
<1>23. CASE UNCHANGED vars
  BY <1>23 DEF vars, RunInv, BilledOnce, Steps
<1> QED
  BY <1>1, <1>2, <1>3, <1>4, <1>5, <1>6, <1>7, <1>8, <1>9, <1>10, <1>11, <1>12, <1>13, <1>14, <1>15, <1>16, <1>17, <1>18, <1>19, <1>20, <1>21, <1>22, <1>23 DEF Next

\* A mail follows a guard row that is new.
LEMMA AlertStep ==
    ASSUME ClockType, CapType, AlertInv, CapAlertOnce, [Next]_vars
    PROVE  (AlertInv /\ CapAlertOnce)'
<1> USE DEF clockVars, trackVars, tickVars, runVars, capVars, historyVars
<1>1. CASE Record
  BY <1>1 DEF Record, Spend, AlertInv, CapAlertOnce, capVars
<1>2. ASSUME NEW f \in Flushers, TakeBuffer(f) PROVE (AlertInv /\ CapAlertOnce)'
  BY <1>2 DEF TakeBuffer, AlertInv, CapAlertOnce, capVars
<1>3. ASSUME NEW f \in Flushers, CommitWrite(f) PROVE (AlertInv /\ CapAlertOnce)'
  BY <1>3 DEF CommitWrite, AlertInv, CapAlertOnce, capVars
<1>4. CASE Startup \/ DailyTick
  BY <1>4 DEF Startup, DailyTick, ListTenants, Yesterday, NoRun, AlertInv, CapAlertOnce, capVars
<1>5. CASE CheckReport
  BY <1>5 DEF CheckReport, Miss, AlertInv, CapAlertOnce, capVars
<1>6. CASE Send
  BY <1>6 DEF Send, Miss, Accept, Identifier, AlertInv, CapAlertOnce, capVars
<1>7. CASE RecordReport
  BY <1>7 DEF RecordReport, Miss, AlertInv, CapAlertOnce, capVars
<1>8. CASE NextMeter
  BY <1>8 DEF NextMeter, NoRun, AlertInv, CapAlertOnce, capVars
<1>9. CASE CapsTick
  BY <1>9 DEF CapsTick, AlertInv, CapAlertOnce, capVars
<1>10. CASE checkSpendingCaps
  BY <1>10 DEF checkSpendingCaps, AlertInv, CapAlertOnce, capVars
<1>11. CASE GuardAlert
  <2>1. todo # {} /\ UNCHANGED <<month, mails>>
    BY <1>11 DEF GuardAlert
  <2>2. <<Min(todo), month>> \in DOMAIN mails /\ mails[<<Min(todo), month>>] \in Nat
    BY <2>1, MinIsLevel DEF CapType
  <2>3. <<Min(todo), month>> \notin alerts => mails[<<Min(todo), month>>] = 0
    BY <2>2 DEF AlertInv
  <2>4. /\ rpc' = "mail" => todo' = todo /\ <<Min(todo), month>> \notin alerts
                            /\ alerts' = alerts \cup {<<Min(todo), month>>}
        /\ alerts \subseteq alerts'
    BY <1>11 DEF GuardAlert, IsNew
  <2> QED
    BY <2>1, <2>3, <2>4 DEF AlertInv, CapAlertOnce
<1>12. CASE SendAlert
  BY <1>12 DEF SendAlert, AlertInv, CapAlertOnce, capVars
<1>13. CASE EndRun
  BY <1>13 DEF EndRun, AlertInv, CapAlertOnce, capVars
<1>14. CASE Signal
  BY <1>14 DEF Signal, AlertInv, CapAlertOnce, capVars
<1>15. ASSUME NEW f \in Flushers, StartWrite(f) PROVE (AlertInv /\ CapAlertOnce)'
  BY <1>15 DEF StartWrite, AlertInv, CapAlertOnce, capVars
<1>16. ASSUME NEW inTime \in BOOLEAN, Drained(inTime) PROVE (AlertInv /\ CapAlertOnce)'
  BY <1>16 DEF Drained, AlertInv, CapAlertOnce, capVars
<1>17. CASE Exit
  BY <1>17 DEF Exit, Gone, NoRun, AlertInv, CapAlertOnce, capVars
<1>18. CASE Crash
  BY <1>18 DEF Crash, Gone, NoRun, AlertInv, CapAlertOnce, capVars
<1>19. CASE Restart
  BY <1>19 DEF Restart, AlertInv, CapAlertOnce, capVars
<1>20. CASE HourPasses
  BY <1>20 DEF HourPasses, AlertInv, CapAlertOnce, capVars
<1>21. CASE Midnight
  BY <1>21 DEF Midnight, AlertInv, CapAlertOnce, capVars
<1>22. CASE Store
  BY <1>22 DEF Store, AlertInv, CapAlertOnce, capVars
<1>23. CASE UNCHANGED vars
  BY <1>23 DEF vars, AlertInv, CapAlertOnce, capVars
<1> QED
  BY <1>1, <1>2, <1>3, <1>4, <1>5, <1>6, <1>7, <1>8, <1>9, <1>10, <1>11, <1>12, <1>13, <1>14, <1>15, <1>16, <1>17, <1>18, <1>19, <1>20, <1>21, <1>22, <1>23 DEF Next

\* A day that is over keeps its row, and its event the row's value.
LEMMA EgressStep ==
    ASSUME ClockType, TrackType, ReportType, RunInv, BilledOnce, EgressBilled, [Next]_vars
    PROVE  EgressBilled'
<1> USE DEF clockVars, trackVars, tickVars, runVars, capVars, historyVars
<1>1. CASE Record
  BY <1>1, MeteringAssumption DEF Record, Spend, EgressBilled, RunInv, ReportType, Steps, TrackType, Meters
<1>2. ASSUME NEW f \in Flushers, TakeBuffer(f) PROVE EgressBilled'
  BY <1>2, MeteringAssumption DEF TakeBuffer, EgressBilled, RunInv, ReportType, Steps, TrackType, Meters
<1>3. ASSUME NEW f \in Flushers, CommitWrite(f) PROVE EgressBilled'
  <2>1. /\ UNCHANGED <<day, rpc, meter, value, target, events, records>>
        /\ \A d \in Days : /\ d \in tardy => d \in tardy'
                           /\ daily[d] \in Int /\ daily'[d] \in Int
                           /\ daily[d] <= daily'[d]
                           /\ d < day /\ d \notin tardy' => daily'[d] = daily[d]
    BY <1>3, CommitGrows
  <2>2. \A x \in events : x.day \in Days /\ x.day < day /\ x.value \in Int
    BY MeteringAssumption DEF RunInv, ReportType, Amounts
  <2>3. \A x \in events : x.meter = "egress" =>
           x.value <= daily'[x.day] /\ (x.day \notin tardy' => x.value = daily'[x.day])
    <3> SUFFICES ASSUME NEW x \in events, x.meter = "egress"
                 PROVE  x.value <= daily'[x.day] /\ (x.day \notin tardy' => x.value = daily'[x.day])
      OBVIOUS
    <3>1. x.value <= daily[x.day] /\ (x.day \notin tardy => x.value = daily[x.day])
      BY DEF EgressBilled
    <3>2. /\ x.day \in tardy => x.day \in tardy'
          /\ daily[x.day] \in Int /\ daily'[x.day] \in Int /\ daily[x.day] <= daily'[x.day]
          /\ x.day \notin tardy' => daily'[x.day] = daily[x.day]
      BY <2>1, <2>2
    <3> QED
      BY <2>2, <3>1, <3>2
  <2>4. \A d \in Days : records["egress"][d] # None =>
           \E x \in events : /\ x.meter = "egress" /\ x.day = d
                             /\ d \notin tardy' => x.value = records["egress"][d]
    <3> SUFFICES ASSUME NEW d \in Days, records["egress"][d] # None
                 PROVE  \E x \in events : /\ x.meter = "egress" /\ x.day = d
                                          /\ d \notin tardy' => x.value = records["egress"][d]
      OBVIOUS
    <3>1. d \notin tardy' => d \notin tardy
      BY <2>1
    <3>2. PICK x \in events : x.meter = "egress" /\ x.day = d
                              /\ (d \notin tardy => x.value = records["egress"][d])
      BY DEF EgressBilled
    <3> QED
      BY <3>1, <3>2
  <2> QED
    BY <2>1, <2>3, <2>4 DEF EgressBilled
<1>4. CASE Startup \/ DailyTick
  BY <1>4, MeteringAssumption DEF Startup, DailyTick, ListTenants, Yesterday, NoRun, EgressBilled, RunInv, ReportType, Steps, TrackType, Meters
<1>5. CASE CheckReport
  BY <1>5, MeteringAssumption DEF CheckReport, Miss, EgressBilled, RunInv, ReportType, Steps, TrackType, Meters
<1>6. CASE Send
  BY <1>6, MeteringAssumption DEF Send, Miss, Accept, Identifier, EgressBilled, RunInv, ReportType, Steps, TrackType, Meters
<1>7. CASE RecordReport
  BY <1>7, MeteringAssumption DEF RecordReport, Miss, EgressBilled, RunInv, ReportType, Steps, TrackType, Meters
<1>8. CASE NextMeter
  BY <1>8, MeteringAssumption DEF NextMeter, NoRun, EgressBilled, RunInv, ReportType, Steps, TrackType, Meters
<1>9. CASE CapsTick
  BY <1>9, MeteringAssumption DEF CapsTick, EgressBilled, RunInv, ReportType, Steps, TrackType, Meters
<1>10. CASE checkSpendingCaps
  BY <1>10, MeteringAssumption DEF checkSpendingCaps, EgressBilled, RunInv, ReportType, Steps, TrackType, Meters
<1>11. CASE GuardAlert
  BY <1>11, MeteringAssumption DEF GuardAlert, IsNew, EgressBilled, RunInv, ReportType, Steps, TrackType, Meters
<1>12. CASE SendAlert
  BY <1>12, MeteringAssumption DEF SendAlert, EgressBilled, RunInv, ReportType, Steps, TrackType, Meters
<1>13. CASE EndRun
  BY <1>13, MeteringAssumption DEF EndRun, EgressBilled, RunInv, ReportType, Steps, TrackType, Meters
<1>14. CASE Signal
  BY <1>14, MeteringAssumption DEF Signal, EgressBilled, RunInv, ReportType, Steps, TrackType, Meters
<1>15. ASSUME NEW f \in Flushers, StartWrite(f) PROVE EgressBilled'
  BY <1>15, MeteringAssumption DEF StartWrite, EgressBilled, RunInv, ReportType, Steps, TrackType, Meters
<1>16. ASSUME NEW inTime \in BOOLEAN, Drained(inTime) PROVE EgressBilled'
  BY <1>16, MeteringAssumption DEF Drained, EgressBilled, RunInv, ReportType, Steps, TrackType, Meters
<1>17. CASE Exit
  BY <1>17, MeteringAssumption DEF Exit, Gone, NoRun, EgressBilled, RunInv, ReportType, Steps, TrackType, Meters
<1>18. CASE Crash
  BY <1>18, MeteringAssumption DEF Crash, Gone, NoRun, EgressBilled, RunInv, ReportType, Steps, TrackType, Meters
<1>19. CASE Restart
  BY <1>19, MeteringAssumption DEF Restart, EgressBilled, RunInv, ReportType, Steps, TrackType, Meters
<1>20. CASE HourPasses
  BY <1>20, MeteringAssumption DEF HourPasses, EgressBilled, RunInv, ReportType, Steps, TrackType, Meters
<1>21. CASE Midnight
  BY <1>21, MeteringAssumption DEF Midnight, EgressBilled, RunInv, ReportType, Steps, TrackType, Meters
<1>22. CASE Store
  BY <1>22, MeteringAssumption DEF Store, EgressBilled, RunInv, ReportType, Steps, TrackType, Meters
<1>23. CASE UNCHANGED vars
  BY <1>23, MeteringAssumption DEF vars, EgressBilled, RunInv, ReportType, Steps, TrackType, Meters
<1> QED
  BY <1>1, <1>2, <1>3, <1>4, <1>5, <1>6, <1>7, <1>8, <1>9, <1>10, <1>11, <1>12, <1>13, <1>14, <1>15, <1>16, <1>17, <1>18, <1>19, <1>20, <1>21, <1>22, <1>23 DEF Next

\* A ticker does not let hour 0 pass without a run, nor a run end without its records or excuses.
LEMMA CatchUpStep ==
    ASSUME ClockType, ProcessType, ReportType, RunInv, CatchUpInv, [Next]_vars
    PROVE  CatchUpInv'
<1> USE DEF clockVars, trackVars, tickVars, runVars, capVars, historyVars
<1>1. CASE Record
  BY <1>1, MeteringAssumption DEF Record, Spend, CatchUpInv, RunInv, ReportType, ClockType, Steps, Meters, Reporting, Pending, Due, ProcessType
<1>2. ASSUME NEW f \in Flushers, TakeBuffer(f) PROVE CatchUpInv'
  BY <1>2, MeteringAssumption DEF TakeBuffer, CatchUpInv, RunInv, ReportType, ClockType, Steps, Meters, Reporting, Pending, Due, ProcessType
<1>3. ASSUME NEW f \in Flushers, CommitWrite(f) PROVE CatchUpInv'
  BY <1>3, MeteringAssumption DEF CommitWrite, CatchUpInv, RunInv, ReportType, ClockType, Steps, Meters, Reporting, Pending, Due, ProcessType
<1>4. CASE Startup \/ DailyTick
  BY <1>4, MeteringAssumption DEF Startup, DailyTick, ListTenants, Yesterday, NoRun, CatchUpInv, RunInv, ReportType, ClockType, Steps, Meters, Reporting, Pending, Due, ProcessType
<1>5. CASE CheckReport
  BY <1>5, MeteringAssumption DEF CheckReport, Miss, CatchUpInv, RunInv, ReportType, ClockType, Steps, Meters, Reporting, Pending, Due, ProcessType
<1>6. CASE Send
  BY <1>6, MeteringAssumption DEF Send, Miss, Accept, Identifier, CatchUpInv, RunInv, ReportType, ClockType, Steps, Meters, Reporting, Pending, Due, ProcessType
<1>7. CASE RecordReport
  <2>1. /\ rpc = "record" /\ rpc' = "next" /\ UNCHANGED <<day, hour, stage, due, armed, meter, target>>
        /\ excused \subseteq excused'
        /\ \/ records' = [records EXCEPT ![meter][target] = IF @ = None THEN value ELSE @]
           \/ records' = records /\ <<meter, target>> \in excused'
    BY <1>7 DEF RecordReport, Miss
  <2>2. meter \in Meters /\ target \in Days /\ value # None /\ target < day
    BY <2>1, MeteringAssumption DEF RunInv, ReportType, Steps
  <2>3. /\ \A m \in Meters, d \in Days : Due(m, d) => Due(m, d)'
        /\ Due(meter, target)'
    BY <2>1, <2>2 DEF Due, ReportType
  <2>4. stage = "up" /\ ~due =>
           \A m \in Meters : Due(m, day - 1) \/ (target = day - 1 /\ m \in Pending)
    BY <2>1 DEF CatchUpInv
  <2>5. ASSUME stage = "up", ~due, NEW m \in Meters
        PROVE  Due(m, day - 1)' \/ (target' = day' - 1 /\ m \in Pending')
    <3>1. day - 1 \in Days
      BY <2>2, MeteringAssumption DEF ClockType, ReportType, Days
    <3>2. CASE Due(m, day - 1)
      BY <2>1, <2>3, <3>1, <3>2 DEF Due
    <3>3. CASE target = day - 1 /\ m \in Pending /\ m = meter
      BY <2>1, <2>3, <3>3 DEF Due
    <3>4. CASE target = day - 1 /\ m \in Pending /\ m # meter
      BY <2>1, <3>4 DEF Pending, Steps
    <3> QED
      BY <2>4, <2>5, <3>2, <3>3, <3>4
  <2> QED
    BY <2>1, <2>5 DEF CatchUpInv, Reporting, Steps
<1>8. CASE NextMeter
  BY <1>8, MeteringAssumption DEF NextMeter, NoRun, CatchUpInv, RunInv, ReportType, ClockType, Steps, Meters, Reporting, Pending, Due, ProcessType
<1>9. CASE CapsTick
  BY <1>9, MeteringAssumption DEF CapsTick, CatchUpInv, RunInv, ReportType, ClockType, Steps, Meters, Reporting, Pending, Due, ProcessType
<1>10. CASE checkSpendingCaps
  BY <1>10, MeteringAssumption DEF checkSpendingCaps, CatchUpInv, RunInv, ReportType, ClockType, Steps, Meters, Reporting, Pending, Due, ProcessType
<1>11. CASE GuardAlert
  BY <1>11, MeteringAssumption DEF GuardAlert, IsNew, CatchUpInv, RunInv, ReportType, ClockType, Steps, Meters, Reporting, Pending, Due, ProcessType
<1>12. CASE SendAlert
  BY <1>12, MeteringAssumption DEF SendAlert, CatchUpInv, RunInv, ReportType, ClockType, Steps, Meters, Reporting, Pending, Due, ProcessType
<1>13. CASE EndRun
  BY <1>13, MeteringAssumption DEF EndRun, CatchUpInv, RunInv, ReportType, ClockType, Steps, Meters, Reporting, Pending, Due, ProcessType
<1>14. CASE Signal
  BY <1>14, MeteringAssumption DEF Signal, CatchUpInv, RunInv, ReportType, ClockType, Steps, Meters, Reporting, Pending, Due, ProcessType
<1>15. ASSUME NEW f \in Flushers, StartWrite(f) PROVE CatchUpInv'
  BY <1>15, MeteringAssumption DEF StartWrite, CatchUpInv, RunInv, ReportType, ClockType, Steps, Meters, Reporting, Pending, Due, ProcessType
<1>16. ASSUME NEW inTime \in BOOLEAN, Drained(inTime) PROVE CatchUpInv'
  BY <1>16, MeteringAssumption DEF Drained, CatchUpInv, RunInv, ReportType, ClockType, Steps, Meters, Reporting, Pending, Due, ProcessType
<1>17. CASE Exit
  BY <1>17, MeteringAssumption DEF Exit, Gone, NoRun, CatchUpInv, RunInv, ReportType, ClockType, Steps, Meters, Reporting, Pending, Due, ProcessType
<1>18. CASE Crash
  BY <1>18, MeteringAssumption DEF Crash, Gone, NoRun, CatchUpInv, RunInv, ReportType, ClockType, Steps, Meters, Reporting, Pending, Due, ProcessType
<1>19. CASE Restart
  BY <1>19, MeteringAssumption DEF Restart, CatchUpInv, RunInv, ReportType, ClockType, Steps, Meters, Reporting, Pending, Due, ProcessType
<1>20. CASE HourPasses
  BY <1>20, MeteringAssumption DEF HourPasses, CatchUpInv, RunInv, ReportType, ClockType, Steps, Meters, Reporting, Pending, Due, ProcessType
<1>21. CASE Midnight
  <2>1. /\ hour = "rest" /\ hour' = "zero" /\ day' = day + 1 /\ (armed => rpc \notin Reporting)
        /\ due' = (stage = "up" /\ armed) /\ excused' = excused \cup Missed
        /\ UNCHANGED <<stage, armed, rpc, records>>
    BY <1>21 DEF Midnight
  <2>2. (day + 1) - 1 = day
    BY DEF ClockType, Days
  <2>3. stage = "up" /\ ~armed /\ rpc # "start" => Meters \X {day} \subseteq excused'
    BY <2>1 DEF Missed
  <2>4. stage = "up" /\ ~armed /\ rpc # "start" => \A m \in Meters : <<m, day>> \in excused'
    BY <2>1, <2>2, <2>3 DEF Due
  <2>5. stage' = "up" /\ ~due' /\ rpc' # "start" => \A m \in Meters : Due(m, day - 1)'
    BY <2>1, <2>2, <2>4 DEF Due
  <2> QED
    BY <2>1, <2>5 DEF CatchUpInv
<1>22. CASE Store
  BY <1>22, MeteringAssumption DEF Store, CatchUpInv, RunInv, ReportType, ClockType, Steps, Meters, Reporting, Pending, Due, ProcessType
<1>23. CASE UNCHANGED vars
  BY <1>23, MeteringAssumption DEF vars, CatchUpInv, RunInv, ReportType, ClockType, Steps, Meters, Reporting, Pending, Due, ProcessType
<1> QED
  BY <1>1, <1>2, <1>3, <1>4, <1>5, <1>6, <1>7, <1>8, <1>9, <1>10, <1>11, <1>12, <1>13, <1>14, <1>15, <1>16, <1>17, <1>18, <1>19, <1>20, <1>21, <1>22, <1>23 DEF Next

\* At midnight the day before the last has been reported or is excused.
LEMMA InTimeStep ==
    ASSUME ClockType, CountInv, ProcessType, ReportType, RunInv, CatchUpInv, ReportedInTime, [Next]_vars
    PROVE  ReportedInTime'
<1> USE DEF clockVars, trackVars, tickVars, runVars, capVars, historyVars
<1>1. CASE Record
  BY <1>1, MeteringAssumption, Moves DEF Record, Spend, CatchUpInv, RunInv, ReportType, ClockType, Steps, Meters, Reporting, Pending, Due, ReportedInTime
<1>2. ASSUME NEW f \in Flushers, TakeBuffer(f) PROVE ReportedInTime'
  BY <1>2, MeteringAssumption, Moves DEF TakeBuffer, CatchUpInv, RunInv, ReportType, ClockType, Steps, Meters, Reporting, Pending, Due, ReportedInTime
<1>3. ASSUME NEW f \in Flushers, CommitWrite(f) PROVE ReportedInTime'
  BY <1>3, MeteringAssumption, Moves DEF CommitWrite, CatchUpInv, RunInv, ReportType, ClockType, Steps, Meters, Reporting, Pending, Due, ReportedInTime
<1>4. CASE Startup \/ DailyTick
  <2>1. /\ budget'.from = budget.from /\ day' = day /\ records' = records
        /\ excused \ (Meters \X {day - 1}) \subseteq excused'
    BY <1>4, Moves DEF Startup, DailyTick, ListTenants, Yesterday
  <2>2. \A d \in budget.from - 1..day - 2 : d # day - 1
    BY DEF ClockType, Days
  <2>3. \A m \in Meters, d \in budget.from - 1..day - 2 : <<m, d>> \in excused => <<m, d>> \in excused'
    BY <2>1, <2>2
  <2> QED
    BY <2>1, <2>3 DEF ReportedInTime, Due
<1>5. CASE CheckReport
  BY <1>5, MeteringAssumption, Moves DEF CheckReport, Miss, CatchUpInv, RunInv, ReportType, ClockType, Steps, Meters, Reporting, Pending, Due, ReportedInTime
<1>6. CASE Send
  BY <1>6, MeteringAssumption, Moves DEF Send, Miss, Accept, Identifier, CatchUpInv, RunInv, ReportType, ClockType, Steps, Meters, Reporting, Pending, Due, ReportedInTime
<1>7. CASE RecordReport
  <2>1. /\ budget'.from = budget.from /\ day' = day
        /\ excused \subseteq excused'
        /\ \/ records' = records
           \/ records' = [records EXCEPT ![meter][target] = IF @ = None THEN value ELSE @]
    BY <1>7, Moves DEF RecordReport, Miss
  <2>2. value # None /\ value \in Amounts
    BY MeteringAssumption DEF ReportType
  <2>3. \A m \in Meters, d \in Days : records[m][d] # None => records'[m][d] # None
    BY <2>1, <2>2 DEF ReportType
  <2>4. \A d \in budget.from - 1..day - 2 : d \in Days
    BY MeteringAssumption DEF ClockType, CountInv, Days
  <2> QED
    BY <2>1, <2>3, <2>4 DEF ReportedInTime, Due
<1>8. CASE NextMeter
  BY <1>8, MeteringAssumption, Moves DEF NextMeter, NoRun, CatchUpInv, RunInv, ReportType, ClockType, Steps, Meters, Reporting, Pending, Due, ReportedInTime
<1>9. CASE CapsTick
  BY <1>9, MeteringAssumption, Moves DEF CapsTick, CatchUpInv, RunInv, ReportType, ClockType, Steps, Meters, Reporting, Pending, Due, ReportedInTime
<1>10. CASE checkSpendingCaps
  BY <1>10, MeteringAssumption, Moves DEF checkSpendingCaps, CatchUpInv, RunInv, ReportType, ClockType, Steps, Meters, Reporting, Pending, Due, ReportedInTime
<1>11. CASE GuardAlert
  BY <1>11, MeteringAssumption, Moves DEF GuardAlert, IsNew, CatchUpInv, RunInv, ReportType, ClockType, Steps, Meters, Reporting, Pending, Due, ReportedInTime
<1>12. CASE SendAlert
  BY <1>12, MeteringAssumption, Moves DEF SendAlert, CatchUpInv, RunInv, ReportType, ClockType, Steps, Meters, Reporting, Pending, Due, ReportedInTime
<1>13. CASE EndRun
  BY <1>13, MeteringAssumption, Moves DEF EndRun, CatchUpInv, RunInv, ReportType, ClockType, Steps, Meters, Reporting, Pending, Due, ReportedInTime
<1>14. CASE Signal
  BY <1>14, MeteringAssumption, Moves DEF Signal, CatchUpInv, RunInv, ReportType, ClockType, Steps, Meters, Reporting, Pending, Due, ReportedInTime
<1>15. ASSUME NEW f \in Flushers, StartWrite(f) PROVE ReportedInTime'
  BY <1>15, MeteringAssumption, Moves DEF StartWrite, CatchUpInv, RunInv, ReportType, ClockType, Steps, Meters, Reporting, Pending, Due, ReportedInTime
<1>16. ASSUME NEW inTime \in BOOLEAN, Drained(inTime) PROVE ReportedInTime'
  BY <1>16, MeteringAssumption, Moves DEF Drained, CatchUpInv, RunInv, ReportType, ClockType, Steps, Meters, Reporting, Pending, Due, ReportedInTime
<1>17. CASE Exit
  BY <1>17, MeteringAssumption, Moves DEF Exit, Gone, NoRun, CatchUpInv, RunInv, ReportType, ClockType, Steps, Meters, Reporting, Pending, Due, ReportedInTime
<1>18. CASE Crash
  BY <1>18, MeteringAssumption, Moves DEF Crash, Gone, NoRun, CatchUpInv, RunInv, ReportType, ClockType, Steps, Meters, Reporting, Pending, Due, ReportedInTime
<1>19. CASE Restart
  BY <1>19, MeteringAssumption, Moves DEF Restart, CatchUpInv, RunInv, ReportType, ClockType, Steps, Meters, Reporting, Pending, Due, ReportedInTime
<1>20. CASE HourPasses
  BY <1>20, MeteringAssumption, Moves DEF HourPasses, CatchUpInv, RunInv, ReportType, ClockType, Steps, Meters, Reporting, Pending, Due, ReportedInTime
<1>21. CASE Midnight
  <2>1. /\ budget'.from = budget.from /\ day' = day + 1 /\ hour = "rest"
        /\ excused \subseteq excused' /\ UNCHANGED records
        /\ stage # "up" \/ rpc \in Reporting => Meters \X {day - 1} \subseteq excused'
    BY <1>21, Moves DEF Midnight, Missed
  <2>2. \A m \in Meters, d \in {day - 1} : Due(m, d)'
    <3>1. ASSUME NEW m \in Meters PROVE Due(m, day - 1) \/ <<m, day - 1>> \in excused'
      BY <2>1 DEF CatchUpInv, Reporting, Pending, Steps
    <3> QED
      BY <2>1, <3>1 DEF Due
  <2>3. \A m \in Meters, d \in budget.from - 1..day - 2 : Due(m, d)'
    BY <2>1 DEF ReportedInTime, Due
  <2>4. day \in Nat /\ budget.from \in Nat
    BY DEF ClockType, Days
  <2>5. \A d \in budget.from - 1..(day + 1) - 2 : d = day - 1 \/ d \in budget.from - 1..day - 2
    BY <2>4
  <2>6. \A m \in Meters, d \in budget'.from - 1..day' - 2 : Due(m, d)'
    BY <2>1, <2>2, <2>3, <2>5
  <2> QED
    BY <2>6 DEF ReportedInTime
<1>22. CASE Store
  BY <1>22, MeteringAssumption, Moves DEF Store, CatchUpInv, RunInv, ReportType, ClockType, Steps, Meters, Reporting, Pending, Due, ReportedInTime
<1>23. CASE UNCHANGED vars
  BY <1>23, MeteringAssumption, Moves DEF vars, CatchUpInv, RunInv, ReportType, ClockType, Steps, Meters, Reporting, Pending, Due, ReportedInTime
<1> QED
  BY <1>1, <1>2, <1>3, <1>4, <1>5, <1>6, <1>7, <1>8, <1>9, <1>10, <1>11, <1>12, <1>13, <1>14, <1>15, <1>16, <1>17, <1>18, <1>19, <1>20, <1>21, <1>22, <1>23 DEF Next

-----------------------------------------------------------------------------
(* The theorems. *)

\* Nothing is served, reported or alerted at the start.
LEMMA InitInd == Init => IndInv
<1> SUFFICES ASSUME Init PROVE IndInv
  OBVIOUS
<1> USE MeteringAssumption
<1>1. /\ budget \in [from : 1..MaxDay, requests : 0..MaxServed, stops : Nat, faults : Nat]
      /\ day = budget.from
  BY DEF Init
<1>2. day \in 1..MaxDay /\ day \in Days /\ MaxDay \in Days /\ 0 \in Days /\ budget.from \in Days
  BY <1>1 DEF Days
<1>3. ClockType
  BY <1>1, <1>2 DEF Init, ClockType, Days
<1>4. TrackType
  <2>1. 0 \in 0..MaxServed
    OBVIOUS
  <2>2. /\ batch \in [Flushers -> 0..MaxServed] /\ daily \in [Days -> 0..MaxServed]
        /\ stamp \in [Flushers -> Days \cup {None}]
    BY <2>1 DEF Init, Idle, Unstamped
  <2> QED
    BY <2>1, <2>2, Zenon DEF Init, TrackType
<1>5. ProcessType /\ HistoryType
  BY DEF Init, ProcessType, HistoryType
<1>6. ReportType
  BY <1>2 DEF Init, ReportType, Amounts
<1>7. CapType
  <2>1. 0 \in Months
    BY <1>2, MonthMono DEF Months
  <2> QED
    BY <2>1 DEF Init, CapType
<1>8. CountInv
  BY <1>1, <1>2 DEF Init, CountInv, Idle, Unstamped, Flushers
<1>9. RunInv /\ BilledOnce /\ EgressBilled
  BY DEF Init, RunInv, BilledOnce, EgressBilled, Steps, Meters
<1>10. AlertInv /\ CapAlertOnce
  BY DEF Init, AlertInv, CapAlertOnce
<1>11. CatchUpInv
  BY DEF Init, CatchUpInv, Steps, Reporting
<1>12. ReportedInTime
  BY <1>1, <1>2 DEF ReportedInTime
<1>13. EgressExact
  <2>1. UNION {{d} \X (1..daily[d]) : d \in Days} = {}
    <3>1. \A d \in Days : 1..daily[d] = {}
      BY DEF Init
    <3> QED
      BY <3>1
  <2>2. Written = 0
    BY <2>1, FS_EmptySet DEF Written
  <2>3. Waiting = 0 /\ served = 0
    BY DEF Init, Waiting, Idle, Flushers
  <2> QED
    BY <2>2, <2>3 DEF EgressExact, Counted
<1> QED
  BY <1>3, <1>4, <1>5, <1>6, <1>7, <1>8, <1>9, <1>10, <1>11, <1>12, <1>13 DEF IndInv, TypeOK

\* The inductive invariant: no row counts more than was served, a run is about a day that is
\* over, an event is on file before its record and a guard row before its mail, and the day
\* before is settled or about to be once the catch-up or the tick of hour 0 has begun.
THEOREM MeteringInductive == Spec => []IndInv
<1>1. IndInv /\ [Next]_vars => IndInv'
  <2> SUFFICES ASSUME IndInv, [Next]_vars PROVE IndInv'
    OBVIOUS
  <2>1. /\ ClockType /\ TrackType /\ ProcessType /\ ReportType /\ CapType /\ HistoryType
        /\ CountInv /\ EgressExact /\ RunInv /\ BilledOnce /\ EgressBilled
        /\ AlertInv /\ CapAlertOnce /\ CatchUpInv /\ ReportedInTime
    BY DEF IndInv, TypeOK
  <2>2. ClockType' /\ TrackType' /\ CountInv' /\ ProcessType' /\ ReportType' /\ CapType' /\ HistoryType'
    BY <2>1, ClockStep, TrackStep, ProcessStep, ReportStep, CapStep, HistoryStep
  <2>3. EgressExact' /\ RunInv' /\ BilledOnce' /\ EgressBilled'
    BY <2>1, ExactStep, RunStep, BilledStep, EgressStep
  <2>4. AlertInv' /\ CapAlertOnce' /\ CatchUpInv' /\ ReportedInTime'
    BY <2>1, AlertStep, CatchUpStep, InTimeStep
  <2> QED
    BY <2>2, <2>3, <2>4 DEF IndInv, TypeOK
<1> QED
  BY <1>1, InitInd, PTL DEF Spec

\* Every variable keeps its type; in particular no day's row, and no batch of an overlapping
\* flush, exceeds the egress that was served.
THEOREM MeteringTyped == Spec => []TypeOK
<1>1. IndInv => TypeOK
  BY DEF IndInv
<1> QED
  BY <1>1, MeteringInductive, PTL

\* Egress is counted exactly once however the flushes of requests, ticker and shutdown overlap;
\* a crash, a failed write or a stop only ever loses bytes, and is known to have done so.
THEOREM EgressCountedOnce == Spec => []EgressExact
<1>1. IndInv => EgressExact
  BY DEF IndInv
<1> QED
  BY <1>1, MeteringInductive, PTL

\* Stripe holds at most one event for a meter and a day, whatever calls fail or lose their
\* answer and wherever the process dies (the identifier of reportMeter).
THEOREM BilledAtMostOnce == Spec => []BilledOnce
<1>1. IndInv => BilledOnce
  BY DEF IndInv
<1> QED
  BY <1>1, MeteringInductive, PTL

\* The egress billed for a day is the final row of that day, and a record has the value that
\* was billed, but for a day whose row a flush added to after midnight: then it is not more.
THEOREM EgressBilledFinal == Spec => []EgressBilled
<1>1. IndInv => EgressBilled
  BY DEF IndInv
<1> QED
  BY <1>1, MeteringInductive, PTL

\* A day's usage is reported by the end of the day after, unless a call of the last run about it
\* failed, no process was up and done with its catch-up at that midnight, or the process had no
\* ticker at the midnight before and no other was started in between.
THEOREM ReportsComeInTime == Spec => []ReportedInTime
<1>1. IndInv => ReportedInTime
  BY DEF IndInv
<1> QED
  BY <1>1, MeteringInductive, PTL

\* A level of the spending cap is mailed at most once a month (the guard row of
\* checkSpendingCaps).
THEOREM CapAlertsOnce == Spec => []CapAlertOnce
<1>1. IndInv => CapAlertOnce
  BY DEF IndInv
<1> QED
  BY <1>1, MeteringInductive, PTL

=============================================================================
