------------------------------ MODULE Metering ------------------------------
(***************************************************************************)
(* How one tenant's usage becomes a charge: requests report the bytes they *)
(* served to the BandwidthTracker, which buffers them and adds them to the *)
(* row of the current day; the MeteredReporter sends the storage gauge and *)
(* the egress of the previous day to Stripe and records that it did; the   *)
(* spending caps are compared with what was recorded.  The server process  *)
(* may crash, be stopped and be started at any time, and calls to the      *)
(* database and to Stripe may fail or lose their answer.                   *)
(*                                                                         *)
(* A day has two parts: its hour 0, in which the hourly ticker starts the  *)
(* daily report, and the rest.  The ticker exists once the startup run is  *)
(* over, and ticks once in every hour from then on.                        *)
(***************************************************************************)
EXTENDS Integers, FiniteSets, FiniteSetsExt

CONSTANTS
    MaxDay,         \* bound on days
    DaysPerMonth,
    FlushAt,        \* buffered events at which a request flushes
    MaxServed,      \* bound on egress
    MaxGauge,       \* bound on the storage in use
    Levels,         \* storage that reaches 80% and 95% of the spending cap
    Budgets,        \* what may happen in one behaviour: the day it starts on and how many
                    \* requests, crashes or shutdowns, and failed calls it has
    None

Days == 0..MaxDay
Month(d) == d \div DaysPerMonth
Months == 0..Month(MaxDay)
Meters == {"storage", "egress"}
Amounts == 0..MaxGauge + MaxServed
Flushers == {"request", "ticker", "shutdown"}

ASSUME MeteringAssumption ==
    /\ {MaxDay, FlushAt, MaxServed, MaxGauge} \subseteq Nat
    /\ DaysPerMonth \in Nat \ {0} /\ FlushAt > 0
    /\ Levels \subseteq 1..MaxGauge
    /\ Budgets \subseteq [from : 1..MaxDay, requests : 0..MaxServed, stops : Nat, faults : Nat]
    /\ None \notin Amounts \cup Days

VARIABLES
    day, hour,    \* the clock: hour is "zero" or "rest"
    gauge,        \* tenant_quotas.storage_used_bytes
    served,       \* egress of all requests so far
    buffer,       \* BandwidthTracker.buffer
    full,         \* a request found the buffer full and is about to flush
    batch,        \* what a flush took from the buffer and has not written yet
    stamp,        \* CURRENT_DATE of a flush's INSERT that is running
    daily,        \* bandwidth_usage_daily
    stage,        \* the server process: "up", "drain", "flush", "exit" or "down"; the
                  \* database is open to it while it is "up"
    late,         \* draining timed out with requests still running
    armed,        \* the reporter has its ticker
    due,          \* the ticker's tick of this hour 0 is still to come
    rpc,          \* control state of the reporter's goroutine
    meter, value, target, \* the meter event it is about
    records,      \* metered_usage_reports of the meters
    events,       \* meter events Stripe has accepted
    alerts,       \* the guard rows of spending-cap alerts
    todo, month,  \* levels still to alert on in this check, and its month
    mails,        \* alert mails sent, by level and month
    budget,       \* what may still happen
    lossy,        \* history: egress was lost by a crash, a failed write or a late request
    dropped,      \* history: egress was lost by an orderly stop
    tardy,        \* history: days whose row grew after they were over
    excused       \* history: <<meter, day>> whose last run failed or which have no run

clockVars == <<day, hour>>
trackVars == <<served, buffer, full, batch, stamp, daily>>
tickVars == <<armed, due>>
runVars == <<meter, value, target>>
capVars == <<alerts, todo, month, mails>>
historyVars == <<lossy, dropped, tardy, excused>>
vars == <<clockVars, gauge, trackVars, stage, late, tickVars, rpc, runVars, records, events,
          capVars, budget, historyVars>>

Idle == [f \in Flushers |-> 0]
Unstamped == [f \in Flushers |-> None]

ClockType ==
    /\ day \in Days /\ hour \in {"zero", "rest"} /\ gauge \in 0..MaxGauge
    /\ budget \in [from : Days, requests : 0..MaxServed, stops : Nat, faults : Nat]
TrackType ==
    /\ served \in 0..MaxServed /\ buffer \in 0..MaxServed /\ full \in BOOLEAN
    /\ batch \in [Flushers -> 0..MaxServed] /\ stamp \in [Flushers -> Days \cup {None}]
    /\ daily \in [Days -> 0..MaxServed]
ProcessType ==
    /\ stage \in {"up", "drain", "flush", "exit", "down"} /\ late \in BOOLEAN
    /\ armed \in BOOLEAN /\ due \in BOOLEAN
    /\ rpc \in {"start", "idle", "check", "send", "record", "next", "caps", "guard", "mail"}
ReportType ==
    /\ meter \in Meters \cup {None} /\ value \in Amounts /\ target \in Days
    /\ records \in [Meters -> [Days -> Amounts \cup {None}]]
    /\ events \subseteq [id : Meters \X Days, meter : Meters, day : Days, value : Amounts]
CapType ==
    /\ alerts \subseteq Levels \X Months /\ todo \subseteq Levels /\ month \in Months
    /\ mails \in [Levels \X Months -> Nat]
HistoryType ==
    /\ lossy \in BOOLEAN /\ dropped \in BOOLEAN
    /\ tardy \subseteq Days /\ excused \subseteq Meters \X Days

TypeOK == ClockType /\ TrackType /\ ProcessType /\ ReportType /\ CapType /\ HistoryType

Init ==
    /\ budget \in Budgets /\ day = budget.from /\ hour = "rest" /\ gauge = 0
    /\ served = 0 /\ buffer = 0 /\ full = FALSE /\ batch = Idle /\ stamp = Unstamped
    /\ daily = [d \in Days |-> 0]
    /\ stage = "up" /\ late = FALSE /\ armed = FALSE /\ due = FALSE /\ rpc = "start"
    /\ meter = None /\ value = 0 /\ target = 0
    /\ records = [m \in Meters |-> [d \in Days |-> None]] /\ events = {}
    /\ alerts = {} /\ todo = {} /\ month = 0
    /\ mails = [x \in Levels \X Months |-> 0]
    /\ lossy = FALSE /\ dropped = FALSE /\ tardy = {} /\ excused = {}

Spend(what) == budget[what] > 0 /\ budget' = [budget EXCEPT ![what] = @ - 1]
Fault == Spend("faults")

\* A call fails; once eng.Shutdown has closed the database, and soon after it
\* the reporter's context is cancelled, no fault is needed for it.
Fails == IF stage = "up" THEN Fault ELSE UNCHANGED budget

-----------------------------------------------------------------------------
(* The bandwidth tracker. *)

\* RecordWithBackend.  A request that was running when the server began to stop may
\* still get here, until the server has drained.
Record ==
    /\ stage \in {"up", "drain"} \/ (late /\ stage # "down")
    /\ Spend("requests") /\ ~full
    /\ served' = served + 1 /\ buffer' = buffer + 1
    /\ full' = (buffer' >= FlushAt)
    /\ UNCHANGED <<clockVars, gauge, batch, stamp, daily, stage, late, tickVars, rpc, runVars, records, events,
                   capVars, historyVars>>

Flushing(f) ==
    CASE f = "request" -> full
      [] f = "ticker" -> stage # "down" /\ buffer > 0
      [] f = "shutdown" -> stage = "flush"

\* Mutant: the buffer is handed over and not replaced.
TakeBufferKept(f) ==
    /\ Flushing(f) /\ batch[f] = 0
    /\ batch' = [batch EXCEPT ![f] = buffer]
    /\ full' = (full /\ f # "request")
    /\ stage' = IF f = "shutdown" THEN "exit" ELSE stage
    /\ UNCHANGED <<clockVars, gauge, served, buffer, stamp, daily, late, tickVars, rpc, runVars, records,
                   events, capVars, budget, historyVars>>

\* Flush takes the whole buffer under the mutex and writes it without; one that finds
\* the buffer empty returns.
TakeBuffer(f) ==
    /\ Flushing(f) /\ batch[f] = 0
    /\ batch' = [batch EXCEPT ![f] = buffer] /\ buffer' = 0
    /\ full' = (full /\ f # "request")
    /\ stage' = IF f = "shutdown" THEN "exit" ELSE stage
    /\ UNCHANGED <<clockVars, gauge, served, stamp, daily, late, tickVars, rpc, runVars, records,
                   events, capVars, budget, historyVars>>

\* The INSERT of a flush starts and fixes the day whose row it adds to.  Without a
\* connection the bytes of the flush are gone.
StartWrite(f) ==
    /\ batch[f] > 0 /\ stamp[f] = None
    /\ \/ /\ stage = "up" /\ stamp' = [stamp EXCEPT ![f] = day]
          /\ UNCHANGED <<batch, budget, lossy, dropped>>
       \/ /\ Fails /\ batch' = [batch EXCEPT ![f] = 0]
          /\ lossy' = (lossy \/ late \/ stage = "up")
          /\ dropped' = (dropped \/ ~(late \/ stage = "up")) /\ UNCHANGED stamp
    /\ UNCHANGED <<clockVars, gauge, served, buffer, full, daily, stage, late, tickVars, rpc,
                   runVars, records, events, capVars, tardy, excused>>

\* It commits, or fails.
CommitWrite(f) ==
    /\ stamp[f] # None
    /\ batch' = [batch EXCEPT ![f] = 0] /\ stamp' = [stamp EXCEPT ![f] = None]
    /\ \/ /\ daily' = [daily EXCEPT ![stamp[f]] = @ + batch[f]]
          /\ tardy' = IF stamp[f] < day THEN tardy \cup {stamp[f]} ELSE tardy
          /\ UNCHANGED <<budget, lossy>>
       \/ Fault /\ lossy' = TRUE /\ UNCHANGED <<daily, tardy>>
    /\ UNCHANGED <<clockVars, gauge, served, buffer, full, stage, late, tickVars, rpc, runVars,
                   records, events, capVars, dropped, excused>>

-----------------------------------------------------------------------------
(* The daily report. *)

\* Mutant: the report starts on the day after the previous one and subtracts again.
YesterdayTwice == day - 2

\* Mutant: a run reports the day it runs on.
YesterdayToday == day

Yesterday == day - 1

\* The locals of a run end with it.
NoRun == meter' = None /\ value' = 0 /\ target' = 0

\* The rows of the tenants are read once, so that storage is the gauge of this moment.
ListTenants ==
    /\ \/ /\ meter' = "storage" /\ value' = gauge /\ target' = Yesterday
          /\ rpc' = "check" /\ excused' = excused \ (Meters \X {Yesterday}) /\ UNCHANGED budget
       \/ /\ Fault /\ excused' = excused \cup Meters \X {Yesterday}
          /\ rpc' = "caps" /\ NoRun
    /\ UNCHANGED <<clockVars, gauge, trackVars, stage, late, armed, records, events, capVars, lossy, dropped,
                   tardy>>

\* The catch-up of a process that has just started.
Startup == rpc = "start" /\ stage = "up" /\ ListTenants /\ UNCHANGED due

\* The ticker's run in hour 0.
DailyTick == rpc = "idle" /\ stage = "up" /\ due /\ ListTenants /\ due' = FALSE

\* The call fails, and the meter is left to the run of another process on this day: the
\* next run of this one is about another day.
Miss == Fails /\ excused' = excused \cup {<<meter, target>>} /\ rpc' = "next"

\* The existence check of reportMeter.
CheckReport ==
    /\ rpc = "check"
    /\ \/ stage = "up" /\ records[meter][target] # None /\ rpc' = "next" /\ UNCHANGED <<budget, excused>>
       \/ stage = "up" /\ records[meter][target] = None /\ rpc' = "send" /\ UNCHANGED <<budget, excused>>
       \/ Miss
    /\ UNCHANGED <<clockVars, gauge, trackVars, stage, late, tickVars, runVars, records, events,
                   capVars, lossy, dropped, tardy>>

\* Mutant: the identifier tells two values of one day apart.
IdentifierOfValue(m, d, v) == <<m, d, v>>

Identifier(m, d, v) == <<m, d>>

\* Stripe keeps the first event with an identifier.
Accept(e) == IF \E x \in events : x.id = e.id THEN events ELSE events \cup {e}

Send ==
    LET sent == Accept([id |-> Identifier(meter, target, value), meter |-> meter,
                        day |-> target, value |-> value])
    IN  /\ rpc = "send"
        /\ \/ events' = sent /\ rpc' = "record" /\ UNCHANGED <<budget, excused>>
           \/ events' \in {sent, events} /\ Miss
        /\ UNCHANGED <<clockVars, gauge, trackVars, stage, late, tickVars, runVars, records,
                       capVars, lossy, dropped, tardy>>

RecordReport ==
    /\ rpc = "record"
    /\ \/ /\ stage = "up" /\ records' = [records EXCEPT ![meter][target] = IF @ = None THEN value ELSE @]
          /\ rpc' = "next" /\ UNCHANGED <<budget, excused>>
       \/ Miss /\ UNCHANGED records
    /\ UNCHANGED <<clockVars, gauge, trackVars, stage, late, tickVars, runVars, events,
                   capVars, lossy, dropped, tardy>>

\* After storage comes the sum of the day's egress, and then the caps.
NextMeter ==
    /\ rpc = "next"
    /\ \/ /\ stage = "up" /\ meter = "storage" /\ meter' = "egress" /\ value' = daily[target]
          /\ rpc' = "check" /\ UNCHANGED <<target, budget, excused>>
       \/ /\ meter = "storage" /\ Fails /\ excused' = excused \cup {<<"egress", target>>}
          /\ rpc' = "caps" /\ NoRun
       \/ meter = "egress" /\ rpc' = "caps" /\ NoRun /\ UNCHANGED <<budget, excused>>
    /\ UNCHANGED <<clockVars, gauge, trackVars, stage, late, tickVars, records, events,
                   capVars, lossy, dropped, tardy>>

-----------------------------------------------------------------------------
(* Spending caps. *)

\* Any other tick only checks the caps.
CapsTick ==
    /\ rpc = "idle" /\ stage = "up" /\ ~due
    /\ rpc' = "caps"
    /\ UNCHANGED <<clockVars, gauge, trackVars, stage, late, tickVars, runVars, records, events,
                   capVars, budget, historyVars>>

\* accruedCents: the newest storage report of the month.
Reported(m) == {d \in Days : Month(d) = m /\ records["storage"][d] # None}
Accrued(m) == IF Reported(m) = {} THEN 0 ELSE records["storage"][Max(Reported(m))]

\* The ticker is made when the first check is over.
checkSpendingCaps ==
    /\ rpc = "caps"
    /\ \/ /\ stage = "up" /\ month' = Month(day) /\ todo' = {l \in Levels : Accrued(Month(day)) >= l}
          /\ rpc' = "guard" /\ UNCHANGED <<budget, armed>>
       \/ Fails /\ rpc' = "idle" /\ armed' = TRUE /\ UNCHANGED <<todo, month>>
    /\ UNCHANGED <<clockVars, gauge, trackVars, stage, late, due, runVars, records, events,
                   alerts, mails, historyVars>>

\* Mutant: the number of inserted rows is not looked at.
IsNewAlways(l) == TRUE

\* INSERT ... ON CONFLICT DO NOTHING inserted the guard row.
IsNew(l) == <<l, month>> \notin alerts

GuardAlert ==
    /\ rpc = "guard" /\ todo # {}
    /\ LET l == Min(todo) IN
       \/ /\ stage = "up" /\ alerts' = alerts \cup {<<l, month>>} /\ UNCHANGED budget
          /\ IF IsNew(l) THEN rpc' = "mail" /\ UNCHANGED todo
                         ELSE todo' = todo \ {l} /\ UNCHANGED rpc
       \/ Fails /\ todo' = todo \ {l} /\ UNCHANGED <<alerts, rpc>>
    /\ UNCHANGED <<clockVars, gauge, trackVars, stage, late, tickVars, runVars, records, events,
                   month, mails, historyVars>>

SendAlert ==
    /\ rpc = "mail" /\ rpc' = "guard"
    /\ LET l == Min(todo) IN
       /\ todo' = todo \ {l}
       /\ \/ mails' = [mails EXCEPT ![<<l, month>>] = @ + 1] /\ UNCHANGED budget
          \/ Fails /\ UNCHANGED mails
    /\ UNCHANGED <<clockVars, gauge, trackVars, stage, late, tickVars, runVars, records, events,
                   alerts, month, historyVars>>

EndRun ==
    /\ rpc = "guard" /\ todo = {} /\ rpc' = "idle" /\ month' = 0 /\ armed' = TRUE
    /\ UNCHANGED <<clockVars, gauge, trackVars, stage, late, due, runVars, records, events,
                   alerts, todo, mails, budget, historyVars>>

-----------------------------------------------------------------------------
(* The process and the world. *)

\* SIGTERM: eng.Shutdown closes the database that the server shares with it, then
\* server.Shutdown stops accepting and cancels the context of the reporter.  A tick
\* that still comes finds the database closed and changes nothing.
Signal ==
    /\ stage = "up" /\ Spend("stops") /\ stage' = "drain"
    /\ UNCHANGED <<clockVars, gauge, trackVars, late, tickVars, rpc, runVars, records, events, capVars,
                   historyVars>>

\* Every request has ended, or Shutdown has waited for long enough.
Drained(inTime) ==
    /\ stage = "drain" /\ stage' = "flush"
    /\ inTime => ~full /\ batch["request"] = 0
    /\ late' = ~inTime
    /\ UNCHANGED <<clockVars, gauge, trackVars, tickVars, rpc, runVars, records, events, capVars,
                   budget, historyVars>>

Unwritten == buffer > 0 \/ batch # Idle

Gone ==
    /\ stage' = "down" /\ late' = FALSE
    /\ buffer' = 0 /\ batch' = Idle /\ stamp' = Unstamped /\ full' = FALSE
    /\ rpc' = "idle" /\ NoRun /\ todo' = {} /\ month' = 0 /\ armed' = FALSE /\ due' = FALSE
    /\ UNCHANGED <<clockVars, gauge, served, daily, records, events, alerts, mails, tardy, excused>>

\* ListenAndServe returns as soon as Shutdown begins, and main exits with logger.Fatal;
\* or Shutdown returns first and the signal handler exits.
Exit ==
    /\ stage \in {"drain", "flush", "exit"}
    /\ lossy' = (lossy \/ (late /\ Unwritten)) /\ dropped' = (dropped \/ (~late /\ Unwritten))
    /\ Gone /\ UNCHANGED budget

Crash ==
    /\ stage # "down" /\ Spend("stops")
    /\ lossy' = (lossy \/ Unwritten)
    /\ Gone /\ UNCHANGED dropped

\* Mutant: a new process waits for the ticker.
RestartIdle ==
    /\ stage = "down" /\ stage' = "up" /\ rpc' = "idle"
    /\ UNCHANGED <<clockVars, gauge, trackVars, late, tickVars, runVars, records, events, capVars, budget, historyVars>>

Restart ==
    /\ stage = "down" /\ stage' = "up" /\ rpc' = "start"
    /\ UNCHANGED <<clockVars, gauge, trackVars, late, tickVars, runVars, records, events, capVars, budget, historyVars>>

Steps == {"check", "send", "record", "next"}
Reporting == Steps \cup {"start"}

\* A ticker that was there at midnight has its tick in hour 0, or has it so late that the
\* hour is over when it is looked at.  The timeout of a flush is ten seconds.
HourPasses ==
    /\ hour = "zero" /\ hour' = "rest" /\ due' = FALSE
    /\ \A f \in Flushers : stamp[f] \in {None, day}
    /\ IF stage = "up" /\ due THEN Fault /\ excused' = excused \cup Meters \X {day - 1}
                            ELSE UNCHANGED <<budget, excused>>
    /\ UNCHANGED <<day, gauge, trackVars, stage, late, armed, rpc, runVars, records, events,
                   capVars, lossy, dropped, tardy>>

\* What has no run any more at midnight: the day before, when no process has caught up
\* with it; and the day that ends, when the process is past the point where its catch-up
\* would be about that day but has no ticker yet.  Only a process that starts on
\* the next day comes back to that one.
Missed ==
    Meters \X ({d \in {day - 1} : stage # "up" \/ rpc \in Reporting}
               \cup {d \in {day} : stage = "up" /\ ~armed /\ rpc # "start"})

\* A ticker's run is over within minutes of its hour 0.
Midnight ==
    /\ hour = "rest" /\ day < MaxDay /\ (armed => rpc \notin Reporting)
    /\ day' = day + 1 /\ hour' = "zero" /\ due' = (stage = "up" /\ armed)
    /\ excused' = excused \cup Missed
    /\ UNCHANGED <<gauge, trackVars, stage, late, armed, rpc, runVars, records, events, capVars,
                   budget, lossy, dropped, tardy>>

\* PUTs and DELETEs move the storage in use.
Store ==
    /\ gauge' \in 0..MaxGauge /\ gauge' # gauge
    /\ UNCHANGED <<clockVars, trackVars, stage, late, tickVars, rpc, runVars, records, events, capVars,
                   budget, historyVars>>

Next ==
    \/ Record \/ \E f \in Flushers : TakeBuffer(f) \/ StartWrite(f) \/ CommitWrite(f)
    \/ Startup \/ DailyTick \/ CheckReport \/ Send \/ RecordReport \/ NextMeter
    \/ CapsTick \/ checkSpendingCaps \/ GuardAlert \/ SendAlert \/ EndRun
    \/ Signal \/ (\E inTime \in BOOLEAN : Drained(inTime)) \/ Exit \/ Crash \/ Restart
    \/ HourPasses \/ Midnight \/ Store

Spec == Init /\ [][Next]_vars

-----------------------------------------------------------------------------
(* Properties. *)

\* Bytes in rows, each as its day and its number in that day's row, and bytes on their way.
Written == Cardinality(UNION {{d} \X (1..daily[d]) : d \in Days})
Waiting == buffer + batch["request"] + batch["ticker"] + batch["shutdown"]
Counted == Written + Waiting

\* Egress is counted exactly once, whichever of the request, the ticker and the
\* shutdown flushes the buffer and however their flushes overlap; what a crash, a
\* failed write or a stop loses is only ever missing.
EgressExact ==
    /\ Counted <= served
    /\ ~lossy /\ ~dropped => Counted = served

\* Stripe holds at most one meter event for a meter and a day, also when a process
\* died between the send and its record, an answer was lost, or the gauge moved
\* before the event was sent again.
BilledOnce ==
    \A x, y \in events : x.meter = y.meter /\ x.day = y.day => x = y

\* The egress Stripe was sent for a day is the egress of that day, final when it was
\* read, unless a flush that began on that day committed after it was over: then it is
\* not more.  A recorded report has been billed, and with the same exception its value is
\* the one that was.
EgressBilled ==
    /\ \A x \in events : x.meter = "egress" =>
          x.value <= daily[x.day] /\ (x.day \notin tardy => x.value = daily[x.day])
    /\ \A d \in Days : records["egress"][d] # None =>
          \E x \in events :
             /\ x.meter = "egress" /\ x.day = d
             /\ d \notin tardy => x.value = records["egress"][d]

\* From the day before the first start on: when the day after a day is over, the usage of the
\* day has been recorded as reported.  Stops are made good by the catch-up of the next
\* process, and so is a failed call.  What is not: a failed call of the last run about the
\* day; a next day that ends with no process up and caught up; and the day at whose end
\* the startup run of the process was about the day before and not over, so that the ticker
\* had no tick in hour 0, when no other process starts on the next day.
Due(m, d) == records[m][d] # None \/ <<m, d>> \in excused
ReportedInTime == \A m \in Meters, d \in budget.from - 1..day - 2 : Due(m, d)

\* A spending-cap alert is sent at most once for a level and a month, whatever ticks
\* and restarts come in between.
CapAlertOnce == \A x \in DOMAIN mails : mails[x] <= 1

\* Stopping the server in an orderly way loses no egress that was recorded: "this is
\* the only path that saves up to 5s of buffered bandwidth" (Server.Shutdown).
StopKeepsEgress == ~dropped

-----------------------------------------------------------------------------
(* The inductive invariant. *)

\* No row, and no row with what still waits for it, counts more than was served.
CountInv ==
    /\ budget.from \in 1..day /\ served + budget.requests <= MaxServed
    /\ \A d \in Days :
          daily[d] + buffer + batch["request"] + batch["ticker"] + batch["shutdown"] <= served
    /\ \A f \in Flushers : stamp[f] # None => stamp[f] <= day

\* A run is about a day that is over; Stripe has the event it is about to record.
RunInv ==
    /\ rpc \in Steps => /\ meter \in Meters /\ target < day
                        /\ meter = "egress" =>
                              /\ value <= daily[target]
                              /\ target \notin tardy => value = daily[target]
    /\ rpc = "record" => \E x \in events : x.meter = meter /\ x.day = target
    /\ \A x \in events : x.id = <<x.meter, x.day>> /\ x.day < day

\* A guard row stands for each mail that was sent and for the one about to be sent.
AlertInv ==
    /\ \A x \in DOMAIN mails : mails[x] > 0 => x \in alerts
    /\ rpc = "mail" => todo # {} /\ <<Min(todo), month>> \in alerts /\ mails[<<Min(todo), month>>] = 0

\* The meters that the run has yet to settle.
Pending ==
    {m \in Meters : /\ rpc \in Steps /\ (meter = "egress" => m = "egress")
                    /\ rpc = "next" => m # meter}

\* When the tick of hour 0 is not to come any more and the catch-up has begun, the day
\* before is settled or the run settles it.
CatchUpInv ==
    /\ due => hour = "zero" /\ armed /\ rpc \notin Reporting
    /\ stage = "down" => ~armed /\ rpc = "idle"
    /\ rpc = "start" => ~armed
    /\ stage = "up" /\ ~due /\ rpc # "start" =>
          \A m \in Meters : Due(m, day - 1) \/ (target = day - 1 /\ m \in Pending)

IndInv ==
    /\ TypeOK /\ CountInv /\ EgressExact /\ RunInv /\ BilledOnce /\ EgressBilled
    /\ AlertInv /\ CapAlertOnce /\ CatchUpInv /\ ReportedInTime
=============================================================================
