------------------------------- MODULE Engine -------------------------------
(***************************************************************************)
(* The storage engine (CoreEngine, FailoverManager, LocationStore) and the *)
(* parts of the S3 adapter that route to it, for one artifact: which       *)
(* backend a request tries, in which order, what the circuit breakers make *)
(* of the outcomes, and the three records of where the artifact is: the    *)
(* in-process map, the object_locations row and the head row.              *)
(*                                                                         *)
(* A body is named by the PUT that sent it; Short is what a backend stores *)
(* from a drained stream.  Time is left to two actions: a failure leaves   *)
(* the breaker's window (Age) and a breaker's open interval ends (Cool).   *)
(***************************************************************************)
EXTENDS Integers, FiniteSets

CONSTANTS
    Requests, Jobs,    \* requests on the artifact; each runs once
    Backends,          \* the registered drivers
    Local,             \* the "local" driver, the one of nonDurableBackends
    Tape,              \* backends that archive what they hold
    Lax,               \* backends that do not check the body's length
    Flaky,             \* backends that may fail
    Primaries,         \* names the primary is set to
    Threshold,         \* failureThreshold
    MaxRestarts,       \* bound on process restarts
    None, Short

Names == Backends \cup Primaries

JobType == [op : {"put"}, class : Backends \cup {None}, region : Backends \cup {None}, seekable : BOOLEAN]
    \cup [op : {"get"}, range : BOOLEAN] \cup [op : {"delete"}]

ASSUME EngineAssumption ==
    /\ IsFiniteSet(Requests) /\ Jobs \subseteq JobType
    /\ Local \in Backends /\ Primaries # {}
    /\ Threshold \in Nat \ {0} /\ MaxRestarts \in Nat
    /\ None \notin Requests \cup Names /\ Short \notin Requests \cup {None}

VARIABLES
    primary,    \* CoreEngine.primary
    blob,       \* what each backend holds
    stored,     \* CoreEngine.objectBackends
    location,   \* backend_name of the object_locations row
    head,       \* the object_head_cache row, named by the PUT that wrote it
    recording,  \* RecordLocation goroutines not finished, with their backend
    breaker, fails, cooled, \* BackendCircuitBreaker: state, failures in the window,
                            \* whether openDuration has passed since it opened
    job, pc,
    hint,       \* GET: the head row it read
    first,      \* the name a request tries first
    second,     \* the primary when it built its candidate list
    left,       \* the candidates it has not tried
    at,         \* the candidate it is calling
    last,       \* the outcome of its last call
    drained,    \* PUT: whether bytes of the body were read
    landed,     \* PUT: the backend that stored the body
    got,        \* GET: the body it answered
    seen,       \* GET: the backends that held a body when it began (history)
    gone,       \* requests whose client went away: their context is cancelled
    calm,       \* the request that started last, if it overlapped no other (history)
    settled,    \* the PUT acknowledged last, if calm and nothing but GETs since (history)
    restarts

records == <<stored, location, head, recording>>
breakers == <<breaker, fails, cooled>>
plan == <<first, second, left, at, drained>>   \* locals of a walk over candidates
walk == <<plan, hint, last>>
io == <<landed, got, seen>>
past == <<calm, settled>>
fixed == <<job, gone, past, restarts>>
vars == <<fixed, primary, blob, records, breakers, pc, walk, io>>

PcStates == {"idle", "hint", "lookup", "seed", "list", "try", "call", "region", "landed", "head",
             "unmap", "unlist", "unhead", "done", "failed"}
Outcomes == {"none", "ok", "missing", "refused", "failed", "aborted", "short"}
Ended == {"idle", "done", "failed"}

TypeOK ==
    /\ primary \in Primaries
    /\ blob \in [Backends -> Requests \cup {None, Short}]
    /\ stored \in Backends \cup {None} /\ location \in Backends \cup {None} /\ head \in Requests \cup {None}
    /\ recording \in [Requests -> Backends \cup {None}]
    /\ breaker \in [Backends -> {"closed", "open", "half"}]
    /\ fails \in [Backends -> Nat] /\ cooled \in [Backends -> BOOLEAN]
    /\ job \in [Requests -> Jobs] /\ pc \in [Requests -> PcStates]
    /\ hint \in [Requests -> Requests \cup {None}] /\ last \in [Requests -> Outcomes]
    /\ first \in [Requests -> Names \cup {None}] /\ second \in [Requests -> Names \cup {None}]
    /\ left \in [Requests -> SUBSET Backends] /\ at \in [Requests -> Backends \cup {None}]
    /\ drained \in [Requests -> BOOLEAN] /\ landed \in [Requests -> Backends \cup {None}]
    /\ got \in [Requests -> Requests \cup {None, Short}] /\ seen \in [Requests -> SUBSET Backends]
    /\ gone \subseteq Requests /\ calm \in Requests \cup {None} /\ settled \in Requests \cup {None}
    /\ restarts \in 0..MaxRestarts

Fresh(x) == [r \in Requests |-> x]

Init ==
    /\ primary \in Primaries
    /\ blob = [b \in Backends |-> None]
    /\ stored = None /\ location = None /\ head = None /\ recording = Fresh(None)
    /\ breaker = [b \in Backends |-> "closed"] /\ fails = [b \in Backends |-> 0]
    /\ cooled = [b \in Backends |-> FALSE]
    /\ job \in [Requests -> Jobs] /\ pc = Fresh("idle")
    /\ hint = Fresh(None) /\ last = Fresh("none")
    /\ first = Fresh(None) /\ second = Fresh(None) /\ left = Fresh({}) /\ at = Fresh(None)
    /\ drained = Fresh(FALSE) /\ landed = Fresh(None) /\ got = Fresh(None) /\ seen = Fresh({})
    /\ gone = {} /\ calm = None /\ settled = None /\ restarts = 0

Op(r) == job[r].op
Ranged == {r \in Requests : Op(r) = "get" /\ job[r].range}
Goto(r, s) == pc' = [pc EXCEPT ![r] = s]

\* A request arrives.
Arrive(r) ==
    /\ pc[r] = "idle"
    /\ calm' = IF \A q \in Requests \ {r} : pc[q] \in Ended THEN r ELSE None
    /\ settled' = IF Op(r) = "get" THEN settled ELSE None

-----------------------------------------------------------------------------
(* Routing *)

\* buildCandidateList: the preferred name, the primary, then every other driver in
\* the order of a Go map.
Listed(r, names, preferred) ==
    /\ first' = [first EXCEPT ![r] = preferred]
    /\ second' = [second EXCEPT ![r] = primary]
    /\ left' = [left EXCEPT ![r] = names]

\* Execute has returned.
EndWalk(r) ==
    /\ first' = [first EXCEPT ![r] = None] /\ second' = [second EXCEPT ![r] = None]
    /\ left' = [left EXCEPT ![r] = {}] /\ at' = [at EXCEPT ![r] = None]
    /\ drained' = [drained EXCEPT ![r] = FALSE]

\* The candidates FailoverManager.Execute may come to next.
NextUp(r) ==
    IF first[r] \in left[r] THEN {first[r]}
    ELSE IF second[r] \in left[r] THEN {second[r]} ELSE left[r]

\* HandleGet reads the head row, or goes on without it when the query fails; the engine
\* reads its records only later.
StartGet(r) ==
    /\ Arrive(r) /\ Op(r) = "get" /\ Goto(r, "hint")
    /\ \E row \in {head, None} : hint' = [hint EXCEPT ![r] = row]
    /\ seen' = [seen EXCEPT ![r] = {b \in Backends : blob[b] # None}]
    /\ UNCHANGED <<job, gone, restarts, primary, blob, records, breakers, plan, last, landed, got>>

\* Mutant: the map is not seeded from the head row.
HintNothing(r) ==
    /\ pc[r] = "hint" /\ Goto(r, "lookup")
    /\ UNCHANGED <<fixed, primary, blob, records, breakers, walk, io>>

\* HintBackend, with the backend_name of the head row.
Hint(r) ==
    /\ pc[r] = "hint" /\ Goto(r, "lookup")
    /\ stored' = IF hint[r] # None THEN landed[hint[r]] ELSE stored
    /\ UNCHANGED <<fixed, primary, blob, location, head, recording, breakers, walk, io>>

\* Mutant: only the preferred backend and the primary are tried.
LookupTwo(r) ==
    /\ pc[r] = "lookup" /\ Goto(r, "try")
    /\ LET preferred == IF stored # None THEN stored ELSE primary
       IN Listed(r, {preferred, primary} \cap Backends, preferred)
    /\ UNCHANGED <<fixed, primary, blob, records, breakers, at, drained, hint, last, io>>

\* Get and GetRange: the map, else the row, else (no row, or the query failed) the primary.
Lookup(r) ==
    /\ pc[r] = "lookup"
    /\ \/ stored # None /\ Listed(r, Backends, stored) /\ Goto(r, "try")
       \/ stored = None /\ Listed(r, Backends, primary) /\ Goto(r, "try")
       \/ stored = None /\ location # None /\ Listed(r, Backends, location) /\ Goto(r, "seed")
    /\ UNCHANGED <<fixed, primary, blob, records, breakers, at, drained, hint, last, io>>

\* The row that was looked up is stored in the map.
Seed(r) ==
    /\ pc[r] = "seed" /\ Goto(r, "try") /\ stored' = first[r]
    /\ UNCHANGED <<fixed, primary, blob, location, head, recording, breakers, walk, io>>

\* ResolveStorageClass: a class names a backend, or maps to the primary.
ResolveStorageClass(class) == IF class # None THEN class ELSE primary

\* applyBackendRecommendation: a recommended name must be a driver, and local only
\* where it is the primary.
Recommended(name) == name \in Backends /\ (name = Local => primary = Local)

\* Put chooses its target; a recommendation counts only without a storage class.
StartPut(r) ==
    /\ Arrive(r) /\ Op(r) = "put" /\ job[r].region = None /\ Goto(r, "list")
    /\ \/ first' = [first EXCEPT ![r] = ResolveStorageClass(job[r].class)]
       \/ /\ job[r].class = None
          /\ \E name \in Backends : Recommended(name) /\ first' = [first EXCEPT ![r] = name]
    /\ UNCHANGED <<job, gone, restarts, primary, blob, records, breakers, second, left, at, drained, hint, last, io>>

\* Mutant: reads and writes share one candidate list.
WritableAll(target) == Backends

\* buildWriteCandidateList: local only as the target or the primary.
Writable(target) == {b \in Backends : b = Local => b \in {target, primary}}

ListForPut(r) ==
    /\ pc[r] = "list" /\ Goto(r, "try") /\ Listed(r, Writable(first[r]), first[r])
    /\ UNCHANGED <<fixed, primary, blob, records, breakers, at, drained, hint, last, io>>

\* Mutant: the names are not checked against the registered drivers.
StartDeleteUnchecked(r) ==
    /\ Arrive(r) /\ Op(r) = "delete" /\ Goto(r, "try")
    /\ LET target == IF stored # None THEN stored ELSE primary
       IN Listed(r, {target, primary}, target)
    /\ UNCHANGED <<job, gone, restarts, primary, blob, records, breakers, at, drained, hint, last, io>>

\* Delete: the recorded backend, then the primary; the location row is not consulted.
StartDelete(r) ==
    /\ Arrive(r) /\ Op(r) = "delete" /\ Goto(r, "try")
    /\ LET target == IF stored # None THEN stored ELSE primary
       IN Listed(r, {target, primary} \cap Backends, target)
    /\ UNCHANGED <<job, gone, restarts, primary, blob, records, breakers, at, drained, hint, last, io>>

-----------------------------------------------------------------------------
(* FailoverManager.Execute and the circuit breakers *)

\* Allow: an open breaker refuses until its interval is over, then lets all through.
Admit(r) ==
    /\ pc[r] = "try"
    /\ \E b \in NextUp(r) :
        /\ left' = [left EXCEPT ![r] = @ \ {b}]
        /\ \/ /\ breaker[b] = "open" /\ ~cooled[b]
              /\ UNCHANGED <<at, pc, breaker>>
           \/ /\ breaker[b] = "open" => cooled[b]
              /\ breaker' = [breaker EXCEPT ![b] = IF @ = "open" THEN "half" ELSE @]
              /\ at' = [at EXCEPT ![r] = b] /\ Goto(r, "call")
    /\ UNCHANGED <<fixed, primary, blob, records, fails, cooled, first, second, drained, hint, last, io>>

RecordSuccess(b) ==
    /\ breaker' = [breaker EXCEPT ![b] = "closed"] /\ fails' = [fails EXCEPT ![b] = 0]
    /\ UNCHANGED cooled

RecordFailure(b) ==
    /\ fails' = [fails EXCEPT ![b] = @ + 1]
    /\ IF fails[b] + 1 >= Threshold
       THEN breaker' = [breaker EXCEPT ![b] = "open"] /\ cooled' = [cooled EXCEPT ![b] = FALSE]
       ELSE UNCHANGED <<breaker, cooled>>

\* Mutant: every error is held against the backend.
isAnyFailure(outcome) == outcome # "ok"

\* The errors that mean the backend is unwell.  A cancelled context and a range that ends
\* after the body look like one.
isBackendFailure(outcome) == outcome \in {"failed", "aborted", "short"}

\* The end of a call.
Outcome(r, outcome) ==
    /\ last' = [last EXCEPT ![r] = outcome]
    /\ IF outcome = "ok" THEN RecordSuccess(at[r])
       ELSE IF isBackendFailure(outcome) THEN RecordFailure(at[r])
       ELSE UNCHANGED breakers

\* Mutant: every body is taken to be seekable.
RewindableAll(r) == TRUE

\* Put's test for io.Seeker: a body that can be rewound for the next attempt.
Rewindable(r) == job[r].seekable

\* The driver reads the body from its start: nothing was read, or it was rewound.
Whole(r) == drained[r] => job[r].seekable

PutOK(r) ==
    /\ pc[r] = "call" /\ Op(r) = "put" /\ Goto(r, "landed")
    /\ Whole(r) \/ at[r] \in Lax
    /\ blob' = [blob EXCEPT ![at[r]] = IF Whole(r) THEN r ELSE Short]
    /\ landed' = [landed EXCEPT ![r] = at[r]]
    /\ Outcome(r, "ok") /\ EndWalk(r)
    /\ UNCHANGED <<fixed, primary, records, hint, got, seen>>

\* A failed attempt may have read some of the body, and may have stored all of it before
\* its answer was lost.  A body that was read and cannot be rewound leaves no candidate
\* (ErrNoFailover); any other is offered to the next one, also after the client went away.
PutFail(r) ==
    /\ pc[r] = "call" /\ Op(r) = "put" /\ Goto(r, "try")
    /\ \E outcome \in {"failed", "refused", "aborted"}, more \in BOOLEAN, applied \in BOOLEAN :
        /\ outcome = "failed" => at[r] \in Flaky \/ ~Whole(r)
        /\ outcome = "aborted" => r \in gone
        /\ applied => Whole(r) /\ more /\ (outcome = "aborted" \/ (outcome = "failed" /\ at[r] \in Flaky))
        /\ drained' = [drained EXCEPT ![r] = @ \/ more]
        /\ blob' = IF applied THEN [blob EXCEPT ![at[r]] = r] ELSE blob
        /\ Outcome(r, outcome)
        /\ left' = [left EXCEPT ![r] = IF drained'[r] /\ ~Rewindable(r) THEN {} ELSE @]
    /\ UNCHANGED <<fixed, primary, records, first, second, at, hint, io>>

\* HandleGet answers what Get opened; with a Range header and a head row it calls GetRange
\* first, a second walk from the lookup on.
GetOK(r) ==
    /\ pc[r] = "call" /\ Op(r) = "get"
    /\ Goto(r, IF r \in Ranged /\ hint[r] # None /\ got[r] = None THEN "lookup" ELSE "done")
    /\ blob[at[r]] # None
    /\ got' = [got EXCEPT ![r] = blob[at[r]]] /\ seen' = [seen EXCEPT ![r] = {}]
    /\ Outcome(r, "ok") /\ EndWalk(r)
    /\ UNCHANGED <<fixed, primary, blob, records, hint, landed>>

\* An archived body ends the walk, so that no later candidate turns it into "missing".  A
\* body other than the one the head row gave the size of may end before the range does: the
\* discard meets EOF, or the driver's own GetRange is refused.
GetFail(r) ==
    /\ pc[r] = "call" /\ Op(r) = "get" /\ Goto(r, "try")
    /\ \/ at[r] \in Flaky /\ Outcome(r, "failed") /\ UNCHANGED left
       \/ r \in gone /\ Outcome(r, "aborted") /\ UNCHANGED left
       \/ blob[at[r]] = None /\ Outcome(r, "missing") /\ UNCHANGED left
       \/ /\ got[r] # None /\ blob[at[r]] \notin {None, hint[r]}
          /\ Outcome(r, "short") /\ UNCHANGED left
       \/ /\ blob[at[r]] # None /\ at[r] \in Tape /\ Outcome(r, "refused")
          /\ left' = [left EXCEPT ![r] = {}]
    /\ UNCHANGED <<fixed, primary, blob, records, first, second, at, drained, hint, io>>

\* Deleting what is not there succeeds on most backends.
DeleteOK(r) ==
    /\ pc[r] = "call" /\ Op(r) = "delete" /\ Goto(r, "unmap")
    /\ blob' = [blob EXCEPT ![at[r]] = None]
    /\ Outcome(r, "ok") /\ EndWalk(r)
    /\ UNCHANGED <<fixed, primary, records, hint, io>>

DeleteFail(r) ==
    /\ pc[r] = "call" /\ Op(r) = "delete" /\ Goto(r, "try")
    /\ \/ /\ \/ at[r] \in Flaky /\ Outcome(r, "failed")
             \/ r \in gone /\ Outcome(r, "aborted")
          /\ \/ UNCHANGED blob
             \/ blob' = [blob EXCEPT ![at[r]] = None]
       \/ blob[at[r]] = None /\ Outcome(r, "missing") /\ UNCHANGED blob
    /\ UNCHANGED <<fixed, primary, records, plan, hint, io>>

\* No candidate is left.  Delete forgets the artifact all the same; a GetRange that failed
\* leaves HandleGet with what Get opened.
Exhausted(r) ==
    /\ pc[r] = "try" /\ left[r] = {}
    /\ Goto(r, IF Op(r) = "delete" THEN "unmap" ELSE IF got[r] # None THEN "done" ELSE "failed")
    /\ EndWalk(r)
    /\ UNCHANGED <<fixed, primary, blob, records, breakers, hint, last, io>>

-----------------------------------------------------------------------------
(* What is recorded afterwards *)

\* Bucket regions: HandlePut calls the region's driver itself, without a breaker.
StartRegionPut(r) ==
    /\ Arrive(r) /\ Op(r) = "put" /\ job[r].region # None /\ Goto(r, "region")
    /\ UNCHANGED <<job, gone, restarts, primary, blob, records, breakers, walk, io>>

RegionPut(r) ==
    /\ pc[r] = "region"
    /\ \/ /\ blob' = [blob EXCEPT ![job[r].region] = r]
          /\ landed' = [landed EXCEPT ![r] = job[r].region] /\ Goto(r, "landed")
       \/ /\ job[r].region \in Flaky \/ r \in gone
          /\ Goto(r, "failed")
          /\ blob' \in {blob, [blob EXCEPT ![job[r].region] = r]} /\ UNCHANGED landed
    /\ UNCHANGED <<fixed, primary, records, breakers, walk, got, seen>>

\* Put stores the map entry and starts RecordLocation; the region path only hints.
Note(r) ==
    /\ pc[r] = "landed" /\ Goto(r, "head")
    /\ stored' = landed[r]
    /\ recording' = IF job[r].region = None THEN [recording EXCEPT ![r] = landed[r]] ELSE recording
    /\ UNCHANGED <<fixed, primary, blob, location, head, breakers, walk, io>>

\* The head row; a statement that fails fails the PUT.
UpsertHead(r) ==
    /\ pc[r] = "head"
    /\ \/ head' = r /\ Goto(r, "done") /\ settled' = IF calm = r THEN r ELSE None
       \/ UNCHANGED <<head, settled>> /\ Goto(r, "failed")
    /\ UNCHANGED <<job, gone, calm, restarts, primary, blob, stored, location, recording, breakers, walk, io>>

\* The goroutine started by Note, in its own time; its error is logged.
RecordLocation(r) ==
    /\ recording[r] # None /\ recording' = [recording EXCEPT ![r] = None]
    /\ location' \in {recording[r], location}
    /\ UNCHANGED <<fixed, primary, blob, stored, head, breakers, pc, walk, io>>

Unmap(r) ==
    /\ pc[r] = "unmap" /\ Goto(r, "unlist") /\ stored' = None
    /\ UNCHANGED <<fixed, primary, blob, location, head, recording, breakers, walk, io>>

\* RemoveLocation, its error ignored; HandleDelete goes on when the last outcome was
\* that the artifact is deleted or missing.
Unlist(r) ==
    /\ pc[r] = "unlist" /\ location' \in {None, location}
    /\ Goto(r, IF last[r] \in {"ok", "missing"} THEN "unhead" ELSE "failed")
    /\ UNCHANGED <<fixed, primary, blob, stored, head, recording, breakers, walk, io>>

DeleteHead(r) ==
    /\ pc[r] = "unhead" /\ Goto(r, "done") /\ head' \in {None, head}
    /\ UNCHANGED <<fixed, primary, blob, stored, location, recording, breakers, walk, io>>

-----------------------------------------------------------------------------
(* The environment *)

SetPrimary(name) ==
    /\ name # primary /\ primary' = name
    /\ UNCHANGED <<fixed, blob, records, breakers, pc, walk, io>>

\* A failure leaves the window.
Age(b) ==
    /\ fails[b] > 0 /\ fails' = [fails EXCEPT ![b] = @ - 1]
    /\ UNCHANGED <<fixed, primary, blob, records, breaker, cooled, pc, walk, io>>

\* openDuration has passed.
Cool(b) ==
    /\ breaker[b] = "open" /\ ~cooled[b] /\ cooled' = [cooled EXCEPT ![b] = TRUE]
    /\ UNCHANGED <<fixed, primary, blob, records, breaker, fails, pc, walk, io>>

\* The client goes away while its request runs.  The handler runs on with a cancelled
\* context: a call may fail from then on, on any backend.
Drop(r) ==
    /\ pc[r] \notin Ended /\ r \notin gone /\ gone' = gone \cup {r}
    /\ UNCHANGED <<job, past, restarts, primary, blob, records, breakers, pc, walk, io>>

\* A restart loses the map, the breakers, the goroutines and the requests.
Restart ==
    /\ restarts < MaxRestarts /\ restarts' = restarts + 1
    /\ stored' = None /\ recording' = Fresh(None)
    /\ breaker' = [b \in Backends |-> "closed"] /\ fails' = [b \in Backends |-> 0]
    /\ cooled' = [b \in Backends |-> FALSE]
    /\ pc' = [r \in Requests |-> IF pc[r] \in Ended THEN pc[r] ELSE "failed"]
    /\ last' = [r \in Requests |-> IF pc[r] \in Ended THEN last[r] ELSE "none"]
    /\ primary' \in Primaries
    /\ first' = Fresh(None) /\ second' = Fresh(None) /\ left' = Fresh({}) /\ at' = Fresh(None)
    /\ drained' = Fresh(FALSE) /\ hint' = Fresh(None)
    /\ UNCHANGED <<job, gone, past, blob, location, head, io>>

Step(r) ==
    \/ StartGet(r) \/ Hint(r) \/ Lookup(r) \/ Seed(r) \/ StartPut(r) \/ ListForPut(r) \/ StartDelete(r)
    \/ Admit(r) \/ PutOK(r) \/ PutFail(r) \/ GetOK(r) \/ GetFail(r) \/ DeleteOK(r) \/ DeleteFail(r)
    \/ Exhausted(r) \/ StartRegionPut(r) \/ RegionPut(r) \/ Note(r) \/ UpsertHead(r) \/ RecordLocation(r)
    \/ Unmap(r) \/ Unlist(r) \/ DeleteHead(r) \/ Drop(r)

Next ==
    \/ \E r \in Requests : Step(r)
    \/ \E name \in Primaries : SetPrimary(name)
    \/ \E b \in Backends : Age(b) \/ Cool(b)
    \/ Restart

Spec == Init /\ [][Next]_vars

-----------------------------------------------------------------------------
(* Properties *)

\* No backend holds what it read from a stream that an earlier attempt had drained
\* (Put's rewind and ErrNoFailover).
WholeBodies == \A b \in Backends : blob[b] # Short

\* The walks that may charge a backend that is well: those of dropped requests, and of the
\* GetRange of a ranged GET.
Suspects == (gone \X {1}) \cup (Ranged \X {2})
FewSuspects == Cardinality(Suspects) < Threshold

\* A backend that never fails is not refused before Threshold walks of dropped requests or of
\* GetRange: missing objects, refusals, bodies drained elsewhere, failures of other backends
\* and retries never count against it, and no walk counts twice (isBackendFailure, Execute).
HealthyAdmitted ==
    FewSuspects => \A b \in Backends \ Flaky : breaker[b] = "closed"

\* Where local is never the primary, it holds only bodies that were sent to it on purpose,
\* whatever is recommended and however the durable backends fail (WP-F).
LocalOnPurpose ==
    Local \notin Primaries =>
        \A r \in Requests : blob[Local] = r => Local \in {job[r].class, job[r].region}

\* Without DELETEs, and below Threshold suspects, a GET whose client waits is not answered
\* "missing" when a backend that does not fail held a body as it began, whatever the head row,
\* the map, the location row and the breakers say by the time it walks the candidates.  (From
\* Threshold dropped requests on the breaker of the holder may be open; Execute passes it over
\* and reports what the others said.)
HeldFound ==
    (\A r \in Requests : Op(r) # "delete") /\ FewSuspects =>
        \A r \in Requests \ gone :
            Op(r) = "get" /\ pc[r] = "failed" /\ last[r] = "missing" => seen[r] \subseteq Flaky

\* "Get always reads from the same backend Put used" (objectBackends), where nothing else is
\* going on: a GET that overlapped no request, after a PUT that overlapped none, answers that
\* PUT's body and not the copy an earlier PUT left on another backend, also across restarts and
\* changes of the primary, while a late RecordLocation overwrites the location row.  It takes
\* the head row, a holder that does not fail and its breaker closed.
ReadBack ==
    FewSuspects =>
        \A r \in Requests \ gone :
            /\ Op(r) = "get" /\ pc[r] = "done" /\ calm = r /\ hint[r] # None
            /\ settled # None /\ landed[settled] \notin Flaky
            => got[r] = settled

-----------------------------------------------------------------------------
(* The inductive invariant *)

\* Each kind of request has its own control states; a walk has a candidate to call, and a PUT
\* that is past its walk knows where its body is.
PlaceInv ==
    \A r \in Requests :
        /\ pc[r] \in {"hint", "lookup", "seed"} => Op(r) = "get"
        /\ pc[r] \in {"list", "region", "landed", "head"} => Op(r) = "put"
        /\ pc[r] \in {"unmap", "unlist", "unhead"} => Op(r) = "delete"
        /\ pc[r] = "seed" => first[r] \in Backends
        /\ pc[r] = "call" => at[r] \in Backends
        /\ pc[r] = "region" => job[r].region # None
        /\ pc[r] \in {"landed", "head"} => landed[r] # None

\* A body that was read and cannot be rewound is not offered to another backend.
DrainInv ==
    \A r \in Requests :
        /\ drained[r] => Op(r) = "put"
        /\ drained[r] /\ ~job[r].seekable => pc[r] = "try" /\ left[r] = {}

\* Local is a candidate of a PUT only where its class asks for it.
LocalInv ==
    Local \notin Primaries =>
        \A r \in Requests : Op(r) = "put" =>
            /\ pc[r] = "list" /\ first[r] = Local => job[r].class = Local
            /\ Local \in left[r] => job[r].class = Local
            /\ pc[r] = "call" /\ at[r] = Local => job[r].class = Local

\* The candidates a walk has not finished with; one it is calling is not also to come.
Ahead(r) == left[r] \cup (IF pc[r] = "call" THEN {at[r]} ELSE {})
WalkInv ==
    \A r \in Requests :
        /\ pc[r] = "call" => at[r] \notin left[r]
        /\ got[r] # None => Op(r) = "get"
        /\ got[r] # None /\ pc[r] \notin Ended => r \in Ranged
        /\ got[r] # None => pc[r] \notin {"idle", "hint"} /\ seen[r] = {}

\* Each failure a healthy backend is charged with is a suspect walk that has passed it.
Passed(r, b) == pc[r] \notin {"idle", "hint", "lookup", "list"} /\ b \notin Ahead(r)
Spent(b) ==
    {s \in Suspects :
        \/ s[2] = 1 /\ (got[s[1]] # None \/ Passed(s[1], b))
        \/ s[2] = 2 /\ got[s[1]] # None /\ Passed(s[1], b)}
ChargeInv == \A b \in Backends \ Flaky : fails[b] <= Cardinality(Spent(b))

\* A GET has yet to try every backend that held a body as it began and does not fail, unless it
\* found the body archived.
SeenInv ==
    (\A r \in Requests : Op(r) # "delete") /\ FewSuspects =>
        \A r \in Requests \ gone : Op(r) = "get" =>
            /\ \A b \in seen[r] : blob[b] # None
            /\ pc[r] \in {"seed", "try", "call"} =>
                \/ seen[r] \ Flaky \subseteq Ahead(r)
                \/ pc[r] = "try" /\ left[r] = {} /\ last[r] = "refused"

\* Where nothing overlaps, a PUT knows what its backend holds, and the head row is its own.
CalmInv ==
    /\ \A r \in Requests : calm = r =>
        /\ \A q \in Requests \ {r} : pc[q] \in Ended
        /\ pc[r] \in {"landed", "head"} => blob[landed[r]] = r
    /\ settled # None =>
        /\ Op(settled) = "put" /\ head = settled
        /\ landed[settled] # None /\ blob[landed[settled]] = settled
        /\ \A q \in Requests : Op(q) # "get" => pc[q] \in Ended

\* A calm GET goes to the backend of the settled PUT first.
ReadInv ==
    FewSuspects /\ settled # None /\ landed[settled] \notin Flaky =>
        \A r \in Requests \ gone : Op(r) = "get" /\ calm = r /\ hint[r] # None =>
            /\ hint[r] = settled /\ got[r] \in {None, settled}
            /\ pc[r] \in {"lookup", "try", "call"} => stored = landed[settled]
            /\ pc[r] \notin {"idle", "seed"}
            /\ pc[r] = "try" =>
                \/ first[r] = landed[settled] /\ first[r] \in left[r]
                \/ left[r] = {} /\ last[r] = "refused"
            /\ pc[r] = "call" => at[r] = landed[settled]
            /\ pc[r] = "done" => got[r] # None

IndInv ==
    /\ TypeOK /\ PlaceInv /\ DrainInv /\ WholeBodies /\ WalkInv /\ ChargeInv /\ HealthyAdmitted
    /\ LocalInv /\ LocalOnPurpose /\ SeenInv /\ HeldFound /\ CalmInv /\ ReadInv
=============================================================================
