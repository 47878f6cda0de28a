---------------------------- MODULE MCChunkStore ----------------------------
(* Small instances of ChunkStore for TLC. *)
EXTENDS ChunkStore, TLC

CONSTANTS c1, c2, o1, o2, r1, r2, r3, gc, zstd, raw

Put(b, e) == [op |-> "put", key |-> o1, src |-> o1, body |-> b, enc |-> e]
Other(op) == [op |-> op, key |-> o1, src |-> o1, body |-> <<>>, enc |-> raw]
Copy(from, to) == [op |-> "copy", key |-> to, src |-> from, body |-> <<>>, enc |-> raw]

\* An upload of two chunks against one that shares a chunk with it, and against every
\* other write of the key.
Pairs == {Put(<<c2, c1>>, raw), Put(<<c1>>, raw), Other("delete"), Other("plain")}

\* Copies racing every write of their source: an upload, a plain overwrite, a DELETE,
\* and a DELETE in a versioned bucket, which leaves the manifest behind.
CopyJobs == {Put(<<c1>>, raw), Copy(o1, o2), Other("delete"), Other("plain"), Other("marker")}

\* An object that repeats a chunk, for two concurrent GC cycles.
RepeatJobs == {Put(<<c1, c1>>, raw), Other("delete")}

\* Two uploads of the same bytes, sent with different Content-Types.
TypeJobs == {Put(<<c1>>, raw), Put(<<c1>>, zstd)}

\* Two uploads of different length to one key.
LengthJobs == {Put(<<c1>>, raw), Put(<<c1, c1>>, raw)}

\* Four scenarios of one run: three requests of CopyJobs with a copy; an upload, its overwrite
\* and a DELETE, so that two of them release one manifest; an upload of two chunks
\* and another write; or two requests of RepeatJobs with a second GC cycle triggered by
\* the admin.  A request with the job Absent never arrives.
Absent == Copy(o2, o1)
AllJobs == Pairs \cup CopyJobs \cup RepeatJobs \cup {Absent}
Sent == {u \in Requests : job[u] # Absent}
TwoChunks == {u \in Requests : job[u] = Put(<<c2, c1>>, raw)}

Scenario ==
    \/ /\ \A u \in Requests : job[u] \in CopyJobs
       /\ \E u \in Requests : job[u] = Copy(o1, o2)
    \/ \E u \in Requests :
          job[u] = Other("delete") /\ \A v \in Requests \ {u} : job[v] = Put(<<c1>>, raw)
    \/ /\ Cardinality(Sent) = 2
       /\ \/ \A u \in Sent : job[u] \in RepeatJobs
          \/ Cardinality(TwoChunks) = 1 /\ \A u \in Sent : job[u] \in Pairs

\* The requests and cycles of a scenario.
Arrivals ==
    /\ \A u \in Requests \ Sent : pc[u] = "idle"
    /\ \/ \E u \in Sent : job[u] = Put(<<c1, c1>>, raw)
       \/ \A g \in Runners \ {gc} : gcPc[g] = "idle"

Arrive == Arrivals'

MCInit == Init /\ Scenario
MCSpec == MCInit /\ [][Next]_vars

(* Liveness.  Two requests and a restart, with GETs beside a single upload; an upload that
   repeats a chunk; or three requests, so that two of them find rows on the key and wait for
   each other's row locks. *)
Upload == Put(<<c1>>, raw)
Repeat == Put(<<c1, c1>>, raw)
Sends(a, b, c) == job[r1] = a /\ job[r2] = b /\ job[r3] = c

LiveJobs == {Upload, Repeat, Other("delete"), Other("plain"), Absent}

LiveScenario ==
    \/ \E j \in {Upload, Other("delete"), Other("plain")} : Sends(Upload, j, Absent)
    \/ Sends(Repeat, Other("delete"), Absent)
    \/ \E j \in {Upload, Other("delete")} : Sends(Upload, j, Other("plain"))

\* The constraint holds back only steps without fairness: a request's arrival, a restart, a
\* cache load.
LiveArrivals ==
    /\ \A u \in Requests \ Sent : pc[u] = "idle"
    /\ Cardinality(Sent) = 3 => crashes = 0
    /\ Cardinality(Sent) = 3 \/ job[r2] = Upload => loads = {}

LiveArrive == LiveArrivals'

MCLiveInit == Init /\ LiveScenario
MCLiveSpec == MCLiveInit /\ [][Next]_vars /\ Fairness

Symmetry == Permutations(Requests)
=============================================================================
