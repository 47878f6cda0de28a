------------------------------ MODULE MCEngine ------------------------------
(* A small instance of Engine for TLC. *)
EXTENDS Engine, TLC

CONSTANTS local, hot, cold, r1, r2, r3

Stream == [op |-> "put", class |-> None, region |-> None, seekable |-> FALSE]
ToLocal == [Stream EXCEPT !.class = local, !.seekable = TRUE]
ToRegion == [Stream EXCEPT !.region = hot]
Uploads == {Stream, ToLocal, ToRegion}
Read == [op |-> "get", range |-> FALSE]
Part == [op |-> "get", range |-> TRUE]
Delete == [op |-> "delete"]

\* A request with the job Absent never arrives.
Absent == [Stream EXCEPT !.class = hot]
AllJobs == Uploads \cup {Read, Part, Delete, Absent}

\* Two requests that overlap; or two uploads and a ranged GET one after the other, across a
\* restart and changes of the primary.
Serial == job[r3] # Absent
Sends(a, b, c) == job[r1] = a /\ job[r2] = b /\ job[r3] = c

Scenario ==
    \/ \E j \in {Stream, ToLocal, ToRegion, Read, Delete} : Sends(Stream, j, Absent)
    \/ \E j \in {Read, Delete} : Sends(ToLocal, j, Absent)
    \/ Sends(ToRegion, Read, Absent)
    \/ \E j \in {Stream, ToRegion} : Sends(ToLocal, j, Part)

Running == {r \in Requests : pc[r] \notin Ended}
Arrivals ==
    /\ ~Serial => pc[r3] = "idle" /\ restarts = 0 /\ Cardinality(gone) <= 1
    /\ Serial => Cardinality(Running) <= 1 /\ gone = {}

\* The environment: breakers recover where requests overlap, the primary changes where they
\* do not.
Quiet ==
    /\ Arrivals'
    /\ primary' # primary => Serial /\ Running = {}
    /\ \A b \in Backends : fails'[b] = fails[b] - 1 /\ pc' = pc => ~Serial /\ b \in Flaky
    /\ cooled' # cooled => ~Serial

MCInit == Init /\ Scenario
MCSpec == MCInit /\ [][Next]_vars
=============================================================================
