---------------------------- MODULE MCMultipart ----------------------------
(* Small instances of Multipart for TLC. *)
EXTENDS Multipart, TLC

CONSTANTS r1, r2, r3, a, b

PartJob(n, x, k) == [op |-> "part", part |-> n, letter |-> x, size |-> k]
Complete == [op |-> "complete"]
Abort == [op |-> "abort"]

AllJobs == {PartJob(1, a, 1), PartJob(2, b, 1), PartJob(2, b, 2), Complete, Abort}

\* One part, sent again with other contents.
ResendJobs == {PartJob(1, a, 1), PartJob(1, b, 2)}

\* Requests are interchangeable: one representative of each choice of jobs in
\* which something is uploaded and something ends the upload.
OneOfEach ==
    \/ job[r1] = PartJob(1, a, 1) /\ job[r2] = PartJob(2, b, 1) /\ job[r3] = Complete
    \/ job[r1] = PartJob(1, a, 1) /\ job[r2] = PartJob(2, b, 2) /\ job[r3] = Abort
    \/ job[r1] = PartJob(2, b, 2) /\ job[r2] = Complete /\ job[r3] \in {Complete, Abort}
    \/ job[r1] = PartJob(1, a, 1) /\ job[r2] = PartJob(1, a, 1) /\ job[r3] = Abort

MCInit == Init /\ OneOfEach
MCSpec == MCInit /\ [][Next]_vars /\ Fairness
=============================================================================
