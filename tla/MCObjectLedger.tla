--------------------------- MODULE MCObjectLedger ---------------------------
(* Small instances of ObjectLedger for TLC. *)
EXTENDS ObjectLedger, TLC

CONSTANTS o1, o2

Job(op, key, n) == [op |-> op, key |-> key, src |-> o1, size |-> n]

\* Every write and DELETE of a key, and copies of it while it changes size.
AllJobs == {Job("put", o1, 1), Job("put", o1, 2), Job("chunked", o1, 1), Job("complete", o1, 1),
            Job("copy", o2, 0), Job("delete", o1, 0), Job("marker", o2, 0)}

\* A chunked and a whole-object PUT of one key.
MixedJobs == {Job("put", o1, 1), Job("chunked", o1, 1)}

Symmetry == Permutations(Requests)
=============================================================================
