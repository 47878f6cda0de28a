----------------------------- MODULE MCVersions -----------------------------
(* Small instances of Versions for TLC. *)
EXTENDS Versions, TLC

Put == [op |-> "put", bypass |-> FALSE, retain |-> None]
Sealed == [Put EXCEPT !.retain = [mode |-> "COMPLIANCE", until |-> 1]]

AllJobs ==
    {Put, Sealed, [op |-> "delete", bypass |-> FALSE], [op |-> "batch", bypass |-> TRUE],
     [op |-> "deleteVersion"], [op |-> "copy"],
     [op |-> "retain", retain |-> [mode |-> "GOVERNANCE", until |-> 1]],
     [op |-> "retain", retain |-> [mode |-> "COMPLIANCE", until |-> 2]]}

Symmetry == Permutations(Requests)
=============================================================================
