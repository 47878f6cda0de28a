----------------------------- MODULE MCMetering -----------------------------
(* A small instance of Metering for TLC. *)
EXTENDS Metering, TLC

Budget(from, requests, stops, faults) ==
    [from |-> from, requests |-> requests, stops |-> stops, faults |-> faults]

\* A stop and a failed call among the reports of two days; a stop while two flushes
\* overlap and a day ends; a stop and a failed call while a single flush runs; two
\* stops.
MCBudgets == {Budget(1, 0, 1, 1), Budget(2, 2, 1, 0), Budget(2, 1, 1, 1), Budget(1, 1, 0, 1),
              Budget(1, 0, 2, 0)}
=============================================================================
