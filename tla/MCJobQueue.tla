---------------------------- MODULE MCJobQueue -----------------------------
(* Instances of JobQueue for TLC.                                          *)
EXTENDS JobQueue

CONSTANTS j1, j2

\* The kinds' own limits: one attempt less than the column default of the instance.
MCKindAttempts == [j \in Jobs |-> 1]
=============================================================================
