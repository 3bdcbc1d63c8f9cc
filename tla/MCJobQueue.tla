----------------------------- MODULE MCJobQueue -----------------------------
(* Instances of JobQueue small enough for TLC. *)
EXTENDS JobQueue, TLC

CONSTANTS j1, j2

TwoJobs == {j1, j2}
NoJobs  == {}
BadJob  == {j1}
=============================================================================
