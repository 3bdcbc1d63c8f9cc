---------------------------- MODULE JobLifecycle ----------------------------
(***************************************************************************)
(* What queue_manager.py promises its callers, job by job: the lifecycle   *)
(* of its header comment,                                                  *)
(*    PUSH -> queued -> CLAIM -> processing -> ACK (completed)             *)
(*                                          -> FAIL -> queued again        *)
(*                                                  -> dead                *)
(* with a replay from the dead-letter queue and, because two of the        *)
(* operations are two Redis commands each, one way to lose a job.          *)
(***************************************************************************)
CONSTANT Jobs
VARIABLE status

States == {"new", "queued", "processing", "completed", "dead", "lost"}

Init == status = [j \in Jobs |-> "new"]

Move(j, from, to) ==
  /\ status[j] \in from
  /\ status' = [status EXCEPT ![j] = to]

Push(j)     == Move(j, {"new"}, "queued")
Claim(j)    == Move(j, {"queued"}, "processing")
Complete(j) == Move(j, {"processing"}, "completed")
Requeue(j)  == Move(j, {"processing"}, "queued")
Bury(j)     == Move(j, {"processing"}, "dead")
Replay(j)   == Move(j, {"dead"}, "queued")
Lose(j)     == Move(j, {"processing", "dead"}, "lost")
\* The acknowledgement went through but was answered by an error, or the
\* hand-off after it was: the job is failed although it is completed.
Reopen(j)   == \/ Move(j, {"completed"}, "queued")
               \/ Move(j, {"completed"}, "dead")
\* A reopened job that is then lost was completed all the same.
Reclose(j)  == Move(j, {"dead"}, "completed")

Next == \E j \in Jobs :
  \/ Push(j) \/ Claim(j) \/ Complete(j) \/ Requeue(j)
  \/ Bury(j) \/ Replay(j) \/ Lose(j) \/ Reopen(j) \/ Reclose(j)

Spec == Init /\ [][Next]_status
=============================================================================
