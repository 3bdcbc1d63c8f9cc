------------------------------ MODULE JobQueue ------------------------------
(***************************************************************************)
(* One Redis job queue of queue_manager.py with the single consumer that   *)
(* drains it, its producers, the watchdog that restarts the consumer and   *)
(* the two recovery sweeps.  Every action is one Redis command or one      *)
(* MULTI pipeline: that is the granularity at which the processes          *)
(* interleave and at which one of them may die.                            *)
(*                                                                         *)
(* The three kinds of consumer differ only in what happens around the      *)
(* queue operations, so they are one module with Queue as a parameter:     *)
(*   "QUEUE_VISION"   frame_worker.py   two lanes, DLQ replay, hand-off    *)
(*   "QUEUE_ANALYZE"  model_manager.py  one lane                           *)
(*   "QUEUE_OMNI"     omni_engine.py    two lanes, sweeps its own orphans, *)
(*                                      exits when the CUDA context dies   *)
(***************************************************************************)
EXTENDS Naturals, Sequences, SequencesExt

CONSTANTS
  Jobs,           \* job ids ever pushed
  Malformed,      \* the ones whose payload lacks msg_id or path
  Queue,          \* which consumer this is
  MaxRetries,     \* MAX_RETRIES
  MaxRecoveries,  \* max_recoveries of the engine's own sweep
  MaxKills,       \* bound: process deaths and session reboots
  MaxFaults,      \* bound: Redis errors seen by a client
  MaxReplays      \* bound: dead letters replayed

ASSUME QueueAssumption ==
  /\ Queue \in {"QUEUE_VISION", "QUEUE_ANALYZE", "QUEUE_OMNI"}
  /\ Malformed \subseteq Jobs
  /\ MaxRetries \in Nat /\ MaxRecoveries \in Nat
  /\ MaxKills \in Nat /\ MaxFaults \in Nat /\ MaxReplays \in Nat

VARIABLES
  prio, default,  \* the two lanes; LPUSH appends here, RPOP takes the head
  processing,     \* {QUEUE}_PROCESSING, the in-flight envelopes
  dlq,            \* {QUEUE}_DLQ
  pc,             \* where the consumer process stands
  hand,           \* the envelope its handler holds: {} or a singleton
  replaying,      \* the envelope a replay has popped and not yet pushed
  budget,         \* what is left of the three bounds
  pushed,         \* history: ids handed to push_job
  completed,      \* history: ids some ack_job went through for
  handed,         \* history: ids whose follow-up job was pushed
  failures,       \* history: fail_job calls per id since push or replay
  cudaDeaths,     \* history: times the job took the engine down
  uncounted       \* history: recoveries that left no trace in the envelope

lanes == <<prio, default>>
books == <<pushed, completed, handed, failures, cudaDeaths, uncounted>>
vars  == <<prio, default, processing, dlq, pc, hand, replaying, budget,
           pushed, completed, handed, failures, cudaDeaths, uncounted>>

-----------------------------------------------------------------------------
(* Types and helpers *)

Envelope == [job: Jobs, retries: Nat, recoveries: Nat]
FreshBare(j) == [job |-> j, recoveries |-> 0]  \* mutant: no retry count
Fresh(j) == [job |-> j, retries |-> 0, recoveries |-> 0]

TwoLanes     == Queue # "QUEUE_ANALYZE"
SweepsItself == Queue = "QUEUE_OMNI"
HandsOff     == Queue = "QUEUE_VISION"

\* The handler's control points, from the claim to the end of the job.
Busy == {"claimed", "working", "done", "acked", "failed", "removed"}
Pcs  == Busy \cup {"idle", "blocking", "down", "sweep", "moved", "boot"}

JobsIn(s)     == {s[i].job : i \in 1 .. Len(s)}
JobsOf(S)     == {e.job : e \in S}
Queued        == JobsIn(prio) \cup JobsIn(default)
\* Taken off PROCESSING by fail_job and not yet pushed anywhere.
Limbo         == IF pc = "removed" THEN JobsOf(hand) ELSE {}
\* Moved by the engine's sweep, not yet recounted.
Swept         == IF pc = "moved" THEN JobsOf(hand) ELSE {}
Dead          == JobsIn(dlq) \cup JobsOf(replaying)
Lost          == pushed \ (Queued \cup JobsOf(processing) \cup Dead
                                  \cup Limbo \cup completed)
Spend(what)   == /\ budget[what] > 0
                 /\ budget' = [budget EXCEPT ![what] = @ - 1]

Init ==
  /\ prio = <<>> /\ default = <<>> /\ dlq = <<>>
  /\ processing = {} /\ hand = {} /\ replaying = {}
  /\ pc = "down"
  /\ budget = [kill |-> MaxKills, fault |-> MaxFaults, replay |-> MaxReplays]
  /\ pushed = {} /\ completed = {} /\ handed = {}
  /\ failures = [j \in Jobs |-> 0]
  /\ cudaDeaths = [j \in Jobs |-> 0]
  /\ uncounted = [j \in Jobs |-> 0]

-----------------------------------------------------------------------------
(* Producers *)

\* push_job: envelope, state hash and counter travel in one pipeline.  The
\* producers run in ui_server and in the bot; a session reboot stops them.
Push(j, isPriority) ==
  /\ pc # "boot"
  /\ j \notin pushed
  /\ pushed' = pushed \cup {j}
  /\ IF isPriority /\ TwoLanes
       THEN /\ prio' = Append(prio, Fresh(j))
            /\ UNCHANGED default
       ELSE /\ default' = Append(default, Fresh(j))
            /\ UNCHANGED prio
  /\ UNCHANGED <<processing, dlq, pc, hand, replaying, budget, completed,
                 handed, failures, cudaDeaths, uncounted>>

-----------------------------------------------------------------------------
(* Claim *)

\* mutant: the pop of v2, with no copy in PROCESSING
TakeOnly(e) ==
  /\ processing' = processing
  /\ hand' = {e}
  /\ pc' = "claimed"

Take(e) ==
  /\ processing' = processing \cup {e}
  /\ hand' = {e}
  /\ pc' = "claimed"

\* RPOPLPUSH on the priority lane, not blocking.
ClaimPriority ==
  /\ pc = "idle" /\ TwoLanes /\ prio # <<>>
  /\ Take(Head(prio))
  /\ prio' = Tail(prio)
  /\ UNCHANGED <<default, dlq, replaying, budget, books>>

\* mutant: loops on the priority lane
PriorityEmptySpins ==
  /\ pc = "idle" /\ (TwoLanes => prio = <<>>)
  /\ UNCHANGED vars

\* It came back empty, or the queue has no such lane: go and block.
PriorityEmpty ==
  /\ pc = "idle" /\ (TwoLanes => prio = <<>>)
  /\ pc' = "blocking"
  /\ UNCHANGED <<lanes, processing, dlq, hand, replaying, budget, books>>

\* BRPOPLPUSH on the default lane.  The priority lane is not looked at again.
ClaimDefault ==
  /\ pc = "blocking" /\ default # <<>>
  /\ Take(Head(default))
  /\ default' = Tail(default)
  /\ UNCHANGED <<prio, dlq, replaying, budget, books>>

ClaimTimeout ==
  /\ pc = "blocking" /\ default = <<>>
  /\ pc' = "idle"
  /\ UNCHANGED <<lanes, processing, dlq, hand, replaying, budget, books>>

\* The lease hash is written after the move.  Nothing ever reads it.
StampLease ==
  /\ pc = "claimed"
  /\ pc' = "working"
  /\ UNCHANGED <<lanes, processing, dlq, hand, replaying, budget, books>>

\* A Redis error inside claim_job once the move has been applied: every loop
\* logs it and claims again, and the entry stays in PROCESSING with nobody.
ClaimError ==
  /\ pc = "claimed" /\ Spend("fault")
  /\ pc' = "idle" /\ hand' = {}
  /\ UNCHANGED <<lanes, processing, dlq, replaying, books>>

-----------------------------------------------------------------------------
(* Work, ack, hand-off *)

\* frame_worker does not work on a payload without msg_id or path: it acks it.
Discards == HandsOff /\ JobsOf(hand) \cap Malformed # {}

WorkOk ==
  /\ pc = "working" /\ ~Discards
  /\ pc' = "done"
  /\ UNCHANGED <<lanes, processing, dlq, hand, replaying, budget, books>>

\* Entering fail_job, whatever raised.
EnterFail ==
  /\ pc' = "failed"
  /\ failures' = [j \in Jobs |-> failures[j] + IF j \in JobsOf(hand) THEN 1 ELSE 0]

WorkFails ==
  /\ pc = "working" /\ ~Discards
  /\ EnterFail
  /\ UNCHANGED <<lanes, processing, dlq, hand, replaying, budget, pushed,
                 completed, handed, cudaDeaths, uncounted>>

\* mutant: the LREM is left out of the pipeline
SettleUnlisted ==
  /\ processing' = processing
  /\ completed' = completed \cup JobsOf(hand)

Settle ==
  /\ processing' = processing \ hand
  /\ completed' = completed \cup JobsOf(hand)

\* ack_job: one pipeline.  frame_worker goes on to the hand-off; a malformed
\* payload is acked unworked and goes no further.
Ack ==
  /\ \/ pc = "done"
     \/ pc = "working" /\ Discards
  /\ Settle
  /\ IF HandsOff /\ pc = "done"
       THEN pc' = "acked" /\ UNCHANGED hand
       ELSE pc' = "idle" /\ hand' = {}
  /\ UNCHANGED <<lanes, dlq, replaying, budget, pushed, handed,
                 failures, cudaDeaths, uncounted>>

\* The reply to the pipeline is lost; the broad except calls fail_job.
AckError(applied) ==
  /\ pc = "done" /\ Spend("fault")
  /\ IF applied THEN Settle ELSE UNCHANGED <<processing, completed>>
  /\ EnterFail
  /\ UNCHANGED <<lanes, dlq, hand, replaying, pushed, handed,
                 cudaDeaths, uncounted>>

\* Discarding happens outside that try block: the error ends the process.
DiscardError(applied) ==
  /\ pc = "working" /\ Discards /\ Spend("fault")
  /\ IF applied THEN Settle ELSE UNCHANGED <<processing, completed>>
  /\ pc' = "down" /\ hand' = {}
  /\ UNCHANGED <<lanes, dlq, replaying, pushed, handed, failures,
                 cudaDeaths, uncounted>>

HandOff ==
  /\ pc = "acked"
  /\ handed' = handed \cup JobsOf(hand)
  /\ pc' = "idle" /\ hand' = {}
  /\ UNCHANGED <<lanes, processing, dlq, replaying, budget, pushed, completed,
                 failures, cudaDeaths, uncounted>>

\* push_job raises inside the same try block, so the acked job is failed.
HandOffError(applied) ==
  /\ pc = "acked" /\ Spend("fault")
  /\ handed' = IF applied THEN handed \cup JobsOf(hand) ELSE handed
  /\ EnterFail
  /\ UNCHANGED <<lanes, processing, dlq, hand, replaying, pushed, completed,
                 cudaDeaths, uncounted>>

-----------------------------------------------------------------------------
(* Fail: LREM on its own, then a pipeline that pushes the envelope back *)

\* mutant: the entry stays in PROCESSING
FailRemoveNot ==
  /\ pc = "failed"
  /\ pc' = "removed"
  /\ UNCHANGED <<lanes, processing, dlq, hand, replaying, budget, books>>

FailRemove ==
  /\ pc = "failed"
  /\ processing' = processing \ hand
  /\ pc' = "removed"
  /\ UNCHANGED <<lanes, dlq, hand, replaying, budget, books>>

\* mutant: the retry is not counted
RetryUncounted(e) ==
  /\ e.retries < MaxRetries
  /\ default' = Append(default, e)
  /\ UNCHANGED dlq

Retry(e) ==
  /\ e.retries < MaxRetries
  /\ default' = Append(default, [e EXCEPT !.retries = @ + 1])
  /\ UNCHANGED dlq

Bury(e) ==
  /\ e.retries >= MaxRetries
  /\ dlq' = Append(dlq, e)
  /\ UNCHANGED default

FailPush ==
  /\ pc = "removed"
  /\ \E e \in hand : Retry(e) \/ Bury(e)
  /\ pc' = "idle" /\ hand' = {}
  /\ UNCHANGED <<prio, processing, replaying, budget, books>>

\* A Redis error in fail_job escapes the handler: the v1 workers die of it,
\* the engine's outer except swallows it.
AfterEscape == /\ pc' = IF SweepsItself THEN "idle" ELSE "down"
               /\ hand' = {}

FailRemoveError(applied) ==
  /\ pc = "failed" /\ Spend("fault")
  /\ processing' = IF applied THEN processing \ hand ELSE processing
  /\ AfterEscape
  /\ UNCHANGED <<lanes, dlq, replaying, books>>

FailPushError(applied) ==
  /\ pc = "removed" /\ Spend("fault")
  /\ IF applied THEN \E e \in hand : Retry(e) \/ Bury(e)
                ELSE UNCHANGED <<default, dlq>>
  /\ AfterEscape
  /\ UNCHANGED <<prio, processing, replaying, books>>

-----------------------------------------------------------------------------
(* Death, restart, recovery *)

\* The envelope a sweep has moved but not yet rewritten keeps its old count.
LoseCount ==
  uncounted' = [j \in Jobs |->
                  uncounted[j] + IF pc = "moved" /\ j \in JobsOf(hand) THEN 1 ELSE 0]

\* The process dies between any two of its commands.
Kill ==
  /\ pc \notin {"down", "boot"} /\ Spend("kill")
  /\ pc' = "down" /\ hand' = {}
  /\ LoseCount
  /\ UNCHANGED <<lanes, processing, dlq, replaying, pushed, completed,
                 handed, failures, cudaDeaths>>

\* _die_if_cuda_lost: os._exit before fail_job, the entry stays in PROCESSING.
CudaLost ==
  /\ SweepsItself /\ pc = "working"
  /\ pc' = "down" /\ hand' = {}
  /\ cudaDeaths' = [j \in Jobs |-> cudaDeaths[j] + IF j \in JobsOf(hand) THEN 1 ELSE 0]
  /\ UNCHANGED <<lanes, processing, dlq, replaying, budget, pushed, completed,
                 handed, failures, uncounted>>

\* mutant: the engine starts without its sweep
RestartUnswept ==
  /\ pc = "down"
  /\ pc' = "idle"
  /\ UNCHANGED <<lanes, processing, dlq, hand, replaying, budget, books>>

\* run_with_watchdog relaunches it; only the engine sweeps before working.
Restart ==
  /\ pc = "down"
  /\ pc' = IF SweepsItself THEN "sweep" ELSE "idle"
  /\ UNCHANGED <<lanes, processing, dlq, hand, replaying, budget, books>>

\* RPOPLPUSH PROCESSING -> default lane.
SweepMove(e) ==
  /\ pc = "sweep"
  /\ processing' = processing \ {e}
  /\ default' = Append(default, e)
  /\ hand' = {e} /\ pc' = "moved"
  /\ UNCHANGED <<prio, dlq, replaying, budget, books>>

\* LREM ... 1 takes the entry nearest to the end LPUSH adds to.
LRem(s, e) ==
  LET last == CHOOSE k \in 1 .. Len(s) :
                s[k] = e /\ \A i \in 1 .. Len(s) : i > k => s[i] # e
  IN IF e \in ToSet(s)
       THEN [i \in 1 .. Len(s) - 1 |-> IF i < last THEN s[i] ELSE s[i + 1]]
       ELSE s

\* mutant: the recovery is not counted
SweepForgets ==
  /\ pc = "moved"
  /\ pc' = "sweep" /\ hand' = {}
  /\ UNCHANGED <<lanes, dlq, processing, replaying, budget, books>>

\* LREM the copy just moved and push the recounted one, in one pipeline.
SweepRewrite ==
  /\ pc = "moved"
  /\ \E e \in hand :
       LET seen == [e EXCEPT !.recoveries = @ + 1]
           rest == LRem(default, e)
       IN IF seen.recoveries > MaxRecoveries
            THEN dlq' = Append(dlq, seen) /\ default' = rest
            ELSE default' = Append(rest, seen) /\ UNCHANGED dlq
  /\ pc' = "sweep" /\ hand' = {}
  /\ UNCHANGED <<prio, processing, replaying, budget, books>>

SweepEnd ==
  /\ pc = "sweep" /\ processing = {}
  /\ pc' = "idle"
  /\ UNCHANGED <<lanes, processing, dlq, hand, replaying, budget, books>>

\* "Orphan recovery skipped": the engine goes on without it.
SweepError ==
  /\ pc \in {"sweep", "moved"} /\ Spend("fault")
  /\ pc' = "idle" /\ hand' = {}
  /\ LoseCount
  /\ UNCHANGED <<lanes, processing, dlq, replaying, pushed, completed,
                 handed, failures, cudaDeaths>>

\* boot.py runs again in the same session: the consumer is gone, and so is
\* ui_server (if it was replaying, ReplayDies comes first).
Reboot ==
  /\ pc # "boot" /\ replaying = {} /\ Spend("kill")
  /\ pc' = "boot" /\ hand' = {}
  /\ LoseCount
  /\ UNCHANGED <<lanes, processing, dlq, replaying, pushed, completed,
                 handed, failures, cudaDeaths>>

\* Its sweep has no max_recoveries and leaves the envelope as it was.
BootMove(e) ==
  /\ pc = "boot"
  /\ processing' = processing \ {e}
  /\ default' = Append(default, e)
  /\ uncounted' = [uncounted EXCEPT ![e.job] = @ + 1]
  /\ UNCHANGED <<prio, dlq, pc, hand, replaying, budget, pushed, completed,
                 handed, failures, cudaDeaths>>

BootDone ==
  /\ pc = "boot" /\ processing = {}
  /\ pc' = "down"
  /\ UNCHANGED <<lanes, processing, dlq, hand, replaying, budget, books>>

\* "Recovery skipped": the session starts without the rest of the sweep.
BootSkip ==
  /\ pc = "boot" /\ Spend("fault")
  /\ pc' = "down"
  /\ UNCHANGED <<lanes, processing, dlq, hand, replaying, books>>

-----------------------------------------------------------------------------
(* DLQ replay, offered for QUEUE_VISION only: RPOP, then LPUSH *)

ReplayPop ==
  /\ HandsOff /\ pc # "boot" /\ replaying = {} /\ dlq # <<>> /\ Spend("replay")
  /\ replaying' = {Head(dlq)}
  /\ dlq' = Tail(dlq)
  /\ UNCHANGED <<lanes, processing, pc, hand, books>>

ReplayPush ==
  /\ \E e \in replaying :
       /\ default' = Append(default, [e EXCEPT !.retries = 0])
       /\ failures' = [failures EXCEPT ![e.job] = 0]
  /\ replaying' = {}
  /\ UNCHANGED <<prio, processing, dlq, pc, hand, budget, pushed, completed,
                 handed, cudaDeaths, uncounted>>

\* ui_server dies between the two commands of a replay.
ReplayDies ==
  /\ replaying # {} /\ Spend("kill")
  /\ replaying' = {}
  /\ UNCHANGED <<lanes, processing, dlq, pc, hand, books>>

-----------------------------------------------------------------------------

Producer == \E j \in Jobs, isPriority \in BOOLEAN : Push(j, isPriority)

\* What the running process does by itself.
Consumer ==
  \/ ClaimPriority \/ PriorityEmpty \/ ClaimDefault \/ ClaimTimeout
  \/ StampLease \/ WorkOk \/ WorkFails \/ Ack \/ HandOff
  \/ FailRemove \/ FailPush

Watchdog ==
  \/ Restart \/ SweepRewrite \/ SweepEnd \/ BootDone
  \/ \E e \in processing : SweepMove(e) \/ BootMove(e)

Failure ==
  \/ Kill \/ CudaLost \/ Reboot \/ ReplayDies \/ ClaimError \/ SweepError
  \/ BootSkip
  \/ \E applied \in BOOLEAN :
       \/ AckError(applied) \/ DiscardError(applied) \/ HandOffError(applied)
       \/ FailRemoveError(applied) \/ FailPushError(applied)

Next == Producer \/ Consumer \/ Watchdog \/ Failure \/ ReplayPop \/ ReplayPush

Spec == Init /\ [][Next]_vars

\* The loops never stop by themselves and the watchdog always restarts them.
FairSpec == Spec /\ WF_vars(Consumer) /\ WF_vars(Watchdog)

-----------------------------------------------------------------------------
(* Properties *)

TypeOK ==
  /\ prio \in Seq(Envelope) /\ default \in Seq(Envelope) /\ dlq \in Seq(Envelope)
  /\ processing \subseteq Envelope /\ hand \subseteq Envelope
  /\ replaying \subseteq Envelope
  /\ pc \in Pcs
  /\ budget \in [{"kill", "fault", "replay"} -> Nat]
  /\ pushed \subseteq Jobs
  /\ completed \subseteq Jobs /\ handed \subseteq Jobs
  /\ failures \in [Jobs -> Nat] /\ cudaDeaths \in [Jobs -> Nat]
  /\ uncounted \in [Jobs -> Nat]

\* No job is ever in two places.  LREM and RPOPLPUSH work on the serialised
\* envelope, so a second copy of a job anywhere would be claimed and run next
\* to the first; the crash windows of claim, fail, sweep and replay must never
\* leave one behind.
Distinct(s) == \A i, k \in 1 .. Len(s) : s[i].job = s[k].job => i = k
SingleCopy ==
  /\ Distinct(prio) /\ Distinct(default) /\ Distinct(dlq)
  /\ \A e, f \in processing : e.job = f.job => e = f
  /\ JobsIn(prio) \cap JobsIn(default) = {}
  /\ Queued \cap (JobsOf(processing) \cup Dead \cup Limbo) = {}
  /\ JobsOf(processing) \cap (Dead \cup Limbo) = {}
  /\ Limbo \cap Dead = {}
  /\ JobsIn(dlq) \cap JobsOf(replaying) = {}

\* The handler and the lists agree.  From the claim until ack_job or fail_job
\* takes it off, the envelope the handler will hand to LREM is the one in
\* PROCESSING, so the LREM really removes it; from then on it is nowhere, so
\* pushing it back makes no second copy.  Only a job that was pushed is held.
Elsewhere(e) == e.job \in Queued \cup Dead
HandTracked ==
  /\ IF pc \in Busy \cup {"moved"} THEN \E e \in hand : hand = {e} ELSE hand = {}
  /\ pc \in {"claimed", "working", "done"} => hand \subseteq processing
  /\ pc \in {"acked", "removed"} => JobsOf(hand) \cap JobsOf(processing) = {}
  /\ pc = "failed" => \/ hand \subseteq processing
                     \/ JobsOf(hand) \cap JobsOf(processing) = {}
  /\ pc \in Busy => \A e \in hand : ~Elsewhere(e)
  /\ pc = "moved" => \A e \in hand : e \in ToSet(default)
  /\ Queued \cup JobsOf(processing) \cup Dead \cup JobsOf(hand) \subseteq pushed

\* fail_job gives up no later than it says: a job fails MaxRetries times and
\* once more, plus one time for each death or Redis error, which may hit
\* fail_job before the new count is written.
Misfortunes  == (MaxKills - budget.kill) + (MaxFaults - budget.fault)
TriesBounded == \A j \in Jobs : failures[j] <= MaxRetries + 1 + Misfortunes

\* And no sooner: a dead letter that is not a poison pill has had all its tries
\* since it was pushed or replayed.
DeadHadItsTries ==
  \A i \in 1 .. Len(dlq) : \/ failures[dlq[i].job] > MaxRetries
                           \/ dlq[i].recoveries > MaxRecoveries

\* fail_job gives up exactly when it says, no later and no sooner.
TriesExact == TriesBounded /\ DeadHadItsTries

\* The poison-pill guard of recover_processing_jobs: a job takes the engine
\* down at most MaxRecoveries + 1 times, not counting the recoveries whose
\* new count never reached Redis.
PoisonQuarantined ==
  \A j \in Jobs : cudaDeaths[j] <= MaxRecoveries + 1 + uncounted[j]

\* The crash windows are the two known ones.  A step that loses a job loses
\* the one fail_job has taken, or is taking, off PROCESSING, or the one
\* replay_dlq has popped; claim, ack and both sweeps never lose any.
FailWindow  == IF pc \in {"failed", "removed"} THEN JobsOf(hand) ELSE {}
LossWindows == [][Lost' \ Lost \subseteq FailWindow \cup JobsOf(replaying)]_vars

\* An acknowledged job does not run again, whatever died in between, unless the
\* acknowledgement or the hand-off was answered by an error; and frame_worker
\* has handed it on to the GPU stage unless a death came in between, too.
AckIsFinal ==
  budget.fault = MaxFaults =>
    /\ completed \cap (Queued \cup JobsOf(processing) \cup Dead) = {}
    /\ HandsOff /\ budget.kill = MaxKills =>
         completed \ Malformed \subseteq handed \cup JobsOf(hand)

Status == [j \in Jobs |->
  IF j \in Swept \cup (Limbo \ completed) THEN "processing"
  ELSE IF j \in Queued THEN "queued"
  ELSE IF j \in JobsOf(processing) THEN "processing"
  ELSE IF j \in Dead THEN "dead"
  ELSE IF j \in completed THEN "completed"
  ELSE IF j \in pushed THEN "lost" ELSE "new"]

\* The queue implements the lifecycle its header comment draws, whatever dies
\* in between.
Lifecycle == INSTANCE JobLifecycle WITH status <- Status
LifecycleSpec == Lifecycle!Spec

\* The queues run dry: in the end every pushed job is completed, dead-lettered
\* or, when a death hit fail_job, lost.  A job that kills the engine each time
\* it runs does not keep the others from running, and what the engine held when
\* it died is swept up, unless a Redis error hid it from a sweep; what the
\* other two consumers held stays in PROCESSING until boot.py runs again.
Over(j)  == Status[j] \in {"new", "completed", "dead", "lost"}
Stranded == IF SweepsItself /\ budget.fault = MaxFaults THEN {}
            ELSE JobsOf(processing \ hand)
Settles  == <>[](\A j \in Jobs : Over(j) \/ j \in Stranded)
=============================================================================
