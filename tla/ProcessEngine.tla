---------------------------- MODULE ProcessEngine ----------------------------
(***************************************************************************)
(* The sweep of vios/process/engine.py: one thread per lane, all in one    *)
(* process and over one coverage table and one evidence store.  With two   *)
(* lanes it is the DualGpuCoordinator of vios/process/lanes.py, each lane  *)
(* an engine with its own components.                                      *)
(*                                                                         *)
(* A lane rotates: plan, reclaim, revive and reconcile the table, then for *)
(* each cohort pick the videos with work, claim a video's passes at once,  *)
(* fetch its source, read the states of its rows ONCE, and run the passes  *)
(* in dependency order.  Between any two statements the other lane, the    *)
(* operator, the clock or a death may step in.                             *)
(***************************************************************************)
EXTENDS Coverage, Sequences

CONSTANTS
  Primary,       \* the lane whose start and stop govern the others
  Needs,         \* the passes a pass reads
  Writes,        \* the passes that write evidence rows; others make files
  Cohorts,       \* per lane, the sequence of sets that plan_cohorts packed;
                 \* a sweep with nothing to run returns at once
  Shards,        \* passes whose evidence the channel holds
  Inapplicable,  \* passes that do not apply to the video
  Declining,     \* passes whose runner turns a failure of its model into a skip
  Follow         \* keep watching when a rotation found no work

ASSUME EngineAssumption ==
  /\ Primary \in Lanes
  /\ Needs \in [Components -> SUBSET Components]
  /\ Writes \subseteq Components
  /\ Cohorts \in [Lanes -> Seq(SUBSET Components) \ {<<>>}]
  /\ \A l \in Lanes : \A i \in 1 .. Len(Cohorts[l]) :
       \A c \in Cohorts[l][i] : LaneOf[c] = l
  /\ Shards \subseteq Videos \X Writes
  /\ Inapplicable \subseteq Tasks /\ Declining \subseteq Components
  /\ Follow \in BOOLEAN

\* plan_cohorts packs each component of the order once.
ASSUME PackedOnce ==
  \A l \in Lanes : \A i, j \in 1 .. Len(Cohorts[l]) :
    i # j => Cohorts[l][i] \cap Cohorts[l][j] = {}

VARIABLES
  ev,      \* the evidence of a pass under its current observer; "empty" is
           \* none either, after a run that found nothing to emit
  lane,    \* per lane, the locals of its thread
  cause    \* history: why a pass was skipped, or that its row was reset

vars == <<row, held, budget, fails, ev, lane, cause>>

-----------------------------------------------------------------------------

Pcs == {"off", "restore", "plan", "reclaim", "revive", "reconcile", "scan",
        "pick", "fetch", "unfetched", "pass", "run", "store", "stored", "fail", "refuse"}
Outcomes == States \cup {"deferred", "none"}
Local  == [pc: Pcs, stop: BOOLEAN, cohort: Nat, worked: BOOLEAN,
           keys: SUBSET Videos, seen: SUBSET Videos, video: SUBSET Videos,
           todo: SUBSET Components, comp: SUBSET Components,
           snap: [Components -> Outcomes],
           decided: SUBSET Decisions,  \* what fail() made of the attempts it read
           blind: BOOLEAN]             \* the reconcile of this rotation raised
Nobody == [c \in Components |-> "none"]
Idle == [pc |-> "off", stop |-> FALSE, cohort |-> 0, worked |-> FALSE,
         keys |-> {}, seen |-> {}, video |-> {}, todo |-> {}, comp |-> {},
         snap |-> Nobody, decided |-> {}, blind |-> FALSE]

\* A session may open a database that other sessions left shards for, never
\* one with rows: Init is the first start of an account.
EngineInit ==
  /\ CoverageInit
  /\ ev = [t \in Tasks |-> "none"]
  /\ lane = [l \in Lanes |-> Idle]
  /\ cause = [t \in Tasks |-> "none"]

At(l, p)  == lane[l].pc = p
Goto(l, p) == lane' = [lane EXCEPT ![l].pc = p]
Cohort(l) == Cohorts[l][lane[l].cohort]
Stopping(l) == lane[l].stop
Ours(l)   == {c \in Components : LaneOf[c] = l}

-----------------------------------------------------------------------------
(* Start, stop *)

\* The coordinator starts the primary, which refuses unless it is idle; a
\* language lane that is still running refuses too and the primary is told to
\* stop again.  One step: what the primary sweeps between the two calls, before
\* it is told to stop, is left out.
Start ==
  /\ At(Primary, "off")
  /\ LET others == Lanes \ {Primary}
         busy   == \E l \in others : ~At(l, "off")
     IN lane' = [l \in Lanes |->
                   IF At(l, "off") THEN [Idle EXCEPT !.pc = "restore",
                                                     !.stop = (l = Primary /\ busy)]
                   ELSE lane[l]]
  /\ UNCHANGED <<tableVars, ev, cause>>

Stop ==
  /\ \E l \in Lanes : ~At(l, "off") /\ ~Stopping(l)
  /\ Disturb("operator")
  /\ lane' = [l \in Lanes |-> IF At(l, "off") THEN lane[l]
                              ELSE [lane[l] EXCEPT !.stop = TRUE]]
  /\ UNCHANGED <<row, held, fails, ev, cause>>

\* The evidence stays: only the work table forgets.
Reset(c) ==
  /\ ResetComponent(c)
  /\ cause' = [t \in Tasks |-> IF t[2] = c THEN "reset" ELSE cause[t]]
  /\ UNCHANGED <<ev, lane>>

\* The session is killed, or an exception ends one lane's sweep.
Crash(ls) ==
  /\ \E l \in ls : ~At(l, "off")
  /\ Die(ls)
  /\ lane' = [l \in Lanes |-> IF l \in ls THEN Idle ELSE lane[l]]
  /\ UNCHANGED <<ev, cause>>

-----------------------------------------------------------------------------
(* The preamble of a rotation *)

\* restore_shards: the evidence comes back, the work table does not change.
\* The scan may be stopped or fail part way.
Restore(l, S) ==
  /\ At(l, "restore")
  /\ ev' = [t \in Tasks |-> IF t \in S THEN "whole" ELSE ev[t]]
  /\ Goto(l, "plan")
  /\ UNCHANGED <<tableVars, cause>>

StopAtTop(l) ==
  /\ At(l, "plan") /\ Stopping(l)
  /\ lane' = [lane EXCEPT ![l] = Idle]
  /\ UNCHANGED <<tableVars, ev, cause>>

PlanRows(l) ==
  /\ At(l, "plan") /\ ~Stopping(l)
  /\ Plan(l)
  /\ Goto(l, "reclaim")
  /\ UNCHANGED <<ev, cause>>

Reclaim(l) ==
  /\ At(l, "reclaim")
  /\ ReclaimStale
  /\ Goto(l, "revive")
  /\ UNCHANGED <<ev, cause>>

Revive(l) ==
  /\ At(l, "revive")
  /\ ReviveFailed
  /\ Goto(l, "reconcile")
  /\ UNCHANGED <<ev, cause>>

Stored(t) == ev[t] \in {"part", "whole"}

\* Everything a pass reads, transitively.
Inputs(c) == {n \in Components :
  \A S \in SUBSET Components :
    Needs[c] \subseteq S /\ (\A m \in S : Needs[m] \subseteq S) => n \in S}

\* A pass that writes evidence is judged on its own, the others are inferred
\* from the passes that read them.
Proved(l) ==
  LET own == {t \in Of(l) : t[2] \in Writes /\ Stored(t)}
  IN own \cup {t \in Of(l) : /\ t[2] \notin Writes
                             /\ \E s \in own : s[1] = t[1] /\ t[2] \in Inputs(s[2])}

NewRotation(l, blind) == lane' = [lane EXCEPT ![l] =
  [@ EXCEPT !.pc = "scan", !.cohort = 1, !.worked = FALSE, !.seen = {}, !.blind = blind]]

ReconcileNow(l) ==
  /\ At(l, "reconcile")
  /\ Reconcile(l, Proved(l)) /\ UNCHANGED budget
  /\ NewRotation(l, FALSE)
  /\ UNCHANGED <<ev, cause>>

\* An exception is logged and the sweep goes on; some rows may have been written.
ReconcileFails(l) ==
  /\ At(l, "reconcile") /\ Disturb("reconcile")
  /\ \E some \in SUBSET {t \in Proved(l) : Reconcilable(row[t])} : Reconcile(l, some)
  /\ NewRotation(l, TRUE)
  /\ UNCHANGED <<ev, cause>>

-----------------------------------------------------------------------------
(* A cohort *)

Fresh(l) == Candidates(Cohort(l)) \ lane[l].seen

Scan(l) ==
  /\ At(l, "scan") /\ ~Stopping(l) /\ Fresh(l) # {}
  /\ lane' = [lane EXCEPT ![l].pc = "pick", ![l].keys = Fresh(l)]
  /\ UNCHANGED <<tableVars, ev, cause>>

NextCohort(x) == [x EXCEPT !.cohort = @ + 1, !.seen = {}]

\* The cohort is through, or the lane is stopping.
CohortEnds(l) ==
  /\ At(l, "scan") /\ (Stopping(l) \/ Fresh(l) = {})
  /\ lane' = [lane EXCEPT ![l] =
       IF Stopping(l) THEN Idle
       ELSE IF @.cohort < Len(Cohorts[l])
         THEN NextCohort(@)
       ELSE IF @.worked \/ Follow THEN [@ EXCEPT !.pc = "plan"]
       ELSE Idle]
  /\ UNCHANGED <<tableVars, ev, cause>>

\* The keys are as old as the scan; the claim looks again.
Claim(l, v) ==
  /\ At(l, "pick") /\ ~Stopping(l) /\ v \in lane[l].keys
  /\ LET next == [lane[l] EXCEPT !.keys = @ \ {v}, !.seen = @ \cup {v}]
     IN IF Taken(v, Cohort(l)) = {}
          THEN /\ lane' = [lane EXCEPT ![l] = next]
               /\ UNCHANGED tableVars
          ELSE /\ ClaimFor(l, v, Cohort(l))
               /\ lane' = [lane EXCEPT ![l] =
                    [next EXCEPT !.pc = "fetch", !.video = {v},
                                 !.todo = {t[2] : t \in Taken(v, Cohort(l))}]]
  /\ UNCHANGED <<ev, cause>>

KeysDone(l) ==
  /\ At(l, "pick") /\ (Stopping(l) \/ lane[l].keys = {})
  /\ Goto(l, "scan")
  /\ UNCHANGED <<tableVars, ev, cause>>

-----------------------------------------------------------------------------
(* A video *)

Task(l, c) == <<CHOOSE v \in lane[l].video : TRUE, c>>
Current(l) == CHOOSE t \in lane[l].video \X lane[l].comp : TRUE

\* topo_sort of what was claimed
Ready(l) == {c \in lane[l].todo : Needs[c] \cap lane[l].todo = {}}

\* The states of all its rows, those of the other lane included, read once.
Fetch(l) ==
  /\ At(l, "fetch")
  /\ \E v \in lane[l].video :
       lane' = [lane EXCEPT ![l].pc = "pass",
                            ![l].snap = [c \in Components |-> row[<<v, c>>].state]]
  /\ UNCHANGED <<tableVars, ev, cause>>

\* mutant: returns without failing what it claimed
FetchDrops(l) ==
  /\ At(l, "fetch")
  /\ lane' = [lane EXCEPT ![l].pc = "pick", ![l].video = {}, ![l].todo = {}]
  /\ UNCHANGED <<tableVars, ev, cause>>

FetchFails(l) ==
  /\ At(l, "fetch")
  /\ Goto(l, "unfetched")
  /\ UNCHANGED <<tableVars, ev, cause>>

NextVideo(x, worked) ==
  [x EXCEPT !.pc = "pick", !.video = {}, !.snap = Nobody, !.worked = @ \/ worked]
VideoOver(l, worked) == lane' = [lane EXCEPT ![l] = NextVideo(@, worked)]

\* fail() reads the attempts; what it decides on them it writes afterwards.
Decide(l, p, t) == [lane[l] EXCEPT !.pc = p, !.comp = {t[2]},
                                   !.decided = {Decided(row[t].attempts)}]

UnfetchedLooks(l) ==
  /\ At(l, "unfetched")
  /\ \E c \in Ready(l) : lane' = [lane EXCEPT ![l] = Decide(l, "refuse", Task(l, c))]
  /\ UNCHANGED <<tableVars, ev, cause>>

NextUnfetched(x) ==
  [x EXCEPT !.pc = "unfetched", !.todo = @ \ x.comp, !.comp = {}, !.decided = {}]

FailUnfetched(l) ==
  /\ At(l, "refuse")
  /\ \E d \in lane[l].decided : Fail(Current(l), d)
  /\ lane' = [lane EXCEPT ![l] = NextUnfetched(@)]
  /\ UNCHANGED <<ev, cause>>

UnfetchedOver(l) ==
  /\ At(l, "unfetched") /\ lane[l].todo = {}
  /\ VideoOver(l, FALSE)
  /\ UNCHANGED <<tableVars, ev, cause>>

PassesOver(l) ==
  /\ At(l, "pass") /\ lane[l].todo = {}
  /\ VideoOver(l, TRUE)
  /\ UNCHANGED <<tableVars, ev, cause>>

-----------------------------------------------------------------------------
(* A pass *)

\* The pass is finished; its outcome joins what was read of the video.
NextPass(x, c, outcome) ==
  [x EXCEPT !.pc = "pass", !.comp = {}, !.todo = @ \ {c}, !.snap[c] = outcome,
            !.decided = {}]
Finished(l, c, outcome) == lane' = [lane EXCEPT ![l] = NextPass(@, c, outcome)]

Broken(l, c)   == \E n \in Needs[c] : lane[l].snap[n] \in {"failed", "skipped"}
Deferred(l, c) == \E n \in Needs[c] : lane[l].snap[n] = "deferred"
Due(l, c)      == At(l, "pass") /\ c \in Ready(l)

GiveBack(l, c) ==
  /\ Due(l, c) /\ Stopping(l)
  /\ Release(Task(l, c))
  /\ lane' = [lane EXCEPT ![l].todo = @ \ {c}]
  /\ UNCHANGED <<ev, cause>>

\* mutant: a deferred input counts as one that produced nothing
GateSkipDeferred(l, c) ==
  /\ Due(l, c) /\ ~Stopping(l) /\ (Broken(l, c) \/ Deferred(l, c))
  /\ Skip(Task(l, c))
  /\ Finished(l, c, "skipped")
  /\ cause' = [cause EXCEPT ![Task(l, c)] = "gate"]
  /\ UNCHANGED ev

\* An input produced nothing for this video.
GateSkip(l, c) ==
  /\ Due(l, c) /\ ~Stopping(l) /\ Broken(l, c)
  /\ Skip(Task(l, c))
  /\ Finished(l, c, "skipped")
  /\ cause' = [cause EXCEPT ![Task(l, c)] = "gate"]
  /\ UNCHANGED ev

\* An input waits for a clock, and so does this pass.
GateDefer(l, c) ==
  /\ Due(l, c) /\ ~Stopping(l) /\ ~Broken(l, c) /\ Deferred(l, c)
  /\ Defer(Task(l, c)) /\ UNCHANGED budget
  /\ Finished(l, c, "deferred")
  /\ UNCHANGED <<ev, cause>>

Run(l, c) ==
  /\ Due(l, c) /\ ~Stopping(l) /\ ~Broken(l, c) /\ ~Deferred(l, c)
  /\ lane' = [lane EXCEPT ![l].pc = "run", ![l].comp = {c}]
  /\ cause' = [cause EXCEPT ![Task(l, c)] = "none"]
  /\ UNCHANGED <<tableVars, ev>>

RunRenews(l) ==
  /\ At(l, "run")
  /\ Renew(Current(l))
  /\ UNCHANGED <<ev, lane, cause>>

\* The runners raise SkipPass when the pass does not apply, when the claims they
\* read are not there, and some of them when their model cannot be loaded or
\* asked.  Files are rebuilt by _ensure_inputs.
Starved(t) == \E n \in Needs[t[2]] \cap Writes : ~Stored(<<t[1], n>>)
WhySkip(t) == {w \in {"inapplicable", "starved", "model"} :
                \/ w = "inapplicable" /\ t \in Inapplicable
                \/ w = "starved" /\ Starved(t)
                \/ w = "model" /\ t[2] \in Declining}

RunSkips(l) ==
  /\ At(l, "run")
  /\ Skip(Current(l))
  /\ Finished(l, Current(l)[2], "skipped")
  /\ \E w \in WhySkip(Current(l)) : cause' = [cause EXCEPT ![Current(l)] = w]
  /\ UNCHANGED ev

RunDefers(l) ==
  /\ At(l, "run")
  /\ Disturb("defer") /\ Defer(Current(l))
  /\ Finished(l, Current(l)[2], "deferred")
  /\ UNCHANGED <<ev, cause>>

\* A transient failure: defer() returns None and that is what the pass reports.
RunTransient(l) ==
  /\ At(l, "run")
  /\ Disturb("defer") /\ Defer(Current(l))
  /\ Finished(l, Current(l)[2], "none")
  /\ UNCHANGED <<ev, cause>>

\* While it runs, or because the store rejected the emission.
FailLooks(l) ==
  /\ At(l, "run") \/ At(l, "store")
  /\ lane' = [lane EXCEPT ![l] = Decide(l, "fail", Current(l))]
  /\ UNCHANGED <<tableVars, ev, cause>>

RunFails(l) ==
  /\ At(l, "fail")
  /\ \E d \in lane[l].decided : /\ Fail(Current(l), d)
                               /\ Finished(l, Current(l)[2], d.state)
  /\ UNCHANGED <<ev, cause>>

RunEmits(l) ==
  /\ At(l, "run") /\ Current(l) \notin Inapplicable
  /\ Goto(l, "store")
  /\ UNCHANGED <<tableVars, ev, cause>>

\* No text on the screen, no phrase twice: what was stored earlier stays.
RunEmitsNothing(l) ==
  /\ At(l, "run") /\ Current(l) \notin Inapplicable /\ Current(l)[2] \in Writes
  /\ ev' = IF ev[Current(l)] = "none" THEN [ev EXCEPT ![Current(l)] = "empty"] ELSE ev
  /\ Goto(l, "stored")
  /\ UNCHANGED <<tableVars, cause>>

\* Claims, vectors and metrics are committed one after the other.
StorePart(l) ==
  /\ At(l, "store") /\ Current(l)[2] \in Writes /\ ~Stored(Current(l))
  /\ ev' = [ev EXCEPT ![Current(l)] = "part"]
  /\ UNCHANGED <<tableVars, lane, cause>>

\* mutant: the row is marked done before the evidence is committed
StoreAllLate(l) ==
  /\ At(l, "store")
  /\ Goto(l, "stored")
  /\ UNCHANGED <<tableVars, ev, cause>>

StoreAll(l) ==
  /\ At(l, "store")
  /\ ev' = IF Current(l)[2] \in Writes THEN [ev EXCEPT ![Current(l)] = "whole"] ELSE ev
  /\ Goto(l, "stored")
  /\ UNCHANGED <<tableVars, cause>>

MarkDone(l) ==
  /\ At(l, "stored")
  /\ Done(Current(l))
  /\ Finished(l, Current(l)[2], "done")
  /\ cause' = [cause EXCEPT ![Current(l)] = "none"]
  /\ UNCHANGED ev

-----------------------------------------------------------------------------

\* What the thread of a lane does by itself.
Step(l) ==
  \/ \E S \in SUBSET Shards : Restore(l, S)
  \/ StopAtTop(l) \/ PlanRows(l) \/ Reclaim(l) \/ Revive(l) \/ ReconcileNow(l)
  \/ ReconcileFails(l)
  \/ Scan(l) \/ CohortEnds(l) \/ KeysDone(l) \/ \E v \in Videos : Claim(l, v)
  \/ Fetch(l) \/ FetchFails(l) \/ UnfetchedLooks(l) \/ FailUnfetched(l) \/ UnfetchedOver(l)
  \/ PassesOver(l)
  \/ \E c \in Components : GiveBack(l, c) \/ GateSkip(l, c) \/ GateDefer(l, c) \/ Run(l, c)
  \/ RunSkips(l) \/ RunDefers(l) \/ RunTransient(l) \/ FailLooks(l) \/ RunFails(l)
  \/ RunEmits(l) \/ RunEmitsNothing(l) \/ StorePart(l) \/ StoreAll(l) \/ MarkDone(l)

\* Time as it passes for everybody.
Clock(t) == /\ t \notin held
            /\ LeaseLapses(t) \/ BackoffElapses(t)
            /\ UNCHANGED <<ev, lane, cause>>

EngineNext ==
  \/ \E l \in Lanes : Step(l) \/ RunRenews(l)
  \/ Start \/ Stop \/ Crash(Lanes) \/ \E l \in Lanes : Crash({l})
  \/ \E t \in Tasks : (LeaseLapses(t) \/ BackoffElapses(t)) /\ UNCHANGED <<ev, lane, cause>>
  \/ \E cs \in SUBSET Components : Requeue(cs) /\ UNCHANGED <<ev, lane, cause>>
  \/ \E c \in Components : Reset(c)

EngineSpec == EngineInit /\ [][EngineNext]_vars

\* The threads run, a session that ended is started again (routes.autostart,
\* or the operator), leases lapse and backoffs end.
FairEngineSpec ==
  /\ EngineSpec
  /\ \A l \in Lanes : WF_vars(Step(l))
  /\ WF_vars(Start)
  /\ \A t \in Tasks : WF_vars(Clock(t))

-----------------------------------------------------------------------------
(* Properties *)

EngineTypeOK ==
  /\ CoverageTypeOK
  /\ ev \in [Tasks -> {"none", "empty", "part", "whole"}]
  /\ lane \in [Lanes -> Local]
  /\ \A l \in Lanes : /\ lane[l].cohort <= Len(Cohorts[l])
                      /\ lane[l].todo \subseteq Ours(l)
                      /\ lane[l].comp \subseteq lane[l].todo
  /\ cause \in [Tasks -> {"none", "gate", "inapplicable", "starved", "model", "reset"}]

\* The sweep uses the table as Coverage allows: whatever interleaves, a lane
\* finishes each pass it claimed exactly once and before it claims again.
TableUse == CoverageSpec

\* What a lane holds is exactly what its loop still has to go through, so
\* nothing it claimed is forgotten or finished twice.
HeldIsTodo ==
  \A l \in Lanes : HeldBy(l) = lane[l].video \X lane[l].todo

\* The table never claims more than the store can show: a row is done only when
\* evidence of the pass is there, or when the pass ran and found nothing.
DoneHasEvidence ==
  \A t \in Tasks : row[t].state = "done" /\ t[2] \in Writes => ev[t] # "none"

\* What is known is not asked again: a pass whose evidence is complete is claimed
\* again only if the operator reset it, if it was in flight when its session died
\* and its lease lapsed after the reconcile of the rotation, or in a rotation
\* whose reconcile raised and was passed over.
RedoneOnlyIfLapsed ==
  [][\A l \in Lanes, v \in Videos : Claim(l, v) =>
       \A t \in held' \ held : ev[t] = "whole" =>
          row[t].state = "running" \/ cause[t] = "reset" \/ lane[l].blind]_vars

\* The gate skips a pass only for an input that failed or that has itself been
\* skipped or reset, never for one that merely waits for a clock.  This is the
\* gate's own promise and no more: an input that reports no outcome at all (a
\* transient failure), waits for its next attempt or runs in the other lane does
\* not hold its readers back, and the runner of such a reader, finding nothing
\* to read, skips it for good (cause "starved").
GateSkipsForCause ==
  \A t \in Tasks : cause[t] = "gate" =>
     \E n \in Inputs(t[2]) : fails[<<t[1], n>>] > 0 \/ cause[<<t[1], n>>] # "none"

\* Every pass of the slice is settled in the end, or failed for good.
AllSettled == \A t \in Tasks : t[1] \in Mine =>
  \/ Settled(row[t])
  \/ row[t].state = "failed" /\ row[t].revivals = MaxRevivals
SweepCompletes == <>[]AllSettled
=============================================================================
