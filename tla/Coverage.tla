------------------------------ MODULE Coverage ------------------------------
(***************************************************************************)
(* The job table of vios/process/coverage.py: one row per (video,          *)
(* component).  SQLite serialises the writers and every method commits one *)
(* UPDATE, so each method is one action; fail() reads the attempts in a    *)
(* statement of its own before it, and Fail writes what was decided then.  *)
(* The callers are the lanes of the processing engine; ProcessEngine says  *)
(* when a lane calls what, here they may call in any order their           *)
(* sequential threads allow: a lane finishes what it claimed before it     *)
(* claims again.                                                           *)
(*                                                                         *)
(* Clocks are two flags of a row: lapsed (lease_until is over) and waiting *)
(* (next_try_at is still ahead), flipped by the actions LeaseLapses and    *)
(* BackoffElapses.                                                         *)
(***************************************************************************)
EXTENDS Naturals

CONSTANTS
  Videos, Components,
  Mine,           \* the videos of this worker's slice
  Lanes, LaneOf,  \* the lanes, and which of them runs a component
  MaxAttempts,    \* MAX_ATTEMPTS
  MaxRevivals,    \* MAX_REVIVALS
  Bounds          \* bound on each kind of disturbance, see Troubles

Troubles == {"die", "lapse", "defer", "reconcile", "operator"}

ASSUME CoverageAssumption ==
  /\ Mine \subseteq Videos
  /\ LaneOf \in [Components -> Lanes]
  /\ MaxAttempts \in Nat \ {0} /\ MaxRevivals \in Nat
  /\ Bounds \in [Troubles -> Nat]

VARIABLES
  row,     \* the table
  held,    \* the passes a lane has claimed and not yet finished
  budget,  \* what is left of Bounds
  fails    \* history: fail() calls since the operator last reset the row

tableVars == <<row, held, budget, fails>>

-----------------------------------------------------------------------------

Tasks   == Videos \X Components
States  == {"absent", "queued", "running", "done", "failed", "skipped"}
Row     == [state: States, attempts: Nat, revivals: Nat,
            lapsed: BOOLEAN, waiting: BOOLEAN]
Absent  == [state |-> "absent", attempts |-> 0, revivals |-> 0,
            lapsed |-> TRUE, waiting |-> FALSE]

Settled(r) == r.state \in {"done", "skipped"}

\* mutant: a lane's statements reach the rows of the others
OfEveryLane(l) == {t \in Tasks : l \in Lanes}
Of(l)      == {t \in Tasks : LaneOf[t[2]] = l}
HeldBy(l)  == held \cap Of(l)
Disturb(k) == /\ budget[k] > 0
              /\ budget' = [budget EXCEPT ![k] = @ - 1]

CoverageInit ==
  /\ row = [t \in Tasks |-> Absent]
  /\ held = {}
  /\ budget = Bounds
  /\ fails = [t \in Tasks |-> 0]

-----------------------------------------------------------------------------
(* The rotation's preamble *)

\* INSERT OR IGNORE, for the videos of every slice.
Plan(l) ==
  /\ row' = [t \in Tasks |-> IF t \in Of(l) /\ row[t].state = "absent"
                               THEN [Absent EXCEPT !.state = "queued"] ELSE row[t]]
  /\ UNCHANGED <<held, budget, fails>>

\* mutant: any expired lease, and a finished row has lease_until = 0
StaleAny(r) == r.lapsed /\ r.state # "absent"
Stale(r) == r.state = "running" /\ r.lapsed

\* Not restricted to a lane, a slice or a worker; the attempt stays spent.
ReclaimStale ==
  /\ row' = [t \in Tasks |-> IF Stale(row[t])
                               THEN [row[t] EXCEPT !.state = "queued"] ELSE row[t]]
  /\ UNCHANGED <<held, budget, fails>>

Revivable(r) == r.state = "failed" /\ ~r.waiting /\ r.revivals < MaxRevivals

ReviveFailed ==
  /\ row' = [t \in Tasks |-> IF t[1] \in Mine /\ Revivable(row[t])
                               THEN [row[t] EXCEPT !.state = "queued", !.attempts = 0,
                                                   !.revivals = @ + 1, !.lapsed = TRUE]
                               ELSE row[t]]
  /\ UNCHANGED <<held, budget, fails>>

\* mutant: a failed row is left to its revival
ReconcilableQueued(r) == r.state = "queued"
Reconcilable(r) == r.state \in {"queued", "failed"}

\* proved: the passes of this lane whose evidence the store already holds, or
\* those the statement came to before it raised.
Reconcile(l, proved) ==
  /\ Disturb("reconcile") \/ UNCHANGED budget
  /\ row' = [t \in Tasks |-> IF t \in proved \cap Of(l) /\ Reconcilable(row[t])
                               THEN [row[t] EXCEPT !.state = "done", !.lapsed = TRUE,
                                                   !.waiting = FALSE]
                               ELSE row[t]]
  /\ UNCHANGED <<held, fails>>

-----------------------------------------------------------------------------
(* Claim *)

\* mutant: the limit holds for every row, so a spent one that never failed stays
ClaimableFresh(r) ==
  /\ r.attempts < MaxAttempts
  /\ \/ r.state \in {"queued", "failed"} /\ ~r.waiting
     \/ r.state = "running" /\ r.lapsed
Claimable(r) ==
  \/ r.state = "queued" /\ ~r.waiting
  \/ r.state = "running" /\ r.lapsed
  \/ r.state = "failed" /\ r.attempts < MaxAttempts /\ ~r.waiting

Candidates(cs) == {v \in Mine : \E c \in cs : Claimable(row[<<v, c>>])}
Taken(v, cs)   == {t \in {v} \X cs : v \in Mine /\ Claimable(row[t])}

\* claim_for: one UPDATE for all the components of a cohort.
ClaimFor(l, v, cs) ==
  /\ Taken(v, cs) # {}
  /\ row' = [t \in Tasks |-> IF t \in Taken(v, cs)
                               THEN [row[t] EXCEPT !.state = "running", !.lapsed = FALSE,
                                                   !.attempts = @ + 1]
                               ELSE row[t]]
  /\ held' = held \cup Taken(v, cs)
  /\ UNCHANGED <<budget, fails>>

\* Only a running row still names its worker.
Renew(t) ==
  /\ row[t].state = "running" /\ row[t].lapsed
  /\ row' = [row EXCEPT ![t].lapsed = FALSE]
  /\ UNCHANGED <<held, budget, fails>>

\* The attempt is refunded, if the row still runs.
Release(t) ==
  /\ row' = IF row[t].state # "running" THEN row
            ELSE [row EXCEPT ![t].state = "queued", ![t].lapsed = TRUE,
                             ![t].attempts = IF @ > 0 THEN @ - 1 ELSE 0]
  /\ held' = held \ {t}
  /\ UNCHANGED <<budget, fails>>

-----------------------------------------------------------------------------
(* Finish: none of these looks at the state or the worker of the row *)

Done(t) ==
  /\ row' = [row EXCEPT ![t].state = "done", ![t].lapsed = TRUE]
  /\ held' = held \ {t}
  /\ UNCHANGED <<budget, fails>>

\* mutant: one attempt too many
VerdictLate(a) == IF a > MaxAttempts THEN "failed" ELSE "queued"
Verdict(a) == IF a >= MaxAttempts THEN "failed" ELSE "queued"

\* What fail() decides on the attempts a that it read: the state, and whether
\* the row waits.  No backoff for a row whose attempts were reset while it ran.
Decided(a) == [state |-> Verdict(a), waiting |-> Verdict(a) = "failed" \/ a > 0]
Decisions == {Decided(a) : a \in 0 .. MaxAttempts}

\* Since the row was claimed the operator reset it.
ResetSince(t) == row[t].attempts = 0 /\ row[t].revivals = 0 /\ fails[t] = 0

\* The UPDATE does not look again: between it and the SELECT of the attempts the
\* operator may have reset the row.
MayDecide(t) == {Decided(row[t].attempts)} \cup {d \in Decisions : ResetSince(t)}

Fail(t, d) ==
  /\ row' = [row EXCEPT ![t].state = d.state, ![t].lapsed = TRUE,
                        ![t].waiting = d.waiting]
  /\ held' = held \ {t}
  /\ fails' = [fails EXCEPT ![t] = @ + 1]
  /\ UNCHANGED budget

\* The attempt the claim spent stays spent.  A runner asks for it, or the gate
\* passes on what happened to an input.
Defer(t) ==
  /\ Disturb("defer") \/ UNCHANGED budget
  /\ row' = [row EXCEPT ![t].state = "queued", ![t].lapsed = TRUE,
                        ![t].waiting = TRUE]
  /\ held' = held \ {t}
  /\ UNCHANGED fails

Skip(t) ==
  /\ row' = [row EXCEPT ![t].state = "skipped", ![t].lapsed = TRUE]
  /\ held' = held \ {t}
  /\ UNCHANGED <<budget, fails>>

-----------------------------------------------------------------------------
(* The operator's two buttons, at any moment *)

\* mutant: the attempts are given back and the state is left
RequeueForgets(cs) ==
  /\ Disturb("operator")
  /\ row' = [t \in Tasks |-> IF t[2] \in cs /\ row[t].state = "failed"
                               THEN [row[t] EXCEPT !.attempts = 0] ELSE row[t]]
  /\ fails' = [t \in Tasks |-> IF t[2] \in cs /\ row[t].state = "failed"
                                 THEN 0 ELSE fails[t]]
  /\ UNCHANGED held
Requeue(cs) ==
  /\ Disturb("operator")
  /\ row' = [t \in Tasks |-> IF t[2] \in cs /\ row[t].state = "failed"
                               THEN [row[t] EXCEPT !.state = "queued", !.attempts = 0,
                                                   !.waiting = FALSE, !.lapsed = TRUE]
                               ELSE row[t]]
  /\ fails' = [t \in Tasks |-> IF t[2] \in cs /\ row[t].state = "failed"
                                 THEN 0 ELSE fails[t]]
  /\ UNCHANGED held

\* Whatever the state, of a pass in flight too.
ResetComponent(c) ==
  /\ Disturb("operator")
  /\ row' = [t \in Tasks |-> IF t[2] = c /\ row[t].state # "absent"
                               THEN [Absent EXCEPT !.state = "queued"] ELSE row[t]]
  /\ fails' = [t \in Tasks |-> IF t[2] = c THEN 0 ELSE fails[t]]
  /\ UNCHANGED held

-----------------------------------------------------------------------------
(* Time and death *)

\* While a lane still works on the pass this costs budget: LEASE_SECONDS is
\* longer than a pass, but claim_for leases a whole cohort at once.
LeaseLapses(t) ==
  /\ row[t].state = "running" /\ ~row[t].lapsed
  /\ row' = [row EXCEPT ![t].lapsed = TRUE]
  /\ IF t \in held THEN Disturb("lapse") ELSE UNCHANGED budget
  /\ UNCHANGED <<held, fails>>

BackoffElapses(t) ==
  /\ row[t].waiting
  /\ row' = [row EXCEPT ![t].waiting = FALSE]
  /\ UNCHANGED <<held, budget, fails>>

\* The lanes ls stop without giving their rows back: the session is killed, or
\* an error ends the sweep.
Die(ls) ==
  /\ Disturb("die")
  /\ held' = {t \in held : LaneOf[t[2]] \notin ls}
  /\ UNCHANGED <<row, fails>>

\* A thread sweeps and claims when it has finished what it claimed before,
\* and finishes only that.
Sweep(l) ==
  /\ HeldBy(l) = {}
  /\ \/ Plan(l) \/ ReclaimStale \/ ReviveFailed
     \/ \E proved \in SUBSET {t \in Tasks : Reconcilable(row[t])} : Reconcile(l, proved)
     \/ \E v \in Videos, cs \in SUBSET Components :
          cs \subseteq {c \in Components : LaneOf[c] = l} /\ ClaimFor(l, v, cs)

Finish(t) ==
  /\ t \in held
  /\ \/ Renew(t) \/ Release(t) \/ Done(t) \/ Defer(t) \/ Skip(t)
     \/ \E d \in MayDecide(t) : Fail(t, d)

Operator == \E cs \in SUBSET Components : Requeue(cs) \/ \E c \in cs : ResetComponent(c)

CoverageNext ==
  \/ \E l \in Lanes : Sweep(l)
  \/ \E t \in Tasks : Finish(t) \/ LeaseLapses(t) \/ BackoffElapses(t)
  \/ Operator
  \/ \E ls \in SUBSET Lanes : Die(ls)

CoverageSpec == CoverageInit /\ [][CoverageNext]_tableVars

-----------------------------------------------------------------------------
(* Properties *)

CoverageTypeOK ==
  /\ row \in [Tasks -> Row]
  /\ held \subseteq Tasks
  /\ budget \in [Troubles -> Nat]
  /\ fails \in [Tasks -> Nat]

\* Nobody finishes a pass under the lane that works on it.  done, fail, defer
\* and skip overwrite whatever state they find; they are safe only because a
\* row in flight is never anything but running, or queued again after its lease
\* was reclaimed or the component reset.
InFlightIsLive == \A t \in held : row[t].state \in {"running", "queued"}

\* A row is retired as failed only when its attempts are spent, so it moves again
\* only by a revival or by the operator and not by the third disjunct of the
\* claim; but for the row the operator reset after fail() had read its attempts
\* and before it wrote: that one failure then retires a row whose attempts are
\* all there.
FailedIsSpent ==
  \A t \in Tasks : row[t].state = "failed" =>
     row[t].attempts >= MaxAttempts \/ (row[t].attempts = 0 /\ fails[t] = 1)

\* A genuinely broken video cannot consume the queue forever: however claims,
\* lapsed leases, deaths, pauses, deferrals and revivals interleave, a pass
\* fails at most MaxAttempts times in each of its MaxRevivals + 1 lives, and
\* once more if it was reset while it ran.
FailuresBounded ==
  \A t \in Tasks : /\ row[t].revivals <= MaxRevivals
                   /\ fails[t] <= MaxAttempts * (row[t].revivals + 1) + 1

\* A pass that is done or declined stays so until the operator resets its
\* component, whoever still works on it and whatever lapses.
SettledIsFinal ==
  [][\A t \in Tasks : Settled(row[t]) /\ ~Settled(row'[t])
       => \E c \in Components : t[2] = c /\ ResetComponent(c)]_tableVars
=============================================================================
