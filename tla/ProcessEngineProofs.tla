------------------------- MODULE ProcessEngineProofs -------------------------
(***************************************************************************)
(* Proofs about the job table and the sweep over it, for any videos,       *)
(* components, lanes, cohorts, limits and bounds.  The table: IInv is      *)
(* inductive and says how many failures a row can have on record, in terms *)
(* of the attempts and revivals it has spent and of whether a lane is      *)
(* still working on it.  The sweep: what a lane holds in the table is what *)
(* its loop still has to go through, and so the sweep implements Coverage  *)
(* and inherits what is proved there; a done row has evidence; no deferral *)
(* becomes a skip; and with one lane no complete evidence is earned anew.  *)
(***************************************************************************)
EXTENDS ProcessEngine, TLAPS

\* The failures that r whole lives can hold.
Life(r) == MaxAttempts * r

OpenState(s) == s \in {"queued", "running"}

\* The pass a lane holds has its attempt on record and its failure not yet.
InHand(t) == IF t \in held THEN 1 ELSE 0

Recorded(t) ==
  /\ row[t].revivals <= MaxRevivals
  /\ fails[t] <= Life(row[t].revivals) + MaxAttempts + 1
  /\ row[t].state = "absent" => fails[t] = 0
  /\ OpenState(row[t].state) =>
       /\ fails[t] <= Life(row[t].revivals) + MaxAttempts
       /\ fails[t] + InHand(t) <= Life(row[t].revivals) + 1 + row[t].attempts

RowInv(t) ==
  /\ t \in held => OpenState(row[t].state)
  /\ row[t].state = "failed" =>
       row[t].attempts >= MaxAttempts \/ (row[t].attempts = 0 /\ fails[t] = 1)
  /\ Recorded(t)

IInv == CoverageTypeOK /\ \A t \in Tasks : RowInv(t)

-----------------------------------------------------------------------------

\* One life more holds MaxAttempts failures more.
LEMMA LifeFacts ==
  /\ Life(0) = 0
  /\ \A r \in Nat : /\ Life(r) \in Nat
                    /\ Life(r + 1) = Life(r) + MaxAttempts
  BY CoverageAssumption DEF Life

\* Spending budget leaves a budget.
LEMMA DisturbType ==
  /\ "die" \in Troubles /\ "lapse" \in Troubles /\ "defer" \in Troubles
  /\ "reconcile" \in Troubles /\ "operator" \in Troubles
  /\ budget \in [Troubles -> Nat] =>
       \A k \in Troubles : Disturb(k) => budget' \in [Troubles -> Nat]
<1>1. /\ "die" \in Troubles /\ "lapse" \in Troubles /\ "defer" \in Troubles
      /\ "reconcile" \in Troubles /\ "operator" \in Troubles
  BY DEF Troubles
<1>2. ASSUME budget \in [Troubles -> Nat], NEW k \in Troubles, Disturb(k)
      PROVE  budget' \in [Troubles -> Nat]
  BY <1>2 DEF Disturb
<1> QED BY <1>1, <1>2

\* The states an operation writes.
LEMMA StateNames ==
  /\ "absent" \in States /\ "queued" \in States /\ "running" \in States
  /\ "done" \in States /\ "failed" \in States /\ "skipped" \in States
  BY DEF States

\* A claim and a revival make a row of a row.
LEMMA RowSteps ==
  ASSUME NEW r \in Row
  PROVE  /\ [r EXCEPT !.state = "running", !.lapsed = FALSE, !.attempts = @ + 1] \in Row
         /\ [r EXCEPT !.state = "queued", !.attempts = 0,
                      !.revivals = @ + 1, !.lapsed = TRUE] \in Row
<1>1. r.revivals + 1 \in Nat /\ r.attempts + 1 \in Nat
  BY DEF Row
<1>2. ASSUME NEW n \in Nat
      PROVE  /\ [r EXCEPT !.state = "running", !.lapsed = FALSE, !.attempts = n] \in Row
             /\ [r EXCEPT !.state = "queued", !.attempts = 0,
                          !.revivals = n, !.lapsed = TRUE] \in Row
  BY StateNames DEF Row
<1> QED BY <1>1, <1>2

\* The first start of an account.
LEMMA InitIInv == CoverageInit => IInv
<1> SUFFICES ASSUME CoverageInit PROVE IInv
  OBVIOUS
<1>1. CoverageTypeOK
  BY CoverageAssumption DEF CoverageInit, CoverageTypeOK, Row, States, Absent
<1>2. ASSUME NEW t \in Tasks PROVE RowInv(t)
  BY CoverageAssumption, LifeFacts
     DEF CoverageInit, Absent, RowInv, Recorded, OpenState, InHand
<1> QED BY <1>1, <1>2 DEF IInv

\* Every operation keeps the invariant: what it writes is a row, and the row
\* it leaves behind has room for the failures on record.
LEMMA NextIInv == IInv /\ [CoverageNext]_tableVars => IInv'
<1> SUFFICES ASSUME IInv, [CoverageNext]_tableVars PROVE IInv'
  OBVIOUS
<1>c. CoverageTypeOK
  BY DEF IInv
<1>t. CoverageTypeOK /\ \A t \in Tasks : RowInv(t)
  BY DEF IInv
<1>0. MaxAttempts \in Nat \ {0} /\ MaxRevivals \in Nat
  BY CoverageAssumption
<1>1. ASSUME NEW l \in Lanes, Plan(l) PROVE IInv'
  <2>1. CoverageTypeOK'
    BY <1>1, <1>c, StateNames DEF Plan, CoverageTypeOK, Row, Absent
  <2>2. ASSUME NEW t \in Tasks PROVE RowInv(t)'
    BY <1>1, <1>t, <1>0, LifeFacts
       DEF Plan, CoverageTypeOK, Row, Absent, RowInv, Recorded, OpenState, InHand
  <2> QED BY <2>1, <2>2 DEF IInv
<1>2. ASSUME ReclaimStale PROVE IInv'
  <2>1. CoverageTypeOK'
    BY <1>2, <1>c, StateNames DEF ReclaimStale, CoverageTypeOK, Row
  <2>2. ASSUME NEW t \in Tasks PROVE RowInv(t)'
    BY <1>2, <1>t, <1>0, LifeFacts
       DEF ReclaimStale, Stale, CoverageTypeOK, Row, RowInv, Recorded, OpenState, InHand
  <2> QED BY <2>1, <2>2 DEF IInv
<1>3. ASSUME ReviveFailed PROVE IInv'
  <2>1. CoverageTypeOK'
    BY <1>3, <1>c, RowSteps DEF ReviveFailed, CoverageTypeOK
  <2>2. ASSUME NEW t \in Tasks PROVE RowInv(t)'
    <3>1. CASE ~(t[1] \in Mine /\ Revivable(row[t]))
      BY <3>1, <1>3, <1>t DEF ReviveFailed, RowInv, Recorded, OpenState, InHand
    <3>2. CASE t[1] \in Mine /\ Revivable(row[t])
      <4>1. /\ row'[t].state = "queued" /\ row'[t].attempts = 0
            /\ row'[t].revivals = row[t].revivals + 1
            /\ fails' = fails /\ held' = held
        BY <3>2, <1>3, <1>t DEF ReviveFailed, CoverageTypeOK, Row
      <4>2. /\ row[t].state = "failed" /\ row[t].revivals < MaxRevivals
            /\ row[t].revivals \in Nat /\ fails[t] \in Nat /\ t \notin held
        BY <3>2, <1>t DEF Revivable, CoverageTypeOK, Row, RowInv, OpenState
      <4> QED
        BY <4>1, <4>2, <1>t, <1>0, LifeFacts DEF RowInv, Recorded, OpenState, InHand
    <3> QED BY <3>1, <3>2
  <2> QED BY <2>1, <2>2 DEF IInv
<1>4. ASSUME NEW l \in Lanes, NEW proved \in SUBSET Tasks, HeldBy(l) = {},
             Reconcile(l, proved)
      PROVE  IInv'
  <2>1. CoverageTypeOK'
    <3>1. ASSUME NEW t \in Tasks
          PROVE  [row[t] EXCEPT !.state = "done", !.lapsed = TRUE, !.waiting = FALSE] \in Row
      BY <1>c, StateNames DEF CoverageTypeOK, Row
    <3>2. row' \in [Tasks -> Row]
      BY <3>1, <1>4, <1>c DEF Reconcile, CoverageTypeOK
    <3>3. budget' \in [Troubles -> Nat]
      BY <1>4, <1>c, DisturbType DEF Reconcile, CoverageTypeOK
    <3> QED BY <3>2, <3>3, <1>4, <1>c DEF Reconcile, CoverageTypeOK
  <2>2. ASSUME NEW t \in Tasks PROVE RowInv(t)'
    <3>1. t \in held => ~(t \in proved \cap Of(l))
      BY <1>4, <1>t DEF Reconcile, HeldBy, CoverageTypeOK
    <3>2. fails' = fails /\ held' = held
      BY <1>4 DEF Reconcile
    <3>3. CASE t \in proved \cap Of(l) /\ Reconcilable(row[t])
      <4>1. /\ row'[t].state = "done" /\ row'[t].attempts = row[t].attempts
            /\ row'[t].revivals = row[t].revivals
        BY <3>3, <1>4, <1>t DEF Reconcile, CoverageTypeOK, Row
      <4>2. row[t].state # "absent" /\ t \notin held
        BY <3>1, <3>3 DEF Reconcilable
      <4>3. /\ row[t].revivals <= MaxRevivals
            /\ fails[t] <= Life(row[t].revivals) + MaxAttempts + 1
        BY <1>t DEF RowInv, Recorded
      <4>4. Recorded(t)'
        BY <4>1, <4>3, <3>2, LifeFacts DEF Recorded, OpenState
      <4> QED BY <4>1, <4>2, <4>4, <3>2 DEF RowInv
    <3>4. CASE ~(t \in proved \cap Of(l) /\ Reconcilable(row[t]))
      <4>1. row'[t] = row[t]
        BY <3>4, <1>4 DEF Reconcile
      <4> QED BY <4>1, <3>2, <1>t DEF RowInv, Recorded, OpenState, InHand
    <3> QED BY <3>3, <3>4
  <2> QED BY <2>1, <2>2 DEF IInv
<1>5. ASSUME NEW l \in Lanes, NEW v \in Videos, NEW cs \in SUBSET Components,
             HeldBy(l) = {}, cs \subseteq {c \in Components : LaneOf[c] = l},
             ClaimFor(l, v, cs)
      PROVE  IInv'
  <2>0. Taken(v, cs) \subseteq Of(l) /\ Taken(v, cs) \subseteq Tasks
    BY <1>5 DEF Taken, Of, Tasks
  <2>1. CoverageTypeOK'
    BY <1>5, <2>0, <1>c, RowSteps DEF ClaimFor, CoverageTypeOK
  <2>2. ASSUME NEW t \in Tasks PROVE RowInv(t)'
    <3>1. CASE t \notin Taken(v, cs)
      BY <3>1, <1>5, <1>t, <1>0, LifeFacts
         DEF ClaimFor, CoverageTypeOK, Row, RowInv, Recorded, OpenState, InHand
    <3>2. CASE t \in Taken(v, cs)
      <4>1. t \notin held
        BY <3>2, <2>0, <1>5 DEF ClaimFor, HeldBy
      <4>2. \/ OpenState(row[t].state)
            \/ row[t].state = "failed" /\ row[t].attempts = 0 /\ fails[t] = 1
        BY <3>2, <1>t, <1>0 DEF Taken, Claimable, RowInv, OpenState, CoverageTypeOK, Row
      <4>3. /\ row'[t].state = "running" /\ row'[t].attempts = row[t].attempts + 1
            /\ row'[t].revivals = row[t].revivals
            /\ fails' = fails /\ t \in held'
        BY <3>2, <1>5, <1>t DEF ClaimFor, CoverageTypeOK, Row
      <4>4. row[t].attempts \in Nat /\ row[t].revivals \in Nat /\ fails[t] \in Nat
        BY <1>t DEF CoverageTypeOK, Row
      <4> QED
        BY <4>1, <4>2, <4>3, <4>4, <1>t, <1>0, LifeFacts
           DEF RowInv, Recorded, OpenState, InHand
    <3> QED BY <3>1, <3>2
  <2> QED BY <2>1, <2>2 DEF IInv
<1>6. ASSUME NEW u \in held, Renew(u) PROVE IInv'
  <2>1. CoverageTypeOK'
    BY <1>6, <1>c, StateNames DEF Renew, CoverageTypeOK, Row
  <2>2. ASSUME NEW t \in Tasks PROVE RowInv(t)'
    BY <1>6, <1>t, <1>0, LifeFacts
       DEF Renew, CoverageTypeOK, Row, RowInv, Recorded, OpenState, InHand
  <2> QED BY <2>1, <2>2 DEF IInv
<1>7. ASSUME NEW u \in held, Release(u) PROVE IInv'
  <2>1. CoverageTypeOK'
    <3>1. row[u] \in Row /\ row[u].attempts \in Nat
      BY <1>c DEF CoverageTypeOK, Row
    <3>2. (IF row[u].attempts > 0 THEN row[u].attempts - 1 ELSE 0) \in Nat
      BY <3>1
    <3>3. row' \in [Tasks -> Row]
      BY <3>1, <3>2, <1>7, <1>c, StateNames DEF Release, CoverageTypeOK, Row
    <3> QED BY <3>3, <1>7, <1>c DEF Release, CoverageTypeOK
  <2>2. ASSUME NEW t \in Tasks PROVE RowInv(t)'
    BY <1>7, <1>t, <1>0, LifeFacts
       DEF Release, CoverageTypeOK, Row, RowInv, Recorded, OpenState, InHand
  <2> QED BY <2>1, <2>2 DEF IInv
<1>8. ASSUME NEW u \in held, Done(u) PROVE IInv'
  <2>1. CoverageTypeOK'
    BY <1>8, <1>c, StateNames DEF Done, CoverageTypeOK, Row
  <2>2. ASSUME NEW t \in Tasks PROVE RowInv(t)'
    BY <1>8, <1>t, <1>0, LifeFacts
       DEF Done, CoverageTypeOK, Row, RowInv, Recorded, OpenState, InHand
  <2> QED BY <2>1, <2>2 DEF IInv
<1>9. ASSUME NEW u \in held, NEW d \in MayDecide(u), Fail(u, d) PROVE IInv'
  <2>0. PICK a \in Nat : /\ d = Decided(a)
                         /\ a = row[u].attempts \/ ResetSince(u)
    <3>1. row[u].attempts \in Nat
      BY <1>c, <1>9 DEF CoverageTypeOK, Row
    <3> QED BY <3>1, <1>0 DEF MayDecide, Decisions
  <2>1. /\ d.state = Verdict(a) /\ d.waiting \in BOOLEAN
        /\ Verdict(a) \in States
    BY <2>0, StateNames DEF Decided, Verdict
  <2>2. CoverageTypeOK'
    <3>1. row' \in [Tasks -> Row]
      BY <2>1, <1>9, <1>c DEF Fail, CoverageTypeOK, Row
    <3>2. held' \subseteq Tasks /\ fails' \in [Tasks -> Nat]
      BY <1>9, <1>c DEF Fail, CoverageTypeOK
    <3> QED BY <3>1, <3>2, <1>9, <1>c DEF Fail, CoverageTypeOK
  <2>3. ASSUME NEW t \in Tasks PROVE RowInv(t)'
    <3>1. CASE t # u
      BY <3>1, <1>9, <1>t DEF Fail, CoverageTypeOK, Row, RowInv, Recorded, OpenState, InHand
    <3>2. CASE t = u
      <4>1. OpenState(row[t].state) /\ InHand(t) = 1 /\ (InHand(t) = 0)'
        BY <3>2, <1>9, <1>t DEF Fail, RowInv, InHand
      <4>2. /\ row'[t].state = Verdict(a)
            /\ row'[t].attempts = row[t].attempts
            /\ row'[t].revivals = row[t].revivals
            /\ fails'[t] = fails[t] + 1 /\ t \notin held'
        BY <2>1, <3>2, <1>9, <1>t DEF Fail, CoverageTypeOK, Row
      <4>3. CASE a = row[u].attempts
        BY <3>2, <4>1, <4>2, <4>3, <1>t, <1>0, LifeFacts
           DEF Verdict, CoverageTypeOK, Row, RowInv, Recorded, OpenState
      <4>4. CASE ResetSince(u)
        <5>1. row[t].attempts = 0 /\ row[t].revivals = 0 /\ fails'[t] = 1
          BY <3>2, <4>2, <4>4 DEF ResetSince
        <5> QED
          BY <4>1, <4>2, <5>1, <1>t, <1>0, LifeFacts
             DEF Verdict, CoverageTypeOK, Row, RowInv, Recorded, OpenState
      <4> QED BY <2>0, <4>3, <4>4
    <3> QED BY <3>1, <3>2
  <2> QED BY <2>2, <2>3 DEF IInv
<1>10. ASSUME NEW u \in held, Defer(u) PROVE IInv'
  <2>1. CoverageTypeOK'
    <3>1. u \in Tasks /\ row[u] \in Row
      BY <1>10, <1>c DEF CoverageTypeOK
    <3>2. [row[u] EXCEPT !.state = "queued", !.lapsed = TRUE, !.waiting = TRUE] \in Row
      BY <3>1, StateNames DEF Row
    <3>3. row' = [row EXCEPT ![u] = [row[u] EXCEPT !.state = "queued", !.lapsed = TRUE,
                                                   !.waiting = TRUE]]
      BY <1>10, <1>c DEF Defer, CoverageTypeOK
    <3>4. row' \in [Tasks -> Row]
      BY <3>1, <3>2, <3>3, <1>c DEF CoverageTypeOK
    <3>5. budget' \in [Troubles -> Nat]
      BY <1>10, <1>c, DisturbType DEF Defer, CoverageTypeOK
    <3> QED BY <3>4, <3>5, <1>10, <1>c DEF Defer, CoverageTypeOK
  <2>2. ASSUME NEW t \in Tasks PROVE RowInv(t)'
    <3>1. fails' = fails /\ held' = held \ {u}
      BY <1>10 DEF Defer
    <3>2. CASE t # u
      <4>1. row'[t] = row[t] /\ (t \in held' <=> t \in held)
        BY <3>1, <3>2, <1>10, <1>t DEF Defer, CoverageTypeOK
      <4> QED BY <4>1, <3>1, <1>t DEF RowInv, Recorded, OpenState, InHand
    <3>3. CASE t = u
      <4>1. /\ row'[t].state = "queued" /\ row'[t].attempts = row[t].attempts
            /\ row'[t].revivals = row[t].revivals
        BY <3>3, <1>10, <1>t DEF Defer, CoverageTypeOK, Row
      <4>2. OpenState(row[t].state) /\ InHand(t) = 1 /\ InHand(t)' = 0 /\ t \notin held'
        BY <3>1, <3>3, <1>10, <1>t DEF RowInv, InHand
      <4>3. row[t].attempts \in Nat /\ fails[t] \in Nat /\ Life(row[t].revivals) \in Nat
        BY <1>t, LifeFacts DEF CoverageTypeOK, Row
      <4> QED
        BY <4>1, <4>2, <4>3, <3>1, <1>t, <1>0 DEF RowInv, Recorded, OpenState
    <3> QED BY <3>2, <3>3
  <2> QED BY <2>1, <2>2 DEF IInv
<1>11. ASSUME NEW u \in held, Skip(u) PROVE IInv'
  <2>1. CoverageTypeOK'
    BY <1>11, <1>c, StateNames DEF Skip, CoverageTypeOK, Row
  <2>2. ASSUME NEW t \in Tasks PROVE RowInv(t)'
    BY <1>11, <1>t, <1>0, LifeFacts
       DEF Skip, CoverageTypeOK, Row, RowInv, Recorded, OpenState, InHand
  <2> QED BY <2>1, <2>2 DEF IInv
<1>12. ASSUME NEW u \in Tasks, LeaseLapses(u) PROVE IInv'
  <2>1. CoverageTypeOK'
    BY <1>12, <1>c, DisturbType, StateNames DEF LeaseLapses, CoverageTypeOK, Row
  <2>2. ASSUME NEW t \in Tasks PROVE RowInv(t)'
    BY <1>12, <1>t, <1>0, LifeFacts
       DEF LeaseLapses, CoverageTypeOK, Row, RowInv, Recorded, OpenState, InHand
  <2> QED BY <2>1, <2>2 DEF IInv
<1>13. ASSUME NEW u \in Tasks, BackoffElapses(u) PROVE IInv'
  <2>1. CoverageTypeOK'
    BY <1>13, <1>c, StateNames DEF BackoffElapses, CoverageTypeOK, Row
  <2>2. ASSUME NEW t \in Tasks PROVE RowInv(t)'
    BY <1>13, <1>t, <1>0, LifeFacts
       DEF BackoffElapses, CoverageTypeOK, Row, RowInv, Recorded, OpenState, InHand
  <2> QED BY <2>1, <2>2 DEF IInv
<1>14. ASSUME NEW cs \in SUBSET Components, Requeue(cs) PROVE IInv'
  <2>1. CoverageTypeOK'
    BY <1>14, <1>c, DisturbType, StateNames DEF Requeue, CoverageTypeOK, Row
  <2>2. ASSUME NEW t \in Tasks PROVE RowInv(t)'
    <3>1. CASE ~(t[2] \in cs /\ row[t].state = "failed")
      BY <3>1, <1>14, <1>t
         DEF Requeue, CoverageTypeOK, RowInv, Recorded, OpenState, InHand
    <3>2. CASE t[2] \in cs /\ row[t].state = "failed"
      <4>1. /\ row'[t].state = "queued" /\ row'[t].attempts = 0
            /\ row'[t].revivals = row[t].revivals /\ row[t].revivals \in Nat
            /\ fails'[t] = 0 /\ t \notin held'
        BY <3>2, <1>14, <1>t DEF Requeue, CoverageTypeOK, Row, RowInv, OpenState
      <4> QED
        BY <4>1, <1>t, <1>0, LifeFacts DEF RowInv, Recorded, OpenState, InHand
    <3> QED BY <3>1, <3>2
  <2> QED BY <2>1, <2>2 DEF IInv
<1>15. ASSUME NEW c \in Components, ResetComponent(c) PROVE IInv'
  <2>1. CoverageTypeOK'
    BY <1>15, <1>c, DisturbType, StateNames DEF ResetComponent, CoverageTypeOK, Row, Absent
  <2>2. ASSUME NEW t \in Tasks PROVE RowInv(t)'
    BY <1>15, <1>t, <1>0, LifeFacts
       DEF ResetComponent, Absent, CoverageTypeOK, Row, RowInv, Recorded, OpenState, InHand
  <2> QED BY <2>1, <2>2 DEF IInv
<1>16. ASSUME NEW ls \in SUBSET Lanes, Die(ls) PROVE IInv'
  <2>1. CoverageTypeOK'
    BY <1>16, <1>c, DisturbType DEF Die, CoverageTypeOK
  <2>2. ASSUME NEW t \in Tasks PROVE RowInv(t)'
    BY <1>16, <1>t, <1>0, LifeFacts
       DEF Die, CoverageTypeOK, Row, RowInv, Recorded, OpenState, InHand
  <2> QED BY <2>1, <2>2 DEF IInv
<1>17. ASSUME UNCHANGED tableVars PROVE IInv'
  BY <1>17, <1>t DEF tableVars, IInv, CoverageTypeOK, RowInv, Recorded, InHand
<1>18. ASSUME NEW l \in Lanes, Sweep(l) PROVE IInv'
  BY <1>18, <1>1, <1>2, <1>3, <1>4, <1>5 DEF Sweep
<1>19. ASSUME NEW t \in Tasks, Finish(t) PROVE IInv'
  BY <1>19, <1>6, <1>7, <1>8, <1>9, <1>10, <1>11 DEF Finish
<1>20. ASSUME Operator PROVE IInv'
  BY <1>20, <1>14, <1>15 DEF Operator
<1> QED
  BY <1>12, <1>13, <1>16, <1>17, <1>18, <1>19, <1>20 DEF CoverageNext

\* What the reachable states of the table have in common.
THEOREM IInvHolds == CoverageSpec => []IInv
  BY InitIInv, NextIInv, PTL DEF CoverageSpec

-----------------------------------------------------------------------------

\* The table is well typed: no operation writes anything but a row.
THEOREM TableTypeCorrect == CoverageSpec => []CoverageTypeOK
<1>1. IInv => CoverageTypeOK
  BY DEF IInv
<1> QED BY <1>1, IInvHolds, PTL

\* A row in flight is running or queued again, so the unguarded updates that
\* finish a pass never overwrite a verdict.
THEOREM InFlightAlwaysLive == CoverageSpec => []InFlightIsLive
<1>1. IInv => InFlightIsLive
  BY DEF IInv, CoverageTypeOK, RowInv, OpenState, InFlightIsLive
<1> QED BY <1>1, IInvHolds, PTL

\* A row is retired as failed only when its attempts are spent, or by the one
\* failure that was under way when the operator reset it.
THEOREM FailedAlwaysSpent == CoverageSpec => []FailedIsSpent
<1>1. IInv => FailedIsSpent
  BY DEF IInv, RowInv, FailedIsSpent
<1> QED BY <1>1, IInvHolds, PTL

\* No video can fail for ever, whatever interleaves and whatever the limits are.
THEOREM FailuresAlwaysBounded == CoverageSpec => []FailuresBounded
<1>1. IInv => FailuresBounded
  <2> SUFFICES ASSUME IInv, NEW t \in Tasks
               PROVE  /\ row[t].revivals <= MaxRevivals
                      /\ fails[t] <= MaxAttempts * (row[t].revivals + 1) + 1
    BY DEF FailuresBounded
  <2>1. row[t].revivals \in Nat /\ fails[t] \in Nat
    BY DEF IInv, CoverageTypeOK, Row
  <2>2. MaxAttempts * (row[t].revivals + 1) = Life(row[t].revivals) + MaxAttempts
    BY <2>1, LifeFacts DEF Life
  <2> QED BY <2>1, <2>2, LifeFacts, CoverageAssumption DEF IInv, RowInv, Recorded
<1> QED BY <1>1, IInvHolds, PTL

-----------------------------------------------------------------------------

\* A pass that is done or declined stays so until the operator resets its
\* component: a lane cannot finish what is settled, because it cannot hold it.
THEOREM SettledAlwaysFinal == CoverageSpec => SettledIsFinal
<1> DEFINE Kept == \A t \in Tasks : Settled(row[t]) /\ ~Settled(row'[t])
                     => \E c \in Components : t[2] = c /\ ResetComponent(c)
<1>1. ASSUME IInv, [CoverageNext]_tableVars PROVE [Kept]_tableVars
  <2> SUFFICES ASSUME CoverageNext, NEW t \in Tasks, Settled(row[t]),
                      ~ \E c \in Components : t[2] = c /\ ResetComponent(c)
               PROVE  Settled(row'[t])
    BY <1>1
  <2>0. row \in [Tasks -> Row] /\ t \notin held /\ row[t].state \in {"done", "skipped"}
    BY <1>1 DEF IInv, CoverageTypeOK, RowInv, OpenState, Settled
  <2>1. ASSUME NEW l \in Lanes, Sweep(l) PROVE Settled(row'[t])
    BY <2>1, <2>0 DEF Sweep, Plan, ReclaimStale, Stale, ReviveFailed, Revivable, Reconcile,
                      Reconcilable, ClaimFor, Taken, Claimable, Settled, Row
  <2>2. ASSUME NEW u \in Tasks, Finish(u) PROVE Settled(row'[t])
    BY <2>2, <2>0 DEF Finish, Renew, Release, Done, Fail, Defer, Skip, Settled, Row
  <2>3. ASSUME NEW u \in Tasks, LeaseLapses(u) \/ BackoffElapses(u) PROVE Settled(row'[t])
    BY <2>3, <2>0 DEF LeaseLapses, BackoffElapses, Settled, Row
  <2>4. ASSUME NEW cs \in SUBSET Components, Requeue(cs) PROVE Settled(row'[t])
    BY <2>4, <2>0 DEF Requeue, Settled, Row
  <2>5. ASSUME NEW c \in Components, ResetComponent(c) PROVE Settled(row'[t])
    BY <2>5, <2>0 DEF ResetComponent, Settled
  <2>6. ASSUME NEW ls \in SUBSET Lanes, Die(ls) PROVE Settled(row'[t])
    BY <2>6, <2>0 DEF Die, Settled
  <2> QED
    BY <2>1, <2>2, <2>3, <2>4, <2>5, <2>6 DEF CoverageNext, Operator
<1> QED
  BY <1>1, IInvHolds, PTL DEF CoverageSpec, SettledIsFinal

-----------------------------------------------------------------------------
(* The sweep                                                               *)

Busy     == {"fetch", "unfetched", "pass", "run", "store", "stored", "fail", "refuse"}
Running  == {"run", "store", "stored", "fail", "refuse"}
Deciding == {"fail", "refuse"}

\* The locals x of lane l fit together.
Shape(l, x) ==
  /\ x.pc \in Busy => \E v \in Videos : x.video = {v}
  /\ x.pc \notin Busy => x.video = {}
  /\ x.pc \in Running => \E c \in x.todo : x.comp = {c}
  /\ x.pc \notin Running => x.comp = {}
  /\ x.todo \subseteq Ours(l)
  /\ x.cohort \in 0 .. Len(Cohorts[l])
  /\ x.pc \in Busy \cup {"scan", "pick"} => x.cohort > 0

\* What fail() decided still stands when it writes: the attempts it read are
\* still the row's, or the operator has reset the row since.
Decision(x) ==
  x.decided # {} => /\ x.pc \in Deciding
                    /\ \A d \in x.decided, t \in x.video \X x.comp : d \in MayDecide(t)

DecidedInv == \A l \in Lanes : Decision(lane[l])

LaneInv ==
  /\ lane \in [Lanes -> Local]
  /\ \A l \in Lanes : Shape(l, lane[l])
  /\ HeldIsTodo

EInv == IInv /\ LaneInv /\ DecidedInv

-----------------------------------------------------------------------------
(* How a step changes one lane *)

\* A lane replaces its locals and what it holds, and nothing of another lane.
LEMMA LaneMove ==
  ASSUME LaneInv, NEW l \in Lanes, NEW x \in Local,
         lane' = [lane EXCEPT ![l] = x], Shape(l, x),
         HeldBy(l)' = x.video \X x.todo,
         \A k \in Lanes \ {l} : HeldBy(k)' = HeldBy(k)
  PROVE  LaneInv'
<1>1. lane' \in [Lanes -> Local] /\ lane'[l] = x
      /\ \A k \in Lanes \ {l} : lane'[k] = lane[k]
  BY DEF LaneInv
<1>2. \A k \in Lanes : Shape(k, lane'[k])
  BY <1>1 DEF LaneInv
<1>3. HeldIsTodo'
  BY <1>1 DEF LaneInv, HeldIsTodo
<1> QED BY <1>1, <1>2, <1>3 DEF LaneInv, Shape

\* It moves on with what it holds.
LEMMA MoveOn ==
  ASSUME LaneInv, NEW l \in Lanes, NEW x \in Local,
         lane' = [lane EXCEPT ![l] = x], Shape(l, x), held' = held,
         x.video = lane[l].video, x.todo = lane[l].todo
  PROVE  LaneInv'
<1>1. \A k \in Lanes : HeldBy(k)' = HeldBy(k)
  BY DEF HeldBy, Of, Tasks
<1>2. HeldBy(l)' = x.video \X x.todo
  BY <1>1 DEF LaneInv, HeldIsTodo
<1> QED BY <1>1, <1>2, LaneMove

\* It moves on with empty hands.
LEMMA MoveFree ==
  ASSUME LaneInv, NEW l \in Lanes, NEW x \in Local,
         lane' = [lane EXCEPT ![l] = x], Shape(l, x), held' = held,
         lane[l].video = {} \/ lane[l].todo = {}, x.video = {}
  PROVE  LaneInv'
<1>1. \A k \in Lanes : HeldBy(k)' = HeldBy(k)
  BY DEF HeldBy, Of, Tasks
<1>2. HeldBy(l) = {}
  BY DEF LaneInv, HeldIsTodo
<1>3. HeldBy(l)' = x.video \X x.todo
  BY <1>1, <1>2
<1> QED BY <1>1, <1>3, LaneMove

\* It finishes one pass of its video.
LEMMA MoveFinish ==
  ASSUME LaneInv, NEW l \in Lanes, NEW x \in Local,
         lane' = [lane EXCEPT ![l] = x], Shape(l, x),
         NEW v \in Videos, lane[l].video = {v}, NEW c \in lane[l].todo,
         held' = held \ {<<v, c>>},
         x.video = lane[l].video, x.todo = lane[l].todo \ {c}
  PROVE  LaneInv'
<1>1. HeldBy(l) = {v} \X lane[l].todo
  BY DEF LaneInv, HeldIsTodo
<1>2. HeldBy(l)' = HeldBy(l) \ {<<v, c>>}
  BY DEF HeldBy, Of, Tasks
<1>3. HeldBy(l)' = x.video \X x.todo
  BY <1>1, <1>2
<1>4. <<v, c>> \in Of(l)
  BY <1>1 DEF HeldBy
<1>5. \A k \in Lanes \ {l} : HeldBy(k)' = HeldBy(k)
  BY <1>4 DEF HeldBy, Of, Tasks
<1> QED BY <1>3, <1>5, LaneMove

-----------------------------------------------------------------------------
(* Every step keeps the lanes in order *)

\* A lane's locals by their names, and what is in hand while it works.
LEMMA LocalFacts ==
  ASSUME LaneInv, NEW l \in Lanes
  PROVE  /\ lane[l] \in Local /\ Shape(l, lane[l])
         /\ HeldBy(l) = lane[l].video \X lane[l].todo
         /\ lane[l].pc \notin Busy => HeldBy(l) = {}
         /\ lane[l].video \in SUBSET Videos /\ lane[l].todo \in SUBSET Components
         /\ lane[l].keys \in SUBSET Videos /\ lane[l].cohort \in Nat
  BY DEF LaneInv, HeldIsTodo, Shape, Local

\* The pc is one of the program's.
LEMMA PcNames ==
  /\ "off" \in Pcs /\ "restore" \in Pcs /\ "plan" \in Pcs /\ "reclaim" \in Pcs
  /\ "revive" \in Pcs /\ "reconcile" \in Pcs /\ "scan" \in Pcs /\ "pick" \in Pcs
  /\ "fetch" \in Pcs /\ "unfetched" \in Pcs /\ "pass" \in Pcs /\ "run" \in Pcs
  /\ "store" \in Pcs /\ "stored" \in Pcs /\ "fail" \in Pcs /\ "refuse" \in Pcs
  BY DEF Pcs

\* Whatever an outcome of a pass is called.
LEMMA OutcomeNames ==
  /\ "skipped" \in Outcomes /\ "deferred" \in Outcomes /\ "none" \in Outcomes
  /\ "failed" \in Outcomes /\ "queued" \in Outcomes /\ "done" \in Outcomes
  /\ Nobody \in [Components -> Outcomes]
  BY DEF Outcomes, States, Nobody

\* An idle lane is in order.
LEMMA IdleShape == Idle \in Local /\ \A l \in Lanes : Shape(l, Idle)
<1>1. Idle \in Local
  BY PcNames, OutcomeNames DEF Idle, Local
<1>2. ASSUME NEW l \in Lanes PROVE Shape(l, Idle)
  <2>1. Len(Cohorts[l]) \in Nat
    BY EngineAssumption
  <2> QED BY <2>1 DEF Idle, Shape, Busy, Running
<1> QED BY <1>1, <1>2

\* Between two passes: only the pc changes, and it stays out of the working states.
LEMMA MoveIdle ==
  ASSUME LaneInv, NEW l \in Lanes, NEW p \in Pcs, NEW n \in 0 .. Len(Cohorts[l]),
         NEW b \in BOOLEAN, NEW seen \in SUBSET Videos, NEW keys \in SUBSET Videos,
         lane' = [lane EXCEPT ![l] = [@ EXCEPT !.pc = p, !.cohort = n, !.worked = b,
                                               !.seen = seen, !.keys = keys]],
         held' = held, lane[l].pc \notin Busy, p \notin Busy,
         p \in {"scan", "pick"} => n > 0
  PROVE  LaneInv'
<1> DEFINE x == [lane[l] EXCEPT !.pc = p, !.cohort = n, !.worked = b, !.seen = seen, !.keys = keys]
<1>1. lane[l] \in Local /\ Shape(l, lane[l])
  BY LocalFacts
<1>2. n \in Nat
  BY EngineAssumption
<1>3. /\ x \in Local /\ x.pc = p /\ x.cohort = n /\ x.video = lane[l].video
      /\ x.todo = lane[l].todo /\ x.comp = lane[l].comp
  BY <1>1, <1>2 DEF Local
<1> HIDE DEF x
<1>4. Shape(l, x)
  BY <1>1, <1>3 DEF Shape, Busy, Running
<1>5. lane' = [lane EXCEPT ![l] = x]
  BY DEF x
<1> QED BY <1>3, <1>4, <1>5, MoveOn

\* The preamble and the loop over the keys: the lane holds nothing.
LEMMA PreambleKeeps ==
  ASSUME EInv, NEW l \in Lanes,
         \/ \E S \in SUBSET Shards : Restore(l, S)
         \/ StopAtTop(l) \/ PlanRows(l) \/ Reclaim(l) \/ Revive(l) \/ ReconcileNow(l)
         \/ ReconcileFails(l) \/ Scan(l) \/ CohortEnds(l) \/ KeysDone(l)
  PROVE  LaneInv'
<1>0. LaneInv /\ lane[l] \in Local /\ Shape(l, lane[l])
  BY LocalFacts DEF EInv
<1>1. /\ lane[l].cohort \in 0 .. Len(Cohorts[l]) /\ lane[l].worked \in BOOLEAN
      /\ lane[l].seen \in SUBSET Videos /\ lane[l].keys \in SUBSET Videos
      /\ Len(Cohorts[l]) \in Nat \ {0}
  BY <1>0, EngineAssumption DEF Shape, Local
<1>2. held' = held
  BY DEF Restore, StopAtTop, PlanRows, Plan, Reclaim, ReclaimStale, Revive, ReviveFailed,
         ReconcileNow, ReconcileFails, Reconcile, Scan, CohortEnds, KeysDone, tableVars
<1>3. lane[l].pc \notin Busy
  BY DEF Restore, StopAtTop, PlanRows, Reclaim, Revive, ReconcileNow, ReconcileFails, Scan,
         CohortEnds, KeysDone, At, Busy
<1>4. ASSUME NEW p \in {"plan", "reclaim", "revive", "reconcile"}, Goto(l, p)
      PROVE  LaneInv'
  <2>1. p \in Pcs /\ p \notin Busy /\ ~(p \in {"scan", "pick"})
    BY <1>4 DEF Pcs, Busy
  <2>2. lane' = [lane EXCEPT ![l] = [@ EXCEPT !.pc = p, !.cohort = lane[l].cohort,
                   !.worked = lane[l].worked, !.seen = lane[l].seen, !.keys = lane[l].keys]]
    BY <1>0, <1>4 DEF Goto, Local
  <2> QED BY <2>1, <2>2, <1>0, <1>1, <1>2, <1>3, MoveIdle
<1>5. ASSUME lane' = [lane EXCEPT ![l] = Idle] PROVE LaneInv'
  <2>1. Idle.video = {} /\ Idle \in Local /\ Shape(l, Idle)
    BY IdleShape DEF Idle
  <2>2. lane[l].video = {}
    BY <1>0, <1>3 DEF Shape
  <2> QED BY <2>1, <2>2, <1>0, <1>2, <1>5, MoveFree
<1>6. CASE \/ \E S \in SUBSET Shards : Restore(l, S)
           \/ PlanRows(l) \/ Reclaim(l) \/ Revive(l)
  BY <1>4, <1>6 DEF Restore, PlanRows, Reclaim, Revive
<1>7. CASE StopAtTop(l)
  BY <1>5, <1>7 DEF StopAtTop
<1>8. CASE ReconcileNow(l) \/ ReconcileFails(l)
  <2>0. PICK b \in BOOLEAN : NewRotation(l, b)
    BY <1>8 DEF ReconcileNow, ReconcileFails
  <2> DEFINE x == [lane[l] EXCEPT !.pc = "scan", !.cohort = 1, !.worked = FALSE,
                                  !.seen = {}, !.blind = b]
  <2>1. /\ x \in Local /\ x.pc = "scan" /\ x.cohort = 1 /\ x.video = lane[l].video
        /\ x.todo = lane[l].todo /\ x.comp = lane[l].comp
    BY <1>0, PcNames DEF Local
  <2>2. Shape(l, x)
    BY <2>1, <1>0, <1>1, <1>3 DEF Shape, Busy, Running
  <2>3. lane' = [lane EXCEPT ![l] = x]
    BY <2>0 DEF NewRotation
  <2> QED BY <2>1, <2>2, <2>3, <1>0, <1>2, MoveOn
<1>9. CASE Scan(l)
  <2>1. lane' = [lane EXCEPT ![l] = [@ EXCEPT !.pc = "pick", !.cohort = lane[l].cohort,
                   !.worked = lane[l].worked, !.seen = lane[l].seen, !.keys = Fresh(l)]]
    BY <1>9, <1>0 DEF Scan, Local
  <2>2. "pick" \in Pcs /\ "pick" \notin Busy /\ lane[l].cohort > 0
    BY <1>9, <1>0 DEF Scan, At, Pcs, Busy, Shape
  <2>3. Fresh(l) \in SUBSET Videos
    BY CoverageAssumption DEF Fresh, Candidates
  <2> QED BY <2>1, <2>2, <2>3, <1>0, <1>1, <1>2, <1>3, MoveIdle
<1>10. CASE KeysDone(l)
  <2>1. lane' = [lane EXCEPT ![l] = [@ EXCEPT !.pc = "scan", !.cohort = lane[l].cohort,
                   !.worked = lane[l].worked, !.seen = lane[l].seen, !.keys = lane[l].keys]]
    BY <1>10, <1>0 DEF KeysDone, Goto, Local
  <2>2. "scan" \in Pcs /\ "scan" \notin Busy /\ lane[l].cohort > 0
    BY <1>10, <1>0 DEF KeysDone, At, Pcs, Busy, Shape
  <2> QED BY <2>1, <2>2, <1>0, <1>1, <1>2, <1>3, MoveIdle
<1>11. CASE CohortEnds(l)
  <2>1. CASE lane' = [lane EXCEPT ![l] = Idle]
    BY <2>1, <1>5
  <2>2. CASE Goto(l, "plan")
    BY <2>2, <1>4
  <2>3. CASE /\ lane[l].cohort < Len(Cohorts[l])
             /\ lane' = [lane EXCEPT ![l] = NextCohort(lane[l])]
    <3> DEFINE x == NextCohort(lane[l])
    <3>1. lane[l].cohort + 1 \in 0 .. Len(Cohorts[l]) /\ lane[l].cohort + 1 \in Nat
      BY <2>3, <1>1
    <3>2. /\ x \in Local /\ x.pc = lane[l].pc /\ x.cohort = lane[l].cohort + 1
          /\ x.video = lane[l].video /\ x.todo = lane[l].todo /\ x.comp = lane[l].comp
      BY <3>1, <1>0 DEF NextCohort, Local
    <3>3. Shape(l, x)
      BY <3>1, <3>2, <1>0, <1>1, <1>3 DEF Shape, Busy, Running
    <3>4. lane' = [lane EXCEPT ![l] = x]
      BY <2>3
    <3> QED BY <3>2, <3>3, <3>4, <1>0, <1>2, MoveOn
  <2>4. lane' = [lane EXCEPT ![l] =
          IF Stopping(l) THEN Idle
          ELSE IF lane[l].cohort < Len(Cohorts[l])
            THEN NextCohort(lane[l])
          ELSE IF lane[l].worked \/ Follow THEN [lane[l] EXCEPT !.pc = "plan"]
          ELSE Idle]
    BY <1>11 DEF CohortEnds
  <2>5. CASE ~Stopping(l) /\ lane[l].cohort < Len(Cohorts[l])
    BY <2>3, <2>4, <2>5
  <2>6. CASE Stopping(l) \/ lane[l].cohort >= Len(Cohorts[l])
    <3>1. ~Stopping(l) => ~(lane[l].cohort < Len(Cohorts[l]))
      BY <2>6, <1>1
    <3> QED BY <3>1, <2>1, <2>2, <2>4 DEF Goto
  <2> QED BY <2>5, <2>6, <1>1
<1> QED BY <1>6, <1>7, <1>8, <1>9, <1>10, <1>11

\* Claim: the video is the lane's, and what is to do is what the claim took.
LEMMA ClaimKeeps ==
  ASSUME EInv, NEW l \in Lanes, NEW v \in Videos, Claim(l, v)
  PROVE  LaneInv'
<1>0. LaneInv /\ lane[l] \in Local /\ Shape(l, lane[l]) /\ HeldBy(l) = {}
  BY LocalFacts DEF EInv, Claim, At, Busy
<1>1. lane[l].pc = "pick" /\ lane[l].video = {} /\ lane[l].comp = {} /\ lane[l].cohort > 0
  BY <1>0 DEF Claim, At, Shape, Busy, Running
<1>2. Cohort(l) \subseteq Ours(l)
  <2>1. lane[l].cohort \in 1 .. Len(Cohorts[l])
    BY <1>0, <1>1, EngineAssumption DEF Shape
  <2> QED BY <2>1, EngineAssumption DEF Cohort, Ours
<1> DEFINE next == [lane[l] EXCEPT !.keys = @ \ {v}, !.seen = @ \cup {v}]
<1>3. /\ next \in Local /\ next.pc = "pick" /\ next.cohort = lane[l].cohort
      /\ next.video = {} /\ next.comp = {} /\ next.todo = lane[l].todo
  BY <1>0, <1>1 DEF Local
<1>4. CASE Taken(v, Cohort(l)) = {}
  <2>1. lane' = [lane EXCEPT ![l] = next] /\ held' = held
    BY <1>4 DEF Claim, tableVars
  <2>2. Shape(l, next)
    BY <1>0, <1>1, <1>3 DEF Shape, Busy, Running
  <2> QED BY <2>1, <2>2, <1>0, <1>1, <1>3, MoveFree
<1>5. CASE Taken(v, Cohort(l)) # {}
  <2> DEFINE T == {t[2] : t \in Taken(v, Cohort(l))}
             x == [next EXCEPT !.pc = "fetch", !.video = {v}, !.todo = T]
  <2>1. lane' = [lane EXCEPT ![l] = x] /\ held' = held \cup Taken(v, Cohort(l))
    BY <1>5 DEF Claim, ClaimFor
  <2>2. Taken(v, Cohort(l)) = {v} \X T /\ T \subseteq Ours(l)
    BY <1>2 DEF Taken
  <2>3. /\ x \in Local /\ x.pc = "fetch" /\ x.cohort = lane[l].cohort
        /\ x.video = {v} /\ x.comp = {} /\ x.todo = T
    BY <1>3, <2>2, PcNames DEF Local, Ours
  <2>4. Shape(l, x)
    BY <2>2, <2>3, <1>0, <1>1 DEF Shape, Busy, Running
  <2>5. Taken(v, Cohort(l)) \subseteq Of(l)
    BY <2>2 DEF Of, Tasks, Ours
  <2>6. HeldBy(l)' = x.video \X x.todo
    BY <2>1, <2>2, <2>3, <2>5, <1>0 DEF HeldBy, Of, Tasks
  <2>7. \A k \in Lanes \ {l} : HeldBy(k)' = HeldBy(k)
    BY <2>1, <2>5 DEF HeldBy, Of, Tasks
  <2> QED BY <2>1, <2>3, <2>4, <2>6, <2>7, <1>0, LaneMove
<1> QED BY <1>4, <1>5

\* While a lane is on a video it holds the passes still to do, and the pass it
\* runs is one of them.
LEMMA OnVideo ==
  ASSUME LaneInv, NEW l \in Lanes, lane[l].pc \in Busy
  PROVE  \E v \in Videos :
           /\ lane[l].video = {v}
           /\ \A c : Task(l, c) = <<v, c>>
           /\ \A c \in lane[l].todo : <<v, c>> \in held /\ <<v, c>> \in Tasks
           /\ lane[l].pc \in Running =>
                \E c \in lane[l].todo : lane[l].comp = {c} /\ Current(l) = <<v, c>>
<1>1. Shape(l, lane[l]) /\ HeldBy(l) = lane[l].video \X lane[l].todo
  BY LocalFacts
<1>2. PICK v \in Videos : lane[l].video = {v}
  BY <1>1 DEF Shape
<1>3. \A c : Task(l, c) = <<v, c>>
  BY <1>2 DEF Task
<1>4. \A c \in lane[l].todo : <<v, c>> \in held /\ <<v, c>> \in Tasks
  BY <1>1, <1>2 DEF HeldBy, Of
<1>5. ASSUME lane[l].pc \in Running
      PROVE  \E c \in lane[l].todo : lane[l].comp = {c} /\ Current(l) = <<v, c>>
  <2>1. PICK c \in lane[l].todo : lane[l].comp = {c}
    BY <1>1, <1>5 DEF Shape
  <2>2. lane[l].video \X lane[l].comp = {<<v, c>>}
    BY <1>2, <2>1
  <2>3. Current(l) = <<v, c>>
    BY <2>2 DEF Current
  <2> QED BY <2>1, <2>3
<1> QED BY <1>2, <1>3, <1>4, <1>5

\* The end of a pass leaves the lane in order, whatever the outcome.
LEMMA FinishedKeeps ==
  ASSUME LaneInv, NEW l \in Lanes, lane[l].pc \in Busy,
         NEW v \in Videos, lane[l].video = {v}, NEW c \in lane[l].todo,
         NEW o \in Outcomes, Finished(l, c, o), held' = held \ {<<v, c>>}
  PROVE  LaneInv'
<1> DEFINE x == NextPass(lane[l], c, o)
<1>0. lane[l] \in Local /\ Shape(l, lane[l])
  BY LocalFacts
<1>1. /\ x \in Local /\ x.pc = "pass" /\ x.comp = {} /\ x.todo = lane[l].todo \ {c}
      /\ x.video = lane[l].video /\ x.cohort = lane[l].cohort
  BY <1>0, PcNames DEF NextPass, Local
<1>2. Shape(l, x)
  BY <1>0, <1>1 DEF Shape, Busy, Running
<1>3. lane' = [lane EXCEPT ![l] = x]
  BY DEF Finished
<1> QED BY <1>1, <1>2, <1>3, MoveFinish

\* A lane about to fail a pass keeps what it knows of its video.
LEMMA LooksMove ==
  ASSUME lane \in [Lanes -> Local], NEW l \in Lanes
  PROVE  /\ UnfetchedLooks(l) => lane'[l].pc = "refuse"
         /\ FailLooks(l) => lane'[l].pc = "fail"
         /\ FailUnfetched(l) => lane'[l].pc = "unfetched"
         /\ UnfetchedLooks(l) \/ FailLooks(l) =>
              /\ lane'[l].video = lane[l].video /\ lane'[l].snap = lane[l].snap
              /\ lane'[l].cohort = lane[l].cohort /\ lane'[l].seen = lane[l].seen
              /\ lane'[l].keys = lane[l].keys /\ lane'[l].stop = lane[l].stop
              /\ lane'[l].blind = lane[l].blind
<1>1. ASSUME NEW p, NEW t, lane' = [lane EXCEPT ![l] = Decide(l, p, t)]
      PROVE  /\ lane'[l].pc = p
             /\ lane'[l].video = lane[l].video /\ lane'[l].snap = lane[l].snap
             /\ lane'[l].cohort = lane[l].cohort /\ lane'[l].seen = lane[l].seen
             /\ lane'[l].keys = lane[l].keys /\ lane'[l].stop = lane[l].stop
             /\ lane'[l].blind = lane[l].blind
  <2>1. lane'[l] = Decide(l, p, t) /\ lane[l] \in Local
    BY <1>1
  <2> QED BY <2>1 DEF Decide, Local
<1>2. ASSUME UnfetchedLooks(l)
      PROVE  \E t : lane' = [lane EXCEPT ![l] = Decide(l, "refuse", t)]
  BY <1>2 DEF UnfetchedLooks
<1>3. ASSUME FailLooks(l)
      PROVE  \E t : lane' = [lane EXCEPT ![l] = Decide(l, "fail", t)]
  BY <1>3 DEF FailLooks
<1>4. ASSUME FailUnfetched(l) PROVE lane'[l].pc = "unfetched"
  <2>1. lane'[l] = NextUnfetched(lane[l]) /\ lane[l] \in Local
    BY <1>4 DEF FailUnfetched
  <2> QED BY <2>1 DEF NextUnfetched, Local
<1> QED BY <1>1, <1>2, <1>3, <1>4

\* Whether it reconciled or not, the lane turns to its first cohort.
LEMMA NewRotationMoves ==
  ASSUME lane \in [Lanes -> Local], NEW l \in Lanes, ReconcileNow(l) \/ ReconcileFails(l)
  PROVE  /\ lane'[l].pc = "scan" /\ lane'[l].decided = lane[l].decided
         /\ ReconcileFails(l) => lane'[l].blind
<1>1. ASSUME NEW b, NewRotation(l, b)
      PROVE  lane'[l].pc = "scan" /\ lane'[l].decided = lane[l].decided /\ lane'[l].blind = b
  <2>1. lane[l] \in Local
    OBVIOUS
  <2> QED BY <1>1, <2>1 DEF NewRotation, Local
<1> QED BY <1>1 DEF ReconcileNow, ReconcileFails

\* The steps on a video keep the lanes in order.
LEMMA VideoKeeps ==
  ASSUME EInv, NEW l \in Lanes,
         \/ Fetch(l) \/ FetchFails(l) \/ UnfetchedLooks(l) \/ FailUnfetched(l)
         \/ UnfetchedOver(l) \/ PassesOver(l) \/ FailLooks(l)
         \/ \E c \in Components : GiveBack(l, c) \/ Run(l, c)
         \/ RunRenews(l) \/ RunEmits(l) \/ RunEmitsNothing(l) \/ StorePart(l) \/ StoreAll(l)
  PROVE  LaneInv'
<1>0. LaneInv /\ lane[l] \in Local /\ Shape(l, lane[l])
  BY LocalFacts DEF EInv
<1>1. ASSUME lane' = lane, held' = held PROVE LaneInv'
  BY <1>0, <1>1 DEF LaneInv, HeldIsTodo, HeldBy, Of, Tasks, Shape
<1>2. ASSUME NEW p \in Busy, lane[l].pc \in Busy, p \in Running <=> lane[l].pc \in Running,
             Goto(l, p), held' = held
      PROVE  LaneInv'
  <2> DEFINE x == [lane[l] EXCEPT !.pc = p]
  <2>1. p \in Pcs
    BY <1>2 DEF Busy, Pcs
  <2>2. /\ x \in Local /\ x.pc = p /\ x.comp = lane[l].comp /\ x.todo = lane[l].todo
        /\ x.video = lane[l].video /\ x.cohort = lane[l].cohort
    BY <1>0, <2>1 DEF Local
  <2>3. Shape(l, x)
    BY <1>0, <1>2, <2>2 DEF Shape
  <2>4. lane' = [lane EXCEPT ![l] = x]
    BY <1>2 DEF Goto
  <2> QED BY <2>2, <2>3, <2>4, <1>0, <1>2, MoveOn
<1>3. CASE Fetch(l)
  <2>0. lane[l].pc = "fetch"
    BY <1>3 DEF Fetch, At
  <2>1. PICK v \in Videos : lane[l].video = {v}
    BY <2>0, <1>0 DEF Shape, Busy
  <2> DEFINE snap == [c \in Components |-> row[<<v, c>>].state]
             x == [lane[l] EXCEPT !.pc = "pass", !.snap = snap]
  <2>2. snap \in [Components -> Outcomes]
    BY DEF EInv, IInv, CoverageTypeOK, Row, Outcomes, Tasks
  <2>3. /\ x \in Local /\ x.pc = "pass" /\ x.comp = lane[l].comp /\ x.todo = lane[l].todo
        /\ x.video = lane[l].video /\ x.cohort = lane[l].cohort
    BY <1>0, <2>2, PcNames DEF Local
  <2>4. Shape(l, x)
    BY <1>0, <2>0, <2>3 DEF Shape, Busy, Running
  <2>5. lane' = [lane EXCEPT ![l] = x] /\ held' = held
    BY <1>3, <2>1 DEF Fetch, tableVars
  <2> QED BY <2>3, <2>4, <2>5, <1>0, MoveOn
<1>4. CASE FetchFails(l)
  <2>1. Goto(l, "unfetched") /\ held' = held /\ lane[l].pc = "fetch"
    BY <1>4 DEF FetchFails, At, tableVars
  <2> QED BY <2>1, <1>2 DEF Busy, Running
<1>5. ASSUME NEW b \in BOOLEAN, VideoOver(l, b), lane[l].pc \in Busy \ Running,
             lane[l].todo = {}, held' = held
      PROVE  LaneInv'
  <2> DEFINE x == NextVideo(lane[l], b)
  <2>0. lane[l].worked \/ b \in BOOLEAN
    BY <1>5
  <2>1. /\ x \in Local /\ x.pc = "pick" /\ x.comp = lane[l].comp /\ x.todo = {}
        /\ x.video = {} /\ x.cohort = lane[l].cohort
    BY <1>0, <1>5, PcNames, OutcomeNames DEF NextVideo, Local
  <2>2. Shape(l, x)
    BY <1>0, <1>5, <2>1 DEF Shape, Busy, Running
  <2>3. lane' = [lane EXCEPT ![l] = x]
    BY <1>5 DEF VideoOver
  <2> QED BY <2>1, <2>2, <2>3, <1>0, <1>5, MoveFree
<1>6. CASE PassesOver(l)
  <2>1. VideoOver(l, TRUE) /\ held' = held /\ lane[l].pc = "pass" /\ lane[l].todo = {}
    BY <1>6 DEF PassesOver, At, tableVars
  <2> QED BY <2>1, <1>5 DEF Busy, Running
<1>7. ASSUME NEW v \in Videos, lane[l].video = {v}, NEW c \in lane[l].todo,
             lane[l].pc \in Busy \ Running,
             lane' = [lane EXCEPT ![l].todo = @ \ {c}], held' = held \ {<<v, c>>}
      PROVE  LaneInv'
  <2> DEFINE x == [lane[l] EXCEPT !.todo = lane[l].todo \ {c}]
  <2>1. /\ x \in Local /\ x.pc = lane[l].pc /\ x.comp = lane[l].comp
        /\ x.todo = lane[l].todo \ {c}
        /\ x.video = lane[l].video /\ x.cohort = lane[l].cohort
    BY <1>0, <1>7 DEF Local
  <2>2. Shape(l, x)
    BY <1>0, <1>7, <2>1 DEF Shape
  <2>3. lane' = [lane EXCEPT ![l] = x]
    BY <1>7
  <2> QED BY <2>1, <2>2, <2>3, <1>0, <1>7, MoveFinish
<1>8. CASE FailUnfetched(l)
  <2>0. lane[l].pc = "refuse"
    BY <1>8 DEF FailUnfetched, At
  <2>1. PICK v \in Videos, c \in lane[l].todo :
          lane[l].video = {v} /\ lane[l].comp = {c} /\ Current(l) = <<v, c>>
    BY <2>0, <1>0, OnVideo DEF Busy, Running
  <2> DEFINE x == NextUnfetched(lane[l])
  <2>2. /\ x \in Local /\ x.pc = "unfetched" /\ x.comp = {} /\ x.todo = lane[l].todo \ {c}
        /\ x.video = lane[l].video /\ x.cohort = lane[l].cohort
    BY <1>0, <2>1, PcNames DEF Local, NextUnfetched
  <2>3. Shape(l, x)
    BY <1>0, <2>0, <2>2 DEF Shape, Busy, Running
  <2>4. lane' = [lane EXCEPT ![l] = x]
    BY <1>8 DEF FailUnfetched
  <2>5. held' = held \ {Current(l)}
    BY <1>8 DEF FailUnfetched, Fail
  <2> HIDE DEF x
  <2> QED BY <2>1, <2>2, <2>3, <2>4, <2>5, <1>0, MoveFinish
<1>15. ASSUME NEW p \in {"fail", "refuse"}, NEW t \in Tasks, t[2] \in lane[l].todo,
              lane[l].pc \in Busy, lane' = [lane EXCEPT ![l] = Decide(l, p, t)], held' = held
       PROVE  LaneInv'
  <2> DEFINE x == Decide(l, p, t)
  <2>1. {Decided(row[t].attempts)} \in SUBSET Decisions
    <3>1. row[t].attempts \in Nat /\ MaxAttempts \in Nat \ {0}
      BY CoverageAssumption DEF EInv, IInv, CoverageTypeOK, Row
    <3>2. CASE row[t].attempts <= MaxAttempts
      BY <3>1, <3>2 DEF Decisions
    <3>3. CASE row[t].attempts > MaxAttempts
      <4>1. Decided(row[t].attempts) = Decided(MaxAttempts)
        BY <3>1, <3>3 DEF Decided, Verdict
      <4> QED BY <4>1, <3>1 DEF Decisions
    <3> QED BY <3>1, <3>2, <3>3
  <2>2. p \in Pcs /\ {t[2]} \in SUBSET Components
    BY <1>15, <1>0, PcNames DEF Local
  <2>3. /\ x \in Local /\ x.pc = p /\ x.comp = {t[2]} /\ x.todo = lane[l].todo
        /\ x.video = lane[l].video /\ x.cohort = lane[l].cohort
    BY <1>0, <2>1, <2>2 DEF Local, Decide
  <2>4. Shape(l, x)
    BY <1>0, <1>15, <2>3 DEF Shape, Busy, Running
  <2>5. lane' = [lane EXCEPT ![l] = x]
    BY <1>15
  <2> HIDE DEF x
  <2> QED BY <2>3, <2>4, <2>5, <1>0, <1>15, MoveOn
<1>16. CASE UnfetchedLooks(l)
  <2>1. PICK c \in lane[l].todo : lane' = [lane EXCEPT ![l] = Decide(l, "refuse", Task(l, c))]
    BY <1>16 DEF UnfetchedLooks, Ready
  <2>2. lane[l].pc \in Busy /\ held' = held
    BY <1>16 DEF UnfetchedLooks, At, Busy, tableVars
  <2>3. Task(l, c) \in Tasks /\ Task(l, c)[2] \in lane[l].todo
    BY <2>2, <1>0, OnVideo DEF Task
  <2> QED BY <2>1, <2>2, <2>3, <1>15
<1>17. CASE FailLooks(l)
  <2>1. lane' = [lane EXCEPT ![l] = Decide(l, "fail", Current(l))]
    BY <1>17 DEF FailLooks
  <2>2. lane[l].pc \in Busy /\ lane[l].pc \in Running /\ held' = held
    BY <1>17 DEF FailLooks, At, Busy, Running, tableVars
  <2>3. Current(l) \in Tasks /\ Current(l)[2] \in lane[l].todo
    BY <2>2, <1>0, OnVideo
  <2> QED BY <2>1, <2>2, <2>3, <1>15
<1>18. CASE UnfetchedOver(l)
  <2>1. VideoOver(l, FALSE) /\ held' = held /\ lane[l].pc = "unfetched" /\ lane[l].todo = {}
    BY <1>18 DEF UnfetchedOver, At, tableVars
  <2> QED BY <2>1, <1>5 DEF Busy, Running
<1>9. ASSUME NEW c \in Components, GiveBack(l, c) PROVE LaneInv'
  <2>0. lane[l].pc = "pass" /\ c \in lane[l].todo
    BY <1>9 DEF GiveBack, Due, Ready, At
  <2>1. PICK v \in Videos : lane[l].video = {v} /\ Task(l, c) = <<v, c>>
    BY <2>0, <1>0, OnVideo DEF Busy
  <2>2. held' = held \ {<<v, c>>} /\ lane' = [lane EXCEPT ![l].todo = @ \ {c}]
    BY <1>9, <2>1 DEF GiveBack, Release
  <2> QED BY <2>0, <2>1, <2>2, <1>7 DEF Busy, Running
<1>10. ASSUME NEW c \in Components, Run(l, c) PROVE LaneInv'
  <2>0. lane[l].pc = "pass" /\ c \in lane[l].todo
    BY <1>10 DEF Run, Due, Ready, At
  <2> DEFINE x == [lane[l] EXCEPT !.pc = "run", !.comp = {c}]
  <2>1. /\ x \in Local /\ x.pc = "run" /\ x.comp = {c} /\ x.todo = lane[l].todo
        /\ x.video = lane[l].video /\ x.cohort = lane[l].cohort
    BY <1>0, PcNames DEF Local
  <2>2. Shape(l, x)
    BY <1>0, <2>0, <2>1 DEF Shape, Busy, Running
  <2>3. lane' = [lane EXCEPT ![l] = x] /\ held' = held
    BY <1>0, <1>10 DEF Run, tableVars
  <2> QED BY <2>1, <2>2, <2>3, <1>0, MoveOn
<1>11. CASE RunRenews(l) \/ StorePart(l)
  <2>1. lane' = lane /\ held' = held
    BY <1>11 DEF RunRenews, Renew, StorePart, tableVars
  <2> QED BY <2>1, <1>1
<1>12. CASE RunEmits(l)
  <2>1. Goto(l, "store") /\ held' = held /\ lane[l].pc = "run"
    BY <1>12 DEF RunEmits, At, tableVars
  <2> QED BY <2>1, <1>2 DEF Busy, Running
<1>13. CASE StoreAll(l)
  <2>1. Goto(l, "stored") /\ held' = held /\ lane[l].pc = "store"
    BY <1>13 DEF StoreAll, At, tableVars
  <2> QED BY <2>1, <1>2 DEF Busy, Running
<1>14. CASE RunEmitsNothing(l)
  <2>1. Goto(l, "stored") /\ held' = held /\ lane[l].pc = "run"
    BY <1>14 DEF RunEmitsNothing, At, tableVars
  <2> QED BY <2>1, <1>2 DEF Busy, Running
<1> QED BY <1>3, <1>4, <1>6, <1>8, <1>9, <1>10, <1>11, <1>12, <1>13, <1>14,
           <1>16, <1>17, <1>18

\* The steps that end a pass keep the lanes in order.
LEMMA PassKeeps ==
  ASSUME EInv, NEW l \in Lanes,
         \/ \E c \in Components : GateSkip(l, c) \/ GateDefer(l, c)
         \/ RunSkips(l) \/ RunDefers(l) \/ RunTransient(l) \/ RunFails(l) \/ MarkDone(l)
  PROVE  LaneInv'
<1>0. LaneInv
  BY DEF EInv
<1>1. ASSUME NEW c \in Components, GateSkip(l, c) \/ GateDefer(l, c) PROVE LaneInv'
  <2>0. lane[l].pc = "pass" /\ c \in lane[l].todo
    BY <1>1 DEF GateSkip, GateDefer, Due, Ready, At
  <2>1. PICK v \in Videos : lane[l].video = {v} /\ Task(l, c) = <<v, c>>
    BY <2>0, <1>0, OnVideo DEF Busy
  <2>2. held' = held \ {<<v, c>>} /\ (Finished(l, c, "skipped") \/ Finished(l, c, "deferred"))
    BY <1>1, <2>1 DEF GateSkip, GateDefer, Skip, Defer
  <2> QED BY <2>0, <2>1, <2>2, <1>0, OutcomeNames, FinishedKeeps DEF Busy
<1>2. ASSUME RunSkips(l) \/ RunDefers(l) \/ RunTransient(l) \/ RunFails(l) \/ MarkDone(l)
      PROVE  LaneInv'
  <2>0. lane[l].pc \in Running
    BY <1>2 DEF RunSkips, RunDefers, RunTransient, RunFails, MarkDone, At, Running
  <2>1. PICK v \in Videos, c \in lane[l].todo : lane[l].video = {v} /\ Current(l) = <<v, c>>
    BY <2>0, <1>0, OnVideo DEF Busy, Running
  <2>2. Current(l)[2] = c
    BY <2>1
  <2>3. \A d \in lane[l].decided : d.state \in Outcomes
    BY <1>0, LocalFacts, OutcomeNames DEF Local, Decisions, Decided, Verdict
  <2>4. /\ held' = held \ {<<v, c>>}
        /\ \E o \in Outcomes : Finished(l, c, o)
    BY <1>2, <2>1, <2>2, <2>3, OutcomeNames
       DEF RunSkips, RunDefers, RunTransient, RunFails, MarkDone, Skip, Defer, Fail, Done
  <2> QED BY <2>0, <2>1, <2>4, <1>0, FinishedKeeps DEF Busy, Running
<1> QED BY <1>1, <1>2

\* What a lane does by itself.
LEMMA StepKeeps ==
  ASSUME EInv, NEW l \in Lanes, Step(l) \/ RunRenews(l)
  PROVE  LaneInv'
  BY PreambleKeeps, ClaimKeeps, VideoKeeps, PassKeeps DEF Step

\* Start and stop touch no pass; a death takes what its lanes held.
LEMMA OutsideKeeps ==
  ASSUME EInv, Start \/ Stop \/ \E ls \in SUBSET Lanes : Crash(ls)
  PROVE  LaneInv'
<1>0. LaneInv /\ lane \in [Lanes -> Local]
      /\ \A l \in Lanes : lane[l] \in Local /\ Shape(l, lane[l])
                          /\ HeldBy(l) = lane[l].video \X lane[l].todo
  BY LocalFacts DEF EInv, LaneInv
<1>1. ASSUME NEW l \in Lanes, lane[l].pc \notin Busy PROVE HeldBy(l) = {}
  BY <1>0, <1>1 DEF Shape
<1>2. CASE Start
  <2>1. held' = held
    BY <1>2 DEF Start, tableVars
  <2> DEFINE New(b) == [Idle EXCEPT !.pc = "restore", !.stop = b]
  <2>2. ASSUME NEW b \in BOOLEAN, NEW l \in Lanes
        PROVE  New(b) \in Local /\ Shape(l, New(b)) /\ New(b).video = {}
    <3>1. /\ New(b) \in Local /\ New(b).pc = "restore" /\ New(b).video = {}
          /\ New(b).comp = {} /\ New(b).todo = {} /\ New(b).cohort = 0
      BY IdleShape, PcNames DEF Idle, Local
    <3>2. Len(Cohorts[l]) \in Nat
      BY EngineAssumption
    <3> QED BY <3>1, <3>2 DEF Shape, Busy, Running
  <2>3. ASSUME NEW l \in Lanes
        PROVE  \/ lane'[l] = lane[l]
               \/ lane[l].pc = "off" /\ \E b \in BOOLEAN : lane'[l] = New(b)
    BY <1>2 DEF Start, At
  <2>4. DOMAIN lane' = Lanes /\ lane' = [l \in Lanes |-> lane'[l]]
    BY <1>2 DEF Start
  <2> HIDE DEF New
  <2>5. \A l \in Lanes : lane'[l] \in Local /\ Shape(l, lane'[l])
    BY <1>0, <2>2, <2>3
  <2>6. lane' \in [Lanes -> Local]
    BY <2>4, <2>5
  <2>7. ASSUME NEW l \in Lanes PROVE HeldBy(l)' = lane'[l].video \X lane'[l].todo
    <3>1. HeldBy(l)' = HeldBy(l)
      BY <2>1 DEF HeldBy, Of, Tasks
    <3>2. CASE lane'[l] = lane[l]
      BY <3>1, <3>2, <1>0
    <3>3. CASE lane[l].pc = "off" /\ \E b \in BOOLEAN : lane'[l] = New(b)
      BY <3>1, <3>3, <1>1, <2>2 DEF Busy
    <3> QED BY <3>2, <3>3, <2>3
  <2> QED BY <2>5, <2>6, <2>7 DEF LaneInv, HeldIsTodo, Shape
<1>3. CASE Stop
  <2>1. held' = held
    BY <1>3 DEF Stop
  <2>2. ASSUME NEW l \in Lanes
        PROVE  /\ lane'[l] \in Local /\ Shape(l, lane'[l])
               /\ lane'[l].video = lane[l].video /\ lane'[l].todo = lane[l].todo
    <3>1. CASE lane'[l] = lane[l]
      BY <3>1, <1>0
    <3>2. CASE lane'[l] = [lane[l] EXCEPT !.stop = TRUE]
      <4>1. /\ lane'[l] \in Local /\ lane'[l].pc = lane[l].pc
            /\ lane'[l].video = lane[l].video /\ lane'[l].todo = lane[l].todo
            /\ lane'[l].comp = lane[l].comp /\ lane'[l].cohort = lane[l].cohort
        BY <3>2, <1>0 DEF Local
      <4> QED BY <4>1, <1>0 DEF Shape
    <3> QED BY <3>1, <3>2, <1>3 DEF Stop
  <2>3. lane' \in [Lanes -> Local]
    BY <2>2, <1>3 DEF Stop
  <2>4. \A l \in Lanes : HeldBy(l)' = HeldBy(l)
    BY <2>1 DEF HeldBy, Of, Tasks
  <2> QED BY <2>2, <2>3, <2>4, <1>0 DEF LaneInv, HeldIsTodo, Shape
<1>4. ASSUME NEW ls \in SUBSET Lanes, Crash(ls) PROVE LaneInv'
  <2>1. /\ held' = {t \in held : LaneOf[t[2]] \notin ls}
        /\ lane' = [l \in Lanes |-> IF l \in ls THEN Idle ELSE lane[l]]
    BY <1>4 DEF Crash, Die
  <2>2. lane' \in [Lanes -> Local] /\ \A l \in Lanes : Shape(l, lane'[l])
    BY <2>1, <1>0, IdleShape
  <2>3. ASSUME NEW l \in Lanes PROVE HeldBy(l)' = lane'[l].video \X lane'[l].todo
    <3>1. CASE l \in ls
      <4>1. lane'[l] = Idle /\ Idle.video = {}
        BY <2>1, <3>1 DEF Idle
      <4>2. HeldBy(l)' = {}
        BY <2>1, <3>1 DEF HeldBy, Of, Tasks
      <4> QED BY <4>1, <4>2
    <3>2. CASE l \notin ls
      <4>1. HeldBy(l)' = HeldBy(l)
        BY <2>1, <3>2 DEF HeldBy, Of, Tasks
      <4> QED BY <4>1, <3>2, <2>1, <1>0
    <3> QED BY <3>1, <3>2
  <2> QED BY <2>2, <2>3 DEF LaneInv, HeldIsTodo, Shape
<1> QED BY <1>2, <1>3, <1>4

-----------------------------------------------------------------------------
(* Every step uses the table as Coverage allows *)

\* The preamble and the claim find the lane's hands empty.
LEMMA SweepUse ==
  ASSUME EInv, NEW l \in Lanes,
         \/ PlanRows(l) \/ Reclaim(l) \/ Revive(l) \/ ReconcileNow(l)
         \/ ReconcileFails(l)
         \/ \E v \in Videos : Claim(l, v)
  PROVE  Sweep(l) \/ UNCHANGED tableVars
<1>0. HeldBy(l) = {}
  BY LocalFacts
     DEF EInv, PlanRows, Reclaim, Revive, ReconcileNow, ReconcileFails, Claim, At, Busy
<1>1. CASE PlanRows(l) \/ Reclaim(l) \/ Revive(l)
  BY <1>0, <1>1 DEF PlanRows, Reclaim, Revive, Sweep
<1>2. CASE ReconcileNow(l)
  <2> DEFINE proved == {t \in Proved(l) : t \in Tasks /\ Reconcilable(row[t])}
  <2>1. Reconcile(l, Proved(l)) => Reconcile(l, proved)
    BY DEF Reconcile, Of
  <2>2. proved \in SUBSET {t \in Tasks : Reconcilable(row[t])}
    OBVIOUS
  <2> QED BY <1>0, <1>2, <2>1, <2>2 DEF ReconcileNow, Sweep
<1>5. CASE ReconcileFails(l)
  <2>1. \E some \in SUBSET {t \in Tasks : Reconcilable(row[t])} : Reconcile(l, some)
    BY <1>5 DEF ReconcileFails, Proved, Of
  <2> QED BY <1>0, <2>1 DEF Sweep
<1>3. ASSUME NEW v \in Videos, Claim(l, v), Taken(v, Cohort(l)) # {}
      PROVE  Sweep(l)
  <2>1. lane[l].cohort \in 1 .. Len(Cohorts[l])
    <3>1. lane[l].pc = "pick" /\ Shape(l, lane[l])
      BY <1>3, LocalFacts DEF EInv, Claim, At
    <3>2. Len(Cohorts[l]) \in Nat
      BY EngineAssumption
    <3> QED BY <3>1, <3>2 DEF Shape
  <2>2. Cohort(l) \in SUBSET Components /\ Cohort(l) \subseteq {c \in Components : LaneOf[c] = l}
    BY <2>1, EngineAssumption DEF Cohort
  <2>3. ClaimFor(l, v, Cohort(l))
    BY <1>3 DEF Claim
  <2> QED BY <1>0, <2>2, <2>3 DEF Sweep
<1>4. ASSUME NEW v \in Videos, Claim(l, v), Taken(v, Cohort(l)) = {}
      PROVE  UNCHANGED tableVars
  BY <1>4 DEF Claim
<1> QED BY <1>1, <1>2, <1>3, <1>4, <1>5

\* What a lane writes as fail() it may still decide, and of a pass it holds.
LEMMA FailUse ==
  ASSUME EInv, NEW l \in Lanes, FailUnfetched(l) \/ RunFails(l)
  PROVE  /\ Current(l) \in held /\ Current(l) \in Tasks
         /\ \E d \in lane[l].decided : d \in MayDecide(Current(l)) /\ Fail(Current(l), d)
<1>1. lane[l].pc \in Running /\ lane[l].pc \in Busy
  BY DEF FailUnfetched, RunFails, At, Running, Busy
<1>2. /\ Current(l) \in held /\ Current(l) \in Tasks
      /\ Current(l) \in lane[l].video \X lane[l].comp
  BY <1>1, OnVideo DEF EInv
<1>3. PICK d \in lane[l].decided : Fail(Current(l), d)
  BY DEF FailUnfetched, RunFails
<1>4. d \in MayDecide(Current(l))
  BY <1>2, <1>3 DEF EInv, DecidedInv, Decision
<1> QED BY <1>2, <1>3, <1>4

\* fail() retires a row or queues it again, and makes of it nothing else.
LEMMA DecidesAState ==
  ASSUME NEW t, NEW d \in MayDecide(t)
  PROVE  d.state \in {"failed", "queued"}
  BY DEF MayDecide, Decisions, Decided, Verdict

\* What a lane finishes, it holds.
LEMMA FinishUse ==
  ASSUME EInv, NEW l \in Lanes,
         \/ FailUnfetched(l) \/ RunRenews(l)
         \/ \E c \in Components : GiveBack(l, c) \/ GateSkip(l, c) \/ GateDefer(l, c)
         \/ RunSkips(l) \/ RunDefers(l) \/ RunTransient(l) \/ RunFails(l) \/ MarkDone(l)
  PROVE  (\E t \in Tasks : Finish(t)) \/ UNCHANGED tableVars
<1>0. LaneInv
  BY DEF EInv
<1>1. CASE FailUnfetched(l) \/ RunFails(l)
  BY <1>1, FailUse DEF Finish
<1>2. ASSUME NEW c \in Components, GiveBack(l, c) \/ GateSkip(l, c) \/ GateDefer(l, c)
      PROVE  \E t \in Tasks : Finish(t)
  <2>0. lane[l].pc \in Busy /\ c \in lane[l].todo
    BY <1>2 DEF GiveBack, GateSkip, GateDefer, Due, Ready, At, Busy
  <2>1. Task(l, c) \in held /\ Task(l, c) \in Tasks
    BY <2>0, <1>0, OnVideo
  <2> QED BY <2>1, <1>2 DEF GiveBack, GateSkip, GateDefer, Finish
<1>3. ASSUME RunRenews(l) \/ RunSkips(l) \/ RunDefers(l) \/ RunTransient(l) \/ MarkDone(l)
      PROVE  \E t \in Tasks : Finish(t)
  <2>0. lane[l].pc \in Running /\ lane[l].pc \in Busy
    BY <1>3 DEF RunRenews, RunSkips, RunDefers, RunTransient, MarkDone, At, Running, Busy
  <2>1. Current(l) \in held /\ Current(l) \in Tasks
    BY <2>0, <1>0, OnVideo
  <2> QED
    BY <2>1, <1>3 DEF RunRenews, RunSkips, RunDefers, RunTransient, MarkDone, Finish
<1> QED BY <1>1, <1>2, <1>3

\* So every step of the sweep is one of the table's, or leaves it alone.
LEMMA StepIsUse ==
  ASSUME EInv, [EngineNext]_vars
  PROVE  [CoverageNext]_tableVars
<1>1. ASSUME NEW l \in Lanes, Step(l) \/ RunRenews(l) PROVE [CoverageNext]_tableVars
  <2>1. CASE \/ PlanRows(l) \/ Reclaim(l) \/ Revive(l) \/ ReconcileNow(l)
             \/ ReconcileFails(l) \/ \E v \in Videos : Claim(l, v)
    BY <2>1, SweepUse DEF CoverageNext
  <2>2. CASE \/ FailUnfetched(l) \/ RunRenews(l)
             \/ \E c \in Components : GiveBack(l, c) \/ GateSkip(l, c) \/ GateDefer(l, c)
             \/ RunSkips(l) \/ RunDefers(l) \/ RunTransient(l) \/ RunFails(l) \/ MarkDone(l)
    BY <2>2, FinishUse DEF CoverageNext
  <2>3. CASE \/ \E S \in SUBSET Shards : Restore(l, S)
             \/ StopAtTop(l) \/ Scan(l) \/ CohortEnds(l) \/ KeysDone(l)
             \/ Fetch(l) \/ FetchFails(l) \/ UnfetchedLooks(l) \/ UnfetchedOver(l)
             \/ PassesOver(l) \/ FailLooks(l)
             \/ \E c \in Components : Run(l, c)
             \/ RunEmits(l) \/ RunEmitsNothing(l) \/ StorePart(l) \/ StoreAll(l)
    BY <2>3 DEF Restore, StopAtTop, Scan, CohortEnds, KeysDone, Fetch, FetchFails,
                UnfetchedLooks, UnfetchedOver, PassesOver, FailLooks, Run, RunEmits, RunEmitsNothing, StorePart, StoreAll
  <2> QED BY <1>1, <2>1, <2>2, <2>3 DEF Step
<1>2. CASE Start
  BY <1>2 DEF Start
<1>3. CASE Stop
  <2>1. row \in [Tasks -> Row] /\ fails \in [Tasks -> Nat]
    BY DEF EInv, IInv, CoverageTypeOK
  <2>2. Disturb("operator") /\ row' = row /\ fails' = fails /\ UNCHANGED held
    BY <1>3 DEF Stop
  <2>3. /\ row' = [t \in Tasks |-> row[t]]
        /\ fails' = [t \in Tasks |-> fails[t]]
    BY <2>1, <2>2
  <2>4. Requeue({})
    BY <2>2, <2>3 DEF Requeue
  <2> QED BY <2>4 DEF CoverageNext, Operator
<1>4. ASSUME NEW ls \in SUBSET Lanes, Crash(ls) PROVE [CoverageNext]_tableVars
  BY <1>4 DEF Crash, CoverageNext
<1>5. ASSUME NEW t \in Tasks, LeaseLapses(t) \/ BackoffElapses(t)
      PROVE  [CoverageNext]_tableVars
  BY <1>5 DEF CoverageNext
<1>6. ASSUME NEW cs \in SUBSET Components, Requeue(cs) PROVE [CoverageNext]_tableVars
  BY <1>6 DEF CoverageNext, Operator
<1>7. ASSUME NEW c \in Components, Reset(c) PROVE [CoverageNext]_tableVars
  BY <1>7 DEF Reset, CoverageNext, Operator
<1>8. CASE UNCHANGED vars
  BY <1>8 DEF vars, tableVars
<1> QED BY <1>1, <1>2, <1>3, <1>4, <1>5, <1>6, <1>7, <1>8 DEF EngineNext

-----------------------------------------------------------------------------
(* What fail() decided *)

\* While a lane holds a pass, nobody but the operator's reset touches the
\* attempts on which fail() may decide.
LEMMA DecisionStands ==
  ASSUME IInv, [CoverageNext]_tableVars, NEW t \in Tasks, t \in held, t \in held'
  PROVE  MayDecide(t) \subseteq MayDecide(t)'
<1>0. row \in [Tasks -> Row] /\ OpenState(row[t].state) /\ fails \in [Tasks -> Nat]
  BY DEF IInv, CoverageTypeOK, RowInv
<1>1. SUFFICES \/ /\ row'[t].attempts = row[t].attempts
                  /\ row'[t].revivals = row[t].revivals /\ fails'[t] = fails[t]
               \/ ResetSince(t)' /\ row'[t].attempts = 0
  <2>1. row[t].attempts \in Nat /\ MaxAttempts \in Nat \ {0}
    BY <1>0, CoverageAssumption DEF Row
  <2>2. Decided(row[t].attempts) \in Decisions
    <3>1. CASE row[t].attempts <= MaxAttempts
      BY <2>1, <3>1 DEF Decisions
    <3>2. CASE row[t].attempts > MaxAttempts
      <4>1. Decided(row[t].attempts) = Decided(MaxAttempts)
        BY <2>1, <3>2 DEF Decided, Verdict
      <4> QED BY <4>1, <2>1 DEF Decisions
    <3> QED BY <2>1, <3>1, <3>2
  <2> QED BY <1>1, <2>2 DEF MayDecide, ResetSince
<1>2. ASSUME NEW l \in Lanes, Sweep(l)
      PROVE  row'[t].attempts = row[t].attempts /\ row'[t].revivals = row[t].revivals
             /\ fails'[t] = fails[t]
  <2>1. CASE Plan(l) \/ ReviveFailed
    BY <2>1, <1>0 DEF Plan, ReviveFailed, Revivable, OpenState, Row
  <2>3. CASE ReclaimStale
    BY <2>3, <1>0 DEF ReclaimStale, Row
  <2>4. ASSUME NEW proved, Reconcile(l, proved)
        PROVE  row'[t].attempts = row[t].attempts /\ row'[t].revivals = row[t].revivals
               /\ fails'[t] = fails[t]
    BY <2>4, <1>0 DEF Reconcile, Row
  <2>2. ASSUME NEW v \in Videos, NEW cs \in SUBSET Components,
               cs \subseteq {c \in Components : LaneOf[c] = l}, ClaimFor(l, v, cs)
        PROVE  row'[t] = row[t] /\ fails'[t] = fails[t]
    <3>1. HeldBy(l) = {}
      BY <1>2 DEF Sweep
    <3>2. t \notin Taken(v, cs)
      BY <3>1, <2>2 DEF HeldBy, Of, Taken
    <3> QED BY <3>2, <2>2 DEF ClaimFor
  <2> QED BY <2>1, <2>2, <2>3, <2>4, <1>2 DEF Sweep
<1>3. ASSUME NEW u \in Tasks, Finish(u)
      PROVE  row'[t].attempts = row[t].attempts /\ row'[t].revivals = row[t].revivals
             /\ fails'[t] = fails[t]
  <2>1. CASE Renew(u)
    BY <2>1, <1>0 DEF Renew, Row
  <2>2. CASE ~Renew(u)
    <3>1. t # u
      BY <1>3, <2>2 DEF Finish, Release, Done, Fail, Defer, Skip
    <3> QED BY <3>1, <2>2, <1>3, <1>0 DEF Finish, Release, Done, Fail, Defer, Skip
  <2> QED BY <2>1, <2>2
<1>4. ASSUME NEW u \in Tasks, LeaseLapses(u) \/ BackoffElapses(u)
      PROVE  row'[t].attempts = row[t].attempts /\ row'[t].revivals = row[t].revivals
             /\ fails'[t] = fails[t]
  BY <1>4, <1>0 DEF LeaseLapses, BackoffElapses, Row
<1>5. ASSUME NEW cs \in SUBSET Components, Requeue(cs)
      PROVE  row'[t] = row[t] /\ fails'[t] = fails[t]
  BY <1>5, <1>0 DEF Requeue, OpenState
<1>6. ASSUME NEW c \in Components, ResetComponent(c)
      PROVE  \/ row'[t] = row[t] /\ fails'[t] = fails[t]
             \/ ResetSince(t)' /\ row'[t].attempts = 0
  <2>1. CASE t[2] = c
    <3>1. row'[t] = [Absent EXCEPT !.state = "queued"] /\ fails'[t] = 0
      BY <1>6, <2>1, <1>0 DEF ResetComponent, OpenState
    <3>2. row'[t].attempts = 0 /\ row'[t].revivals = 0
      BY <3>1 DEF Absent
    <3> QED BY <3>1, <3>2 DEF ResetSince
  <2>2. CASE t[2] # c
    BY <1>6, <2>2 DEF ResetComponent
  <2> QED BY <2>1, <2>2
<1>7. ASSUME NEW ls \in SUBSET Lanes, Die(ls)
      PROVE  row'[t] = row[t] /\ fails'[t] = fails[t]
  BY <1>7 DEF Die
<1>8. ASSUME UNCHANGED tableVars PROVE row'[t] = row[t] /\ fails'[t] = fails[t]
  BY <1>8 DEF tableVars
<1> QED BY <1>2, <1>3, <1>4, <1>5, <1>6, <1>7, <1>8 DEF CoverageNext, Operator

\* A lane that has not yet looked has decided nothing, one that has written has
\* nothing left to write.
LEMMA OwnDecision ==
  ASSUME EInv, NEW l \in Lanes, Step(l) \/ RunRenews(l)
  PROVE  \/ lane'[l].decided = {}
         \/ UNCHANGED tableVars /\ UnfetchedLooks(l)
         \/ UNCHANGED tableVars /\ FailLooks(l)
<1>0. /\ lane[l] \in Local /\ lane \in [Lanes -> Local] /\ Decision(lane[l])
  BY LocalFacts DEF EInv, LaneInv, DecidedInv
<1>n. Idle.decided = {} /\ Idle \in Local
  BY IdleShape DEF Idle
<1>1. CASE RunFails(l) \/ FailUnfetched(l)
  <2>1. CASE RunFails(l)
    <3>1. \E c, o : lane'[l] = NextPass(lane[l], c, o)
      BY <2>1, <1>0 DEF RunFails, Finished
    <3> QED BY <3>1, <1>0 DEF NextPass, Local
  <2>2. CASE FailUnfetched(l)
    BY <2>2, <1>0 DEF FailUnfetched, NextUnfetched, Local
  <2> QED BY <1>1, <2>1, <2>2
<1>2. CASE UnfetchedLooks(l) \/ FailLooks(l)
  BY <1>2 DEF UnfetchedLooks, FailLooks
<1>3. CASE ~RunFails(l) /\ ~FailUnfetched(l) /\ ~UnfetchedLooks(l) /\ ~FailLooks(l)
  <2>1. lane[l].pc \notin Deciding
    BY <1>3 DEF Step, Restore, StopAtTop, PlanRows, Reclaim, Revive, ReconcileNow,
         ReconcileFails, Scan, CohortEnds, KeysDone, Claim, Fetch, FetchFails, UnfetchedOver,
         PassesOver, GiveBack, GateSkip, GateDefer, Run, Due, RunSkips, RunDefers, RunTransient,
         RunEmits, RunEmitsNothing, StorePart, StoreAll, MarkDone, RunRenews, At, Deciding
  <2>2. lane[l].decided = {}
    BY <2>1, <1>0 DEF Decision
  <2>3. CASE \/ \E S \in SUBSET Shards : Restore(l, S)
             \/ PlanRows(l) \/ Reclaim(l) \/ Revive(l) \/ KeysDone(l) \/ FetchFails(l)
             \/ RunEmits(l) \/ RunEmitsNothing(l) \/ StoreAll(l)
    BY <2>2, <2>3, <1>0 DEF Restore, PlanRows, Reclaim, Revive, KeysDone, FetchFails,
         RunEmits, RunEmitsNothing, StoreAll, Goto, Local
  <2>4. CASE StopAtTop(l) \/ ReconcileNow(l) \/ ReconcileFails(l) \/ Scan(l)
    BY <2>2, <2>4, <1>0, <1>n, NewRotationMoves DEF StopAtTop, Scan, Local
  <2>5. CASE CohortEnds(l)
    <3>1. lane'[l] \in {Idle, NextCohort(lane[l]), [lane[l] EXCEPT !.pc = "plan"]}
      BY <2>5, <1>0 DEF CohortEnds
    <3> QED BY <3>1, <2>2, <1>0, <1>n DEF NextCohort, Local
  <2>6. ASSUME NEW v \in Videos, Claim(l, v) PROVE lane'[l].decided = {}
    <3> DEFINE next == [lane[l] EXCEPT !.keys = @ \ {v}, !.seen = @ \cup {v}]
               T == {t[2] : t \in Taken(v, Cohort(l))}
    <3>1. lane'[l] \in {next, [next EXCEPT !.pc = "fetch", !.video = {v}, !.todo = T]}
      BY <2>6, <1>0 DEF Claim
    <3>2. next.decided = {} /\ [next EXCEPT !.pc = "fetch", !.video = {v}, !.todo = T].decided = {}
      BY <2>2, <1>0 DEF Local
    <3> QED BY <3>1, <3>2
  <2>7. CASE Fetch(l)
    <3>1. \E snap : lane'[l] = [lane[l] EXCEPT !.pc = "pass", !.snap = snap]
      BY <2>7, <1>0 DEF Fetch
    <3> QED BY <3>1, <2>2, <1>0 DEF Local
  <2>8. CASE UnfetchedOver(l) \/ PassesOver(l)
    BY <2>2, <2>8, <1>0 DEF UnfetchedOver, PassesOver, VideoOver, NextVideo, Local
  <2>9. CASE \/ \E c \in Components : GateSkip(l, c) \/ GateDefer(l, c)
             \/ RunSkips(l) \/ RunDefers(l) \/ RunTransient(l) \/ MarkDone(l)
    <3>1. \E c, o : lane'[l] = NextPass(lane[l], c, o)
      BY <2>9, <1>0 DEF GateSkip, GateDefer, RunSkips, RunDefers, RunTransient, MarkDone, Finished
    <3> QED BY <3>1, <1>0 DEF NextPass, Local
  <2>10. CASE \E c \in Components : GiveBack(l, c) \/ Run(l, c)
    BY <2>2, <2>10, <1>0 DEF GiveBack, Run, Local
  <2>11. CASE StorePart(l) \/ RunRenews(l)
    BY <2>2, <2>11 DEF StorePart, RunRenews
  <2> QED
    BY <1>3, <2>3, <2>4, <2>5, <2>6, <2>7, <2>8, <2>9, <2>10, <2>11 DEF Step
<1> QED BY <1>1, <1>2, <1>3

\* A step of one lane leaves the locals of the others alone.
LEMMA OtherLanes ==
  ASSUME LaneInv, NEW l \in Lanes, Step(l) \/ RunRenews(l), NEW k \in Lanes, l # k
  PROVE  lane'[k] = lane[k]
  BY DEF LaneInv, Step, Restore, StopAtTop, PlanRows, Reclaim, Revive, ReconcileNow, ReconcileFails, NewRotation,
         Scan, CohortEnds, KeysDone, Claim, Fetch, FetchFails, UnfetchedLooks, FailUnfetched, UnfetchedOver, PassesOver,
         FailLooks,
         VideoOver, GiveBack, GateSkip, GateDefer, Finished, Goto, Run, RunSkips, RunDefers,
         RunTransient, RunFails, RunEmits, RunEmitsNothing, StorePart, StoreAll, MarkDone, RunRenews

\* What is decided keeps to the attempts read, or the row was reset.
LEMMA DecidedKeeps ==
  ASSUME EInv, [EngineNext]_vars, LaneInv'
  PROVE  DecidedInv'
<1>0. IInv /\ LaneInv /\ lane \in [Lanes -> Local] /\ [CoverageNext]_tableVars
  BY StepIsUse DEF EInv, LaneInv
<1> SUFFICES ASSUME NEW l \in Lanes, lane'[l].decided # {} PROVE Decision(lane[l])'
  BY DEF DecidedInv, Decision
<1>1. ASSUME /\ lane'[l].decided = lane[l].decided /\ lane'[l].pc = lane[l].pc
             /\ lane'[l].video = lane[l].video /\ lane'[l].comp = lane[l].comp
             /\ lane'[l].todo = lane[l].todo
      PROVE  Decision(lane[l])'
  <2>1. Decision(lane[l]) /\ lane[l].pc \in Deciding
    BY <1>1 DEF EInv, DecidedInv, Decision
  <2>2. ASSUME NEW d \in lane[l].decided, NEW t \in lane[l].video \X lane[l].comp
        PROVE  d \in MayDecide(t)'
    <3>1. d \in MayDecide(t)
      BY <2>1 DEF Decision
    <3>2. t \in lane[l].video \X lane[l].todo
      <4>1. Shape(l, lane[l]) /\ lane[l].pc \in Running
        BY <2>1, <1>0 DEF LaneInv, Running, Deciding
      <4> QED BY <4>1 DEF Shape
    <3>3. t \in HeldBy(l) /\ t \in HeldBy(l)'
      BY <3>2, <1>0, <1>1 DEF LaneInv, HeldIsTodo
    <3>4. t \in held /\ t \in held' /\ t \in Tasks
      BY <3>3 DEF HeldBy, Of
    <3> QED BY <3>1, <3>4, <1>0, DecisionStands
  <2> QED BY <2>1, <2>2, <1>1 DEF Decision
<1>2. ASSUME NEW k \in Lanes, Step(k) \/ RunRenews(k), k # l PROVE Decision(lane[l])'
  <2>1. lane'[l] = lane[l]
    BY <1>0, <1>2, OtherLanes
  <2> QED BY <2>1, <1>1
<1>3. ASSUME Step(l) \/ RunRenews(l) PROVE Decision(lane[l])'
  <2>1. ASSUME NEW p \in Deciding, NEW u \in Tasks, UNCHANGED tableVars,
               lane[l].video = {u[1]}, lane' = [lane EXCEPT ![l] = Decide(l, p, u)]
        PROVE  Decision(lane[l])'
    <3>1. /\ lane'[l].pc = p /\ lane'[l].comp = {u[2]} /\ lane'[l].video = {u[1]}
          /\ lane'[l].decided = {Decided(row[u].attempts)}
      BY <2>1, <1>0 DEF Decide, Local
    <3>2. \A t \in lane'[l].video \X lane'[l].comp : t = u
      BY <3>1 DEF Tasks
    <3>3. Decided(row[u].attempts) \in MayDecide(u)'
      BY <2>1 DEF MayDecide, tableVars
    <3> QED BY <3>1, <3>2, <3>3 DEF Decision
  <2>2. CASE UNCHANGED tableVars /\ UnfetchedLooks(l)
    <3>1. lane[l].pc \in Busy
      BY <2>2 DEF UnfetchedLooks, At, Busy
    <3>2. PICK v \in Videos : /\ lane[l].video = {v} /\ \A c : Task(l, c) = <<v, c>>
                              /\ \A c \in lane[l].todo : <<v, c>> \in Tasks
      BY <3>1, <1>0, OnVideo
    <3>3. PICK c \in lane[l].todo : lane' = [lane EXCEPT ![l] = Decide(l, "refuse", Task(l, c))]
      BY <2>2 DEF UnfetchedLooks, Ready
    <3> QED BY <2>1, <2>2, <3>2, <3>3 DEF Deciding
  <2>3. CASE UNCHANGED tableVars /\ FailLooks(l)
    <3>1. lane[l].pc \in Busy /\ lane[l].pc \in Running
      BY <2>3 DEF FailLooks, At, Busy, Running
    <3>2. PICK v \in Videos, c \in lane[l].todo :
            lane[l].video = {v} /\ Current(l) = <<v, c>> /\ <<v, c>> \in Tasks
      BY <3>1, <1>0, OnVideo
    <3> QED BY <2>1, <2>3, <3>2 DEF Deciding, FailLooks
  <2> QED BY <1>3, <2>2, <2>3, OwnDecision
<1>4. CASE Start \/ Stop \/ \E ls \in SUBSET Lanes : Crash(ls)
  <2>1. lane[l] \in Local
    BY <1>0
  <2>2. Idle \in Local /\ Idle.decided = {}
    BY IdleShape DEF Idle
  <2>3. CASE Start
    <3>1. lane'[l] = lane[l] \/ \E b : lane'[l] = [Idle EXCEPT !.pc = "restore", !.stop = b]
      BY <2>3 DEF Start
    <3>2. lane'[l] = lane[l]
      BY <3>1, <2>2 DEF Local
    <3> QED BY <3>2, <1>1
  <2>4. CASE Stop
    <3>1. lane'[l] = lane[l] \/ lane'[l] = [lane[l] EXCEPT !.stop = TRUE]
      BY <2>4 DEF Stop
    <3> QED BY <3>1, <2>1, <1>1 DEF Local
  <2>5. ASSUME NEW ls \in SUBSET Lanes, Crash(ls) PROVE Decision(lane[l])'
    <3>1. lane'[l] = lane[l]
      BY <2>2, <2>5 DEF Crash
    <3> QED BY <3>1, <1>1
  <2> QED BY <1>4, <2>3, <2>4, <2>5
<1>5. CASE UNCHANGED lane
  BY <1>1, <1>5
<1>6. ASSUME NEW c \in Components, Reset(c) PROVE UNCHANGED lane
  BY <1>6 DEF Reset
<1> QED BY <1>2, <1>3, <1>4, <1>5, <1>6 DEF EngineNext, vars

-----------------------------------------------------------------------------
(* The invariant of the sweep *)

\* A first start.
LEMMA InitEInv == EngineInit => EInv
<1> SUFFICES ASSUME EngineInit PROVE EInv
  OBVIOUS
<1>1. IInv
  BY InitIInv DEF EngineInit
<1>2. lane \in [Lanes -> Local] /\ \A l \in Lanes : Shape(l, lane[l])
  BY IdleShape DEF EngineInit
<1>3. HeldIsTodo
  BY DEF EngineInit, CoverageInit, HeldIsTodo, HeldBy, Idle
<1>4. DecidedInv
  BY DEF EngineInit, DecidedInv, Decision, Idle
<1> QED BY <1>1, <1>2, <1>3, <1>4 DEF EInv, LaneInv

\* The table is kept by what is proved of Coverage, the lanes by the lemmas above.
LEMMA NextEInv == EInv /\ [EngineNext]_vars => EInv'
<1> SUFFICES ASSUME EInv, [EngineNext]_vars PROVE EInv'
  OBVIOUS
<1>1. IInv'
  BY StepIsUse, NextIInv DEF EInv
<1>2. ASSUME lane' = lane, held' = held PROVE LaneInv'
  BY <1>2 DEF EInv, LaneInv, HeldIsTodo, HeldBy, Of, Tasks, Shape
<1>3. ASSUME NEW l \in Lanes, Step(l) \/ RunRenews(l) PROVE LaneInv'
  BY <1>3, StepKeeps
<1>4. ASSUME Start \/ Stop \/ Crash(Lanes) \/ \E l \in Lanes : Crash({l}) PROVE LaneInv'
  BY <1>4, OutsideKeeps
<1>5. ASSUME NEW t \in Tasks, LeaseLapses(t) \/ BackoffElapses(t), UNCHANGED lane
      PROVE  LaneInv'
  BY <1>5, <1>2 DEF LeaseLapses, BackoffElapses
<1>6. ASSUME NEW cs \in SUBSET Components, Requeue(cs), UNCHANGED lane PROVE LaneInv'
  BY <1>6, <1>2 DEF Requeue
<1>7. ASSUME NEW c \in Components, Reset(c) PROVE LaneInv'
  BY <1>7, <1>2 DEF Reset, ResetComponent
<1>8. ASSUME UNCHANGED vars PROVE LaneInv'
  BY <1>8, <1>2 DEF vars, tableVars
<1>9. ASSUME EngineNext PROVE LaneInv'
  BY <1>9, <1>3, <1>4, <1>5, <1>6, <1>7 DEF EngineNext
<1>10. LaneInv'
  BY <1>8, <1>9
<1> QED BY <1>1, <1>10, DecidedKeeps DEF EInv

\* What the reachable states of the sweep have in common.
THEOREM EInvHolds == EngineSpec => []EInv
  BY InitEInv, NextEInv, PTL DEF EngineSpec

\* What a lane holds in the table is exactly what its loop still has to go
\* through: no claim is forgotten, none is finished twice.
THEOREM HeldAlwaysTodo == EngineSpec => []HeldIsTodo
<1>1. EInv => HeldIsTodo
  BY DEF EInv, LaneInv
<1> QED BY <1>1, EInvHolds, PTL

\* The sweep implements Coverage: its lanes claim with empty hands and finish
\* only what they hold, whatever the other lanes, the clock and deaths do.
THEOREM SweepImplementsCoverage == EngineSpec => TableUse
<1>1. EngineInit => CoverageInit
  BY DEF EngineInit
<1>2. EInv /\ [EngineNext]_vars => [CoverageNext]_tableVars
  BY StepIsUse
<1> QED BY <1>1, <1>2, EInvHolds, PTL DEF EngineSpec, TableUse, CoverageSpec

\* Hence what is proved of the table holds of the sweep.
THEOREM SweepInherits ==
  EngineSpec => [](InFlightIsLive /\ FailedIsSpent /\ FailuresBounded) /\ SettledIsFinal
  BY SweepImplementsCoverage, InFlightAlwaysLive, FailedAlwaysSpent, FailuresAlwaysBounded,
     SettledAlwaysFinal, PTL DEF TableUse

-----------------------------------------------------------------------------
(* The evidence *)

EvTypes ==
  /\ ev \in [Tasks -> {"none", "empty", "part", "whole"}]
  /\ cause \in [Tasks -> {"none", "gate", "inapplicable", "starved", "model", "reset"}]

\* A lane about to mark a pass done has stored what it emitted.
StoredFirst ==
  \A l \in Lanes : lane[l].pc = "stored" /\ Current(l)[2] \in Writes => ev[Current(l)] # "none"

EvInv == EvTypes /\ DoneHasEvidence /\ StoredFirst

\* Evidence is typed and never taken away.
LEMMA EvidenceStays ==
  ASSUME EInv, EvTypes, [EngineNext]_vars
  PROVE  EvTypes' /\ \A t \in Tasks : ev[t] # "none" => ev'[t] # "none"
<1> DEFINE Goal == EvTypes' /\ \A t \in Tasks : ev[t] # "none" => ev'[t] # "none"
<1>1. ASSUME UNCHANGED ev, NEW t \in Tasks,
             NEW w \in {"none", "gate", "inapplicable", "starved", "model", "reset"},
             cause' = cause \/ cause' = [cause EXCEPT ![t] = w]
      PROVE  Goal
  BY <1>1 DEF EvTypes
<1>2. ASSUME UNCHANGED <<ev, cause>> PROVE Goal
  BY <1>2 DEF EvTypes
<1>3. ASSUME UNCHANGED cause,
             ev' \in [Tasks -> {"none", "empty", "part", "whole"}],
             \A t \in Tasks : ev'[t] = ev[t] \/ ev'[t] \in {"empty", "part", "whole"}
      PROVE  Goal
  BY <1>3 DEF EvTypes
<1>4. ASSUME NEW l \in Lanes, Step(l) \/ RunRenews(l) PROVE Goal
  <2>1. CASE \/ StopAtTop(l) \/ PlanRows(l) \/ Reclaim(l) \/ Revive(l) \/ ReconcileNow(l) \/ ReconcileFails(l)
             \/ Scan(l) \/ CohortEnds(l) \/ KeysDone(l) \/ \E v \in Videos : Claim(l, v)
             \/ Fetch(l) \/ FetchFails(l) \/ UnfetchedLooks(l) \/ FailUnfetched(l)
             \/ UnfetchedOver(l) \/ PassesOver(l) \/ FailLooks(l)
             \/ \E c \in Components : GiveBack(l, c) \/ GateDefer(l, c)
             \/ RunDefers(l) \/ RunTransient(l) \/ RunFails(l) \/ RunEmits(l) \/ RunRenews(l)
    BY <2>1, <1>2
       DEF StopAtTop, PlanRows, Reclaim, Revive, ReconcileNow, ReconcileFails, Scan, CohortEnds, KeysDone,
           Claim, Fetch, FetchFails, UnfetchedLooks, FailUnfetched, UnfetchedOver, PassesOver,
         FailLooks, GiveBack, GateDefer,
           RunDefers, RunTransient, RunFails, RunEmits, RunRenews
  <2>2. ASSUME NEW c \in Components, GateSkip(l, c) \/ Run(l, c) PROVE Goal
    <3>1. lane[l].pc \in Busy /\ c \in lane[l].todo
      BY <2>2 DEF GateSkip, Run, Due, Ready, At, Busy
    <3>2. Task(l, c) \in Tasks
      BY <3>1, OnVideo DEF EInv
    <3> QED BY <2>2, <3>2, <1>1 DEF GateSkip, Run
  <2>3. ASSUME \/ RunSkips(l) \/ MarkDone(l)
               \/ RunEmitsNothing(l) \/ StorePart(l) \/ StoreAll(l)
        PROVE  Goal
    <3>1. lane[l].pc \in Busy /\ lane[l].pc \in Running
      BY <2>3 DEF RunSkips, MarkDone, RunEmitsNothing, StorePart, StoreAll, At, Busy, Running
    <3>2. Current(l) \in Tasks
      BY <3>1, OnVideo DEF EInv
    <3>3. CASE RunSkips(l) \/ MarkDone(l)
      BY <3>2, <3>3, <1>1 DEF RunSkips, WhySkip, MarkDone
    <3>4. CASE RunEmitsNothing(l) \/ StorePart(l) \/ StoreAll(l)
      BY <3>2, <3>4, <1>3 DEF RunEmitsNothing, StorePart, StoreAll, EvTypes
    <3> QED BY <2>3, <3>3, <3>4
  <2>4. ASSUME NEW S \in SUBSET Shards, Restore(l, S) PROVE Goal
    BY <2>4, <1>3 DEF Restore, EvTypes
  <2> QED BY <1>4, <2>1, <2>2, <2>3, <2>4 DEF Step
<1>5. ASSUME Start \/ Stop \/ \E ls \in SUBSET Lanes : Crash(ls) PROVE Goal
  BY <1>5, <1>2 DEF Start, Stop, Crash
<1>6. ASSUME NEW c \in Components, Reset(c) PROVE Goal
  BY <1>6 DEF Reset, EvTypes
<1>7. ASSUME UNCHANGED vars PROVE Goal
  BY <1>7, <1>2 DEF vars
<1> HIDE DEF Goal
<1>8. ASSUME EngineNext PROVE Goal
  BY <1>8, <1>2, <1>4, <1>5, <1>6 DEF EngineNext
<1>9. Goal
  BY <1>7, <1>8
<1> QED BY <1>9 DEF Goal

\* Apart from the reconcile and the end of a pass nothing makes a row done.
LEMMA NothingElseDone ==
  ASSUME CoverageTypeOK, NEW t \in Tasks, row'[t].state = "done",
         \/ UNCHANGED tableVars
         \/ \E l \in Lanes : Plan(l)
         \/ ReclaimStale \/ ReviveFailed
         \/ \E l \in Lanes, v \in Videos, cs \in SUBSET Components : ClaimFor(l, v, cs)
         \/ \E u \in Tasks : \/ Renew(u) \/ Release(u) \/ Defer(u) \/ Skip(u)
                             \/ \E d \in MayDecide(u) : Fail(u, d)
                             \/ LeaseLapses(u) \/ BackoffElapses(u)
         \/ \E cs \in SUBSET Components : Requeue(cs)
         \/ \E c \in Components : ResetComponent(c)
         \/ \E ls \in SUBSET Lanes : Die(ls)
  PROVE  row[t].state = "done"
<1>0. row \in [Tasks -> Row]
  BY DEF CoverageTypeOK
<1>1. CASE \/ UNCHANGED tableVars \/ \E ls \in SUBSET Lanes : Die(ls)
  BY <1>1 DEF tableVars, Die
<1>2. ASSUME NEW l \in Lanes, Plan(l) PROVE row[t].state = "done"
  BY <1>0, <1>2 DEF Plan, Absent
<1>3. ASSUME ReclaimStale PROVE row[t].state = "done"
  BY <1>0, <1>3 DEF ReclaimStale, Row
<1>4. ASSUME ReviveFailed PROVE row[t].state = "done"
  BY <1>0, <1>4 DEF ReviveFailed, Row
<1>5. ASSUME NEW l \in Lanes, NEW v \in Videos, NEW cs \in SUBSET Components, ClaimFor(l, v, cs)
      PROVE  row[t].state = "done"
  BY <1>0, <1>5 DEF ClaimFor, Row
<1>6. ASSUME NEW u \in Tasks, Renew(u) \/ LeaseLapses(u) \/ BackoffElapses(u)
      PROVE  row[t].state = "done"
  BY <1>0, <1>6 DEF Renew, LeaseLapses, BackoffElapses, Row
<1>7. ASSUME NEW u \in Tasks, Release(u) PROVE row[t].state = "done"
  BY <1>0, <1>7 DEF Release, Row
<1>8. ASSUME NEW u \in Tasks, NEW d \in MayDecide(u), Fail(u, d) PROVE row[t].state = "done"
  BY <1>0, <1>8, DecidesAState DEF Fail, Row
<1>9. ASSUME NEW u \in Tasks, Defer(u) PROVE row[t].state = "done"
  BY <1>0, <1>9 DEF Defer, Row
<1>12. ASSUME NEW u \in Tasks, Skip(u) PROVE row[t].state = "done"
  BY <1>0, <1>12 DEF Skip, Row
<1>10. ASSUME NEW cs \in SUBSET Components, Requeue(cs) PROVE row[t].state = "done"
  BY <1>0, <1>10 DEF Requeue, Row
<1>11. ASSUME NEW c \in Components, ResetComponent(c) PROVE row[t].state = "done"
  BY <1>0, <1>11 DEF ResetComponent, Absent
<1> QED BY <1>1, <1>2, <1>3, <1>4, <1>5, <1>6, <1>7, <1>8, <1>9, <1>10, <1>11, <1>12

\* A row that becomes done has evidence: the reconcile looked for it, or the
\* lane stored it before.
LEMMA NewlyDone ==
  ASSUME EInv, StoredFirst, [EngineNext]_vars, NEW t \in Tasks,
         row'[t].state = "done", row[t].state # "done", t[2] \in Writes
  PROVE  ev[t] # "none"
<1>0. CoverageTypeOK /\ LaneInv
  BY DEF EInv, IInv
<1>n. /\ ~UNCHANGED tableVars
      /\ ~ \E l \in Lanes : Plan(l)
      /\ ~ReclaimStale /\ ~ReviveFailed
      /\ ~ \E l \in Lanes, v \in Videos, cs \in SUBSET Components : ClaimFor(l, v, cs)
      /\ ~ \E u \in Tasks : \/ Renew(u) \/ Release(u) \/ Defer(u) \/ Skip(u)
                            \/ \E d \in MayDecide(u) : Fail(u, d)
                            \/ LeaseLapses(u) \/ BackoffElapses(u)
      /\ ~ \E cs \in SUBSET Components : Requeue(cs)
      /\ ~ \E c \in Components : ResetComponent(c)
      /\ ~ \E ls \in SUBSET Lanes : Die(ls)
  BY <1>0, NothingElseDone
<1>1. ASSUME NEW l \in Lanes, Step(l) \/ RunRenews(l) PROVE ev[t] # "none"
  <2>1. CASE \/ \E S \in SUBSET Shards : Restore(l, S)
             \/ StopAtTop(l) \/ PlanRows(l) \/ Reclaim(l) \/ Revive(l)
             \/ Scan(l) \/ CohortEnds(l) \/ KeysDone(l)
             \/ Fetch(l) \/ FetchFails(l) \/ PassesOver(l)
             \/ UnfetchedLooks(l) \/ UnfetchedOver(l) \/ FailLooks(l)
             \/ \E c \in Components : Run(l, c)
             \/ RunEmits(l) \/ RunEmitsNothing(l) \/ StorePart(l) \/ StoreAll(l)
    BY <2>1, <1>n DEF Restore, StopAtTop, PlanRows, Reclaim, Revive, Scan, CohortEnds,
       KeysDone, Fetch, FetchFails, PassesOver, UnfetchedLooks, UnfetchedOver, FailLooks,
       Run, RunEmits, RunEmitsNothing,
       StorePart, StoreAll
  <2>2. ASSUME NEW v \in Videos, Claim(l, v) PROVE ev[t] # "none"
    <3>1. CASE Taken(v, Cohort(l)) = {}
      BY <3>1, <2>2, <1>n DEF Claim
    <3>2. CASE Taken(v, Cohort(l)) # {}
      <4>1. lane[l].cohort \in 1 .. Len(Cohorts[l])
        <5>1. lane[l].pc = "pick" /\ Shape(l, lane[l])
          BY <2>2, <1>0, LocalFacts DEF Claim, At
        <5>2. Len(Cohorts[l]) \in Nat
          BY EngineAssumption
        <5> QED BY <5>1, <5>2 DEF Shape
      <4>2. Cohort(l) \in SUBSET Components
        BY <4>1, EngineAssumption DEF Cohort
      <4>3. ClaimFor(l, v, Cohort(l))
        BY <3>2, <2>2 DEF Claim
      <4> QED BY <4>2, <4>3, <1>n
    <3> QED BY <3>1, <3>2
  <2>3. CASE FailUnfetched(l) \/ RunFails(l)
    BY <2>3, <1>n, FailUse
  <2>4. ASSUME NEW c \in Components, GiveBack(l, c) \/ GateSkip(l, c) \/ GateDefer(l, c)
        PROVE  ev[t] # "none"
    <3>1. lane[l].pc \in Busy /\ c \in lane[l].todo
      BY <2>4 DEF GiveBack, GateSkip, GateDefer, Due, Ready, At, Busy
    <3>2. Task(l, c) \in Tasks
      BY <3>1, <1>0, OnVideo
    <3> QED BY <2>4, <3>2, <1>n DEF GiveBack, GateSkip, GateDefer
  <2>5. ASSUME RunRenews(l) \/ RunSkips(l) \/ RunDefers(l) \/ RunTransient(l)
               \/ MarkDone(l)
        PROVE  ev[t] # "none"
    <3>1. lane[l].pc \in Busy /\ lane[l].pc \in Running
      BY <2>5 DEF RunRenews, RunSkips, RunDefers, RunTransient, MarkDone, At,
                  Busy, Running
    <3>2. Current(l) \in Tasks
      BY <3>1, <1>0, OnVideo
    <3>3. CASE MarkDone(l)
      <4>1. t = Current(l)
        BY <3>2, <3>3, <1>0 DEF MarkDone, Done, CoverageTypeOK
      <4> QED BY <4>1, <3>3 DEF StoredFirst, MarkDone, At
    <3>4. CASE RunRenews(l) \/ RunSkips(l) \/ RunDefers(l) \/ RunTransient(l)
      BY <3>2, <3>4, <1>n DEF RunRenews, RunSkips, RunDefers, RunTransient
    <3> QED BY <2>5, <3>3, <3>4
  <2>6. CASE ReconcileNow(l) \/ ReconcileFails(l)
    <3>1. t \in Proved(l)
      BY <2>6, <1>0 DEF ReconcileNow, ReconcileFails, Reconcile, CoverageTypeOK
    <3> QED BY <3>1 DEF Proved, Stored
  <2> QED BY <1>1, <2>1, <2>2, <2>3, <2>4, <2>5, <2>6 DEF Step
<1>2. ASSUME Start \/ Crash(Lanes) \/ \E l \in Lanes : Crash({l}) PROVE ev[t] # "none"
  BY <1>2, <1>n DEF Start, Crash
<1>3. ASSUME Stop PROVE ev[t] # "none"
  BY <1>3 DEF Stop
<1>4. ASSUME NEW c \in Components, Reset(c) PROVE ev[t] # "none"
  BY <1>4, <1>n DEF Reset
<1>5. ASSUME UNCHANGED vars PROVE ev[t] # "none"
  BY <1>5, <1>n DEF vars, tableVars
<1> QED BY <1>1, <1>2, <1>3, <1>4, <1>5, <1>n DEF EngineNext

\* What a lane is about to mark done stays stored; StoreAll stores it, and an
\* empty emission is recorded as such.
LEMMA StoredKeeps ==
  ASSUME EInv, EvInv, [EngineNext]_vars
  PROVE  StoredFirst'
<1>0. LaneInv /\ \A l \in Lanes : lane[l] \in Local
  BY LocalFacts DEF EInv
<1> SUFFICES ASSUME NEW k \in Lanes, lane'[k].pc = "stored", Current(k)'[2] \in Writes
             PROVE  (ev[Current(k)] # "none")'
  BY DEF StoredFirst
<1> DEFINE Same == /\ lane'[k].pc = lane[k].pc /\ lane'[k].video = lane[k].video
                   /\ lane'[k].comp = lane[k].comp
<1>1. ASSUME Same PROVE (ev[Current(k)] # "none")'
  <2>1. Current(k)' = Current(k)
    BY <1>1 DEF Current
  <2>2. Current(k) \in Tasks
    BY <1>0, <1>1, OnVideo DEF Busy, Running
  <2>3. ev[Current(k)] # "none"
    BY <1>1, <2>1 DEF EvInv, StoredFirst
  <2> QED BY <2>1, <2>2, <2>3, EvidenceStays DEF EvInv
<1>2. ASSUME NEW l \in Lanes, StoreAll(l) \/ RunEmitsNothing(l), l = k
      PROVE  (ev[Current(k)] # "none")'
  <2>1. lane'[k].video = lane[k].video /\ lane'[k].comp = lane[k].comp
    BY <1>0, <1>2 DEF StoreAll, RunEmitsNothing, Goto, LaneInv, Local
  <2>2. Current(k)' = Current(k)
    BY <2>1 DEF Current
  <2>3. Current(k) \in Tasks
    BY <1>0, <1>2, OnVideo DEF StoreAll, RunEmitsNothing, At, Busy, Running
  <2> QED BY <1>2, <2>2, <2>3 DEF StoreAll, RunEmitsNothing, EvInv, EvTypes
<1>3. ASSUME NEW l \in Lanes, Step(l) \/ RunRenews(l), ~StoreAll(l), ~RunEmitsNothing(l), l = k
      PROVE  lane'[k] = lane[k]
  <2>0. lane[k] \in Local /\ lane \in [Lanes -> Local]
    BY <1>0 DEF LaneInv
  <2>1. ASSUME NEW c, NEW o, Finished(l, c, o) PROVE FALSE
    <3>1. lane'[k].pc = "pass"
      BY <2>0, <2>1, <1>3 DEF Finished, NextPass, Local
    <3> QED BY <3>1
  <2>2. ASSUME NEW b, VideoOver(l, b) PROVE FALSE
    <3>1. lane'[k].pc = "pick"
      BY <2>0, <2>2, <1>3 DEF VideoOver, NextVideo, Local
    <3> QED BY <3>1
  <2>3. ASSUME NEW p, Goto(l, p), p # "stored" PROVE FALSE
    <3>1. lane'[k].pc = p
      BY <2>0, <2>3, <1>3 DEF Goto, Local
    <3> QED BY <2>3, <3>1
  <2>4. CASE \/ \E S \in SUBSET Shards : Restore(l, S)
             \/ PlanRows(l) \/ Reclaim(l) \/ Revive(l) \/ KeysDone(l) \/ FetchFails(l)
             \/ RunEmits(l)
    BY <2>3, <2>4 DEF Restore, PlanRows, Reclaim, Revive, KeysDone, FetchFails, RunEmits
  <2>5. CASE \/ PassesOver(l) \/ UnfetchedOver(l)
             \/ \E c \in Components : GateSkip(l, c) \/ GateDefer(l, c)
             \/ RunSkips(l) \/ RunDefers(l) \/ RunTransient(l) \/ RunFails(l) \/ MarkDone(l)
    BY <2>1, <2>2, <2>5 DEF PassesOver, UnfetchedOver, GateSkip, GateDefer, RunSkips, RunDefers,
                            RunTransient, RunFails, MarkDone
  <2>6. CASE RunRenews(l) \/ StorePart(l)
    BY <2>6 DEF RunRenews, StorePart
  <2>7. CASE StopAtTop(l) \/ Scan(l) \/ Fetch(l) \/ \E c \in Components : Run(l, c)
    <3>1. CASE StopAtTop(l)
      BY <3>1, <2>0, <1>3 DEF StopAtTop, Idle
    <3>2. CASE Scan(l)
      <4>1. lane'[k].pc = "pick"
        BY <3>2, <2>0, <1>3 DEF Scan, Local
      <4> QED BY <4>1
    <3>3. CASE Fetch(l)
      <4>1. lane'[k].pc = "pass"
        BY <3>3, <2>0, <1>3 DEF Fetch, Local
      <4> QED BY <4>1
    <3>4. ASSUME NEW c \in Components, Run(l, c) PROVE FALSE
      <4>1. lane'[k].pc = "run"
        BY <3>4, <2>0, <1>3 DEF Run, Local
      <4> QED BY <4>1
    <3> QED BY <2>7, <3>1, <3>2, <3>3, <3>4
  <2>8. CASE ReconcileNow(l) \/ ReconcileFails(l) \/ CohortEnds(l) \/ \E v \in Videos : Claim(l, v)
    <3>1. CASE ReconcileNow(l) \/ ReconcileFails(l)
      <4>1. lane'[k].pc = "scan"
        BY <3>1, <2>0, <1>3, NewRotationMoves
      <4> QED BY <4>1
    <3>2. CASE CohortEnds(l)
      <4>1. lane'[k] \in {Idle, NextCohort(lane[k]), [lane[k] EXCEPT !.pc = "plan"]}
        BY <3>2, <2>0, <1>3 DEF CohortEnds
      <4>2. Idle.pc = "off" /\ NextCohort(lane[k]).pc = lane[k].pc
            /\ [lane[k] EXCEPT !.pc = "plan"].pc = "plan"
        BY <2>0 DEF Idle, NextCohort, Local
      <4>3. lane[k].pc = "scan"
        BY <3>2, <1>3 DEF CohortEnds, At
      <4> QED BY <4>1, <4>2, <4>3
    <3>3. ASSUME NEW v \in Videos, Claim(l, v) PROVE FALSE
      <4> DEFINE next == [lane[k] EXCEPT !.keys = @ \ {v}, !.seen = @ \cup {v}]
      <4>1. lane[k].pc = "pick" /\ next.pc = "pick"
        BY <3>3, <2>0, <1>3 DEF Claim, At, Local
      <4>2. \/ lane'[k] = next
            \/ \E T : lane'[k] = [next EXCEPT !.pc = "fetch", !.video = {v}, !.todo = T]
        BY <3>3, <2>0, <1>3 DEF Claim
      <4>3. \A T : [next EXCEPT !.pc = "fetch", !.video = {v}, !.todo = T].pc = "fetch"
        BY <2>0 DEF Local
      <4> HIDE DEF next
      <4> QED BY <4>1, <4>2, <4>3
    <3> QED BY <2>8, <3>1, <3>2, <3>3
  <2>9. ASSUME NEW c \in Components, GiveBack(l, c) PROVE FALSE
    <3>1. lane'[k].pc = lane[k].pc /\ lane[k].pc = "pass"
      BY <2>9, <2>0, <1>3 DEF GiveBack, Due, At, Local
    <3> QED BY <3>1
  <2>10. CASE UnfetchedLooks(l) \/ FailLooks(l) \/ FailUnfetched(l)
    <3>1. lane'[k].pc \in {"refuse", "fail", "unfetched"}
      BY <2>10, <2>0, <1>3, LooksMove
    <3> QED BY <3>1
  <2> QED BY <1>3, <2>4, <2>5, <2>6, <2>7, <2>8, <2>9, <2>10 DEF Step
<1>4. ASSUME NEW l \in Lanes, Step(l) \/ RunRenews(l), l # k PROVE lane'[k] = lane[k]
  BY <1>0, <1>4, OtherLanes
<1>5. ASSUME Start \/ Stop \/ \E ls \in SUBSET Lanes : Crash(ls) PROVE Same
  <2>0. lane[k] \in Local
    BY <1>0
  <2>1. CASE Start
    <3>1. lane'[k] = lane[k] \/ lane'[k].pc = "restore"
      BY <2>1 DEF Start, Idle
    <3> QED BY <3>1
  <2>2. CASE Stop
    <3>1. lane'[k] = lane[k] \/ lane'[k] = [lane[k] EXCEPT !.stop = TRUE]
      <4>1. lane' = [l \in Lanes |-> IF At(l, "off") THEN lane[l]
                                     ELSE [lane[l] EXCEPT !.stop = TRUE]]
        BY <2>2, <1>0 DEF Stop, LaneInv
      <4> QED BY <4>1
    <3> QED BY <3>1, <2>0 DEF Local
  <2>3. ASSUME NEW ls \in SUBSET Lanes, Crash(ls) PROVE Same
    <3>1. lane'[k] = lane[k] \/ lane'[k].pc = "off"
      BY <2>3 DEF Crash, Idle
    <3> QED BY <3>1
  <2> QED BY <1>5, <2>1, <2>2, <2>3
<1>6. ASSUME lane' = lane PROVE Same
  BY <1>6
<1>7. CASE UNCHANGED vars
  BY <1>7, <1>6, <1>1 DEF vars
<1>8. CASE EngineNext
  <2>1. ASSUME NEW l \in Lanes, Step(l) \/ RunRenews(l) PROVE (ev[Current(k)] # "none")'
    <3>1. CASE l # k \/ (~StoreAll(l) /\ ~RunEmitsNothing(l))
      <4>1. lane'[k] = lane[k]
        BY <3>1, <2>1, <1>3, <1>4
      <4> QED BY <4>1, <1>1
    <3>2. CASE l = k /\ (StoreAll(l) \/ RunEmitsNothing(l))
      BY <3>2, <2>1, <1>2
    <3> QED BY <3>1, <3>2
  <2>2. ASSUME Start \/ Stop \/ \E ls \in SUBSET Lanes : Crash(ls)
        PROVE  (ev[Current(k)] # "none")'
    BY <2>2, <1>5, <1>1
  <2>3. ASSUME UNCHANGED lane PROVE (ev[Current(k)] # "none")'
    BY <2>3, <1>6, <1>1
  <2> HIDE DEF Same
  <2>4. ASSUME NEW c \in Components, Reset(c) PROVE UNCHANGED lane
    BY <2>4 DEF Reset
  <2> QED BY <1>8, <2>1, <2>2, <2>3, <2>4 DEF EngineNext
<1> QED BY <1>7, <1>8

\* A row is done only when evidence of the pass is there, in every reachable state.
LEMMA NextEvInv ==
  ASSUME EInv, EvInv, [EngineNext]_vars
  PROVE  EvInv'
<1>1. EvTypes' /\ \A t \in Tasks : ev[t] # "none" => ev'[t] # "none"
  BY EvidenceStays DEF EvInv
<1>2. ASSUME NEW t \in Tasks, row'[t].state = "done", t[2] \in Writes
      PROVE  ev'[t] # "none"
  <2>1. CASE row[t].state = "done"
    BY <2>1, <1>1, <1>2 DEF EvInv, DoneHasEvidence
  <2>2. CASE row[t].state # "done"
    BY <2>2, <1>1, <1>2, NewlyDone DEF EvInv
  <2> QED BY <2>1, <2>2
<1>3. DoneHasEvidence'
  BY <1>2 DEF DoneHasEvidence, Tasks
<1>4. StoredFirst'
  BY StoredKeeps
<1> QED BY <1>1, <1>3, <1>4 DEF EvInv

\* What the evidence and the table have in common, from the first start on.
LEMMA EvInvHolds == EngineSpec => []EvInv
<1>1. ASSUME EngineInit PROVE EvInv
  <2>1. EvTypes
    BY <1>1 DEF EngineInit, EvTypes
  <2>2. DoneHasEvidence
    BY <1>1 DEF EngineInit, CoverageInit, Absent, DoneHasEvidence
  <2>3. StoredFirst
    BY <1>1 DEF EngineInit, Idle, StoredFirst
  <2> QED BY <2>1, <2>2, <2>3 DEF EvInv
<1>2. EInv /\ EvInv /\ [EngineNext]_vars => EvInv'
  BY NextEvInv
<1> QED BY <1>1, <1>2, EInvHolds, PTL DEF EngineSpec

\* The table never claims more than the store can show, whatever dies between
\* the commit of the evidence and that of the row.
THEOREM DoneAlwaysHasEvidence == EngineSpec => []DoneHasEvidence
<1>1. EvInv => DoneHasEvidence
  BY DEF EvInv
<1> QED BY <1>1, EvInvHolds, PTL

\* The table, the evidence and the locals of every lane are well typed.
THEOREM SweepTypeCorrect == EngineSpec => []EngineTypeOK
<1>1. ASSUME EInv, EvInv PROVE EngineTypeOK
  <2>1. ASSUME NEW l \in Lanes
        PROVE  /\ lane[l].cohort <= Len(Cohorts[l]) /\ lane[l].todo \subseteq Ours(l)
               /\ lane[l].comp \subseteq lane[l].todo
    <3>1. Len(Cohorts[l]) \in Nat /\ Shape(l, lane[l])
      BY <1>1, EngineAssumption DEF EInv, LaneInv
    <3> QED BY <3>1 DEF Shape
  <2> QED BY <1>1, <2>1 DEF EInv, IInv, LaneInv, EvInv, EvTypes, EngineTypeOK
<1> QED BY <1>1, EInvHolds, EvInvHolds, PTL

-----------------------------------------------------------------------------
(* Deferrals and the gate.  As long as the operator has pressed no button, *)
(* failures stay on record and a declined pass stays declined; so what the *)
(* gate read of a video, however old, still stands when it skips.          *)

Unpressed == budget["operator"] = Bounds["operator"]

\* The pass n of v failed at some time, or it was declined.
Ruined(v, n) == fails[<<v, n>>] > 0 \/ row[<<v, n>>].state = "skipped"

Judging == {"pass", "run", "store", "stored", "fail"}

SnapFounded ==
  \A l \in Lanes : \A v \in lane[l].video, n \in Components :
    lane[l].pc \in Judging /\ lane[l].snap[n] \in {"failed", "skipped"} => Ruined(v, n)
SkipHasCause == \A t \in Tasks : row[t].state = "skipped" => cause[t] # "none"
FailedHasFails == \A t \in Tasks : row[t].state = "failed" => fails[t] > 0
GateFounded ==
  \A t \in Tasks : cause[t] = "gate" => \E n \in Needs[t[2]] : Ruined(t[1], n)

GateInv ==
  /\ budget["operator"] <= Bounds["operator"]
  /\ Unpressed => SnapFounded /\ SkipHasCause /\ FailedHasFails /\ GateFounded

\* A step of the table spends the operator's budget only by one of the buttons.
LEMMA OperatorSpends ==
  ASSUME CoverageTypeOK, [CoverageNext]_tableVars, budget["operator"] <= Bounds["operator"]
  PROVE  /\ budget'["operator"] <= Bounds["operator"]
         /\ budget'["operator"] = Bounds["operator"] =>
              /\ Unpressed
              /\ ~Operator
<1>0. /\ budget \in [Troubles -> Nat] /\ Bounds["operator"] \in Nat /\ "operator" \in Troubles
      /\ "die" \in Troubles /\ "lapse" \in Troubles /\ "defer" \in Troubles
      /\ "reconcile" \in Troubles
  BY CoverageAssumption, DisturbType DEF CoverageTypeOK
<1> DEFINE Same == budget'["operator"] = budget["operator"]
<1>1. ASSUME Operator 
      PROVE  budget'["operator"] \in Nat /\ budget'["operator"] < budget["operator"]
  <2>1. Disturb("operator")
    BY <1>1 DEF Operator, Requeue, ResetComponent
  <2> QED BY <1>0, <2>1 DEF Disturb
<1>2. ASSUME UNCHANGED budget PROVE Same
  BY <1>2
<1>3. ASSUME NEW k \in Troubles \ {"operator"}, Disturb(k) PROVE Same
  BY <1>0, <1>3 DEF Disturb
<1>4. CASE UNCHANGED tableVars
  BY <1>4, <1>0, <1>1 DEF tableVars, Unpressed
<1>5. ASSUME NEW l \in Lanes, Sweep(l) PROVE Same
  BY <1>5, <1>0, <1>2, <1>3 DEF Sweep, Plan, ReclaimStale, ReviveFailed, Reconcile, ClaimFor
<1>6. ASSUME NEW t \in Tasks, Finish(t) \/ LeaseLapses(t) \/ BackoffElapses(t) PROVE Same
  BY <1>6, <1>0, <1>2, <1>3
     DEF Finish, Renew, Release, Done, Fail, Defer, Skip, LeaseLapses, BackoffElapses
<1>7. ASSUME NEW ls \in SUBSET Lanes, Die(ls) PROVE Same
  BY <1>7, <1>0, <1>3 DEF Die
<1>8. Same \/ Operator
  BY <1>4, <1>5, <1>6, <1>7 DEF CoverageNext, tableVars
<1>9. budget["operator"] \in Nat
  BY <1>0
<1>10. CASE Operator
  BY <1>0, <1>1, <1>9, <1>10 DEF Unpressed
<1>11. CASE ~Operator
  BY <1>8, <1>9, <1>11 DEF Unpressed
<1> QED BY <1>10, <1>11

\* While no button is pressed, failures stay on record, a declined pass stays
\* declined, and a row is retired as failed only with a failure on record.
LEMMA TableRemembers ==
  ASSUME IInv, [CoverageNext]_tableVars, ~Operator, NEW t \in Tasks
  PROVE  /\ fails[t] \in Nat /\ fails'[t] \in Nat /\ fails[t] <= fails'[t]
         /\ row[t].state = "skipped" => row'[t].state = "skipped"
         /\ row'[t].state = "failed" => row[t].state = "failed" \/ fails'[t] > 0
<1> DEFINE Goal == /\ fails[t] \in Nat /\ fails'[t] \in Nat /\ fails[t] <= fails'[t]
                   /\ row[t].state = "skipped" => row'[t].state = "skipped"
                   /\ row'[t].state = "failed" => row[t].state = "failed" \/ fails'[t] > 0
<1>0. /\ row \in [Tasks -> Row] /\ fails \in [Tasks -> Nat] /\ fails[t] \in Nat
      /\ \A u \in held : row[u].state \in {"queued", "running"}
  BY DEF IInv, CoverageTypeOK, RowInv, OpenState
<1>1. ASSUME UNCHANGED fails, row[t].state = "skipped" => row'[t].state = "skipped",
             row'[t].state = "failed" => row[t].state = "failed"
      PROVE  Goal
  BY <1>0, <1>1
<1>2. ASSUME UNCHANGED tableVars PROVE Goal
  BY <1>2, <1>1 DEF tableVars
<1>3. ASSUME NEW l \in Lanes, Sweep(l) PROVE Goal
  <2>1. CASE Plan(l)
    BY <2>1, <1>0, <1>1 DEF Plan, Absent
  <2>2. CASE ReclaimStale
    BY <2>2, <1>0, <1>1 DEF ReclaimStale, Stale, Row
  <2>3. CASE ReviveFailed
    BY <2>3, <1>0, <1>1 DEF ReviveFailed, Revivable, Row
  <2>4. ASSUME NEW S, Reconcile(l, S) PROVE Goal
    BY <2>4, <1>0, <1>1 DEF Reconcile, Reconcilable, Row
  <2>5. ASSUME NEW v \in Videos, NEW cs \in SUBSET Components, ClaimFor(l, v, cs) PROVE Goal
    BY <2>5, <1>0, <1>1 DEF ClaimFor, Taken, Claimable, Row
  <2> QED BY <1>3, <2>1, <2>2, <2>3, <2>4, <2>5 DEF Sweep
<1>4. ASSUME NEW u \in Tasks, Finish(u) PROVE Goal
  <2>0. row[u].state \in {"queued", "running"}
    BY <1>0, <1>4 DEF Finish
  <2>1. CASE Renew(u) \/ Release(u)
    BY <2>1, <1>0, <1>1 DEF Renew, Release, Row
  <2>2. CASE Done(u) \/ Skip(u)
    BY <2>0, <2>2, <1>0, <1>1 DEF Done, Skip, Row
  <2>3. CASE Defer(u)
    BY <2>0, <2>3, <1>0, <1>1 DEF Defer, Row
  <2>4. ASSUME NEW d, Fail(u, d) PROVE Goal
    BY <2>0, <2>4, <1>0 DEF Fail
  <2> QED BY <1>4, <2>1, <2>2, <2>3, <2>4 DEF Finish
<1>5. ASSUME NEW u \in Tasks, LeaseLapses(u) \/ BackoffElapses(u) PROVE Goal
  BY <1>5, <1>0, <1>1 DEF LeaseLapses, BackoffElapses, Row
<1>6. ASSUME NEW ls \in SUBSET Lanes, Die(ls) PROVE Goal
  BY <1>6, <1>1 DEF Die
<1> HIDE DEF Goal
<1>7. ASSUME CoverageNext PROVE Goal
  BY <1>7, <1>3, <1>4, <1>5, <1>6 DEF CoverageNext
<1>8. Goal
  BY <1>2, <1>7
<1> QED BY <1>8 DEF Goal
\* Only skip() makes a row skipped.
LEMMA NothingElseSkips ==
  ASSUME CoverageTypeOK, NEW t \in Tasks, row'[t].state = "skipped",
         \/ UNCHANGED tableVars
         \/ \E l \in Lanes : Sweep(l)
         \/ \E u \in Tasks : \/ Renew(u) \/ Release(u) \/ Done(u) \/ Defer(u)
                             \/ \E d \in MayDecide(u) : Fail(u, d)
                             \/ LeaseLapses(u) \/ BackoffElapses(u)
         \/ \E ls \in SUBSET Lanes : Die(ls)
  PROVE  row[t].state = "skipped"
<1>0. row \in [Tasks -> Row]
  BY DEF CoverageTypeOK
<1>1. CASE UNCHANGED tableVars \/ \E ls \in SUBSET Lanes : Die(ls)
  BY <1>1 DEF tableVars, Die
<1>2. ASSUME NEW l \in Lanes, Sweep(l) PROVE row[t].state = "skipped"
  <2>1. CASE Plan(l)
    BY <2>1, <1>0 DEF Plan, Absent
  <2>2. CASE ReclaimStale
    BY <2>2, <1>0 DEF ReclaimStale, Row
  <2>5. CASE ReviveFailed
    BY <2>5, <1>0 DEF ReviveFailed, Row
  <2>3. ASSUME NEW S, Reconcile(l, S) PROVE row[t].state = "skipped"
    BY <2>3, <1>0 DEF Reconcile, Row
  <2>4. ASSUME NEW v \in Videos, NEW cs \in SUBSET Components, ClaimFor(l, v, cs)
        PROVE  row[t].state = "skipped"
    BY <2>4, <1>0 DEF ClaimFor, Row
  <2> QED BY <1>2, <2>1, <2>2, <2>3, <2>4, <2>5 DEF Sweep
<1>3. ASSUME NEW u \in Tasks, Renew(u) \/ Release(u) \/ LeaseLapses(u) \/ BackoffElapses(u)
      PROVE  row[t].state = "skipped"
  <2>1. CASE Renew(u) \/ LeaseLapses(u) \/ BackoffElapses(u)
    BY <2>1, <1>0 DEF Renew, LeaseLapses, BackoffElapses, Row
  <2>2. CASE Release(u)
    BY <2>2, <1>0 DEF Release, Row
  <2> QED BY <1>3, <2>1, <2>2
<1>4. ASSUME NEW u \in Tasks, Done(u) \/ Defer(u) \/ \E d \in MayDecide(u) : Fail(u, d)
      PROVE  row[t].state = "skipped"
  <2>1. CASE Done(u)
    BY <2>1, <1>0 DEF Done, Row
  <2>2. ASSUME NEW d \in MayDecide(u), Fail(u, d) PROVE row[t].state = "skipped"
    BY <2>2, <1>0, DecidesAState DEF Fail, Row
  <2>3. CASE Defer(u)
    BY <2>3, <1>0 DEF Defer, Row
  <2> QED BY <1>4, <2>1, <2>2, <2>3
<1> QED BY <1>1, <1>2, <1>3, <1>4

\* A pass that becomes skipped was skipped by the gate or by its runner, and is
\* given the cause.
LEMMA NewlySkipped ==
  ASSUME EInv, EvTypes, [EngineNext]_vars, ~Operator, NEW t \in Tasks,
         row'[t].state = "skipped", row[t].state # "skipped"
  PROVE  cause'[t] # "none"
<1>0. CoverageTypeOK /\ LaneInv
  BY DEF EInv, IInv
<1>n. /\ ~UNCHANGED tableVars
      /\ ~ \E l \in Lanes : Sweep(l)
      /\ ~ \E u \in Tasks : \/ Renew(u) \/ Release(u) \/ Done(u) \/ Defer(u)
                            \/ \E d \in MayDecide(u) : Fail(u, d)
                            \/ LeaseLapses(u) \/ BackoffElapses(u)
      /\ ~ \E ls \in SUBSET Lanes : Die(ls)
  BY <1>0, NothingElseSkips
<1>1. ASSUME NEW l \in Lanes, Step(l) \/ RunRenews(l) PROVE cause'[t] # "none"
  <2>1. CASE \/ \E S \in SUBSET Shards : Restore(l, S)
             \/ StopAtTop(l) \/ Scan(l) \/ CohortEnds(l) \/ KeysDone(l)
             \/ Fetch(l) \/ FetchFails(l) \/ PassesOver(l)
             \/ UnfetchedLooks(l) \/ UnfetchedOver(l) \/ FailLooks(l)
             \/ \E c \in Components : Run(l, c)
             \/ RunEmits(l) \/ RunEmitsNothing(l) \/ StorePart(l) \/ StoreAll(l)
    BY <2>1, <1>n DEF Restore, StopAtTop, Scan, CohortEnds, KeysDone, Fetch, FetchFails,
       PassesOver, UnfetchedLooks, UnfetchedOver, FailLooks, Run, RunEmits, RunEmitsNothing, StorePart, StoreAll
  <2>2. CASE \/ PlanRows(l) \/ Reclaim(l) \/ Revive(l) \/ ReconcileNow(l) \/ ReconcileFails(l)
             \/ \E v \in Videos : Claim(l, v)
    BY <2>2, <1>n, SweepUse
  <2>3. CASE FailUnfetched(l) \/ RunFails(l)
    BY <2>3, <1>n, FailUse
  <2>4. ASSUME NEW c \in Components, GiveBack(l, c) \/ GateSkip(l, c) \/ GateDefer(l, c)
        PROVE  cause'[t] # "none"
    <3>1. lane[l].pc \in Busy /\ c \in lane[l].todo
      BY <2>4 DEF GiveBack, GateSkip, GateDefer, Due, Ready, At, Busy
    <3>2. Task(l, c) \in Tasks
      BY <3>1, <1>0, OnVideo
    <3>3. CASE GateSkip(l, c)
      <4>1. t = Task(l, c)
        BY <3>2, <3>3, <1>0 DEF GateSkip, Skip, CoverageTypeOK
      <4> QED BY <4>1, <3>3 DEF GateSkip, EvTypes
    <3> QED BY <2>4, <3>2, <3>3, <1>n DEF GiveBack, GateDefer
  <2>5. ASSUME RunRenews(l) \/ RunSkips(l) \/ RunDefers(l) \/ RunTransient(l)
               \/ MarkDone(l)
        PROVE  cause'[t] # "none"
    <3>1. lane[l].pc \in Busy /\ lane[l].pc \in Running
      BY <2>5 DEF RunRenews, RunSkips, RunDefers, RunTransient, MarkDone, At,
                  Busy, Running
    <3>2. Current(l) \in Tasks
      BY <3>1, <1>0, OnVideo
    <3>3. CASE RunSkips(l)
      <4>1. t = Current(l)
        BY <3>2, <3>3, <1>0 DEF RunSkips, Skip, CoverageTypeOK
      <4> QED BY <4>1, <3>3 DEF RunSkips, WhySkip, EvTypes
    <3> QED BY <2>5, <3>2, <3>3, <1>n DEF RunRenews, RunDefers, RunTransient, MarkDone
  <2> QED BY <1>1, <2>1, <2>2, <2>3, <2>4, <2>5 DEF Step
<1>2. ASSUME Start \/ Stop \/ Crash(Lanes) \/ \E l \in Lanes : Crash({l}) PROVE cause'[t] # "none"
  <2>1. CASE Stop
    BY <2>1 DEF Stop
  <2> QED BY <1>2, <2>1, <1>n DEF Start, Crash
<1>3. ASSUME \/ \E cs \in SUBSET Components : Requeue(cs)
             \/ \E c \in Components : Reset(c)
      PROVE  FALSE
  BY <1>3 DEF Reset, Operator
<1>4. ASSUME UNCHANGED vars PROVE cause'[t] # "none"
  BY <1>4, <1>n DEF vars, tableVars
<1> QED BY <1>1, <1>2, <1>3, <1>4, <1>n DEF EngineNext

\* A cause changes when the gate skips the pass, when the pass is in hand, or by
\* a reset.
LEMMA CauseMoves ==
  ASSUME EInv, EvTypes, [EngineNext]_vars, NEW t \in Tasks
  PROVE  \/ cause'[t] = cause[t]
         \/ t \in held /\ cause'[t] # "gate"
         \/ cause'[t] = "reset"
         \/ \E l \in Lanes, c \in Components : GateSkip(l, c) /\ t = Task(l, c)
<1> DEFINE Goal == \/ cause'[t] = cause[t]
                   \/ t \in held /\ cause'[t] # "gate"
                   \/ cause'[t] = "reset"
                   \/ \E l \in Lanes, c \in Components : GateSkip(l, c) /\ t = Task(l, c)
<1>0. LaneInv /\ DOMAIN cause = Tasks
  BY DEF EInv, EvTypes
<1>1. ASSUME UNCHANGED cause PROVE Goal
  BY <1>1
<1>2. ASSUME NEW l \in Lanes, Step(l) \/ RunRenews(l) PROVE Goal
  <2>1. CASE \/ \E S \in SUBSET Shards : Restore(l, S)
             \/ StopAtTop(l) \/ PlanRows(l) \/ Reclaim(l) \/ Revive(l) \/ ReconcileNow(l) \/ ReconcileFails(l)
             \/ Scan(l) \/ CohortEnds(l) \/ KeysDone(l) \/ \E v \in Videos : Claim(l, v)
             \/ Fetch(l) \/ FetchFails(l) \/ UnfetchedLooks(l) \/ FailUnfetched(l)
             \/ UnfetchedOver(l) \/ PassesOver(l) \/ FailLooks(l)
             \/ \E c \in Components : GiveBack(l, c) \/ GateDefer(l, c)
             \/ RunDefers(l) \/ RunTransient(l) \/ RunFails(l) \/ RunEmits(l) \/ RunRenews(l)
             \/ RunEmitsNothing(l) \/ StorePart(l) \/ StoreAll(l)
    BY <2>1, <1>1
       DEF Restore, StopAtTop, PlanRows, Reclaim, Revive, ReconcileNow, ReconcileFails, Scan, CohortEnds,
           KeysDone, Claim, Fetch, FetchFails, UnfetchedLooks, FailUnfetched, UnfetchedOver, PassesOver,
         FailLooks, GiveBack, GateDefer,
           RunDefers, RunTransient, RunFails, RunEmits, RunRenews, RunEmitsNothing,
           StorePart, StoreAll
  <2>2. ASSUME NEW c \in Components, GateSkip(l, c) \/ Run(l, c) PROVE Goal
    <3>1. lane[l].pc \in Busy /\ c \in lane[l].todo
      BY <2>2 DEF GateSkip, Run, Due, Ready, At, Busy
    <3>2. Task(l, c) \in held
      BY <3>1, <1>0, OnVideo
    <3> QED BY <2>2, <3>2, <1>0 DEF GateSkip, Run
  <2>3. ASSUME RunSkips(l) \/ MarkDone(l) PROVE Goal
    <3>1. lane[l].pc \in Busy /\ lane[l].pc \in Running
      BY <2>3 DEF RunSkips, MarkDone, At, Busy, Running
    <3>2. Current(l) \in held
      BY <3>1, <1>0, OnVideo
    <3> QED BY <2>3, <3>2, <1>0 DEF RunSkips, WhySkip, MarkDone
  <2> QED BY <1>2, <2>1, <2>2, <2>3 DEF Step
<1>3. ASSUME Start \/ Stop \/ \E ls \in SUBSET Lanes : Crash(ls) PROVE Goal
  BY <1>3, <1>1 DEF Start, Stop, Crash
<1>4. ASSUME NEW c \in Components, Reset(c) PROVE Goal
  BY <1>4 DEF Reset
<1>5. ASSUME UNCHANGED vars PROVE Goal
  BY <1>5, <1>1 DEF vars
<1> HIDE DEF Goal
<1>6. ASSUME EngineNext PROVE Goal
  BY <1>6, <1>1, <1>2, <1>3, <1>4 DEF EngineNext
<1>7. Goal
  BY <1>5, <1>6
<1> QED BY <1>7 DEF Goal
\* What a lane knows of its video while it works through the passes: what it
\* read, and the outcome of each pass it finished.
LEMMA SnapMoves ==
  ASSUME EInv, NEW l \in Lanes, Step(l) \/ RunRenews(l), lane'[l].pc \in Judging
  PROVE  \/ /\ lane[l].pc \in Judging
            /\ lane'[l].video = lane[l].video /\ lane'[l].snap = lane[l].snap
         \/ Fetch(l)
         \/ /\ lane[l].pc \in Judging
            /\ \/ \E c \in Components : GateSkip(l, c) \/ GateDefer(l, c)
               \/ RunSkips(l) \/ RunDefers(l) \/ RunTransient(l) \/ RunFails(l) \/ MarkDone(l)
<1> DEFINE Same == /\ lane[l].pc \in Judging
                   /\ lane'[l].video = lane[l].video /\ lane'[l].snap = lane[l].snap
<1>0. lane[l] \in Local /\ lane \in [Lanes -> Local]
  BY LocalFacts DEF EInv, LaneInv
<1>2. ASSUME NEW b, VideoOver(l, b) PROVE FALSE
  <2>1. lane'[l].pc = "pick"
    BY <1>0, <1>2 DEF VideoOver, NextVideo, Local
  <2> QED BY <2>1 DEF Judging, Running
<1>3. ASSUME NEW p, Goto(l, p), lane[l].pc \in Judging \/ p \notin Judging PROVE Same
  <2>1. /\ lane'[l].pc = p /\ lane'[l].video = lane[l].video
        /\ lane'[l].snap = lane[l].snap
    BY <1>0, <1>3 DEF Goto, Local
  <2> QED BY <2>1, <1>3
<1>4. CASE \/ \E S \in SUBSET Shards : Restore(l, S)
           \/ PlanRows(l) \/ Reclaim(l) \/ Revive(l) \/ KeysDone(l) \/ FetchFails(l)
           \/ RunEmits(l) \/ RunEmitsNothing(l) \/ StoreAll(l)
  BY <1>3, <1>4 DEF Restore, PlanRows, Reclaim, Revive, KeysDone, FetchFails, RunEmits,
                    RunEmitsNothing, StoreAll, At, Judging, Running
<1>5. CASE PassesOver(l) \/ UnfetchedOver(l)
  BY <1>2, <1>5 DEF PassesOver, UnfetchedOver
<1>6. CASE RunRenews(l) \/ StorePart(l)
  BY <1>6 DEF RunRenews, StorePart, At, Judging, Running
<1>7. CASE \/ \E c \in Components : GateSkip(l, c) \/ GateDefer(l, c)
           \/ RunSkips(l) \/ RunDefers(l) \/ RunTransient(l) \/ RunFails(l) \/ MarkDone(l)
  BY <1>7 DEF GateSkip, GateDefer, Due, RunSkips, RunDefers, RunTransient, RunFails, MarkDone,
              At, Judging, Running
<1>8. ASSUME StopAtTop(l) \/ Scan(l) \/ ReconcileNow(l) \/ ReconcileFails(l) \/ CohortEnds(l)
             \/ \E v \in Videos : Claim(l, v)
      PROVE  FALSE
  <2>1. CASE StopAtTop(l)
    BY <2>1, <1>0 DEF StopAtTop, Idle, Judging, Running
  <2>2. CASE Scan(l)
    <3>1. lane'[l].pc = "pick"
      BY <2>2, <1>0 DEF Scan, Local
    <3> QED BY <3>1 DEF Judging, Running
  <2>3. CASE ReconcileNow(l) \/ ReconcileFails(l)
    <3>1. lane'[l].pc = "scan"
      BY <2>3, <1>0 DEF ReconcileNow, ReconcileFails, NewRotation, Local
    <3> QED BY <3>1 DEF Judging, Running
  <2>4. CASE CohortEnds(l)
    <3>1. lane'[l] \in {Idle, NextCohort(lane[l]), [lane[l] EXCEPT !.pc = "plan"]}
      BY <2>4, <1>0 DEF CohortEnds
    <3>2. Idle.pc = "off" /\ NextCohort(lane[l]).pc = lane[l].pc
          /\ [lane[l] EXCEPT !.pc = "plan"].pc = "plan"
      BY <1>0 DEF Idle, NextCohort, Local
    <3>3. lane[l].pc = "scan"
      BY <2>4 DEF CohortEnds, At
    <3>4. lane'[l].pc \in {"off", "scan", "plan"}
      BY <3>1, <3>2, <3>3
    <3> QED BY <3>4 DEF Judging, Running
  <2>5. ASSUME NEW v \in Videos, Claim(l, v) PROVE FALSE
    <3> DEFINE next == [lane[l] EXCEPT !.keys = @ \ {v}, !.seen = @ \cup {v}]
    <3>1. lane[l].pc = "pick" /\ next.pc = "pick"
      BY <2>5, <1>0 DEF Claim, At, Local
    <3>2. \/ lane'[l] = next
          \/ \E T : lane'[l] = [next EXCEPT !.pc = "fetch", !.video = {v}, !.todo = T]
      BY <2>5, <1>0 DEF Claim
    <3>3. \A T : [next EXCEPT !.pc = "fetch", !.video = {v}, !.todo = T].pc = "fetch"
      BY <1>0 DEF Local
    <3> HIDE DEF next
    <3>4. lane'[l].pc \in {"pick", "fetch"}
      BY <3>1, <3>2, <3>3
    <3> QED BY <3>4 DEF Judging, Running
  <2> QED BY <1>8, <2>1, <2>2, <2>3, <2>4, <2>5
<1>9. ASSUME NEW c \in Components, GiveBack(l, c) PROVE Same
  <2>1. lane'[l].video = lane[l].video /\ lane'[l].snap = lane[l].snap
    BY <1>9, <1>0 DEF GiveBack, Local
  <2> QED BY <2>1, <1>9 DEF GiveBack, Due, At, Judging
<1>11. ASSUME UnfetchedLooks(l) \/ FailUnfetched(l) PROVE FALSE
  <2>1. lane'[l].pc \in {"refuse", "unfetched"}
    BY <1>11, <1>0, LooksMove
  <2> QED BY <2>1 DEF Judging
<1>12. CASE FailLooks(l)
  <2>1. lane'[l].video = lane[l].video /\ lane'[l].snap = lane[l].snap
    BY <1>12, <1>0, LooksMove
  <2> QED BY <2>1, <1>12 DEF FailLooks, At, Judging
<1>10. ASSUME NEW c \in Components, Run(l, c) PROVE Same
  <2>1. lane'[l].video = lane[l].video /\ lane'[l].snap = lane[l].snap
    BY <1>10, <1>0 DEF Run, Local
  <2> QED BY <2>1, <1>10 DEF Run, Due, At, Judging
<1> QED BY <1>4, <1>5, <1>6, <1>7, <1>8, <1>9, <1>10, <1>11, <1>12 DEF Step
\* When a pass is finished with a bad outcome, the table says so too.
LEMMA OutcomeFounded ==
  ASSUME EInv, [EngineNext]_vars, ~Operator, NEW l \in Lanes, lane[l].pc \in Judging,
         \/ \E c \in Components : GateSkip(l, c) \/ GateDefer(l, c)
         \/ RunSkips(l) \/ RunDefers(l) \/ RunTransient(l) \/ RunFails(l) \/ MarkDone(l)
  PROVE  \E v \in Videos, c \in Components :
           /\ lane[l].video = {v} /\ lane'[l].video = {v}
           /\ \A n \in Components \ {c} : lane'[l].snap[n] = lane[l].snap[n]
           /\ lane'[l].snap[c] \in {"failed", "skipped"} => Ruined(v, c)'
<1>0. /\ LaneInv /\ lane[l] \in Local /\ lane \in [Lanes -> Local]
      /\ row \in [Tasks -> Row] /\ fails \in [Tasks -> Nat]
  BY LocalFacts DEF EInv, IInv, CoverageTypeOK, LaneInv
<1>1. ASSUME NEW c \in Components, NEW o \in Outcomes, Finished(l, c, o)
      PROVE  /\ lane'[l].video = lane[l].video
             /\ \A n \in Components \ {c} : lane'[l].snap[n] = lane[l].snap[n]
             /\ lane'[l].snap[c] = o
  BY <1>0, <1>1 DEF Finished, NextPass, Local
<1>2. ASSUME NEW c \in Components, GateSkip(l, c) \/ GateDefer(l, c)
      PROVE  \E v \in Videos :
                /\ lane[l].video = {v} /\ lane'[l].video = {v}
                /\ \A n \in Components \ {c} : lane'[l].snap[n] = lane[l].snap[n]
                /\ lane'[l].snap[c] \in {"failed", "skipped"} => Ruined(v, c)'
  <2>0. lane[l].pc \in Busy /\ c \in lane[l].todo
    BY <1>2 DEF GateSkip, GateDefer, Due, Ready, At, Busy
  <2>1. PICK v \in Videos : /\ lane[l].video = {v} /\ Task(l, c) = <<v, c>>
                           /\ <<v, c>> \in Tasks
    BY <2>0, <1>0, OnVideo
  <2>2. CASE GateSkip(l, c)
    <3>1. Finished(l, c, "skipped")
      BY <2>2 DEF GateSkip
    <3>2. row'[<<v, c>>].state = "skipped"
      BY <2>1, <2>2, <1>0 DEF GateSkip, Skip
    <3> QED BY <3>1, <3>2, <2>1, <1>1, OutcomeNames DEF Ruined
  <2>3. CASE GateDefer(l, c)
    <3>1. Finished(l, c, "deferred")
      BY <2>3 DEF GateDefer
    <3> QED BY <3>1, <2>1, <1>1, OutcomeNames
  <2> QED BY <1>2, <2>2, <2>3
<1>3. ASSUME RunSkips(l) \/ RunDefers(l) \/ RunTransient(l) \/ RunFails(l) \/ MarkDone(l)
      PROVE  \E v \in Videos, c \in Components :
                /\ lane[l].video = {v} /\ lane'[l].video = {v}
                /\ \A n \in Components \ {c} : lane'[l].snap[n] = lane[l].snap[n]
                /\ lane'[l].snap[c] \in {"failed", "skipped"} => Ruined(v, c)'
  <2>0. lane[l].pc \in Busy /\ lane[l].pc \in Running
    BY <1>3 DEF RunSkips, RunDefers, RunTransient, RunFails, MarkDone, At, Running, Busy
  <2>1. PICK v \in Videos, c \in lane[l].todo : lane[l].video = {v} /\ Current(l) = <<v, c>>
    BY <2>0, <1>0, OnVideo
  <2>2. Current(l)[2] = c /\ c \in Components /\ <<v, c>> \in Tasks
    BY <2>1, <1>0 DEF Local, Tasks
  <2>3. CASE RunSkips(l)
    <3>1. Finished(l, c, "skipped")
      BY <2>2, <2>3 DEF RunSkips
    <3>2. row'[<<v, c>>].state = "skipped"
      BY <2>1, <2>2, <2>3, <1>0 DEF RunSkips, Skip
    <3>3. /\ lane'[l].video = lane[l].video
          /\ \A n \in Components \ {c} : lane'[l].snap[n] = lane[l].snap[n]
      BY <3>1, <2>2, <1>1, OutcomeNames
    <3>4. Ruined(v, c)'
      BY <3>2 DEF Ruined
    <3> QED BY <3>3, <3>4, <2>1, <2>2 DEF Ruined
  <2>4. CASE RunDefers(l) \/ RunTransient(l) \/ MarkDone(l)
    <3>1. Finished(l, c, "deferred") \/ Finished(l, c, "none") \/ Finished(l, c, "done")
      BY <2>2, <2>4 DEF RunDefers, RunTransient, MarkDone
    <3> QED BY <3>1, <2>1, <2>2, <1>1, OutcomeNames
  <2>5. CASE RunFails(l)
    <3>0. PICK d \in lane[l].decided : Fail(<<v, c>>, d) /\ Finished(l, c, d.state)
      BY <2>1, <2>2, <2>5 DEF RunFails
    <3>1. Finished(l, c, d.state)
      BY <3>0
    <3>2. fails'[<<v, c>>] > 0
      BY <3>0, <2>2, <1>0 DEF Fail
    <3>3. d.state \in Outcomes
      BY <1>0, OutcomeNames DEF Local, Decisions, Decided, Verdict
    <3>4. /\ lane'[l].video = lane[l].video
          /\ \A n \in Components \ {c} : lane'[l].snap[n] = lane[l].snap[n]
      BY <3>1, <3>3, <2>2, <1>1
    <3>5. Ruined(v, c)'
      BY <3>2 DEF Ruined
    <3> QED BY <3>4, <3>5, <2>1, <2>2 DEF Ruined
  <2> QED BY <1>3, <2>3, <2>4, <2>5
<1> QED BY <1>2, <1>3

\* A pass that failed or was declined remains one.
LEMMA RuinStays ==
  ASSUME EInv, [EngineNext]_vars, ~Operator, NEW v \in Videos, NEW n \in Components,
         Ruined(v, n)
  PROVE  Ruined(v, n)'
<1> DEFINE t == <<v, n>>
<1>1. t \in Tasks
  BY DEF Tasks
<1>2. IInv /\ [CoverageNext]_tableVars
  BY StepIsUse DEF EInv
<1>3. /\ fails[t] \in Nat /\ fails'[t] \in Nat /\ fails[t] <= fails'[t]
      /\ row[t].state = "skipped" => row'[t].state = "skipped"
  BY <1>1, <1>2, TableRemembers
<1> QED BY <1>3 DEF Ruined

\* However old, what a lane knows against a pass stays true.
LEMMA SnapKeeps ==
  ASSUME EInv, [EngineNext]_vars, ~Operator, SnapFounded, FailedHasFails
  PROVE  SnapFounded'
<1>0. LaneInv /\ lane \in [Lanes -> Local] /\ \A l \in Lanes : lane[l] \in Local
  BY LocalFacts DEF EInv, LaneInv
<1>r. ASSUME NEW v \in Videos, NEW n \in Components, Ruined(v, n) PROVE Ruined(v, n)'
  BY <1>r, RuinStays
<1> SUFFICES ASSUME NEW k \in Lanes, NEW v \in lane'[k].video, NEW n \in Components,
                    lane'[k].pc \in Judging, lane'[k].snap[n] \in {"failed", "skipped"}
             PROVE  Ruined(v, n)'
  BY DEF SnapFounded
<1> DEFINE Same == /\ lane[k].pc \in Judging
                   /\ lane'[k].video = lane[k].video /\ lane'[k].snap = lane[k].snap
<1>1. ASSUME Same PROVE Ruined(v, n)'
  <2>1. v \in lane[k].video /\ v \in Videos
    BY <1>0, <1>1 DEF Local
  <2> QED BY <2>1, <1>1, <1>r DEF SnapFounded
<1>2. ASSUME Step(k) \/ RunRenews(k) PROVE Ruined(v, n)'
  <2>1. CASE Fetch(k)
    <3>1. PICK u \in lane[k].video :
            lane' = [lane EXCEPT ![k].pc = "pass",
                                 ![k].snap = [c \in Components |-> row[<<u, c>>].state]]
      BY <2>1 DEF Fetch
    <3>2. /\ lane'[k].video = lane[k].video /\ lane'[k].snap[n] = row[<<u, n>>].state
      BY <3>1, <1>0 DEF Local
    <3>3. lane[k].video = {u} /\ u \in Videos
      BY <2>1, <3>1, <1>0 DEF Fetch, At, LaneInv, Shape, Busy
    <3>4. u = v /\ row' = row /\ fails' = fails /\ <<v, n>> \in Tasks
      BY <2>1, <3>2, <3>3 DEF Fetch, tableVars, Tasks
    <3> QED BY <3>2, <3>4 DEF FailedHasFails, Ruined
  <2>2. CASE /\ lane[k].pc \in Judging
             /\ \/ \E c \in Components : GateSkip(k, c) \/ GateDefer(k, c)
                \/ RunSkips(k) \/ RunDefers(k) \/ RunTransient(k) \/ RunFails(k) \/ MarkDone(k)
    <3>1. PICK u \in Videos, c \in Components :
            /\ lane[k].video = {u} /\ lane'[k].video = {u}
            /\ \A m \in Components \ {c} : lane'[k].snap[m] = lane[k].snap[m]
            /\ lane'[k].snap[c] \in {"failed", "skipped"} => Ruined(u, c)'
      BY <2>2, OutcomeFounded
    <3>2. u = v
      BY <3>1
    <3>3. CASE n = c
      BY <3>1, <3>2, <3>3
    <3>4. CASE n # c
      BY <3>1, <3>2, <3>4, <2>2, <1>r DEF SnapFounded
    <3> QED BY <3>3, <3>4
  <2> QED BY <1>1, <1>2, <2>1, <2>2, SnapMoves
<1>3. ASSUME NEW l \in Lanes, Step(l) \/ RunRenews(l), l # k PROVE Ruined(v, n)'
  <2>1. lane'[k] = lane[k]
    BY <1>0, <1>3, OtherLanes
  <2> QED BY <2>1, <1>1
<1>4. ASSUME Start \/ Stop \/ \E ls \in SUBSET Lanes : Crash(ls) PROVE Same
  <2>1. CASE Start
    <3>1. lane'[k] = lane[k] \/ lane'[k].pc = "restore"
      BY <2>1 DEF Start, Idle
    <3> QED BY <3>1 DEF Judging, Running
  <2>2. CASE Stop
    <3>1. lane'[k] = lane[k] \/ lane'[k] = [lane[k] EXCEPT !.stop = TRUE]
      <4>1. lane' = [l \in Lanes |-> IF At(l, "off") THEN lane[l]
                                     ELSE [lane[l] EXCEPT !.stop = TRUE]]
        BY <2>2, <1>0 DEF Stop
      <4> QED BY <4>1
    <3> QED BY <3>1, <1>0 DEF Local
  <2>3. ASSUME NEW ls \in SUBSET Lanes, Crash(ls) PROVE Same
    <3>1. lane'[k] = lane[k] \/ lane'[k].pc = "off"
      BY <2>3 DEF Crash, Idle
    <3> QED BY <3>1 DEF Judging, Running
  <2> QED BY <1>4, <2>1, <2>2, <2>3
<1>5. ASSUME UNCHANGED lane PROVE Ruined(v, n)'
  BY <1>5, <1>1
<1>6. CASE UNCHANGED vars
  BY <1>6, <1>5 DEF vars
<1>7. ASSUME NEW c \in Components, Reset(c) PROVE UNCHANGED lane
  BY <1>7 DEF Reset
<1>8. ASSUME Start \/ Stop \/ \E ls \in SUBSET Lanes : Crash(ls) PROVE Ruined(v, n)'
  BY <1>8, <1>4, <1>1
<1> HIDE DEF Same
<1>9. CASE EngineNext
  BY <1>9, <1>2, <1>3, <1>5, <1>7, <1>8 DEF EngineNext
<1> QED BY <1>6, <1>9

\* Every step keeps what the deferrals rest on.
LEMMA NextGateInv ==
  ASSUME EInv, EvTypes, GateInv, [EngineNext]_vars
  PROVE  GateInv'
<1>0. /\ IInv /\ CoverageTypeOK /\ [CoverageNext]_tableVars
      /\ budget["operator"] <= Bounds["operator"]
  BY StepIsUse DEF EInv, IInv, GateInv
<1>1. budget'["operator"] <= Bounds["operator"]
  BY <1>0, OperatorSpends
<1> SUFFICES ASSUME Unpressed'
             PROVE  SnapFounded' /\ SkipHasCause' /\ FailedHasFails' /\ GateFounded'
  BY <1>1 DEF GateInv
<1>2. Unpressed /\ ~Operator
  BY <1>0, OperatorSpends DEF Unpressed
<1>3. SnapFounded /\ SkipHasCause /\ FailedHasFails /\ GateFounded
  BY <1>2 DEF GateInv
<1>4. SnapFounded'
  BY <1>2, <1>3, SnapKeeps
<1>5. ASSUME NEW t \in Tasks
      PROVE  /\ fails[t] \in Nat /\ fails'[t] \in Nat /\ fails[t] <= fails'[t]
             /\ row[t].state = "skipped" => row'[t].state = "skipped"
             /\ row'[t].state = "failed" => row[t].state = "failed" \/ fails'[t] > 0
  BY <1>0, <1>2, TableRemembers
<1>6. ASSUME NEW t \in Tasks, row'[t].state = "failed" PROVE fails'[t] > 0
  BY <1>5, <1>6, <1>3 DEF FailedHasFails
<1>7. ASSUME NEW t \in Tasks, row'[t].state = "skipped" PROVE cause'[t] # "none"
  <2>1. CASE row[t].state # "skipped"
    BY <1>2, <1>7, <2>1, NewlySkipped
  <2>2. CASE row[t].state = "skipped"
    <3>1. cause[t] # "none" /\ t \notin held
      BY <2>2, <1>3, <1>0 DEF SkipHasCause, IInv, RowInv, OpenState
    <3>2. ASSUME NEW l \in Lanes, NEW c \in Components, GateSkip(l, c), t = Task(l, c)
          PROVE  cause'[t] # "none"
      BY <3>2 DEF GateSkip, EvTypes
    <3> QED BY <3>1, <3>2, CauseMoves
  <2> QED BY <2>1, <2>2
<1>r. ASSUME NEW v \in Videos, NEW n \in Components, Ruined(v, n) PROVE Ruined(v, n)'
  BY <1>2, <1>r, RuinStays
<1>8. ASSUME NEW t \in Tasks, cause'[t] = "gate" PROVE \E n \in Needs[t[2]] : Ruined(t[1], n)'
  <2>0. t[1] \in Videos /\ t[2] \in Components /\ Needs[t[2]] \subseteq Components
    BY EngineAssumption DEF Tasks
  <2>1. CASE cause[t] = "gate"
    BY <2>0, <2>1, <1>3, <1>r DEF GateFounded
  <2>2. ASSUME NEW l \in Lanes, NEW c \in Components, GateSkip(l, c), t = Task(l, c)
        PROVE  \E n \in Needs[t[2]] : Ruined(t[1], n)'
    <3>1. lane[l].pc = "pass" /\ c \in lane[l].todo /\ lane[l].pc \in Busy
      BY <2>2 DEF GateSkip, Due, Ready, At, Busy
    <3>2. PICK v \in Videos : lane[l].video = {v} /\ Task(l, c) = <<v, c>>
      BY <3>1, OnVideo DEF EInv
    <3>3. t[1] = v /\ t[2] = c
      BY <3>2, <2>2
    <3>4. PICK n \in Needs[c] : lane[l].snap[n] \in {"failed", "skipped"}
      BY <2>2 DEF GateSkip, Broken
    <3>5. Ruined(v, n)
      BY <3>1, <3>2, <3>3, <3>4, <2>0, <1>3 DEF SnapFounded, Judging
    <3> QED BY <3>3, <3>4, <3>5, <2>0, <1>r
  <2> QED BY <1>8, <2>1, <2>2, CauseMoves
<1> QED BY <1>4, <1>6, <1>7, <1>8 DEF SkipHasCause, FailedHasFails, GateFounded, Tasks

\* The gate itself never makes a rate limit permanent: until the operator first
\* presses a button, a pass that the gate skipped has an input that failed or was
\* declined, whatever was deferred and however the lanes overlap.  What a runner
\* declines for want of an input is not covered, see GateSkipsForCause.
THEOREM GateSkipsHaveCause ==
  EngineSpec => [](budget["operator"] = Bounds["operator"] => GateSkipsForCause)
<1>1. ASSUME EngineInit PROVE GateInv
  <2>1. budget["operator"] <= Bounds["operator"]
    <3>1. Bounds["operator"] \in Nat /\ budget = Bounds
      BY <1>1, CoverageAssumption DEF EngineInit, CoverageInit, Troubles
    <3> QED BY <3>1
  <2>2. SnapFounded
    BY <1>1 DEF EngineInit, Idle, SnapFounded
  <2>3. SkipHasCause /\ FailedHasFails /\ GateFounded
    BY <1>1 DEF EngineInit, CoverageInit, Absent, SkipHasCause, FailedHasFails, GateFounded
  <2> QED BY <2>1, <2>2, <2>3 DEF GateInv
<1>2. EInv /\ EvInv /\ GateInv /\ [EngineNext]_vars => GateInv'
  BY NextGateInv DEF EvInv
<1>3. ASSUME GateInv, budget["operator"] = Bounds["operator"] PROVE GateSkipsForCause
  <2>1. ASSUME NEW t \in Tasks, cause[t] = "gate"
        PROVE  \E n \in Inputs(t[2]) : fails[<<t[1], n>>] > 0 \/ cause[<<t[1], n>>] # "none"
    <3>0. t[1] \in Videos /\ t[2] \in Components /\ Needs[t[2]] \subseteq Components
      BY EngineAssumption DEF Tasks
    <3>1. PICK n \in Needs[t[2]] : Ruined(t[1], n)
      BY <1>3, <2>1 DEF GateInv, Unpressed, GateFounded
    <3>2. n \in Inputs(t[2])
      BY <3>0 DEF Inputs
    <3>3. <<t[1], n>> \in Tasks
      BY <3>0 DEF Tasks
    <3>4. fails[<<t[1], n>>] > 0 \/ cause[<<t[1], n>>] # "none"
      BY <3>1, <3>3, <1>3 DEF Ruined, GateInv, Unpressed, SkipHasCause
    <3> QED BY <3>2, <3>4
  <2> QED BY <2>1 DEF GateSkipsForCause
<1> QED BY <1>1, <1>2, <1>3, EInvHolds, EvInvHolds, PTL DEF EngineSpec
-----------------------------------------------------------------------------
(* One lane.  What a rotation's reconcile leaves behind is not claimed     *)
(* again with its evidence complete: a pass that comes back to the queue   *)
(* within the rotation was claimed in it (Tried), and no video is claimed  *)
(* twice in a cohort, nor a pass in two cohorts.                           *)

Rotating == Busy \cup {"scan", "pick"}

\* The pass was claimable, or its video passed by, earlier in the rotation of x.
Tried(l, x, t) ==
  \/ \E i \in 1 .. Len(Cohorts[l]) : i < x.cohort /\ t[2] \in Cohorts[l][i]
  \/ t[2] \in Cohorts[l][x.cohort] /\ t[1] \in x.seen

Redoable(t) == ev[t] = "whole" /\ row[t].state \in {"queued", "failed"}

RotationInv(l, x) ==
  /\ x.pc \in Rotating =>
       /\ \A t \in held : Tried(l, x, t)
       /\ ~x.stop /\ ~x.blind => \A t \in Tasks \ held :
            Redoable(t) => cause[t] = "reset" \/ Tried(l, x, t)
  /\ x.pc \in Rotating \ {"scan"} => x.keys \cap x.seen = {}

WholeIsWritten == \A t \in Tasks : ev[t] = "whole" => t[2] \in Writes

RInv == WholeIsWritten /\ \A l \in Lanes : RotationInv(l, lane[l])

\* Restores bring and passes store evidence only where there is some to write.
LEMMA WholeStays ==
  ASSUME EInv, EvTypes, WholeIsWritten, [EngineNext]_vars
  PROVE  WholeIsWritten'
<1>1. CASE UNCHANGED ev
  BY <1>1 DEF WholeIsWritten, Tasks
<1>2. ASSUME NEW l \in Lanes, NEW S \in SUBSET Shards, Restore(l, S) PROVE WholeIsWritten'
  <2>1. \A t \in S : t[2] \in Writes
    BY EngineAssumption
  <2> QED BY <1>2, <2>1 DEF Restore, WholeIsWritten, Tasks
<1>3. ASSUME NEW l \in Lanes, RunEmitsNothing(l) \/ StorePart(l) \/ StoreAll(l)
      PROVE  WholeIsWritten'
  <2>1. Current(l) \in Tasks
    BY <1>3, OnVideo DEF EInv, RunEmitsNothing, StorePart, StoreAll, At, Busy, Running
  <2>2. ASSUME NEW t \in Tasks, ev'[t] = "whole" PROVE t[2] \in Writes
    BY <1>3, <2>1, <2>2 DEF RunEmitsNothing, StorePart, StoreAll, EvTypes, WholeIsWritten
  <2> QED BY <2>2 DEF WholeIsWritten, Tasks
<1>4. ASSUME NEW l \in Lanes, Step(l) PROVE WholeIsWritten'
  BY <1>1, <1>2, <1>3, <1>4
     DEF Step, StopAtTop, PlanRows, Reclaim, Revive, ReconcileNow, ReconcileFails, Scan, CohortEnds, KeysDone,
         Claim, Fetch, FetchFails, UnfetchedLooks, FailUnfetched, UnfetchedOver, PassesOver,
         FailLooks, GiveBack, GateSkip, GateDefer, Run,
         RunSkips, RunDefers, RunTransient, RunFails, RunEmits, MarkDone
<1>5. ASSUME NEW l \in Lanes, RunRenews(l) PROVE WholeIsWritten'
  BY <1>1, <1>5 DEF RunRenews
<1>6. ASSUME Start \/ Stop \/ \E ls \in SUBSET Lanes : Crash(ls) PROVE WholeIsWritten'
  BY <1>1, <1>6 DEF Start, Stop, Crash
<1>7. ASSUME NEW c \in Components, Reset(c) PROVE WholeIsWritten'
  BY <1>1, <1>7 DEF Reset
<1> QED BY <1>1, <1>4, <1>5, <1>6, <1>7 DEF EngineNext, vars

\* With one lane what is in hand is that lane's.
LEMMA AllHeld ==
  ASSUME EInv, Lanes = {Primary}, NEW l \in Lanes
  PROVE  l = Primary /\ Of(l) = Tasks /\ held = lane[l].video \X lane[l].todo
<1>1. l = Primary
  OBVIOUS
<1>2. Of(l) = Tasks
  BY CoverageAssumption DEF Of, Tasks
<1>3. HeldBy(l) = held
  BY <1>2 DEF HeldBy, EInv, IInv, CoverageTypeOK
<1> QED BY <1>1, <1>2, <1>3, LocalFacts DEF EInv

\* The lane goes on within its cohort: what it finishes it had claimed, and
\* no other row becomes redoable.
LEMMA RotationKept ==
  ASSUME NEW l \in Lanes, RotationInv(l, lane[l]), held \subseteq Tasks,
         lane[l].pc \in Rotating, lane'[l].pc \in Rotating,
         lane'[l].cohort = lane[l].cohort, lane[l].seen \subseteq lane'[l].seen,
         lane[l].stop => lane'[l].stop, lane'[l].blind = lane[l].blind,
         \A t \in held' : t \in held \/ Tried(l, lane'[l], t),
         ~lane'[l].stop /\ ~lane'[l].blind => \A t \in Tasks \ held' : Redoable(t)' =>
           \/ t \in held \/ cause'[t] = "reset"
           \/ Redoable(t) /\ cause'[t] = cause[t],
         lane'[l].pc # "scan" => lane'[l].keys \cap lane'[l].seen = {}
  PROVE  RotationInv(l, lane[l])'
<1>1. ASSUME NEW t, Tried(l, lane[l], t) PROVE Tried(l, lane'[l], t)
  BY <1>1 DEF Tried
<1>2. ASSUME NEW t \in held' PROVE Tried(l, lane'[l], t)
  BY <1>1, <1>2 DEF RotationInv
<1>3. ASSUME ~lane'[l].stop, ~lane'[l].blind, NEW t \in Tasks \ held', Redoable(t)'
      PROVE  cause'[t] = "reset" \/ Tried(l, lane'[l], t)
  <2>1. CASE t \in held
    BY <2>1, <1>1 DEF RotationInv
  <2>2. CASE t \notin held /\ cause'[t] # "reset"
    <3>1. Redoable(t) /\ cause'[t] = cause[t]
      BY <2>2, <1>3
    <3>2. Tried(l, lane[l], t)
      BY <2>2, <3>1, <1>3 DEF RotationInv
    <3> QED BY <3>2, <1>1
  <2> QED BY <2>1, <2>2
<1>4. (\A t \in held : Tried(l, lane[l], t))'
  BY <1>2
<1>5. (~lane[l].stop /\ ~lane[l].blind => \A t \in Tasks \ held :
         Redoable(t) => cause[t] = "reset" \/ Tried(l, lane[l], t))'
  BY <1>3 DEF Tasks
<1> QED BY <1>4, <1>5 DEF RotationInv

\* The lane keeps its place in the cohort.
Stays(l) ==
  /\ lane'[l].cohort = lane[l].cohort /\ lane'[l].seen = lane[l].seen
  /\ lane'[l].keys = lane[l].keys /\ lane'[l].stop = lane[l].stop
  /\ lane'[l].blind = lane[l].blind

\* A step on one pass in hand touches nothing but that pass.
LEMMA OnHeldKept ==
  ASSUME EInv, NEW l \in Lanes, RotationInv(l, lane[l]), NEW u \in held,
         lane[l].pc \in Busy, lane'[l].pc \in Busy \cup {"pick"}, Stays(l),
         held' \in {held, held \ {u}},
         \A t \in Tasks \ {u} : row'[t] = row[t] /\ ev'[t] = ev[t] /\ cause'[t] = cause[t]
  PROVE  RotationInv(l, lane[l])'
<1>1. held \subseteq Tasks
  BY DEF EInv, IInv, CoverageTypeOK
<1>2. lane[l].pc \in Rotating /\ lane[l].pc # "scan" /\ lane'[l].pc \in Rotating
  BY DEF Rotating, Busy
<1>3. lane'[l].keys \cap lane'[l].seen = {}
  BY <1>2 DEF RotationInv, Stays
<1>4. ASSUME NEW t \in Tasks \ held', Redoable(t)'
      PROVE  t \in held \/ (Redoable(t) /\ cause'[t] = cause[t])
  <2>1. CASE t = u
    BY <2>1
  <2>2. CASE t # u
    BY <2>2, <1>4 DEF Redoable
  <2> QED BY <2>1, <2>2
<1>5. \A t \in held' : t \in held
  OBVIOUS
<1> QED BY <1>1, <1>2, <1>3, <1>4, <1>5, RotationKept DEF Stays

\* A step that changes neither the table nor the evidence.
LEMMA MoveKept ==
  ASSUME EInv, NEW l \in Lanes, RotationInv(l, lane[l]),
         lane[l].pc \in Rotating, lane'[l].pc \in Rotating,
         lane'[l].cohort = lane[l].cohort, lane'[l].seen = lane[l].seen,
         lane'[l].stop = lane[l].stop, lane'[l].blind = lane[l].blind,
         lane'[l].pc # "scan" => lane'[l].keys \cap lane'[l].seen = {},
         UNCHANGED <<row, held, ev, cause>>
  PROVE  RotationInv(l, lane[l])'
<1>1. held \subseteq Tasks
  BY DEF EInv, IInv, CoverageTypeOK
<1>2. \A t \in Tasks \ held' : Redoable(t)' => Redoable(t) /\ cause'[t] = cause[t]
  BY DEF Redoable
<1>3. \A t \in held' : t \in held
  OBVIOUS
<1> QED BY <1>1, <1>2, <1>3, RotationKept

\* A lane that is not past its reconcile has nothing to show.
LEMMA NotRotating ==
  ASSUME NEW l \in Lanes, lane'[l].pc \notin Rotating
  PROVE  RotationInv(l, lane[l])'
  BY DEF RotationInv

\* The preamble.  The reconcile takes every pass whose evidence is complete off
\* the queue.
LEMMA PreambleRotates ==
  ASSUME EInv, RInv, Lanes = {Primary}, NEW l \in Lanes,
         \/ \E S \in SUBSET Shards : Restore(l, S)
         \/ StopAtTop(l) \/ PlanRows(l) \/ Reclaim(l) \/ Revive(l) \/ ReconcileNow(l) \/ ReconcileFails(l)
  PROVE  RotationInv(l, lane[l])'
<1>0. lane[l] \in Local /\ lane \in [Lanes -> Local]
  BY LocalFacts DEF EInv, LaneInv
<1>1. CASE \/ \E S \in SUBSET Shards : Restore(l, S)
           \/ StopAtTop(l) \/ PlanRows(l) \/ Reclaim(l) \/ Revive(l)
  <2>1. lane'[l].pc \in {"plan", "reclaim", "revive", "reconcile", "off"}
    BY <1>0, <1>1 DEF Restore, StopAtTop, PlanRows, Reclaim, Revive, Goto, Idle, Local
  <2> QED BY <2>1, NotRotating DEF Rotating, Busy
<1>2. CASE ReconcileNow(l)
  <2>1. held = {} /\ held' = {}
    <3>1. lane[l].pc \notin Busy
      BY <1>2 DEF ReconcileNow, At, Busy
    <3>2. lane[l].video = {}
      BY <3>1, LocalFacts DEF EInv, Shape
    <3> QED BY <3>2, <1>2, AllHeld DEF ReconcileNow, Reconcile
  <2>2. lane'[l].pc = "scan"
    BY <1>0, <1>2 DEF ReconcileNow, NewRotation, Local
  <2>3. ASSUME NEW t \in Tasks, Redoable(t)' PROVE FALSE
    <3>1. ev[t] = "whole" /\ row'[t].state \in {"queued", "failed"}
      BY <2>3, <1>2 DEF Redoable, ReconcileNow
    <3>2. t \in Proved(l) \cap Of(l)
      BY <3>1, AllHeld DEF RInv, WholeIsWritten, Proved, Stored
    <3>3. row \in [Tasks -> Row]
      BY DEF EInv, IInv, CoverageTypeOK
    <3>4. row'[t].state \notin {"queued", "failed"}
      BY <1>2, <3>2, <3>3 DEF ReconcileNow, Reconcile, Reconcilable, Row
    <3> QED BY <3>1, <3>4
  <2> QED BY <2>1, <2>2, <2>3 DEF RotationInv, Tasks
<1>3. CASE ReconcileFails(l)
  <2>1. held = {} /\ held' = {}
    <3>1. lane[l].pc \notin Busy
      BY <1>3 DEF ReconcileFails, At, Busy
    <3>2. lane[l].video = {}
      BY <3>1, LocalFacts DEF EInv, Shape
    <3> QED BY <3>2, <1>3, AllHeld DEF ReconcileFails, Reconcile
  <2>2. lane'[l].pc = "scan" /\ lane'[l].blind
    BY <1>0, <1>3 DEF ReconcileFails, NewRotation, Local
  <2> QED BY <2>1, <2>2 DEF RotationInv
<1> QED BY <1>1, <1>2, <1>3

\* The loop over cohorts and videos.  A video that is claimed was not looked at
\* before in this cohort, and is from now on.
LEMMA CohortRotates ==
  ASSUME EInv, RInv, Lanes = {Primary}, NEW l \in Lanes,
         \/ Scan(l) \/ CohortEnds(l) \/ KeysDone(l) \/ \E v \in Videos : Claim(l, v)
  PROVE  RotationInv(l, lane[l])'
<1>0. /\ lane[l] \in Local /\ lane \in [Lanes -> Local] /\ Shape(l, lane[l])
      /\ RotationInv(l, lane[l]) /\ row \in [Tasks -> Row] /\ held \subseteq Tasks
  BY LocalFacts DEF EInv, LaneInv, RInv, IInv, CoverageTypeOK
<1>1. lane[l].pc \in {"scan", "pick"}
  BY DEF Scan, CohortEnds, KeysDone, Claim, At
<1>2. lane[l].pc \in Rotating /\ held = {}
  <2>1. lane[l].video = {}
    BY <1>0, <1>1 DEF Shape, Busy
  <2> QED BY <2>1, <1>1, AllHeld DEF Rotating
<1>3. /\ lane[l].cohort \in 1 .. Len(Cohorts[l]) /\ Len(Cohorts[l]) \in Nat
      /\ lane[l].keys \in SUBSET Videos /\ lane[l].seen \in SUBSET Videos
  BY <1>0, <1>1, EngineAssumption DEF Shape, Local
<1>4. CASE Scan(l)
  <2>1. /\ lane'[l].pc = "pick" /\ lane'[l].cohort = lane[l].cohort
        /\ lane'[l].seen = lane[l].seen /\ lane'[l].stop = lane[l].stop
        /\ lane'[l].blind = lane[l].blind
        /\ lane'[l].keys = Fresh(l)
    BY <1>0, <1>4 DEF Scan, Local
  <2>2. lane'[l].keys \cap lane'[l].seen = {}
    BY <2>1 DEF Fresh
  <2>3. UNCHANGED <<row, held, ev, cause>>
    BY <1>4 DEF Scan, tableVars
  <2> QED BY <2>1, <2>2, <2>3, <1>0, <1>2, MoveKept DEF Rotating
<1>5. CASE KeysDone(l)
  <2>1. /\ lane'[l].pc = "scan" /\ lane'[l].cohort = lane[l].cohort
        /\ lane'[l].seen = lane[l].seen /\ lane'[l].stop = lane[l].stop
        /\ lane'[l].blind = lane[l].blind
    BY <1>0, <1>5 DEF KeysDone, Goto, Local
  <2>2. UNCHANGED <<row, held, ev, cause>>
    BY <1>5 DEF KeysDone, tableVars
  <2> QED BY <2>1, <2>2, <1>0, <1>2, MoveKept DEF Rotating
<1>6. CASE CohortEnds(l)
  <2>1. UNCHANGED <<row, held, ev, cause>>
    BY <1>6 DEF CohortEnds, tableVars
  <2>2. \/ lane'[l] = Idle \/ lane'[l] = [lane[l] EXCEPT !.pc = "plan"]
        \/ lane'[l] = NextCohort(lane[l])
    BY <1>0, <1>6 DEF CohortEnds
  <2>3. CASE lane'[l] = Idle \/ lane'[l] = [lane[l] EXCEPT !.pc = "plan"]
    <3>1. lane'[l].pc \in {"off", "plan"}
      BY <2>3, <1>0 DEF Idle, Local
    <3> QED BY <3>1, NotRotating DEF Rotating, Busy
  <2>4. CASE lane'[l] = NextCohort(lane[l])
    <3>1. /\ lane'[l].pc = "scan" /\ lane'[l].cohort = lane[l].cohort + 1
          /\ lane'[l].stop = lane[l].stop /\ lane'[l].blind = lane[l].blind
      BY <2>4, <1>0, <1>6 DEF NextCohort, Local, CohortEnds, At
    <3>2. ASSUME NEW t, Tried(l, lane[l], t) PROVE Tried(l, lane'[l], t)
      <4>1. \E i \in 1 .. Len(Cohorts[l]) : i < lane[l].cohort + 1 /\ t[2] \in Cohorts[l][i]
        BY <3>2, <1>3 DEF Tried
      <4> QED BY <4>1, <3>1 DEF Tried
    <3>3. ASSUME ~lane'[l].stop, ~lane'[l].blind, NEW t \in Tasks \ held', Redoable(t)'
          PROVE  cause'[t] = "reset" \/ Tried(l, lane'[l], t)
      <4>1. Redoable(t) /\ t \notin held
        BY <2>1, <3>3 DEF Redoable
      <4>2. cause[t] = "reset" \/ Tried(l, lane[l], t)
        BY <4>1, <3>1, <3>3, <1>0, <1>2 DEF RotationInv
      <4> QED BY <4>2, <3>2, <2>1
    <3>4. (~lane[l].stop /\ ~lane[l].blind => \A t \in Tasks \ held :
             Redoable(t) => cause[t] = "reset" \/ Tried(l, lane[l], t))'
      BY <3>3 DEF Tasks
    <3>5. held' = {} /\ lane'[l].pc \notin Rotating \ {"scan"}
      BY <2>1, <1>2, <3>1
    <3> QED BY <3>4, <3>5 DEF RotationInv
  <2> QED BY <2>2, <2>3, <2>4
<1>7. ASSUME NEW v \in Videos, Claim(l, v) PROVE RotationInv(l, lane[l])'
  <2> DEFINE next == [lane[l] EXCEPT !.keys = @ \ {v}, !.seen = @ \cup {v}]
  <2>1. /\ next.pc = "pick" /\ next.cohort = lane[l].cohort /\ next.stop = lane[l].stop
        /\ next.blind = lane[l].blind
        /\ next.seen = lane[l].seen \cup {v} /\ next.keys = lane[l].keys \ {v}
        /\ DOMAIN next = DOMAIN lane[l]
    BY <1>0, <1>7 DEF Claim, At, Local
  <2>2. \/ lane'[l] = next
        \/ \E T : lane'[l] = [next EXCEPT !.pc = "fetch", !.video = {v}, !.todo = T]
    BY <1>0, <1>7 DEF Claim
  <2>3. \A T : LET y == [next EXCEPT !.pc = "fetch", !.video = {v}, !.todo = T] IN
          /\ y.pc = "fetch" /\ y.cohort = next.cohort /\ y.stop = next.stop
          /\ y.blind = next.blind
          /\ y.seen = next.seen /\ y.keys = next.keys
    BY <1>0 DEF Local
  <2> HIDE DEF next
  <2>4. /\ lane'[l].pc \in {"pick", "fetch"} /\ lane'[l].cohort = lane[l].cohort
        /\ lane'[l].stop = lane[l].stop /\ lane'[l].seen = lane[l].seen \cup {v}
        /\ lane'[l].blind = lane[l].blind
        /\ lane'[l].keys = lane[l].keys \ {v}
    <3>1. CASE lane'[l] = next
      BY <2>1, <3>1
    <3>2. ASSUME NEW T, lane'[l] = [next EXCEPT !.pc = "fetch", !.video = {v}, !.todo = T]
          PROVE  /\ lane'[l].pc = "fetch" /\ lane'[l].cohort = next.cohort
                 /\ lane'[l].stop = next.stop /\ lane'[l].seen = next.seen
                 /\ lane'[l].keys = next.keys /\ lane'[l].blind = next.blind
      BY <2>3, <3>2
    <3> QED BY <2>1, <2>2, <3>1, <3>2
  <2>5. lane[l].keys \cap lane[l].seen = {} /\ v \in lane[l].keys
    BY <1>0, <1>7 DEF Claim, At, RotationInv, Rotating
  <2>6. lane'[l].keys \cap lane'[l].seen = {}
    BY <2>4, <2>5
  <2>7. /\ UNCHANGED <<ev, cause>>
        /\ held' \subseteq Taken(v, Cohort(l))
        /\ \A t \in Tasks \ held' : row'[t] = row[t]
    <3>1. CASE Taken(v, Cohort(l)) = {}
      BY <3>1, <1>2, <1>7 DEF Claim, tableVars
    <3>2. CASE Taken(v, Cohort(l)) # {}
      BY <3>2, <1>2, <1>7 DEF Claim, ClaimFor
    <3> QED BY <3>1, <3>2
  <2>8. ASSUME NEW t \in held' PROVE Tried(l, lane'[l], t)
    <3>1. t[1] = v /\ t[2] \in Cohort(l)
      BY <2>7, <2>8 DEF Taken
    <3> QED BY <3>1, <2>4 DEF Tried, Cohort
  <2>9. \A t \in Tasks \ held' : Redoable(t)' => Redoable(t) /\ cause'[t] = cause[t]
    BY <2>7 DEF Redoable
  <2>10. lane'[l].pc \in Rotating /\ lane[l].seen \subseteq lane'[l].seen
    BY <2>4 DEF Rotating, Busy
  <2> QED BY <2>4, <2>6, <2>8, <2>9, <2>10, <1>0, <1>2, RotationKept
<1> QED BY <1>4, <1>5, <1>6, <1>7


\* A video and its passes: the row, the evidence and the cause of the pass at
\* hand change, and it was tried.
LEMMA VideoRotates ==
  ASSUME EInv, EvTypes, RInv, NEW l \in Lanes,
         \/ Fetch(l) \/ FetchFails(l) \/ UnfetchedLooks(l) \/ FailUnfetched(l)
         \/ UnfetchedOver(l) \/ PassesOver(l) \/ FailLooks(l)
         \/ \E c \in Components : GiveBack(l, c) \/ GateSkip(l, c) \/ GateDefer(l, c) \/ Run(l, c)
         \/ RunSkips(l) \/ RunDefers(l) \/ RunTransient(l) \/ RunFails(l)
         \/ RunEmits(l) \/ RunEmitsNothing(l) \/ StorePart(l) \/ StoreAll(l) \/ MarkDone(l)
         \/ RunRenews(l)
  PROVE  RotationInv(l, lane[l])'
<1>0. /\ lane[l] \in Local /\ lane \in [Lanes -> Local] /\ LaneInv
      /\ RotationInv(l, lane[l]) /\ row \in [Tasks -> Row]
      /\ ev \in [Tasks -> {"none", "empty", "part", "whole"}] /\ DOMAIN cause = Tasks
  BY LocalFacts DEF EInv, LaneInv, RInv, IInv, CoverageTypeOK, EvTypes
<1>1. lane[l].pc \in Busy
  BY DEF Fetch, FetchFails, UnfetchedLooks, FailUnfetched, UnfetchedOver, PassesOver,
         FailLooks, GiveBack, GateSkip, GateDefer, Run, Due,
         RunSkips, RunDefers, RunTransient, RunFails, RunEmits, RunEmitsNothing, StorePart,
         StoreAll, MarkDone, RunRenews, At, Busy
<1>2. lane[l].pc \in Rotating /\ lane[l].keys \cap lane[l].seen = {}
  BY <1>0, <1>1 DEF Rotating, Busy, RotationInv
<1>3. ASSUME lane'[l].pc \in Busy \cup {"pick"}, Stays(l), UNCHANGED <<row, held, ev, cause>>
      PROVE  RotationInv(l, lane[l])'
  BY <1>0, <1>2, <1>3, MoveKept DEF Stays, Rotating
<1>4. ASSUME NEW b \in BOOLEAN, VideoOver(l, b)
      PROVE  lane'[l].pc \in Busy \cup {"pick"} /\ Stays(l)
  BY <1>0, <1>4 DEF VideoOver, NextVideo, Local, Stays
<1>5. ASSUME NEW p \in Busy, Goto(l, p) PROVE lane'[l].pc \in Busy \cup {"pick"} /\ Stays(l)
  BY <1>0, <1>5 DEF Goto, Local, Stays
<1>6. ASSUME NEW c, NEW o, Finished(l, c, o)
      PROVE  lane'[l].pc \in Busy \cup {"pick"} /\ Stays(l)
  <2>1. lane'[l] = NextPass(lane[l], c, o)
    BY <1>0, <1>6 DEF Finished
  <2>2. /\ NextPass(lane[l], c, o).pc = "pass"
        /\ NextPass(lane[l], c, o).cohort = lane[l].cohort
        /\ NextPass(lane[l], c, o).seen = lane[l].seen
        /\ NextPass(lane[l], c, o).keys = lane[l].keys
        /\ NextPass(lane[l], c, o).stop = lane[l].stop
        /\ NextPass(lane[l], c, o).blind = lane[l].blind
    BY <1>0 DEF NextPass, Local
  <2> QED BY <2>1, <2>2 DEF Stays, Busy
<1>7. ASSUME NEW c, lane' = [lane EXCEPT ![l].todo = @ \ {c}]
      PROVE  lane'[l].pc \in Busy \cup {"pick"} /\ Stays(l)
  BY <1>0, <1>1, <1>7 DEF Local, Stays
<1>8. PICK v \in Videos : /\ lane[l].video = {v}
                          /\ \A c : Task(l, c) = <<v, c>>
                          /\ \A c \in lane[l].todo : <<v, c>> \in held /\ <<v, c>> \in Tasks
                          /\ lane[l].pc \in Running =>
                               \E c \in lane[l].todo : lane[l].comp = {c} /\ Current(l) = <<v, c>>
  BY <1>0, <1>1, OnVideo
<1>9. ASSUME NEW u \in held, u \in Tasks, lane'[l].pc \in Busy \cup {"pick"}, Stays(l),
             held' \in {held, held \ {u}},
             \A t \in Tasks \ {u} : row'[t] = row[t] /\ ev'[t] = ev[t] /\ cause'[t] = cause[t]
      PROVE  RotationInv(l, lane[l])'
  BY <1>0, <1>1, <1>9, OnHeldKept
<1>10. CASE \/ Fetch(l) \/ FetchFails(l) \/ PassesOver(l) \/ RunEmits(l)
            \/ UnfetchedLooks(l) \/ UnfetchedOver(l) \/ FailLooks(l)
  <2>1. UNCHANGED <<row, held, ev, cause>>
    BY <1>10 DEF Fetch, FetchFails, PassesOver, RunEmits, UnfetchedLooks, UnfetchedOver,
                 FailLooks, tableVars
  <2>2. CASE Fetch(l)
    <3>1. \E snap : lane'[l] = [lane[l] EXCEPT !.pc = "pass", !.snap = snap]
      BY <2>2, <1>0, <1>8 DEF Fetch
    <3>2. lane'[l].pc \in Busy \cup {"pick"} /\ Stays(l)
      BY <3>1, <1>0 DEF Local, Stays, Busy
    <3> QED BY <2>1, <3>2, <1>3
  <2>3. CASE FetchFails(l) \/ RunEmits(l)
    BY <2>1, <2>3, <1>3, <1>5 DEF FetchFails, RunEmits, Busy
  <2>4. CASE PassesOver(l) \/ UnfetchedOver(l)
    BY <2>1, <2>4, <1>3, <1>4 DEF PassesOver, UnfetchedOver
  <2>5. CASE UnfetchedLooks(l) \/ FailLooks(l)
    <3>1. lane'[l].pc \in Busy \cup {"pick"} /\ Stays(l)
      BY <2>5, <1>0, LooksMove DEF Stays, Busy
    <3> QED BY <2>1, <3>1, <1>3
  <2> QED BY <1>10, <2>2, <2>3, <2>4, <2>5
<1>11. CASE FailUnfetched(l)
  <2> DEFINE u == Current(l)
  <2>1. u \in held /\ u \in Tasks
    BY <1>11, FailUse
  <2>2. lane'[l].pc \in Busy \cup {"pick"} /\ Stays(l)
    BY <1>11, <1>0 DEF FailUnfetched, NextUnfetched, Local, Stays, Busy
  <2> HIDE DEF u
  <2>3. held' = held \ {u}
    BY <1>11 DEF FailUnfetched, Fail, u
  <2>4. \A t \in Tasks \ {u} : row'[t] = row[t] /\ ev'[t] = ev[t] /\ cause'[t] = cause[t]
    BY <2>1, <1>0, <1>11 DEF FailUnfetched, Fail, u
  <2> QED BY <2>1, <2>2, <2>3, <2>4, <1>9
<1>12. ASSUME NEW c \in Components,
              GiveBack(l, c) \/ GateSkip(l, c) \/ GateDefer(l, c) \/ Run(l, c)
       PROVE  RotationInv(l, lane[l])'
  <2> DEFINE u == Task(l, c)
  <2>1. u \in held /\ u \in Tasks
    BY <1>8, <1>12 DEF GiveBack, GateSkip, GateDefer, Run, Due, Ready
  <2>2. lane'[l].pc \in Busy \cup {"pick"} /\ Stays(l)
    <3>1. CASE GiveBack(l, c)
      BY <3>1, <1>7 DEF GiveBack
    <3>2. CASE GateSkip(l, c) \/ GateDefer(l, c)
      BY <3>2, <1>6 DEF GateSkip, GateDefer
    <3>3. CASE Run(l, c)
      BY <3>3, <1>0 DEF Run, Local, Stays, Busy
    <3> QED BY <1>12, <3>1, <3>2, <3>3
  <2> HIDE DEF u
  <2>3. held' \in {held, held \ {u}}
    BY <1>12 DEF GiveBack, GateSkip, GateDefer, Run, Release, Skip, Defer, tableVars, u
  <2>4. \A t \in Tasks \ {u} : row'[t] = row[t] /\ ev'[t] = ev[t] /\ cause'[t] = cause[t]
    <3>1. CASE GiveBack(l, c)
      BY <3>1, <2>1, <1>0 DEF GiveBack, Release, u
    <3>2. CASE GateSkip(l, c)
      BY <3>2, <2>1, <1>0 DEF GateSkip, Skip, u
    <3>3. CASE GateDefer(l, c)
      BY <3>3, <2>1, <1>0 DEF GateDefer, Defer, u
    <3>4. CASE Run(l, c)
      BY <3>4, <2>1, <1>0 DEF Run, tableVars, u
    <3> QED BY <1>12, <3>1, <3>2, <3>3, <3>4
  <2> QED BY <2>1, <2>2, <2>3, <2>4, <1>9
<1>13. CASE \/ RunSkips(l) \/ RunDefers(l) \/ RunTransient(l) \/ RunFails(l)
            \/ RunEmitsNothing(l) \/ StorePart(l) \/ StoreAll(l) \/ MarkDone(l) \/ RunRenews(l)
  <2> DEFINE u == Current(l)
  <2>1. u \in held /\ u \in Tasks
    <3>1. lane[l].pc \in Running
      BY <1>13 DEF RunSkips, RunDefers, RunTransient, RunFails, RunEmitsNothing, StorePart,
                   StoreAll, MarkDone, RunRenews, At, Running
    <3> QED BY <3>1, <1>8
  <2>2. lane'[l].pc \in Busy \cup {"pick"} /\ Stays(l)
    <3>1. CASE RunSkips(l) \/ RunDefers(l) \/ RunTransient(l) \/ RunFails(l) \/ MarkDone(l)
      BY <3>1, <1>6 DEF RunSkips, RunDefers, RunTransient, RunFails, MarkDone
    <3>2. CASE RunEmitsNothing(l) \/ StoreAll(l)
      BY <3>2, <1>5 DEF RunEmitsNothing, StoreAll, Busy
    <3>3. CASE StorePart(l) \/ RunRenews(l)
      BY <3>3, <1>1 DEF StorePart, RunRenews, Stays
    <3> QED BY <1>13, <3>1, <3>2, <3>3
  <2> HIDE DEF u
  <2>3. held' \in {held, held \ {u}}
    BY <1>13 DEF RunSkips, RunDefers, RunTransient, RunFails, RunEmitsNothing, StorePart,
       StoreAll, MarkDone, RunRenews, Skip, Defer, Fail, Done, Renew, tableVars, u
  <2>4. \A t \in Tasks \ {u} : row'[t] = row[t] /\ ev'[t] = ev[t] /\ cause'[t] = cause[t]
    <3>1. CASE RunSkips(l)
      BY <3>1, <2>1, <1>0 DEF RunSkips, Skip, u
    <3>2. CASE RunDefers(l) \/ RunTransient(l)
      BY <3>2, <2>1, <1>0 DEF RunDefers, RunTransient, Defer, u
    <3>3. CASE RunFails(l)
      BY <3>3, <2>1, <1>0 DEF RunFails, Fail, u
    <3>4. CASE RunEmitsNothing(l) \/ StorePart(l) \/ StoreAll(l)
      BY <3>4, <2>1, <1>0 DEF RunEmitsNothing, StorePart, StoreAll, tableVars, u
    <3>5. CASE MarkDone(l)
      BY <3>5, <2>1, <1>0 DEF MarkDone, Done, u
    <3>6. CASE RunRenews(l)
      BY <3>6, <2>1, <1>0 DEF RunRenews, Renew, u
    <3> QED BY <1>13, <3>1, <3>2, <3>3, <3>4, <3>5, <3>6
  <2> QED BY <2>1, <2>2, <2>3, <2>4, <1>9
<1> QED BY <1>10, <1>11, <1>12, <1>13

\* The operator, the clock and deaths.
LEMMA OutsideRotates ==
  ASSUME EInv, RInv, Lanes = {Primary}, NEW l \in Lanes,
         \/ Start \/ Stop \/ Crash(Lanes) \/ \E k \in Lanes : Crash({k})
         \/ \E t \in Tasks : (LeaseLapses(t) \/ BackoffElapses(t)) /\ UNCHANGED <<ev, lane, cause>>
         \/ \E cs \in SUBSET Components : Requeue(cs) /\ UNCHANGED <<ev, lane, cause>>
         \/ \E c \in Components : Reset(c)
         \/ UNCHANGED vars
  PROVE  RotationInv(l, lane[l])'
<1>0. /\ lane[l] \in Local /\ lane \in [Lanes -> Local] /\ held \subseteq Tasks
      /\ RotationInv(l, lane[l]) /\ row \in [Tasks -> Row] /\ l = Primary
  BY LocalFacts DEF EInv, LaneInv, RInv, IInv, CoverageTypeOK
<1>1. CASE Start \/ Crash(Lanes) \/ \E k \in Lanes : Crash({k})
  <2>1. CASE Start
    <3>1. \E b : lane'[l] = [Idle EXCEPT !.pc = "restore", !.stop = b]
      BY <1>0, <2>1 DEF Start, At
    <3>2. \A b : [Idle EXCEPT !.pc = "restore", !.stop = b].pc = "restore"
      BY DEF Idle
    <3>3. lane'[l].pc = "restore"
      BY <3>1, <3>2
    <3> QED BY <3>3, NotRotating DEF Rotating, Busy
  <2>2. CASE Crash(Lanes) \/ \E k \in Lanes : Crash({k})
    <3>1. lane'[l] = Idle
      BY <1>0, <2>2 DEF Crash
    <3>2. lane'[l].pc = "off"
      BY <3>1 DEF Idle
    <3> QED BY <3>2, NotRotating DEF Rotating, Busy
  <2> QED BY <1>1, <2>1, <2>2
<1> SUFFICES ASSUME ~Start, ~Crash(Lanes), \A k \in Lanes : ~Crash({k}), lane[l].pc \in Rotating
             PROVE  RotationInv(l, lane[l])'
  <2>1. CASE lane[l].pc \notin Rotating /\ ~Start /\ ~Crash(Lanes) /\ \A k \in Lanes : ~Crash({k})
    <3>1. lane'[l].pc = lane[l].pc
      BY <2>1, <1>0 DEF Stop, Reset, Local, vars
    <3> QED BY <2>1, <3>1, NotRotating
  <2> QED BY <1>1, <2>1
<1>2. /\ lane'[l].pc = lane[l].pc /\ lane'[l].cohort = lane[l].cohort
      /\ lane'[l].seen = lane[l].seen /\ lane'[l].keys = lane[l].keys
      /\ lane[l].stop => lane'[l].stop
      /\ lane'[l].blind = lane[l].blind
      /\ held' = held /\ ev' = ev
  <2>1. CASE Stop
    <3>1. lane'[l] = lane[l] \/ lane'[l] = [lane[l] EXCEPT !.stop = TRUE]
      BY <1>0, <2>1 DEF Stop
    <3>2. held' = held /\ ev' = ev
      BY <2>1 DEF Stop
    <3> QED BY <1>0, <3>1, <3>2 DEF Local
  <2>2. CASE ~Stop
    BY <2>2 DEF Reset, vars, LeaseLapses, BackoffElapses, Requeue, ResetComponent, tableVars
  <2> QED BY <2>1, <2>2
<1>3. lane'[l].pc # "scan" => lane'[l].keys \cap lane'[l].seen = {}
  BY <1>0, <1>2 DEF RotationInv
<1>4. ASSUME NEW t \in Tasks, Redoable(t)'
      PROVE  cause'[t] = "reset" \/ (Redoable(t) /\ cause'[t] = cause[t])
  <2>1. CASE Stop \/ UNCHANGED vars
    BY <2>1, <1>4 DEF Redoable, Stop, vars, tableVars
  <2>2. ASSUME NEW u \in Tasks, LeaseLapses(u) \/ BackoffElapses(u), UNCHANGED <<ev, cause>>
        PROVE  Redoable(t) /\ cause'[t] = cause[t]
    BY <2>2, <1>0, <1>4 DEF Redoable, LeaseLapses, BackoffElapses, Row
  <2>3. ASSUME NEW cs \in SUBSET Components, Requeue(cs), UNCHANGED <<ev, cause>>
        PROVE  Redoable(t) /\ cause'[t] = cause[t]
    BY <2>3, <1>0, <1>4 DEF Redoable, Requeue, Row
  <2>4. ASSUME NEW c \in Components, Reset(c)
        PROVE  cause'[t] = "reset" \/ (Redoable(t) /\ cause'[t] = cause[t])
    <3>1. CASE t[2] = c
      BY <2>4, <3>1 DEF Reset
    <3>2. CASE t[2] # c
      BY <2>4, <3>2, <1>4 DEF Reset, ResetComponent, Redoable
    <3> QED BY <3>1, <3>2
  <2> QED BY <2>1, <2>2, <2>3, <2>4
<1>5. \A t \in held' : t \in held
  BY <1>2
<1>6. lane'[l].pc \in Rotating /\ lane[l].seen \subseteq lane'[l].seen
  BY <1>2
<1> QED BY <1>0, <1>2, <1>3, <1>4, <1>5, <1>6, RotationKept

LEMMA NextRInv ==
  ASSUME EInv, EvTypes, RInv, Lanes = {Primary}, [EngineNext]_vars
  PROVE  RInv'
<1>1. WholeIsWritten'
  BY WholeStays DEF RInv
<1>2. ASSUME NEW l \in Lanes PROVE RotationInv(l, lane[l])'
  <2>1. ASSUME NEW k \in Lanes, Step(k) \/ RunRenews(k) PROVE RotationInv(l, lane[l])'
    <3>1. k = l
      BY <2>1, AllHeld
    <3> QED BY <2>1, <3>1, PreambleRotates, CohortRotates, VideoRotates DEF Step
  <2> QED BY <2>1, OutsideRotates DEF EngineNext
<1> QED BY <1>1, <1>2 DEF RInv

\* With one lane, what is known is not asked again: evidence that is complete is
\* earned anew only after a reset, by a pass whose row was still running from an
\* earlier session, or in a rotation whose reconcile raised; whatever else fails,
\* waits, is given back or is restored.
THEOREM OnceEarnedIsKept ==
  ASSUME Lanes = {Primary}
  PROVE  EngineSpec => RedoneOnlyIfLapsed
<1>1. ASSUME EngineInit PROVE RInv
  BY <1>1 DEF EngineInit, Idle, RInv, WholeIsWritten, RotationInv, Rotating, Busy
<1>2. EInv /\ EvInv /\ RInv /\ [EngineNext]_vars => RInv'
  BY NextRInv DEF EvInv
<1>3. ASSUME EInv, RInv, NEW l \in Lanes, NEW v \in Videos, Claim(l, v),
             NEW t \in held' \ held, ev[t] = "whole"
      PROVE  row[t].state = "running" \/ cause[t] = "reset" \/ lane[l].blind
  <2>1. ~lane[l].stop /\ lane[l].pc = "pick" /\ v \in lane[l].keys
    BY <1>3 DEF Claim, Stopping, At
  <2>2. lane[l].pc \in Rotating /\ lane[l].keys \cap lane[l].seen = {}
    BY <2>1, <1>3 DEF RInv, RotationInv, Rotating
  <2>3. t \in Taken(v, Cohort(l))
    BY <1>3 DEF Claim, ClaimFor, tableVars
  <2>4. lane[l].cohort \in 1 .. Len(Cohorts[l]) /\ Cohort(l) \subseteq Components
    <3>1. Shape(l, lane[l]) /\ Len(Cohorts[l]) \in Nat
      BY <1>3, LocalFacts, EngineAssumption DEF EInv
    <3>2. lane[l].cohort \in 1 .. Len(Cohorts[l])
      BY <3>1, <2>1 DEF Shape
    <3> QED BY <3>2, EngineAssumption DEF Cohort
  <2>5. t \in Tasks /\ t[1] = v /\ t[2] \in Cohorts[l][lane[l].cohort]
    BY <2>3, <2>4 DEF Taken, Tasks, Cohort
  <2>6. ~Tried(l, lane[l], t)
    <3>1. t[1] \notin lane[l].seen
      BY <2>1, <2>2, <2>5
    <3>2. ASSUME NEW i \in 1 .. Len(Cohorts[l]), i < lane[l].cohort PROVE t[2] \notin Cohorts[l][i]
      <4>1. i # lane[l].cohort
        BY <2>4, <3>2
      <4> QED BY <4>1, <2>4, <2>5, PackedOnce
    <3> QED BY <3>1, <3>2 DEF Tried
  <2>7. row[t].state \in {"queued", "running", "failed"}
    BY <2>3 DEF Taken, Claimable
  <2>8. CASE row[t].state # "running"
    <3>1. Redoable(t) /\ t \in Tasks \ held
      BY <1>3, <2>5, <2>7, <2>8 DEF Redoable
    <3> QED BY <3>1, <2>1, <2>2, <2>6, <1>3 DEF RInv, RotationInv
  <2> QED BY <2>8
<1>4. EInv /\ RInv =>
        \A l \in Lanes, v \in Videos : Claim(l, v) =>
          \A t \in held' \ held : ev[t] = "whole" =>
            row[t].state = "running" \/ cause[t] = "reset" \/ lane[l].blind
  BY <1>3
<1> QED BY <1>1, <1>2, <1>4, EInvHolds, EvInvHolds, PTL DEF EngineSpec, RedoneOnlyIfLapsed
=============================================================================
