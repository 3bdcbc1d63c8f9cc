--------------------------- MODULE JobQueueProofs ---------------------------
(***************************************************************************)
(* Proofs about JobQueue, for every set of jobs, every bound and each of   *)
(* the three consumers.  First type correctness, and that no interleaving  *)
(* of commands, deaths and errors ever leaves a job in two places.  Then   *)
(* what the envelope's two counters are worth (no job is tried too often   *)
(* or given up too soon, no job takes the engine down too often), that an  *)
(* acknowledged job is over, that only two crash windows lose a job, and   *)
(* that the queue implements JobLifecycle.                                 *)
(***************************************************************************)
EXTENDS JobQueue, SequenceTheorems, TLAPS

-----------------------------------------------------------------------------
(* The list commands on sequences of envelopes *)

\* What RPUSH makes of a list of envelopes.
LEMMA AppendFacts ==
  ASSUME NEW s \in Seq(Envelope), NEW e \in Envelope
  PROVE  /\ Append(s, e) \in Seq(Envelope)
         /\ JobsIn(Append(s, e)) = JobsIn(s) \cup {e.job}
         /\ ToSet(Append(s, e)) = ToSet(s) \cup {e}
         /\ Distinct(s) /\ e.job \notin JobsIn(s) => Distinct(Append(s, e))
<1> DEFINE t == Append(s, e)
<1>1. t \in Seq(Envelope) /\ Len(t) = Len(s) + 1 /\ Len(s) \in Nat
      /\ DOMAIN s = 1 .. Len(s) /\ DOMAIN t = 1 .. Len(t)
  OBVIOUS
<1>2. t[Len(s) + 1] = e /\ \A i \in 1 .. Len(s) : t[i] = s[i]
  OBVIOUS
<1> HIDE DEF t
<1>3. 1 .. Len(t) = (1 .. Len(s)) \cup {Len(s) + 1}
  BY <1>1
<1>4. JobsIn(t) = JobsIn(s) \cup {e.job}
  BY <1>2, <1>3 DEF JobsIn
<1>5. ToSet(t) = ToSet(s) \cup {e}
  BY <1>1, <1>2, <1>3 DEF ToSet
<1>6. Distinct(s) /\ e.job \notin JobsIn(s) => Distinct(t)
  BY <1>2, <1>3 DEF Distinct, JobsIn
<1> QED
  BY <1>1, <1>4, <1>5, <1>6 DEF t

\* What LPOP leaves of a list of envelopes.
LEMMA TailFacts ==
  ASSUME NEW s \in Seq(Envelope), s # <<>>
  PROVE  /\ Head(s) \in Envelope
         /\ Tail(s) \in Seq(Envelope)
         /\ Head(s).job \in JobsIn(s)
         /\ Distinct(s) => /\ JobsIn(Tail(s)) = JobsIn(s) \ {Head(s).job}
                           /\ Distinct(Tail(s))
<1> DEFINE t == Tail(s)
<1>1. t \in Seq(Envelope) /\ Len(t) = Len(s) - 1 /\ Len(s) \in Nat \ {0}
  OBVIOUS
<1>2. \A i \in 1 .. Len(t) : t[i] = s[i + 1]
  OBVIOUS
<1>3. Head(s) = s[1] /\ Head(s) \in Envelope
  OBVIOUS
<1> HIDE DEF t
<1>4. Head(s).job \in JobsIn(s)
  BY <1>1, <1>3 DEF JobsIn
<1>5. ASSUME Distinct(s)
      PROVE  JobsIn(t) = JobsIn(s) \ {Head(s).job}
  <2>1. JobsIn(t) \subseteq JobsIn(s) \ {Head(s).job}
    BY <1>1, <1>2, <1>3, <1>5 DEF JobsIn, Distinct
  <2>2. ASSUME NEW i \in 1 .. Len(s), s[i].job # Head(s).job
        PROVE  s[i].job \in JobsIn(t)
    <3>1. i - 1 \in 1 .. Len(t) /\ t[i - 1] = s[i]
      BY <1>1, <1>2, <1>3, <2>2
    <3> QED BY <3>1 DEF JobsIn
  <2> QED BY <2>1, <2>2 DEF JobsIn
<1>6. Distinct(s) => Distinct(t)
  BY <1>1, <1>2 DEF Distinct
<1> QED
  BY <1>1, <1>3, <1>4, <1>5, <1>6 DEF t

\* LREM of an entry that is there takes that one and no other.
LEMMA LRemFacts ==
  ASSUME NEW s \in Seq(Envelope), NEW e \in ToSet(s), Distinct(s)
  PROVE  /\ LRem(s, e) \in Seq(Envelope)
         /\ JobsIn(LRem(s, e)) = JobsIn(s) \ {e.job}
         /\ Distinct(LRem(s, e))
<1> DEFINE IsLast(k) == s[k] = e /\ \A i \in 1 .. Len(s) : i > k => s[i] # e
           last == CHOOSE k \in 1 .. Len(s) : IsLast(k)
           t == [i \in 1 .. Len(s) - 1 |-> IF i < last THEN s[i] ELSE s[i + 1]]
<1>1. Len(s) \in Nat /\ \A i \in 1 .. Len(s) : s[i] \in Envelope
  OBVIOUS
<1>2. \E k \in 1 .. Len(s) : IsLast(k)
  BY DEF ToSet, Distinct
<1>3. last \in 1 .. Len(s) /\ s[last] = e
  BY <1>2
<1>4. LRem(s, e) = t
  BY DEF LRem
<1> HIDE DEF last
<1>5. t \in Seq(Envelope) /\ Len(t) = Len(s) - 1
  <2>1. Len(s) - 1 \in Nat /\ t \in [1 .. Len(s) - 1 -> Envelope]
    BY <1>1, <1>3
  <2> QED BY <2>1, IsASeq
<1>6. \A i \in 1 .. Len(t) : t[i] = IF i < last THEN s[i] ELSE s[i + 1]
  BY <1>5
<1> HIDE DEF t
<1>7. JobsIn(t) = JobsIn(s) \ {e.job}
  <2>1. JobsIn(t) \subseteq JobsIn(s) \ {e.job}
    BY <1>1, <1>3, <1>5, <1>6 DEF JobsIn, Distinct
  <2>2. ASSUME NEW i \in 1 .. Len(s), s[i].job # e.job
        PROVE  s[i].job \in JobsIn(t)
    <3>1. CASE i < last
      <4>1. i \in 1 .. Len(t) /\ t[i] = s[i]
        BY <1>1, <1>3, <1>5, <1>6, <3>1
      <4> QED BY <4>1 DEF JobsIn
    <3>2. CASE i > last
      <4>1. i - 1 \in 1 .. Len(t) /\ t[i - 1] = s[i]
        BY <1>1, <1>3, <1>5, <1>6, <3>2
      <4> QED BY <4>1 DEF JobsIn
    <3> QED BY <1>3, <2>2, <3>1, <3>2
  <2> QED BY <2>1, <2>2 DEF JobsIn
<1>8. Distinct(t)
  BY <1>1, <1>3, <1>5, <1>6 DEF Distinct
<1> QED
  BY <1>4, <1>5, <1>7, <1>8

-----------------------------------------------------------------------------
(* The inductive invariant: SingleCopy alone is not inductive, because an   *)
(* ack or a fail that missed its entry in PROCESSING would push a second    *)
(* copy; HandTracked says that it never misses.                             *)

IInv == TypeOK /\ SingleCopy /\ HandTracked

\* What push_job pushes is an envelope of its job.
LEMMA FreshIsEnvelope == \A j \in Jobs : Fresh(j) \in Envelope /\ Fresh(j).job = j
  BY DEF Fresh, Envelope

\* A fault takes one from the budget and leaves a budget.
LEMMA SpendKeepsType ==
  ASSUME TypeOK, NEW what \in {"kill", "fault", "replay"}, Spend(what)
  PROVE  budget' \in [{"kill", "fault", "replay"} -> Nat]
  BY DEF TypeOK, Spend

\* Boot starts with empty lists and empty hands.
LEMMA InitIInv == Init => IInv
<1> SUFFICES ASSUME Init PROVE IInv
  OBVIOUS
<1>1. <<>> \in Seq(Envelope) /\ JobsIn(<<>>) = {} /\ Distinct(<<>>)
  BY DEF JobsIn, Distinct
<1>2. TypeOK
  BY <1>1, QueueAssumption DEF Init, TypeOK, Pcs, Busy
<1>3. SingleCopy
  BY <1>1 DEF Init, SingleCopy, Queued, Dead, Limbo, JobsOf
<1>4. HandTracked
  BY <1>1 DEF Init, HandTracked, Busy, Elsewhere, Queued, Dead, JobsOf
<1> QED
  BY <1>2, <1>3, <1>4 DEF IInv

\* A step that leaves the lists alone keeps SingleCopy, unless it opens the gap
\* between the two commands of fail_job.
LEMMA ListsUnchanged ==
  ASSUME IInv, UNCHANGED <<prio, default, processing, dlq, replaying>>,
         Limbo' \subseteq Limbo
  PROVE  SingleCopy'
<1>1. /\ Queued' = Queued /\ Dead' = Dead /\ JobsOf(processing)' = JobsOf(processing)
      /\ JobsOf(replaying)' = JobsOf(replaying)
  BY DEF Queued, Dead, JobsOf
<1> QED BY <1>1 DEF IInv, SingleCopy

\* Neither does taking the handler's envelope off PROCESSING.
LEMMA OffProcessing ==
  ASSUME IInv, pc \in {"working", "done", "failed"},
         processing' = processing \ hand,
         UNCHANGED <<prio, default, dlq, replaying>>, Limbo' \subseteq JobsOf(hand)
  PROVE  /\ SingleCopy'
         /\ JobsOf(hand) \cap JobsOf(processing') = {}
         /\ JobsOf(processing') \subseteq JobsOf(processing)
<1>1. /\ Queued' = Queued /\ Dead' = Dead
      /\ JobsOf(replaying)' = JobsOf(replaying)
  BY DEF Queued, Dead, JobsOf
<1>2. JobsOf(processing') \subseteq JobsOf(processing)
  BY DEF JobsOf
<1>3. JobsOf(hand) \cap JobsOf(processing') = {}
  BY DEF IInv, HandTracked, SingleCopy, JobsOf
<1>4. JobsOf(hand) \cap (Queued \cup Dead) = {}
  BY DEF IInv, HandTracked, Busy, Elsewhere, JobsOf
<1>5. \A e, f \in processing' : e.job = f.job => e = f
  BY DEF IInv, SingleCopy
<1> QED BY <1>1, <1>2, <1>3, <1>4, <1>5 DEF IInv, SingleCopy

\* And an envelope that is nowhere may be pushed on the default lane or on the
\* DLQ; s is the default lane without the copy a sweep has just taken out.
LEMMA Placed ==
  ASSUME IInv, NEW s \in Seq(Envelope), NEW e \in Envelope,
         Distinct(s), JobsIn(s) \subseteq JobsIn(default),
         e.job \notin JobsIn(s) \cup JobsIn(prio) \cup JobsIn(dlq),
         e.job \notin JobsOf(processing') \cup JobsOf(replaying'),
         processing' \subseteq processing, replaying' \subseteq replaying,
         prio' = prio, Limbo' = {},
         \/ default' = Append(s, e) /\ dlq' = dlq
         \/ default' = s /\ dlq' = Append(dlq, e)
  PROVE  /\ SingleCopy'
         /\ default' \in Seq(Envelope) /\ dlq' \in Seq(Envelope)
         /\ Queued' \cup Dead' \subseteq Queued \cup Dead \cup {e.job}
<1>1. dlq \in Seq(Envelope) /\ Distinct(dlq) /\ Distinct(prio)
  BY DEF IInv, TypeOK, SingleCopy
<1>2. /\ Append(s, e) \in Seq(Envelope)
      /\ JobsIn(Append(s, e)) = JobsIn(s) \cup {e.job} /\ Distinct(Append(s, e))
  BY AppendFacts
<1>3. /\ Append(dlq, e) \in Seq(Envelope)
      /\ JobsIn(Append(dlq, e)) = JobsIn(dlq) \cup {e.job} /\ Distinct(Append(dlq, e))
  BY <1>1, AppendFacts
<1>4. /\ default' \in Seq(Envelope) /\ dlq' \in Seq(Envelope)
      /\ Distinct(default') /\ Distinct(dlq')
      /\ \/ JobsIn(default') = JobsIn(s) \cup {e.job} /\ JobsIn(dlq') = JobsIn(dlq)
         \/ JobsIn(default') = JobsIn(s) /\ JobsIn(dlq') = JobsIn(dlq) \cup {e.job}
  BY <1>1, <1>2, <1>3
<1>5. /\ JobsOf(processing') \subseteq JobsOf(processing)
      /\ JobsOf(replaying') \subseteq JobsOf(replaying)
      /\ \A d, f \in processing' : d.job = f.job => d = f
  BY DEF JobsOf, IInv, SingleCopy
<1>6. /\ Queued' = JobsIn(prio) \cup JobsIn(default')
      /\ Dead' = JobsIn(dlq') \cup JobsOf(replaying')
  BY DEF Queued, Dead
<1>7. Queued' \cup Dead' \subseteq Queued \cup Dead \cup {e.job}
  BY <1>4, <1>5, <1>6 DEF Queued, Dead
<1>8. SingleCopy'
  BY <1>1, <1>4, <1>5, <1>6 DEF IInv, SingleCopy, Queued, Dead
<1> QED BY <1>4, <1>7, <1>8

\* The envelopes in hand belong to jobs.
LEMMA HandJobs == TypeOK => JobsOf(hand) \subseteq Jobs
  BY DEF TypeOK, JobsOf, Envelope

\* A retry or a recovery recounts an envelope and keeps its job.
LEMMA Recounted ==
  ASSUME NEW e \in Envelope
  PROVE  /\ [e EXCEPT !.recoveries = @ + 1] \in Envelope
         /\ [e EXCEPT !.recoveries = @ + 1].job = e.job
  BY DEF Envelope

\* Entering fail_job leaves the state well typed.
LEMMA EnterFailKeepsType ==
  TypeOK /\ EnterFail => pc' \in Pcs /\ failures' \in [Jobs -> Nat]
  BY DEF TypeOK, EnterFail, Pcs, Busy

\* No command, death, sweep or error of the queue breaks the invariant.
THEOREM NextIInv == IInv /\ [Next]_vars => IInv'
<1> SUFFICES ASSUME IInv, [Next]_vars PROVE IInv'
  OBVIOUS
<1> USE QueueAssumption DEF IInv
<1>1. ASSUME NEW j \in Jobs, NEW isPriority \in BOOLEAN, Push(j, isPriority)
      PROVE  IInv'
  <2>1. PICK e \in Envelope : e = Fresh(j) /\ e.job = j
    BY FreshIsEnvelope
  <2>2. j \notin Queued \cup JobsOf(processing) \cup Dead \cup JobsOf(hand)
    BY <1>1 DEF Push, HandTracked
  <2>3. prio \in Seq(Envelope) /\ default \in Seq(Envelope)
    BY DEF TypeOK
  <2>4. \/ /\ prio' = Append(prio, e) /\ default' = default
        \/ /\ default' = Append(default, e) /\ prio' = prio
    BY <1>1, <2>1 DEF Push
  <2>5. /\ prio' \in Seq(Envelope) /\ default' \in Seq(Envelope)
        /\ \/ /\ JobsIn(prio') = JobsIn(prio) \cup {j}
              /\ ToSet(default') = ToSet(default)
              /\ JobsIn(default') = JobsIn(default)
           \/ /\ JobsIn(default') = JobsIn(default) \cup {j}
              /\ ToSet(default') = ToSet(default) \cup {e}
              /\ JobsIn(prio') = JobsIn(prio)
        /\ Distinct(prio') /\ Distinct(default')
    <3>1. Distinct(prio) /\ Distinct(default) /\ j \notin JobsIn(prio) \cup JobsIn(default)
      BY <2>2 DEF SingleCopy, Queued
    <3>2. CASE prio' = Append(prio, e) /\ default' = default
      BY <2>1, <2>3, <3>1, <3>2, AppendFacts
    <3>3. CASE default' = Append(default, e) /\ prio' = prio
      BY <2>1, <2>3, <3>1, <3>3, AppendFacts
    <3> QED BY <2>4, <3>2, <3>3
  <2>6. Queued' = Queued \cup {j}
    BY <2>5 DEF Queued
  <2>7. TypeOK'
    BY <1>1, <2>4, <2>5 DEF TypeOK, Push
  <2>8. SingleCopy'
    <3>1. /\ Dead' = Dead /\ Limbo' = Limbo
          /\ JobsOf(processing)' = JobsOf(processing)
          /\ JobsOf(replaying)' = JobsOf(replaying)
      BY <1>1 DEF Push, Dead, Limbo, JobsOf
    <3>2. j \notin Limbo
      BY <2>2 DEF Limbo
    <3> QED
      BY <1>1, <2>2, <2>5, <2>6, <3>1, <3>2 DEF Push, SingleCopy, Queued
  <2>9. HandTracked'
    BY <1>1, <2>2, <2>5, <2>6
    DEF Push, HandTracked, Dead, JobsOf, Elsewhere
  <2> QED BY <2>7, <2>8, <2>9
<1>2. CASE ClaimPriority
  <2>1. prio \in Seq(Envelope) /\ prio # <<>> /\ Distinct(prio)
    BY <1>2 DEF TypeOK, SingleCopy, ClaimPriority
  <2>2. PICK e \in Envelope :
          /\ e = Head(prio) /\ e.job \in JobsIn(prio)
          /\ prio' \in Seq(Envelope) /\ Distinct(prio')
          /\ JobsIn(prio') = JobsIn(prio) \ {e.job}
    BY <1>2, <2>1, TailFacts DEF ClaimPriority
  <2>3. /\ e.job \in Queued /\ Queued' = Queued \ {e.job} /\ Dead' = Dead
        /\ Limbo' = {} /\ JobsOf(replaying)' = JobsOf(replaying)
        /\ JobsOf(processing') = JobsOf(processing) \cup {e.job}
    BY <1>2, <2>2
    DEF ClaimPriority, Take, books, SingleCopy, Queued, Dead, Limbo, JobsOf
  <2>4. TypeOK'
    BY <1>2, <2>2 DEF TypeOK, ClaimPriority, Take, Pcs, Busy, books
  <2>5. SingleCopy'
    <3>1. \A d, f \in processing' : d.job = f.job => d = f
      BY <1>2, <2>2, <2>3 DEF ClaimPriority, Take, SingleCopy, JobsOf
    <3> QED
      BY <1>2, <2>2, <2>3, <3>1 DEF ClaimPriority, books, SingleCopy, Queued
  <2>6. HandTracked'
    BY <1>2, <2>2, <2>3
    DEF ClaimPriority, Take, books, SingleCopy, HandTracked, JobsOf, Elsewhere, Busy
  <2> QED BY <2>4, <2>5, <2>6
<1>3. CASE ClaimDefault
  <2>1. default \in Seq(Envelope) /\ default # <<>> /\ Distinct(default)
    BY <1>3 DEF TypeOK, SingleCopy, ClaimDefault
  <2>2. PICK e \in Envelope :
          /\ e = Head(default) /\ e.job \in JobsIn(default)
          /\ default' \in Seq(Envelope) /\ Distinct(default')
          /\ JobsIn(default') = JobsIn(default) \ {e.job}
    BY <1>3, <2>1, TailFacts DEF ClaimDefault
  <2>3. /\ e.job \in Queued /\ Queued' = Queued \ {e.job} /\ Dead' = Dead
        /\ Limbo' = {} /\ JobsOf(replaying)' = JobsOf(replaying)
        /\ JobsOf(processing') = JobsOf(processing) \cup {e.job}
    BY <1>3, <2>2
    DEF ClaimDefault, Take, books, SingleCopy, Queued, Dead, Limbo, JobsOf
  <2>4. TypeOK'
    BY <1>3, <2>2 DEF TypeOK, ClaimDefault, Take, Pcs, Busy, books
  <2>5. SingleCopy'
    <3>1. \A d, f \in processing' : d.job = f.job => d = f
      BY <1>3, <2>2, <2>3 DEF ClaimDefault, Take, SingleCopy, JobsOf
    <3> QED
      BY <1>3, <2>2, <2>3, <3>1 DEF ClaimDefault, books, SingleCopy, Queued
  <2>6. HandTracked'
    BY <1>3, <2>2, <2>3
    DEF ClaimDefault, Take, books, SingleCopy, HandTracked, JobsOf, Elsewhere, Busy
  <2> QED BY <2>4, <2>5, <2>6
<1>4. CASE PriorityEmpty
  <2>1. SingleCopy'
    BY <1>4, ListsUnchanged DEF PriorityEmpty, books, lanes, Limbo
  <2>2. TypeOK'
    BY <1>4 DEF PriorityEmpty, books, lanes, TypeOK, Pcs, Busy
  <2>3. HandTracked'
    BY <1>4 DEF PriorityEmpty, books, lanes, TypeOK, HandTracked, Pcs, Busy,
       Elsewhere, Queued, Dead, JobsOf
  <2> QED BY <2>1, <2>2, <2>3
<1>5. CASE ClaimTimeout
  <2>1. SingleCopy'
    BY <1>5, ListsUnchanged DEF ClaimTimeout, books, lanes, Limbo
  <2>2. TypeOK'
    BY <1>5 DEF ClaimTimeout, books, lanes, TypeOK, Pcs, Busy
  <2>3. HandTracked'
    BY <1>5 DEF ClaimTimeout, books, lanes, TypeOK, HandTracked, Pcs, Busy,
       Elsewhere, Queued, Dead, JobsOf
  <2> QED BY <2>1, <2>2, <2>3
<1>6. CASE StampLease
  <2>1. SingleCopy'
    BY <1>6, ListsUnchanged DEF StampLease, books, lanes, Limbo
  <2>2. TypeOK'
    BY <1>6 DEF StampLease, books, lanes, TypeOK, Pcs, Busy
  <2>3. HandTracked'
    BY <1>6 DEF StampLease, books, lanes, TypeOK, HandTracked, Pcs, Busy,
       Elsewhere, Queued, Dead, JobsOf
  <2> QED BY <2>1, <2>2, <2>3
<1>7. CASE ClaimError
  <2>1. SingleCopy'
    BY <1>7, ListsUnchanged DEF ClaimError, books, lanes, Limbo, Spend
  <2>2. TypeOK'
    BY <1>7, SpendKeepsType DEF ClaimError, books, lanes, TypeOK, Pcs, Busy
  <2>3. HandTracked'
    BY <1>7 DEF ClaimError, books, lanes, TypeOK, HandTracked, Pcs, Busy,
       Elsewhere, Queued, Dead, JobsOf
  <2> QED BY <2>1, <2>2, <2>3
<1>8. CASE WorkOk
  <2>1. SingleCopy'
    BY <1>8, ListsUnchanged DEF WorkOk, books, lanes, Limbo
  <2>2. TypeOK'
    BY <1>8 DEF WorkOk, books, lanes, TypeOK, Pcs, Busy
  <2>3. HandTracked'
    BY <1>8 DEF WorkOk, books, lanes, TypeOK, HandTracked, Pcs, Busy,
       Elsewhere, Queued, Dead, JobsOf
  <2> QED BY <2>1, <2>2, <2>3
<1>9. CASE WorkFails
  <2>1. SingleCopy'
    BY <1>9, ListsUnchanged DEF WorkFails, EnterFail, books, lanes, Limbo
  <2>2. TypeOK'
    BY <1>9, EnterFailKeepsType DEF WorkFails, books, lanes, TypeOK, Pcs, Busy
  <2>3. HandTracked'
    BY <1>9 DEF WorkFails, EnterFail, books, lanes, TypeOK, HandTracked, Pcs,
       Busy, Elsewhere, Queued, Dead, JobsOf
  <2> QED BY <2>1, <2>2, <2>3
<1>10. CASE HandOff
  <2>1. SingleCopy'
    BY <1>10, ListsUnchanged DEF HandOff, books, lanes, Limbo
  <2>2. TypeOK'
    BY <1>10, HandJobs DEF HandOff, books, lanes, TypeOK, Pcs, Busy
  <2>3. HandTracked'
    BY <1>10 DEF HandOff, books, lanes, TypeOK, HandTracked, Pcs, Busy,
       Elsewhere, Queued, Dead, JobsOf
  <2> QED BY <2>1, <2>2, <2>3
<1>11. ASSUME NEW applied \in BOOLEAN, HandOffError(applied)
      PROVE  IInv'
  <2>1. SingleCopy'
    BY <1>11, ListsUnchanged DEF HandOffError, EnterFail, books, lanes, Limbo,
       Spend
  <2>2. TypeOK'
    BY <1>11, SpendKeepsType, HandJobs, EnterFailKeepsType DEF HandOffError,
       books, lanes, TypeOK, Pcs, Busy
  <2>3. HandTracked'
    BY <1>11 DEF HandOffError, EnterFail, books, lanes, TypeOK, HandTracked,
       Pcs, Busy, Elsewhere, Queued, Dead, JobsOf
  <2> QED BY <2>1, <2>2, <2>3
<1>12. CASE Kill
  <2>1. SingleCopy'
    BY <1>12, ListsUnchanged DEF Kill, LoseCount, books, lanes, Limbo, Spend
  <2>2. TypeOK'
    BY <1>12, SpendKeepsType DEF Kill, LoseCount, books, lanes, TypeOK, Pcs,
       Busy
  <2>3. HandTracked'
    BY <1>12 DEF Kill, LoseCount, books, lanes, TypeOK, HandTracked, Pcs,
       Busy, Elsewhere, Queued, Dead, JobsOf
  <2> QED BY <2>1, <2>2, <2>3
<1>13. CASE CudaLost
  <2>1. SingleCopy'
    BY <1>13, ListsUnchanged DEF CudaLost, books, lanes, Limbo
  <2>2. TypeOK'
    BY <1>13 DEF CudaLost, books, lanes, TypeOK, Pcs, Busy
  <2>3. HandTracked'
    BY <1>13 DEF CudaLost, books, lanes, TypeOK, HandTracked, Pcs, Busy,
       Elsewhere, Queued, Dead, JobsOf
  <2> QED BY <2>1, <2>2, <2>3
<1>14. CASE Restart
  <2>1. SingleCopy'
    BY <1>14, ListsUnchanged DEF Restart, books, lanes, Limbo
  <2>2. TypeOK'
    BY <1>14 DEF Restart, books, lanes, TypeOK, Pcs, Busy
  <2>3. HandTracked'
    BY <1>14 DEF Restart, books, lanes, TypeOK, HandTracked, Pcs, Busy,
       Elsewhere, Queued, Dead, JobsOf
  <2> QED BY <2>1, <2>2, <2>3
<1>15. CASE SweepEnd
  <2>1. SingleCopy'
    BY <1>15, ListsUnchanged DEF SweepEnd, books, lanes, Limbo
  <2>2. TypeOK'
    BY <1>15 DEF SweepEnd, books, lanes, TypeOK, Pcs, Busy
  <2>3. HandTracked'
    BY <1>15 DEF SweepEnd, books, lanes, TypeOK, HandTracked, Pcs, Busy,
       Elsewhere, Queued, Dead, JobsOf
  <2> QED BY <2>1, <2>2, <2>3
<1>16. CASE SweepError
  <2>1. SingleCopy'
    BY <1>16, ListsUnchanged DEF SweepError, LoseCount, books, lanes, Limbo,
       Spend
  <2>2. TypeOK'
    BY <1>16, SpendKeepsType DEF SweepError, LoseCount, books, lanes, TypeOK,
       Pcs, Busy
  <2>3. HandTracked'
    BY <1>16 DEF SweepError, LoseCount, books, lanes, TypeOK, HandTracked,
       Pcs, Busy, Elsewhere, Queued, Dead, JobsOf
  <2> QED BY <2>1, <2>2, <2>3
<1>17. CASE Reboot
  <2>1. SingleCopy'
    BY <1>17, ListsUnchanged DEF Reboot, LoseCount, books, lanes, Limbo, Spend
  <2>2. TypeOK'
    BY <1>17, SpendKeepsType DEF Reboot, LoseCount, books, lanes, TypeOK, Pcs,
       Busy
  <2>3. HandTracked'
    BY <1>17 DEF Reboot, LoseCount, books, lanes, TypeOK, HandTracked, Pcs,
       Busy, Elsewhere, Queued, Dead, JobsOf
  <2> QED BY <2>1, <2>2, <2>3
<1>18. CASE BootDone
  <2>1. SingleCopy'
    BY <1>18, ListsUnchanged DEF BootDone, books, lanes, Limbo
  <2>2. TypeOK'
    BY <1>18 DEF BootDone, books, lanes, TypeOK, Pcs, Busy
  <2>3. HandTracked'
    BY <1>18 DEF BootDone, books, lanes, TypeOK, HandTracked, Pcs, Busy,
       Elsewhere, Queued, Dead, JobsOf
  <2> QED BY <2>1, <2>2, <2>3
<1>19. CASE BootSkip
  <2>1. SingleCopy'
    BY <1>19, ListsUnchanged DEF BootSkip, books, lanes, Limbo, Spend
  <2>2. TypeOK'
    BY <1>19, SpendKeepsType DEF BootSkip, books, lanes, TypeOK, Pcs, Busy
  <2>3. HandTracked'
    BY <1>19 DEF BootSkip, books, lanes, TypeOK, HandTracked, Pcs, Busy,
       Elsewhere, Queued, Dead, JobsOf
  <2> QED BY <2>1, <2>2, <2>3
<1>20. CASE Ack
  <2>1. \/ processing' = processing \ hand
        \/ processing' = processing
    BY <1>20 DEF Ack, Settle, books, lanes
  <2>2. /\ SingleCopy'
        /\ JobsOf(processing') \subseteq JobsOf(processing)
        /\ \/ JobsOf(hand) \cap JobsOf(processing') = {}
           \/ processing' = processing
    BY <1>20, <2>1, OffProcessing, ListsUnchanged DEF Ack, Settle, books,
       lanes, Limbo
  <2>3. TypeOK'
    BY <1>20, <2>1, HandJobs DEF Ack, Settle, books, lanes, TypeOK, Pcs, Busy
  <2>4. HandTracked'
    BY <1>20, <2>1, <2>2 DEF Ack, Settle, books, lanes, TypeOK, HandTracked,
       Pcs, Busy, Elsewhere, Queued, Dead, JobsOf
  <2> QED BY <2>2, <2>3, <2>4
<1>21. ASSUME NEW applied \in BOOLEAN, AckError(applied)
      PROVE  IInv'
  <2>1. \/ processing' = processing \ hand
        \/ processing' = processing
    BY <1>21 DEF AckError, Settle, EnterFail, books, lanes
  <2>2. /\ SingleCopy'
        /\ JobsOf(processing') \subseteq JobsOf(processing)
        /\ \/ JobsOf(hand) \cap JobsOf(processing') = {}
           \/ processing' = processing
    BY <1>21, <2>1, OffProcessing, ListsUnchanged DEF AckError, Settle,
       EnterFail, books, lanes, Limbo
  <2>3. TypeOK'
    BY <1>21, <2>1, SpendKeepsType, HandJobs, EnterFailKeepsType DEF AckError,
       Settle, books, lanes, TypeOK, Pcs, Busy
  <2>4. HandTracked'
    BY <1>21, <2>1, <2>2 DEF AckError, Settle, EnterFail, books, lanes, TypeOK,
       HandTracked, Pcs, Busy, Elsewhere, Queued, Dead, JobsOf
  <2> QED BY <2>2, <2>3, <2>4
<1>22. ASSUME NEW applied \in BOOLEAN, DiscardError(applied)
      PROVE  IInv'
  <2>1. \/ processing' = processing \ hand
        \/ processing' = processing
    BY <1>22 DEF DiscardError, Settle, books, lanes
  <2>2. /\ SingleCopy'
        /\ JobsOf(processing') \subseteq JobsOf(processing)
        /\ \/ JobsOf(hand) \cap JobsOf(processing') = {}
           \/ processing' = processing
    BY <1>22, <2>1, OffProcessing, ListsUnchanged DEF DiscardError, Settle,
       books, lanes, Limbo
  <2>3. TypeOK'
    BY <1>22, <2>1, SpendKeepsType, HandJobs DEF DiscardError, Settle, books,
       lanes, TypeOK, Pcs, Busy
  <2>4. HandTracked'
    BY <1>22, <2>1, <2>2 DEF DiscardError, Settle, books, lanes, TypeOK,
       HandTracked, Pcs, Busy, Elsewhere, Queued, Dead, JobsOf
  <2> QED BY <2>2, <2>3, <2>4
<1>23. CASE FailRemove
  <2>1. \/ processing' = processing \ hand
        \/ processing' = processing
    BY <1>23 DEF FailRemove, books, lanes
  <2>2. /\ SingleCopy'
        /\ JobsOf(processing') \subseteq JobsOf(processing)
        /\ \/ JobsOf(hand) \cap JobsOf(processing') = {}
           \/ processing' = processing
    BY <1>23, <2>1, OffProcessing, ListsUnchanged DEF FailRemove, books, lanes,
       Limbo
  <2>3. TypeOK'
    BY <1>23, <2>1, HandJobs DEF FailRemove, books, lanes, TypeOK, Pcs, Busy
  <2>4. HandTracked'
    BY <1>23, <2>1, <2>2 DEF FailRemove, books, lanes, TypeOK, HandTracked,
       Pcs, Busy, Elsewhere, Queued, Dead, JobsOf
  <2> QED BY <2>2, <2>3, <2>4
<1>24. ASSUME NEW applied \in BOOLEAN, FailRemoveError(applied)
      PROVE  IInv'
  <2>1. \/ processing' = processing \ hand
        \/ processing' = processing
    BY <1>24 DEF FailRemoveError, AfterEscape, books, lanes
  <2>2. /\ SingleCopy'
        /\ JobsOf(processing') \subseteq JobsOf(processing)
        /\ \/ JobsOf(hand) \cap JobsOf(processing') = {}
           \/ processing' = processing
    BY <1>24, <2>1, OffProcessing, ListsUnchanged DEF FailRemoveError,
       AfterEscape, books, lanes, Limbo
  <2>3. TypeOK'
    BY <1>24, <2>1, SpendKeepsType, HandJobs DEF FailRemoveError, AfterEscape,
       books, lanes, TypeOK, Pcs, Busy
  <2>4. HandTracked'
    BY <1>24, <2>1, <2>2 DEF FailRemoveError, AfterEscape, books, lanes,
       TypeOK, HandTracked, Pcs, Busy, Elsewhere, Queued, Dead, JobsOf
  <2> QED BY <2>2, <2>3, <2>4
<1>25. CASE FailPush
  <2>1. PICK e \in hand : Retry(e) \/ Bury(e)
    BY <1>25 DEF FailPush
  <2>2. /\ e \in Envelope /\ hand = {e} /\ pc = "removed"
        /\ e.job \notin Queued \cup Dead \cup JobsOf(processing)
    BY <1>25, <2>1 DEF FailPush, TypeOK, HandTracked, Busy, Elsewhere, JobsOf
  <2>3. PICK d \in Envelope :
          /\ d.job = e.job
          /\ \/ default' = Append(default, d) /\ dlq' = dlq
             \/ default' = default /\ dlq' = Append(dlq, d)
    BY <2>1, <2>2 DEF Retry, Bury, Envelope
  <2>4. /\ UNCHANGED <<prio, processing, replaying, pushed, completed,
                       handed, failures, cudaDeaths, uncounted>>
        /\ pc' \in {"idle", "down"} /\ hand' = {} /\ Limbo' = {}
    BY <1>25 DEF FailPush, Limbo, books
  <2>5. default \in Seq(Envelope) /\ Distinct(default)
    BY DEF TypeOK, SingleCopy
  <2>6. /\ SingleCopy'
        /\ default' \in Seq(Envelope) /\ dlq' \in Seq(Envelope)
        /\ Queued' \cup Dead' \subseteq Queued \cup Dead \cup {e.job}
    <3>1. /\ d.job \notin JobsIn(default) \cup JobsIn(prio) \cup JobsIn(dlq)
          /\ d.job \notin JobsOf(processing') \cup JobsOf(replaying')
      BY <2>2, <2>3, <2>4 DEF Queued, Dead
    <3>2. processing' \subseteq processing /\ replaying' \subseteq replaying
      BY <2>4
    <3> QED BY <2>3, <2>4, <2>5, <3>1, <3>2, Placed
  <2>7. TypeOK'
    BY <1>25, <2>4, <2>6 DEF FailPush, TypeOK, Pcs
  <2>8. HandTracked'
    BY <2>2, <2>4, <2>6 DEF HandTracked, Busy, JobsOf
  <2> QED BY <2>6, <2>7, <2>8
<1>26. CASE FailPushError(TRUE)
  <2>1. PICK e \in hand : Retry(e) \/ Bury(e)
    BY <1>26 DEF FailPushError
  <2>2. /\ e \in Envelope /\ hand = {e} /\ pc = "removed"
        /\ e.job \notin Queued \cup Dead \cup JobsOf(processing)
    BY <1>26, <2>1 DEF FailPushError, TypeOK, HandTracked, Busy, Elsewhere, JobsOf
  <2>3. PICK d \in Envelope :
          /\ d.job = e.job
          /\ \/ default' = Append(default, d) /\ dlq' = dlq
             \/ default' = default /\ dlq' = Append(dlq, d)
    BY <2>1, <2>2 DEF Retry, Bury, Envelope
  <2>4. /\ UNCHANGED <<prio, processing, replaying, pushed, completed,
                       handed, failures, cudaDeaths, uncounted>>
        /\ pc' \in {"idle", "down"} /\ hand' = {} /\ Limbo' = {}
    BY <1>26 DEF FailPushError, AfterEscape, Limbo, books
  <2>5. default \in Seq(Envelope) /\ Distinct(default)
    BY DEF TypeOK, SingleCopy
  <2>6. /\ SingleCopy'
        /\ default' \in Seq(Envelope) /\ dlq' \in Seq(Envelope)
        /\ Queued' \cup Dead' \subseteq Queued \cup Dead \cup {e.job}
    <3>1. /\ d.job \notin JobsIn(default) \cup JobsIn(prio) \cup JobsIn(dlq)
          /\ d.job \notin JobsOf(processing') \cup JobsOf(replaying')
      BY <2>2, <2>3, <2>4 DEF Queued, Dead
    <3>2. processing' \subseteq processing /\ replaying' \subseteq replaying
      BY <2>4
    <3> QED BY <2>3, <2>4, <2>5, <3>1, <3>2, Placed
  <2>7. TypeOK'
    BY <1>26, <2>4, <2>6, SpendKeepsType DEF FailPushError, TypeOK, Pcs
  <2>8. HandTracked'
    BY <2>2, <2>4, <2>6 DEF HandTracked, Busy, JobsOf
  <2> QED BY <2>6, <2>7, <2>8
<1>27. CASE FailPushError(FALSE)
  <2>1. SingleCopy'
    BY <1>27, ListsUnchanged DEF FailPushError, AfterEscape, books, lanes,
       Limbo, Spend
  <2>2. TypeOK'
    BY <1>27, SpendKeepsType DEF FailPushError, AfterEscape, books, lanes,
       TypeOK, Pcs, Busy
  <2>3. HandTracked'
    BY <1>27 DEF FailPushError, AfterEscape, books, lanes, TypeOK,
       HandTracked, Pcs, Busy, Elsewhere, Queued, Dead, JobsOf
  <2> QED BY <2>1, <2>2, <2>3
<1>28. ASSUME NEW e \in processing, SweepMove(e)
      PROVE  IInv'
  <2>1. /\ e \in Envelope /\ e.job \in JobsOf(processing)
        /\ default \in Seq(Envelope) /\ Distinct(default)
        /\ default' = Append(default, e) /\ dlq' = dlq /\ prio' = prio
        /\ processing' = processing \ {e} /\ replaying' = replaying
        /\ pushed' = pushed /\ hand' = {e} /\ pc' = "moved"
    BY <1>28 DEF SweepMove, TypeOK, SingleCopy, HandTracked, Busy, JobsOf, books
  <2>2. /\ e.job \notin Queued \cup Dead \cup JobsOf(processing')
        /\ JobsOf(processing') \subseteq JobsOf(processing)
    BY <2>1 DEF SingleCopy, JobsOf
  <2>3. /\ SingleCopy'
        /\ default' \in Seq(Envelope) /\ dlq' \in Seq(Envelope)
        /\ Queued' \cup Dead' \subseteq Queued \cup Dead \cup {e.job}
    <3>1. /\ e.job \notin JobsIn(default) \cup JobsIn(prio) \cup JobsIn(dlq)
          /\ e.job \notin JobsOf(processing') \cup JobsOf(replaying')
      BY <2>1, <2>2 DEF Queued, Dead
    <3>2. Limbo' = {}
      BY <2>1 DEF Limbo
    <3>3. processing' \subseteq processing /\ replaying' \subseteq replaying
      BY <2>1
    <3> QED BY <2>1, <3>1, <3>2, <3>3, Placed
  <2>4. TypeOK'
    BY <1>28, <2>1, <2>3 DEF SweepMove, TypeOK, Pcs, books, Envelope
  <2>5. e \in ToSet(default')
    BY <2>1, AppendFacts
  <2>6. HandTracked'
    BY <2>1, <2>2, <2>3, <2>5 DEF HandTracked, Busy, JobsOf
  <2> QED BY <2>3, <2>4, <2>6
<1>29. ASSUME NEW e \in processing, BootMove(e)
      PROVE  IInv'
  <2>1. /\ e \in Envelope /\ e.job \in JobsOf(processing)
        /\ default \in Seq(Envelope) /\ Distinct(default)
        /\ default' = Append(default, e) /\ dlq' = dlq /\ prio' = prio
        /\ processing' = processing \ {e} /\ replaying' = replaying
        /\ pushed' = pushed /\ hand' = {} /\ pc' = "boot"
    BY <1>29 DEF BootMove, TypeOK, SingleCopy, HandTracked, Busy, JobsOf, books
  <2>2. /\ e.job \notin Queued \cup Dead \cup JobsOf(processing')
        /\ JobsOf(processing') \subseteq JobsOf(processing)
    BY <2>1 DEF SingleCopy, JobsOf
  <2>3. /\ SingleCopy'
        /\ default' \in Seq(Envelope) /\ dlq' \in Seq(Envelope)
        /\ Queued' \cup Dead' \subseteq Queued \cup Dead \cup {e.job}
    <3>1. /\ e.job \notin JobsIn(default) \cup JobsIn(prio) \cup JobsIn(dlq)
          /\ e.job \notin JobsOf(processing') \cup JobsOf(replaying')
      BY <2>1, <2>2 DEF Queued, Dead
    <3>2. Limbo' = {}
      BY <2>1 DEF Limbo
    <3>3. processing' \subseteq processing /\ replaying' \subseteq replaying
      BY <2>1
    <3> QED BY <2>1, <3>1, <3>2, <3>3, Placed
  <2>4. TypeOK'
    <3>1. uncounted' \in [Jobs -> Nat]
      BY <1>29, <2>1 DEF BootMove, TypeOK, Envelope
    <3>2. processing' \subseteq Envelope
      BY <2>1 DEF TypeOK
    <3> QED BY <1>29, <2>1, <2>3, <3>1, <3>2 DEF BootMove, TypeOK, Pcs
  <2>5. e \in ToSet(default')
    BY <2>1, AppendFacts
  <2>6. HandTracked'
    BY <2>1, <2>2, <2>3, <2>5 DEF HandTracked, Busy, JobsOf
  <2> QED BY <2>3, <2>4, <2>6
<1>30. CASE SweepRewrite
  <2>1. PICK e \in hand : LET seen == [e EXCEPT !.recoveries = @ + 1]
                              rest == LRem(default, e)
                          IN IF seen.recoveries > MaxRecoveries
                               THEN dlq' = Append(dlq, seen) /\ default' = rest
                               ELSE default' = Append(rest, seen) /\ UNCHANGED dlq
    BY <1>30 DEF SweepRewrite
  <2>2. /\ e \in Envelope /\ e \in ToSet(default)
        /\ default \in Seq(Envelope) /\ Distinct(default)
        /\ prio' = prio /\ processing' = processing /\ replaying' = replaying
        /\ pushed' = pushed /\ hand' = {} /\ pc' = "sweep" /\ Limbo' = {}
    BY <1>30 DEF SweepRewrite, TypeOK, SingleCopy, HandTracked, Limbo, books
  <2> DEFINE rest == LRem(default, e)
  <2>3. /\ rest \in Seq(Envelope) /\ Distinct(rest)
        /\ JobsIn(rest) = JobsIn(default) \ {e.job}
    BY <2>2, LRemFacts
  <2>4. e.job \in JobsIn(default)
    BY <2>2 DEF ToSet, JobsIn
  <2> HIDE DEF rest
  <2>5. PICK d \in Envelope :
          /\ d.job = e.job
          /\ \/ default' = Append(rest, d) /\ dlq' = dlq
             \/ default' = rest /\ dlq' = Append(dlq, d)
    <3> DEFINE seen == [e EXCEPT !.recoveries = @ + 1]
    <3>1. seen \in Envelope /\ seen.job = e.job
      BY <2>2, Recounted
    <3>2. \/ default' = Append(rest, seen) /\ dlq' = dlq
          \/ default' = rest /\ dlq' = Append(dlq, seen)
      BY <2>1 DEF rest
    <3> HIDE DEF seen
    <3> QED BY <3>1, <3>2
  <2>6. /\ SingleCopy'
        /\ default' \in Seq(Envelope) /\ dlq' \in Seq(Envelope)
        /\ Queued' \cup Dead' \subseteq Queued \cup Dead \cup {e.job}
    <3>1. /\ d.job \notin JobsIn(rest) \cup JobsIn(prio) \cup JobsIn(dlq)
          /\ d.job \notin JobsOf(processing') \cup JobsOf(replaying')
      BY <2>2, <2>3, <2>4, <2>5 DEF SingleCopy, Queued, Dead
    <3>2. processing' \subseteq processing /\ replaying' \subseteq replaying
          /\ JobsIn(rest) \subseteq JobsIn(default)
      BY <2>2, <2>3
    <3> QED BY <2>2, <2>3, <2>5, <3>1, <3>2, Placed
  <2>7. TypeOK'
    BY <1>30, <2>2, <2>6 DEF SweepRewrite, TypeOK, Pcs, books
  <2>8. HandTracked'
    BY <2>2, <2>4, <2>6 DEF HandTracked, Busy, JobsOf, Queued
  <2> QED BY <2>6, <2>7, <2>8
<1>ReplayPop. CASE ReplayPop
  <2>1. dlq \in Seq(Envelope) /\ dlq # <<>> /\ Distinct(dlq)
    BY <1>ReplayPop DEF TypeOK, SingleCopy, ReplayPop
  <2>2. PICK e \in Envelope :
          /\ e = Head(dlq) /\ e.job \in JobsIn(dlq)
          /\ dlq' \in Seq(Envelope) /\ Distinct(dlq')
          /\ JobsIn(dlq') = JobsIn(dlq) \ {e.job}
    BY <1>ReplayPop, <2>1, TailFacts DEF ReplayPop
  <2>3. /\ Queued' = Queued /\ Dead' = Dead /\ Limbo' = Limbo
        /\ JobsOf(replaying') = {e.job}
        /\ JobsOf(processing)' = JobsOf(processing)
    BY <1>ReplayPop, <2>2
    DEF ReplayPop, lanes, Queued, Dead, Limbo, JobsOf
  <2>4. TypeOK'
    BY <1>ReplayPop, <2>2, SpendKeepsType
    DEF ReplayPop, TypeOK, lanes, books
  <2>5. SingleCopy'
    BY <1>ReplayPop, <2>2, <2>3 DEF ReplayPop, lanes, SingleCopy
  <2>6. HandTracked'
    BY <1>ReplayPop, <2>3
    DEF ReplayPop, lanes, books, HandTracked, Busy, Elsewhere, JobsOf
  <2> QED BY <2>4, <2>5, <2>6
<1>ReplayPush. CASE ReplayPush
  <2>1. PICK e \in replaying :
          /\ default' = Append(default, [e EXCEPT !.retries = 0])
          /\ failures' = [failures EXCEPT ![e.job] = 0]
    BY <1>ReplayPush DEF ReplayPush
  <2>2. PICK d \in Envelope :
          /\ d.job = e.job /\ d.job \in JobsOf(replaying) \cap Dead
          /\ default' = Append(default, d)
    BY <2>1 DEF TypeOK, Envelope, JobsOf, Dead
  <2>3. /\ UNCHANGED <<prio, processing, dlq, pc, hand, budget, pushed>>
        /\ replaying' = {} /\ JobsOf(replaying') = {}
        /\ default \in Seq(Envelope) /\ Distinct(default)
    BY <1>ReplayPush DEF ReplayPush, TypeOK, SingleCopy, JobsOf
  <2>4. /\ default' \in Seq(Envelope) /\ Distinct(default')
        /\ JobsIn(default') = JobsIn(default) \cup {d.job}
        /\ ToSet(default) \subseteq ToSet(default')
    BY <2>2, <2>3, AppendFacts DEF SingleCopy, Queued
  <2>5. /\ Queued' = Queued \cup {d.job} /\ Dead' = JobsIn(dlq)
        /\ Limbo' = Limbo /\ JobsOf(processing)' = JobsOf(processing)
    BY <2>3, <2>4 DEF Queued, Dead, Limbo, JobsOf
  <2>6. TypeOK'
    BY <1>ReplayPush, <2>1, <2>3, <2>4 DEF ReplayPush, TypeOK, Envelope
  <2>7. SingleCopy'
    BY <2>2, <2>3, <2>4, <2>5 DEF SingleCopy, Queued, Dead
  <2>8. HandTracked'
    <3>1. Queued' \cup Dead' \subseteq Queued \cup Dead
      BY <2>2, <2>5 DEF Dead
    <3> QED
      BY <2>3, <2>4, <2>5, <3>1 DEF HandTracked, Busy, Elsewhere, JobsOf
  <2> QED BY <2>6, <2>7, <2>8
<1>ReplayDies. CASE ReplayDies
  <2>1. /\ Queued' = Queued /\ Dead' \subseteq Dead /\ Limbo' = Limbo
        /\ JobsOf(replaying') = {}
        /\ JobsOf(processing)' = JobsOf(processing)
    BY <1>ReplayDies DEF ReplayDies, lanes, Queued, Dead, Limbo, JobsOf
  <2>2. TypeOK'
    BY <1>ReplayDies, SpendKeepsType DEF ReplayDies, TypeOK, lanes, books
  <2>3. SingleCopy'
    BY <1>ReplayDies, <2>1 DEF ReplayDies, lanes, SingleCopy
  <2>4. HandTracked'
    BY <1>ReplayDies, <2>1
    DEF ReplayDies, lanes, books, HandTracked, Busy, Elsewhere, JobsOf
  <2> QED BY <2>2, <2>3, <2>4
<1>stutter. CASE UNCHANGED vars
  <2>1. SingleCopy'
    BY <1>stutter, ListsUnchanged DEF vars, Limbo
  <2>2. TypeOK'
    BY <1>stutter DEF vars, TypeOK
  <2>3. HandTracked'
    BY <1>stutter
    DEF vars, HandTracked, Busy, Elsewhere, Queued, Dead, JobsOf
  <2> QED BY <2>1, <2>2, <2>3
<1> QED
  BY <1>1, <1>2, <1>3, <1>4, <1>5, <1>6, <1>7, <1>8, <1>9, <1>10, <1>11,
     <1>12, <1>13, <1>14, <1>15, <1>16, <1>17, <1>18, <1>19, <1>20, <1>21,
     <1>22, <1>23, <1>24, <1>25, <1>26, <1>27, <1>28, <1>29, <1>30,
     <1>ReplayPop, <1>ReplayPush, <1>ReplayDies, <1>stutter DEF Next,
     Producer, Consumer, Watchdog, Failure

\* Every state of the queue is well typed.
THEOREM TypeCorrect == Spec => []TypeOK
<1>1. IInv => TypeOK
  BY DEF IInv
<1> QED BY InitIInv, NextIInv, <1>1, PTL DEF Spec

\* No job is ever in two places, whichever command a death or an error falls
\* between and whichever sweep or replay runs afterwards.
THEOREM NoSecondCopy == Spec => []SingleCopy
<1>1. IInv => SingleCopy
  BY DEF IInv
<1> QED BY InitIInv, NextIInv, <1>1, PTL DEF Spec

\* The envelope a handler acks or fails is the one in PROCESSING, and once it
\* has been taken off it is nowhere else.
THEOREM HandAgreesWithLists == Spec => []HandTracked
<1>1. IInv => HandTracked
  BY DEF IInv
<1> QED BY InitIInv, NextIInv, <1>1, PTL DEF Spec

-----------------------------------------------------------------------------
(* Envelopes that may still run *)

Running  == IF pc \in Busy THEN hand ELSE {}
Live     == ToSet(prio) \cup ToSet(default) \cup processing \cup Running
\* Failed, and the envelope has yet to say so.
Indebted == IF pc \in {"failed", "removed"} THEN hand ELSE {}
\* Gone down with the engine, or left behind, and not yet counted.
Orphaned == (processing \ Running) \cup (IF pc = "moved" THEN hand ELSE {})

Owed(e)  == IF e \in Indebted THEN 1 ELSE 0
Due(e)   == IF e \in Orphaned THEN 1 ELSE 0

\* The envelope's retries count the failures of its job, up to those a death or
\* an error kept from being written.
Counted(e) ==
  /\ e.retries <= MaxRetries
  /\ e.retries + Owed(e) <= failures[e.job]
  /\ failures[e.job] <= e.retries + Owed(e) + Misfortunes

WithinBudget == budget.kill <= MaxKills /\ budget.fault <= MaxFaults

CountInv ==
  /\ WithinBudget
  /\ \A j \in Jobs \ pushed : failures[j] = 0
  /\ \A e \in Live : Counted(e)
  /\ \A e \in ToSet(dlq) : failures[e.job] > MaxRetries \/ e.recoveries > MaxRecoveries
  /\ TriesBounded

\* Only frame_worker's queue has a replay, and one at a time.
OneReplay ==
  /\ HandsOff \/ replaying = {}
  /\ \A e, f \in replaying : e = f

\* Its recoveries count the times its job took the engine down.
PoisonInv ==
  /\ \A j \in Jobs \ pushed : cudaDeaths[j] = 0
  /\ SweepsItself => \A e \in Live :
       /\ e.recoveries <= MaxRecoveries
       /\ cudaDeaths[e.job] <= e.recoveries + uncounted[e.job] + Due(e)
  /\ ~SweepsItself => \A j \in Jobs : cudaDeaths[j] = 0
  /\ PoisonQuarantined

\* Where a job that may still run, or be replayed, stands in Redis.
Listed == Queued \cup JobsOf(processing) \cup Dead

\* Without an error, the only completed job in a handler's hands is the one it
\* has just acknowledged.
AckInv ==
  /\ completed \subseteq pushed
  /\ WithinBudget
  /\ budget.fault = MaxFaults =>
       /\ completed \cap Listed = {}
       /\ pc \in Busy \ {"acked"} => completed \cap JobsOf(hand) = {}
       /\ HandsOff /\ budget.kill = MaxKills =>
            completed \ Malformed \subseteq handed \cup JobsOf(hand)

-----------------------------------------------------------------------------
(* The list commands once more, on the envelopes themselves *)

\* What LPOP takes was in the list, and what it leaves was.
LEMMA TailSet ==
  ASSUME NEW s \in Seq(Envelope), s # <<>>
  PROVE  Head(s) \in ToSet(s) /\ ToSet(Tail(s)) \subseteq ToSet(s)
<1> DEFINE t == Tail(s)
<1>1. t \in Seq(Envelope) /\ Len(t) = Len(s) - 1 /\ Len(s) \in Nat \ {0}
  OBVIOUS
<1>2. (\A i \in 1 .. Len(t) : t[i] = s[i + 1]) /\ Head(s) = s[1]
  OBVIOUS
<1>3. DOMAIN s = 1 .. Len(s) /\ DOMAIN t = 1 .. Len(t)
  BY <1>1
<1> HIDE DEF t
<1>4. Head(s) \in ToSet(s) /\ ToSet(t) \subseteq ToSet(s)
  BY <1>1, <1>2, <1>3 DEF ToSet
<1> QED BY <1>4 DEF t

\* LREM puts nothing in.
LEMMA LRemSet ==
  ASSUME NEW s \in Seq(Envelope), NEW e \in ToSet(s), Distinct(s)
  PROVE  ToSet(LRem(s, e)) \subseteq ToSet(s)
<1> DEFINE last == CHOOSE k \in 1 .. Len(s) :
                     s[k] = e /\ \A i \in 1 .. Len(s) : i > k => s[i] # e
           t == [i \in 1 .. Len(s) - 1 |-> IF i < last THEN s[i] ELSE s[i + 1]]
<1>1. LRem(s, e) = t
  BY DEF LRem
<1>2. Len(s) \in Nat /\ DOMAIN s = 1 .. Len(s)
  OBVIOUS
<1> HIDE DEF last
<1>3. \A i \in 1 .. Len(s) - 1 : t[i] \in {s[i], s[i + 1]}
  OBVIOUS
<1>4. \A i \in 1 .. Len(s) - 1 : i \in 1 .. Len(s) /\ i + 1 \in 1 .. Len(s)
  BY <1>2
<1>5. DOMAIN t = 1 .. Len(s) - 1
  OBVIOUS
<1> HIDE DEF t
<1>6. ToSet(t) \subseteq ToSet(s)
  BY <1>2, <1>3, <1>4, <1>5 DEF ToSet
<1> QED BY <1>1, <1>6

\* The jobs of a list are the jobs of its envelopes.
LEMMA JobsOfList ==
  ASSUME NEW s \in Seq(Envelope)
  PROVE  JobsIn(s) = JobsOf(ToSet(s)) /\ ToSet(s) \subseteq Envelope
<1>1. Len(s) \in Nat /\ DOMAIN s = 1 .. Len(s) /\ \A i \in 1 .. Len(s) : s[i] \in Envelope
  OBVIOUS
<1> QED BY <1>1 DEF JobsIn, JobsOf, ToSet

\* The envelope in a handler's hands is the only live one of its job.
LEMMA OneOfItsJob ==
  ASSUME IInv, pc \in Busy, NEW e \in Live, NEW h \in hand, e.job = h.job
  PROVE  e = h /\ hand = {h}
<1>1. hand = {h}
  BY DEF IInv, HandTracked
<1>2. /\ prio \in Seq(Envelope) /\ default \in Seq(Envelope)
      /\ JobsIn(prio) = JobsOf(ToSet(prio)) /\ JobsIn(default) = JobsOf(ToSet(default))
  BY JobsOfList DEF IInv, TypeOK
<1>3. h.job \notin Queued
  BY DEF IInv, HandTracked, Elsewhere
<1>4. e \notin ToSet(prio) \cup ToSet(default)
  BY <1>2, <1>3 DEF Queued, JobsOf
<1>5. CASE e \in processing
  <2>1. h \in processing
    BY <1>1, <1>5 DEF IInv, HandTracked, Busy, JobsOf
  <2> QED BY <1>1, <1>5, <2>1 DEF IInv, SingleCopy
<1>6. CASE e \in Running
  BY <1>1, <1>6 DEF Running
<1> QED BY <1>4, <1>5, <1>6 DEF Live

\* Live and dead envelopes are envelopes, and a job that was never pushed has none.
LEMMA LiveFacts ==
  ASSUME IInv
  PROVE  /\ Live \subseteq Envelope /\ Running \subseteq hand /\ Indebted \subseteq hand
         /\ ToSet(dlq) \subseteq Envelope
         /\ JobsOf(Live) \cup JobsOf(ToSet(dlq)) \subseteq pushed
         /\ prio \in Seq(Envelope) /\ default \in Seq(Envelope) /\ dlq \in Seq(Envelope)
<1>1. prio \in Seq(Envelope) /\ default \in Seq(Envelope) /\ dlq \in Seq(Envelope)
  BY DEF IInv, TypeOK
<1>2. /\ ToSet(prio) \subseteq Envelope /\ JobsIn(prio) = JobsOf(ToSet(prio))
      /\ ToSet(default) \subseteq Envelope /\ JobsIn(default) = JobsOf(ToSet(default))
      /\ ToSet(dlq) \subseteq Envelope /\ JobsIn(dlq) = JobsOf(ToSet(dlq))
  BY <1>1, JobsOfList
<1>3. Running \subseteq hand /\ Indebted \subseteq hand
  BY DEF Running, Indebted
<1>4. Live \subseteq Envelope
  BY <1>2, <1>3 DEF IInv, TypeOK, Live
<1>5. JobsOf(Live) \cup JobsOf(ToSet(dlq)) \subseteq pushed
  <2>1. JobsOf(Live) \subseteq JobsIn(prio) \cup JobsIn(default)
                              \cup JobsOf(processing) \cup JobsOf(hand)
    BY <1>2, <1>3 DEF Live, JobsOf
  <2> QED BY <1>2, <2>1 DEF IInv, HandTracked, Queued, Dead
<1> QED BY <1>1, <1>2, <1>3, <1>4, <1>5

-----------------------------------------------------------------------------
(* Retries *)

\* Nothing has failed before it was pushed.
LEMMA InitCount == Init => CountInv
<1> SUFFICES ASSUME Init PROVE CountInv
  OBVIOUS
<1> USE QueueAssumption
<1>1. ToSet(<<>>) = {}
  BY DEF ToSet
<1>2. Live = {} /\ Misfortunes = 0 /\ ToSet(dlq) = {}
  BY <1>1 DEF Init, Live, Running, Misfortunes, Busy
<1>3. \A j \in Jobs : failures[j] = 0
  BY DEF Init
<1> QED BY <1>2, <1>3 DEF Init, CountInv, WithinBudget, TriesBounded

\* A step that only moves live envelopes about, or drops them, keeps the
\* counts; if it drops one whose failure is not yet written, it is a misfortune.
LEMMA CountsKept ==
  ASSUME IInv, IInv', CountInv,
         failures' = failures, pushed \subseteq pushed',
         budget'["kill"] <= budget["kill"], budget'["fault"] <= budget["fault"],
         Live' \subseteq Live, ToSet(dlq') \subseteq ToSet(dlq),
         \/ Indebted' = Indebted
         \/ Indebted' = {} /\ Misfortunes' >= Misfortunes + 1
  PROVE  CountInv'
<1> USE QueueAssumption DEF IInv
<1>1. /\ budget["kill"] \in Nat /\ budget["fault"] \in Nat
      /\ budget'["kill"] \in Nat /\ budget'["fault"] \in Nat
  BY DEF TypeOK
<1>2. WithinBudget' /\ Misfortunes' >= Misfortunes /\ Misfortunes \in Nat /\ Misfortunes' \in Nat
  BY <1>1 DEF CountInv, WithinBudget, Misfortunes
<1>3. \A j \in Jobs : failures[j] \in Nat
  BY DEF TypeOK
<1>4. ASSUME NEW e \in Live' PROVE Counted(e)'
  <2>1. e \in Live /\ Counted(e)
    BY <1>4 DEF CountInv
  <2>2. e.retries \in Nat /\ e.job \in Jobs
    BY <2>1, LiveFacts DEF Envelope
  <2>3. CASE Indebted' = Indebted
    BY <1>2, <1>3, <2>1, <2>2, <2>3 DEF Counted, Owed
  <2>4. CASE Indebted' = {} /\ Misfortunes' >= Misfortunes + 1
    BY <1>2, <1>3, <2>1, <2>2, <2>4 DEF Counted, Owed
  <2> QED BY <2>3, <2>4
<1>5. TriesBounded'
  BY <1>2, <1>3 DEF CountInv, TriesBounded
<1> QED BY <1>2, <1>4, <1>5 DEF CountInv

\* Entering fail_job counts one failure for the job in hand, and its envelope
\* owes one until the retry is pushed.
LEMMA FailureCounted ==
  ASSUME IInv, IInv', CountInv, EnterFail, pc \in {"working", "done", "acked"},
         hand' = hand, UNCHANGED <<prio, default, dlq, pushed>>,
         processing' \subseteq processing,
         budget'["kill"] <= budget["kill"], budget'["fault"] <= budget["fault"]
  PROVE  CountInv'
<1> USE QueueAssumption DEF IInv
<1>1. /\ budget["kill"] \in Nat /\ budget["fault"] \in Nat
      /\ budget'["kill"] \in Nat /\ budget'["fault"] \in Nat
  BY DEF TypeOK
<1>2. WithinBudget' /\ Misfortunes' >= Misfortunes /\ Misfortunes \in Nat /\ Misfortunes' \in Nat
  BY <1>1 DEF CountInv, WithinBudget, Misfortunes
<1>3. PICK h \in hand : hand = {h} /\ h \in Envelope
  BY DEF HandTracked, Busy, TypeOK
<1>4. /\ Running = {h} /\ Running' = {h} /\ Indebted = {} /\ Indebted' = {h}
      /\ Live' \subseteq Live /\ h \in Live
  BY <1>3 DEF EnterFail, Running, Indebted, Live, Busy
<1>5. /\ \A j \in Jobs : failures[j] \in Nat
      /\ \A j \in Jobs : failures'[j] = failures[j] + IF j = h.job THEN 1 ELSE 0
  BY <1>3 DEF EnterFail, TypeOK, JobsOf
<1>6. h.job \in Jobs /\ h.retries \in Nat /\ Counted(h)
  BY <1>3, <1>4 DEF Envelope, CountInv
<1>7. ASSUME NEW e \in Live' PROVE Counted(e)'
  <2>1. e \in Live /\ e.job \in Jobs /\ e.retries \in Nat /\ Counted(e)
    BY <1>4, <1>7, LiveFacts DEF CountInv, Envelope
  <2>2. CASE e.job = h.job
    <3>1. e = h
      BY <1>3, <2>1, <2>2, OneOfItsJob DEF Busy
    <3> QED BY <1>2, <1>4, <1>5, <1>6, <2>1, <3>1 DEF Counted, Owed
  <2>3. CASE e.job # h.job
    BY <1>2, <1>4, <1>5, <2>1, <2>3 DEF Counted, Owed
  <2> QED BY <2>2, <2>3
<1>8. \A j \in Jobs \ pushed : failures'[j] = 0
  <2>1. h.job \in pushed
    BY <1>3 DEF HandTracked, JobsOf
  <2> QED BY <1>5, <2>1 DEF CountInv
<1>9. \A e \in ToSet(dlq) : failures'[e.job] > MaxRetries \/ e.recoveries > MaxRecoveries
  <2>1. \A e \in ToSet(dlq) : e.job \in Jobs
    BY LiveFacts DEF Envelope
  <2> QED BY <1>5, <2>1 DEF CountInv
<1>10. TriesBounded'
  <2>1. failures[h.job] <= MaxRetries + Misfortunes
    BY <1>2, <1>4, <1>5, <1>6 DEF Counted, Owed
  <2> QED BY <1>2, <1>5, <2>1 DEF CountInv, TriesBounded
<1> QED BY <1>2, <1>7, <1>8, <1>9, <1>10 DEF CountInv

\* Pushing the failed envelope back pays its debt: it is retried with the count
\* that is due, or it has had all its tries.
LEMMA DebtPaid ==
  ASSUME IInv, IInv', CountInv, pc = "removed", NEW h \in hand, Retry(h) \/ Bury(h),
         pc' \notin Busy, UNCHANGED <<prio, processing, failures, pushed>>,
         budget'["kill"] <= budget["kill"], budget'["fault"] <= budget["fault"]
  PROVE  CountInv'
<1> USE QueueAssumption DEF IInv
<1>1. /\ budget["kill"] \in Nat /\ budget["fault"] \in Nat
      /\ budget'["kill"] \in Nat /\ budget'["fault"] \in Nat
  BY DEF TypeOK
<1>2. WithinBudget' /\ Misfortunes' >= Misfortunes /\ Misfortunes \in Nat /\ Misfortunes' \in Nat
  BY <1>1 DEF CountInv, WithinBudget, Misfortunes
<1>3. /\ hand = {h} /\ h \in Envelope /\ h.job \in Jobs /\ h.retries \in Nat
  BY DEF HandTracked, Busy, TypeOK, Envelope
<1>4. /\ Running = {h} /\ Indebted = {h} /\ h \in Live
      /\ Running' = {} /\ Indebted' = {}
  BY <1>3 DEF Running, Indebted, Live, Busy
<1>5. /\ \A j \in Jobs : failures[j] \in Nat
      /\ Counted(h)
  BY <1>4 DEF TypeOK, CountInv
<1>6. h.job \notin Queued \cup JobsOf(processing)
  BY <1>3 DEF HandTracked, Busy, Elsewhere, JobsOf
<1>7. \A e \in ToSet(prio) \cup ToSet(default) \cup processing :
        e \in Live /\ e # h
  <2>1. JobsIn(prio) = JobsOf(ToSet(prio)) /\ JobsIn(default) = JobsOf(ToSet(default))
    BY LiveFacts, JobsOfList
  <2> QED BY <1>6, <2>1 DEF Live, Queued, JobsOf
<1>8. \A e \in ToSet(prio) \cup ToSet(default) \cup processing : Counted(e)'
  <2>1. ASSUME NEW e \in ToSet(prio) \cup ToSet(default) \cup processing
        PROVE  Counted(e)'
    <3>1. Counted(e) /\ e # h /\ e.job \in Jobs /\ e.retries \in Nat
      BY <1>7, LiveFacts DEF CountInv, Envelope
    <3> QED BY <1>2, <1>4, <1>5, <3>1 DEF Counted, Owed
  <2> QED BY <2>1
<1>9. TriesBounded'
  BY <1>2, <1>5 DEF CountInv, TriesBounded
<1>10. CASE Retry(h)
  <2> DEFINE d == [h EXCEPT !.retries = @ + 1]
  <2>1. /\ d \in Envelope /\ d.retries = h.retries + 1 /\ d.job = h.job
        /\ default' = Append(default, d) /\ h.retries < MaxRetries /\ dlq' = dlq
    BY <1>3, <1>10 DEF Retry, Envelope
  <2> HIDE DEF d
  <2>2. ToSet(default') = ToSet(default) \cup {d}
    BY <2>1, LiveFacts, AppendFacts
  <2>3. Counted(d)'
    BY <1>2, <1>3, <1>4, <1>5, <2>1 DEF Counted, Owed
  <2>4. \A e \in Live' : Counted(e)'
    BY <1>4, <1>8, <2>2, <2>3 DEF Live
  <2> QED BY <1>2, <1>9, <2>1, <2>4 DEF CountInv
<1>11. CASE Bury(h)
  <2>1. ToSet(dlq') = ToSet(dlq) \cup {h} /\ default' = default /\ h.retries >= MaxRetries
    BY <1>3, <1>11, LiveFacts, AppendFacts DEF Bury
  <2>2. failures[h.job] > MaxRetries
    BY <1>3, <1>4, <1>5, <2>1 DEF Counted, Owed
  <2>3. \A e \in Live' : Counted(e)'
    BY <1>4, <1>8, <2>1 DEF Live
  <2> QED BY <1>2, <1>9, <2>1, <2>2, <2>3 DEF CountInv
<1> QED BY <1>10, <1>11

\* A death or an error is one misfortune more.
LEMMA SpentFacts ==
  ASSUME TypeOK, NEW what \in {"kill", "fault", "replay"}, Spend(what)
  PROVE  /\ budget'["kill"] <= budget["kill"] /\ budget'["fault"] <= budget["fault"]
         /\ what = "kill" => budget'["kill"] < budget["kill"]
         /\ what = "fault" => budget'["fault"] < budget["fault"]
         /\ what # "replay" => Misfortunes' >= Misfortunes + 1
<1>1. /\ budget["kill"] \in Nat /\ budget["fault"] \in Nat /\ budget[what] \in Nat
      /\ budget[what] > 0
      /\ budget' = [budget EXCEPT ![what] = budget[what] - 1]
      /\ DOMAIN budget = {"kill", "fault", "replay"}
  BY DEF TypeOK, Spend
<1>2. \A k \in {"kill", "fault", "replay"} :
        budget'[k] = IF k = what THEN budget[what] - 1 ELSE budget[k]
  BY <1>1
<1>3. budget'["kill"] = (IF what = "kill" THEN budget["kill"] - 1 ELSE budget["kill"])
      /\ budget'["fault"] = (IF what = "fault" THEN budget["fault"] - 1 ELSE budget["fault"])
  BY <1>2
<1> QED BY <1>1, <1>3, QueueAssumption DEF Misfortunes

\* Every action keeps the counts.
THEOREM NextCount == IInv /\ CountInv /\ [Next]_vars => CountInv'
<1> SUFFICES ASSUME IInv, CountInv, [Next]_vars PROVE CountInv'
  OBVIOUS
<1>0. IInv' /\ TypeOK /\ budget["kill"] \in Nat /\ budget["fault"] \in Nat
  BY NextIInv DEF IInv, TypeOK
<1> USE <1>0
<1>1. ASSUME NEW j \in Jobs, NEW isPriority \in BOOLEAN, Push(j, isPriority)
      PROVE  CountInv'
  <2>1. PICK e \in Envelope : e = Fresh(j) /\ e.job = j /\ e.retries = 0
    BY FreshIsEnvelope DEF Fresh
  <2>2. /\ Running' = Running /\ Indebted' = Indebted /\ Misfortunes' = Misfortunes
        /\ ToSet(dlq') = ToSet(dlq) /\ failures' = failures /\ pushed' = pushed \cup {j}
        /\ processing' = processing /\ j \notin pushed /\ budget' = budget
    BY <1>1 DEF Push, Running, Indebted, Misfortunes
  <2>3. Live' \subseteq Live \cup {e}
    <3>1. \/ prio' = Append(prio, e) /\ default' = default
          \/ default' = Append(default, e) /\ prio' = prio
      BY <1>1, <2>1 DEF Push
    <3>2. \/ ToSet(prio') = ToSet(prio) \cup {e} /\ ToSet(default') = ToSet(default)
          \/ ToSet(default') = ToSet(default) \cup {e} /\ ToSet(prio') = ToSet(prio)
      BY <3>1, AppendFacts, LiveFacts
    <3> QED BY <2>2, <3>2 DEF Live
  <2>4. Counted(e)'
    <3>1. e \notin Indebted /\ failures[e.job] = 0
      BY <2>1, <2>2, LiveFacts DEF IInv, HandTracked, JobsOf, CountInv
    <3>2. Misfortunes \in Nat
      BY QueueAssumption DEF Misfortunes, CountInv, WithinBudget
    <3>3. e.retries = 0
      BY <2>1
    <3> QED BY <2>2, <3>1, <3>2, <3>3, QueueAssumption DEF Counted, Owed
  <2>5. \A d \in Live : Counted(d)'
    BY <2>2 DEF CountInv, Counted, Owed
  <2> QED BY <2>2, <2>3, <2>4, <2>5 DEF CountInv, WithinBudget, TriesBounded
<1>2. CASE ClaimPriority
  <2>1. Head(prio) \in ToSet(prio) /\ ToSet(prio') \subseteq ToSet(prio)
    BY <1>2, LiveFacts, TailSet DEF ClaimPriority
  <2> QED BY <1>2, <2>1, CountsKept
          DEF ClaimPriority, Take, books, Live, Running, Indebted, Busy
<1>3. CASE ClaimDefault
  <2>1. Head(default) \in ToSet(default) /\ ToSet(default') \subseteq ToSet(default)
    BY <1>3, LiveFacts, TailSet DEF ClaimDefault
  <2> QED BY <1>3, <2>1, CountsKept
          DEF ClaimDefault, Take, books, Live, Running, Indebted, Busy
<1>4. CASE PriorityEmpty \/ ClaimTimeout \/ StampLease \/ WorkOk \/ FailRemove
  BY <1>4, CountsKept
  DEF PriorityEmpty, ClaimTimeout, StampLease, WorkOk, FailRemove, lanes, books,
      Live, Running, Indebted, Busy
<1>5. CASE WorkFails
  BY <1>5, FailureCounted DEF WorkFails, lanes
<1>6. CASE Ack
  BY <1>6, CountsKept DEF Ack, Settle, lanes, books, Live, Running, Indebted, Busy
<1>7. CASE HandOff
  BY <1>7, CountsKept DEF HandOff, lanes, books, Live, Running, Indebted, Busy
<1>8. CASE FailPush
  BY <1>8, DebtPaid DEF FailPush, books, Busy
<1>9. CASE Restart \/ SweepEnd \/ BootDone
  BY <1>9, CountsKept
  DEF Restart, SweepEnd, BootDone, lanes, books, Live, Running, Indebted, Busy
<1>10. CASE SweepRewrite
  <2>1. PICK e \in hand : LET seen == [e EXCEPT !.recoveries = @ + 1]
                              rest == LRem(default, e)
                          IN IF seen.recoveries > MaxRecoveries
                               THEN dlq' = Append(dlq, seen) /\ default' = rest
                               ELSE default' = Append(rest, seen) /\ UNCHANGED dlq
    BY <1>10 DEF SweepRewrite
  <2> DEFINE rest == LRem(default, e)
             seen == [e EXCEPT !.recoveries = @ + 1]
  <2>2. /\ e \in Envelope /\ e \in ToSet(default) /\ Distinct(default)
        /\ Running = {} /\ Running' = {} /\ Indebted = {} /\ Indebted' = {}
        /\ UNCHANGED <<prio, processing, budget, failures, pushed>>
    BY <1>10 DEF SweepRewrite, IInv, TypeOK, SingleCopy, HandTracked, books,
                 Running, Indebted, Busy
  <2>3. /\ ToSet(rest) \subseteq ToSet(default) /\ rest \in Seq(Envelope)
    BY <2>2, LiveFacts, LRemSet, LRemFacts
  <2>4. /\ seen \in Envelope /\ seen.job = e.job /\ seen.retries = e.retries
        /\ \/ seen.recoveries > MaxRecoveries /\ dlq' = Append(dlq, seen) /\ default' = rest
           \/ default' = Append(rest, seen) /\ dlq' = dlq
    BY <2>1, <2>2, Recounted DEF Envelope
  <2> HIDE DEF seen, rest
  <2>5. /\ ToSet(default') \subseteq ToSet(default) \cup {seen}
        /\ \A d \in ToSet(dlq') : d \in ToSet(dlq) \/ d.recoveries > MaxRecoveries
    <3>1. ToSet(Append(rest, seen)) = ToSet(rest) \cup {seen}
      BY <2>3, <2>4, AppendFacts
    <3>2. ToSet(Append(dlq, seen)) = ToSet(dlq) \cup {seen}
      BY <2>4, LiveFacts, AppendFacts
    <3>3. CASE seen.recoveries > MaxRecoveries /\ dlq' = Append(dlq, seen) /\ default' = rest
      BY <2>3, <3>2, <3>3
    <3>4. CASE default' = Append(rest, seen) /\ dlq' = dlq
      BY <2>3, <3>1, <3>4
    <3> QED BY <2>4, <3>3, <3>4
  <2>6. Live' \subseteq Live \cup {seen} /\ e \in Live /\ Misfortunes' = Misfortunes
    BY <2>2, <2>5 DEF Live, Misfortunes
  <2>7. Counted(e) /\ Counted(seen)' /\ \A d \in Live : Counted(d)'
    BY <2>2, <2>4, <2>6 DEF CountInv, Counted, Owed
  <2> QED BY <2>2, <2>5, <2>6, <2>7 DEF CountInv, WithinBudget, TriesBounded
<1>11. ASSUME NEW e \in processing, SweepMove(e) \/ BootMove(e)
       PROVE  CountInv'
  <2>1. default' = Append(default, e) /\ e \in Envelope
    BY <1>11 DEF SweepMove, BootMove, TypeOK
  <2>2. ToSet(default') = ToSet(default) \cup {e}
    BY <2>1, AppendFacts, LiveFacts
  <2> QED BY <1>11, <2>2, CountsKept
          DEF SweepMove, BootMove, books, Live, Running, Indebted, Busy
<1>12. CASE Kill \/ Reboot \/ ClaimError \/ SweepError
  BY <1>12, SpentFacts, CountsKept
  DEF Kill, Reboot, ClaimError, SweepError, lanes, books, Live, Running, Indebted, Busy
<1>13. CASE CudaLost
  BY <1>13, CountsKept DEF CudaLost, lanes, Live, Running, Indebted, Busy
<1>14. CASE ReplayDies \/ BootSkip
  BY <1>14, SpentFacts, CountsKept
  DEF ReplayDies, BootSkip, lanes, books, Live, Running, Indebted, Busy
<1>15. ASSUME NEW applied \in BOOLEAN, AckError(applied)
       PROVE  CountInv'
  <2>1. processing' \subseteq processing
    BY <1>15 DEF AckError, Settle
  <2> QED BY <1>15, <2>1, SpentFacts, FailureCounted DEF AckError, lanes
<1>16. ASSUME NEW applied \in BOOLEAN, HandOffError(applied)
       PROVE  CountInv'
  BY <1>16, SpentFacts, FailureCounted DEF HandOffError, lanes
<1>17. ASSUME NEW applied \in BOOLEAN, DiscardError(applied)
       PROVE  CountInv'
  <2>1. processing' \subseteq processing
    BY <1>17 DEF DiscardError, Settle
  <2> QED BY <1>17, <2>1, SpentFacts, CountsKept
          DEF DiscardError, lanes, Live, Running, Indebted, Busy
<1>18. ASSUME NEW applied \in BOOLEAN, FailRemoveError(applied)
       PROVE  CountInv'
  <2>1. processing' \subseteq processing
    BY <1>18 DEF FailRemoveError
  <2> QED BY <1>18, <2>1, SpentFacts, CountsKept
          DEF FailRemoveError, AfterEscape, lanes, books, Live, Running, Indebted, Busy
<1>19. CASE FailPushError(TRUE)
  BY <1>19, SpentFacts, DebtPaid DEF FailPushError, AfterEscape, books, Busy
<1>20. CASE FailPushError(FALSE)
  BY <1>20, SpentFacts, CountsKept
  DEF FailPushError, AfterEscape, books, Live, Running, Indebted, Busy
<1>21. CASE ReplayPop
  <2>1. ToSet(dlq') \subseteq ToSet(dlq)
    BY <1>21, LiveFacts, TailSet DEF ReplayPop
  <2> QED BY <1>21, <2>1, SpentFacts, CountsKept
          DEF ReplayPop, lanes, books, Live, Running, Indebted, Busy
<1>22. CASE ReplayPush
  <2>1. PICK h \in replaying :
          /\ default' = Append(default, [h EXCEPT !.retries = 0])
          /\ failures' = [failures EXCEPT ![h.job] = 0]
    BY <1>22 DEF ReplayPush
  <2>2. PICK d \in Envelope : /\ d.job = h.job /\ d.retries = 0
                              /\ default' = Append(default, d)
    BY <2>1 DEF TypeOK, Envelope
  <2>3. /\ UNCHANGED <<prio, processing, dlq, pc, hand, budget, pushed>>
        /\ Running' = Running /\ Indebted' = Indebted /\ Misfortunes' = Misfortunes
    BY <1>22 DEF ReplayPush, Running, Indebted, Misfortunes
  <2>4. ToSet(default') = ToSet(default) \cup {d}
    BY <2>2, AppendFacts, LiveFacts
  <2>5. /\ d.job \in Jobs /\ d.job \in JobsOf(replaying)
        /\ \A j \in Jobs : failures'[j] = IF j = d.job THEN 0 ELSE failures[j]
    BY <2>1, <2>2 DEF TypeOK, Envelope, JobsOf
  <2>6. d.job \notin JobsOf(Live) \cup JobsOf(ToSet(dlq))
    <3>1. /\ JobsIn(prio) = JobsOf(ToSet(prio)) /\ JobsIn(default) = JobsOf(ToSet(default))
          /\ JobsIn(dlq) = JobsOf(ToSet(dlq))
      BY LiveFacts, JobsOfList
    <3>2. d.job \in Dead
      BY <2>5 DEF Dead
    <3>3. d.job \notin JobsIn(dlq) \cup Queued \cup JobsOf(processing)
      BY <2>5, <3>2 DEF IInv, SingleCopy
    <3>4. d.job \notin JobsOf(Running)
      BY <3>2 DEF IInv, HandTracked, Running, Elsewhere, JobsOf
    <3> QED BY <3>1, <3>3, <3>4 DEF Live, Queued, JobsOf
  <2>7. \A e \in Live \cup ToSet(dlq) : e.job \in Jobs /\ e.job # d.job
    BY <2>6, LiveFacts DEF JobsOf, Envelope
  <2>8. Misfortunes \in Nat /\ d \notin Indebted
    <3>1. Misfortunes \in Nat
      BY QueueAssumption DEF Misfortunes, CountInv, WithinBudget
    <3>2. Indebted \subseteq Live
      BY DEF Indebted, Live, Running, Busy
    <3> QED BY <2>7, <3>1, <3>2
  <2>9. Counted(d)'
    BY <2>2, <2>3, <2>5, <2>8, QueueAssumption DEF Counted, Owed
  <2>10. \A e \in Live : Counted(e)'
    BY <2>3, <2>5, <2>7 DEF CountInv, Counted, Owed
  <2>11. Live' \subseteq Live \cup {d}
    BY <2>3, <2>4 DEF Live
  <2>12. TriesBounded'
    BY <2>3, <2>5, <2>8, QueueAssumption DEF CountInv, TriesBounded
  <2>13. \A j \in Jobs \ pushed : failures'[j] = 0
    BY <2>5 DEF CountInv
  <2>14. \A e \in ToSet(dlq) : failures'[e.job] > MaxRetries \/ e.recoveries > MaxRecoveries
    BY <2>5, <2>7 DEF CountInv
  <2> QED BY <2>3, <2>9, <2>10, <2>11, <2>12, <2>13, <2>14 DEF CountInv, WithinBudget
<1>23. CASE UNCHANGED vars
  BY <1>23, CountsKept DEF vars, Live, Running, Indebted
<1> QED
  BY <1>1, <1>2, <1>3, <1>4, <1>5, <1>6, <1>7, <1>8, <1>9, <1>10, <1>11, <1>12,
     <1>13, <1>14, <1>15, <1>16, <1>17, <1>18, <1>19, <1>20, <1>21, <1>22, <1>23
  DEF Next, Producer, Consumer, Watchdog, Failure

\* A job fails MaxRetries times and once more before fail_job gives it up, plus
\* one time for each death or Redis error, and it is never dead-lettered sooner
\* unless it is a poison pill.
THEOREM TriesAreExact == Spec => []TriesExact
<1>1. Init => IInv /\ CountInv
  BY InitIInv, InitCount
<1>2. IInv /\ CountInv /\ [Next]_vars => (IInv /\ CountInv)'
  BY NextIInv, NextCount
<1>3. IInv /\ CountInv => TriesExact
  <2> SUFFICES ASSUME IInv, CountInv PROVE DeadHadItsTries
    BY DEF TriesExact, CountInv
  <2>1. dlq \in Seq(Envelope)
    BY DEF IInv, TypeOK
  <2>2. \A i \in 1 .. Len(dlq) : dlq[i] \in ToSet(dlq)
    BY <2>1 DEF ToSet
  <2> QED BY <2>2 DEF CountInv, DeadHadItsTries
<1> QED BY <1>1, <1>2, <1>3, PTL DEF Spec

-----------------------------------------------------------------------------
(* Poison pills *)

\* Nothing has taken the engine down before it was pushed.
LEMMA InitPoison == Init => PoisonInv
<1> SUFFICES ASSUME Init PROVE PoisonInv
  OBVIOUS
<1> USE QueueAssumption
<1>1. ToSet(<<>>) = {}
  BY DEF ToSet
<1>2. Live = {}
  BY <1>1 DEF Init, Live, Running, Busy
<1>3. \A j \in Jobs : cudaDeaths[j] = 0 /\ uncounted[j] = 0
  BY DEF Init
<1> QED BY <1>2, <1>3 DEF PoisonInv, PoisonQuarantined

\* A step that only moves live envelopes about keeps the count: one that was
\* left behind stays so, or its recovery is noted as one that left no trace.
LEMMA PoisonKept ==
  ASSUME IInv, IInv', PoisonInv,
         cudaDeaths' = cudaDeaths, pushed \subseteq pushed', Live' \subseteq Live,
         \A j \in Jobs : uncounted'[j] >= uncounted[j],
         \A e \in Orphaned \cap Live' :
           e \in Orphaned' \/ uncounted'[e.job] >= uncounted[e.job] + 1
  PROVE  PoisonInv'
<1> USE QueueAssumption
<1>1. \A j \in Jobs : /\ cudaDeaths[j] \in Nat /\ uncounted[j] \in Nat
                      /\ uncounted'[j] \in Nat
  BY DEF IInv, TypeOK
<1>2. ASSUME SweepsItself, NEW e \in Live'
      PROVE  /\ e.recoveries <= MaxRecoveries
             /\ cudaDeaths[e.job] <= e.recoveries + uncounted'[e.job] + Due(e)'
  <2>1. /\ e \in Live /\ e.job \in Jobs /\ e.recoveries \in Nat
        /\ e.recoveries <= MaxRecoveries
        /\ cudaDeaths[e.job] <= e.recoveries + uncounted[e.job] + Due(e)
    BY <1>2, LiveFacts DEF PoisonInv, Envelope
  <2>2. /\ uncounted'[e.job] >= uncounted[e.job]
        /\ e \in Orphaned => \/ e \in Orphaned'
                             \/ uncounted'[e.job] >= uncounted[e.job] + 1
    BY <1>2, <2>1
  <2> QED BY <1>1, <2>1, <2>2 DEF Due
<1>3. PoisonQuarantined'
  BY <1>1 DEF PoisonInv, PoisonQuarantined
<1> QED BY <1>2, <1>3 DEF PoisonInv, SweepsItself

\* What LoseCount notes.
LEMMA LostCounts ==
  ASSUME IInv, LoseCount
  PROVE  /\ \A j \in Jobs : uncounted'[j] >= uncounted[j]
         /\ pc = "moved" => \A e \in hand : uncounted'[e.job] >= uncounted[e.job] + 1
<1>1. \A j \in Jobs : uncounted[j] \in Nat
  BY DEF IInv, TypeOK
<1>2. \A e \in hand : e.job \in Jobs /\ e.job \in JobsOf(hand)
  BY DEF IInv, TypeOK, Envelope, JobsOf
<1> QED BY <1>1, <1>2 DEF LoseCount

\* No other queue ever holds a replayed envelope, nor this one two.
LEMMA NextReplay == OneReplay /\ [Next]_vars => OneReplay'
<1> SUFFICES ASSUME OneReplay, [Next]_vars PROVE OneReplay'
  OBVIOUS
<1>1. CASE Producer \/ Consumer \/ Watchdog
  <2>1. replaying' = replaying
    BY <1>1
    DEF Producer, Push, Consumer, ClaimPriority, PriorityEmpty, ClaimDefault,
        ClaimTimeout, StampLease, WorkOk, WorkFails, Ack, HandOff, FailRemove, FailPush,
        Watchdog, Restart, SweepRewrite, SweepEnd, BootDone, SweepMove, BootMove
  <2> QED BY <2>1 DEF OneReplay, HandsOff
<1>2. CASE Failure
  <2>1. replaying' = replaying \/ replaying' = {}
    BY <1>2
    DEF Failure, Kill, CudaLost, Reboot, ReplayDies, ClaimError, SweepError, BootSkip,
        AckError, DiscardError, HandOffError, FailRemoveError, FailPushError
  <2> QED BY <2>1 DEF OneReplay, HandsOff
<1>3. CASE ReplayPop \/ ReplayPush
  BY <1>3 DEF OneReplay, HandsOff, ReplayPop, ReplayPush
<1>4. CASE UNCHANGED vars
  BY <1>4 DEF vars, OneReplay, HandsOff
<1> QED BY <1>1, <1>2, <1>3, <1>4 DEF Next

\* Every action keeps that count.
THEOREM NextPoison == IInv /\ OneReplay /\ PoisonInv /\ [Next]_vars => PoisonInv'
<1> SUFFICES ASSUME IInv, OneReplay, PoisonInv, [Next]_vars PROVE PoisonInv'
  OBVIOUS
<1>0. /\ IInv' /\ TypeOK
      /\ \A j \in Jobs : uncounted[j] \in Nat /\ cudaDeaths[j] \in Nat
  BY NextIInv DEF IInv, TypeOK
<1> USE <1>0
<1>1. ASSUME NEW j \in Jobs, NEW isPriority \in BOOLEAN, Push(j, isPriority)
      PROVE  PoisonInv'
  <2>1. PICK e \in Envelope : e = Fresh(j) /\ e.job = j /\ e.recoveries = 0
    BY FreshIsEnvelope DEF Fresh
  <2>2. /\ Running' = Running /\ Orphaned' = Orphaned /\ cudaDeaths' = cudaDeaths
        /\ pushed' = pushed \cup {j} /\ uncounted' = uncounted
        /\ processing' = processing /\ j \notin pushed
    BY <1>1 DEF Push, Running, Orphaned
  <2>3. Live' \subseteq Live \cup {e}
    <3>1. \/ prio' = Append(prio, e) /\ default' = default
          \/ default' = Append(default, e) /\ prio' = prio
      BY <1>1, <2>1 DEF Push
    <3>2. \/ ToSet(prio') = ToSet(prio) \cup {e} /\ ToSet(default') = ToSet(default)
          \/ ToSet(default') = ToSet(default) \cup {e} /\ ToSet(prio') = ToSet(prio)
      BY <3>1, AppendFacts, LiveFacts
    <3> QED BY <2>2, <3>2 DEF Live
  <2>4. /\ e.recoveries <= MaxRecoveries
        /\ cudaDeaths[e.job] <= e.recoveries + uncounted[e.job] + Due(e)
    BY <2>1, <2>2, QueueAssumption DEF PoisonInv, Due
  <2>5. \A d \in Live' : SweepsItself =>
          /\ d.recoveries <= MaxRecoveries
          /\ cudaDeaths'[d.job] <= d.recoveries + uncounted'[d.job] + Due(d)'
    BY <2>2, <2>3, <2>4 DEF PoisonInv, Due
  <2> QED BY <2>2, <2>5 DEF PoisonInv, PoisonQuarantined, SweepsItself
<1>2. CASE ClaimPriority
  <2>1. Head(prio) \in ToSet(prio) /\ ToSet(prio') \subseteq ToSet(prio)
    BY <1>2, LiveFacts, TailSet DEF ClaimPriority
  <2>2. Head(prio) \notin processing
    <3>1. Head(prio).job \in Queued
      BY <1>2, LiveFacts, TailFacts DEF ClaimPriority, Queued
    <3> QED BY <3>1 DEF IInv, SingleCopy, JobsOf
  <2> QED BY <1>2, <2>1, <2>2, PoisonKept
          DEF ClaimPriority, Take, books, Live, Running, Orphaned, Busy
<1>3. CASE ClaimDefault
  <2>1. Head(default) \in ToSet(default) /\ ToSet(default') \subseteq ToSet(default)
    BY <1>3, LiveFacts, TailSet DEF ClaimDefault
  <2>2. Head(default) \notin processing
    <3>1. Head(default).job \in Queued
      BY <1>3, LiveFacts, TailFacts DEF ClaimDefault, Queued
    <3> QED BY <3>1 DEF IInv, SingleCopy, JobsOf
  <2> QED BY <1>3, <2>1, <2>2, PoisonKept
          DEF ClaimDefault, Take, books, Live, Running, Orphaned, Busy
<1>4. CASE PriorityEmpty \/ ClaimTimeout \/ StampLease \/ WorkOk \/ FailRemove
           \/ WorkFails \/ Ack \/ HandOff
  <2>1. /\ Live' \subseteq Live /\ Orphaned \cap Live' \subseteq Orphaned'
        /\ UNCHANGED <<cudaDeaths, uncounted, pushed>>
    BY <1>4
    DEF PriorityEmpty, ClaimTimeout, StampLease, WorkOk, FailRemove, WorkFails, Ack,
        HandOff, Settle, EnterFail, lanes, books, Live, Running, Orphaned, Busy
  <2> QED BY <2>1, PoisonKept
<1>5. ASSUME NEW applied \in BOOLEAN,
             \/ AckError(applied) \/ HandOffError(applied) \/ DiscardError(applied)
             \/ FailRemoveError(applied) \/ ClaimError
      PROVE  PoisonInv'
  <2>1. processing' = processing \/ processing' = processing \ hand
    BY <1>5 DEF AckError, HandOffError, DiscardError, FailRemoveError, ClaimError, Settle
  <2>2. pc \in Busy /\ (pc' \in {"idle", "down"} \/ (pc' = "failed" /\ hand' = hand))
    BY <1>5 DEF AckError, HandOffError, DiscardError, FailRemoveError, ClaimError,
                AfterEscape, EnterFail, Busy
  <2>3. UNCHANGED <<prio, default, cudaDeaths, uncounted, pushed>>
    BY <1>5 DEF AckError, HandOffError, DiscardError, FailRemoveError, ClaimError,
                lanes, books
  <2>4. Live' \subseteq Live /\ Orphaned \cap Live' \subseteq Orphaned'
    BY <2>1, <2>2, <2>3 DEF Live, Running, Orphaned, Busy
  <2> QED BY <2>3, <2>4, PoisonKept
<1>6. ASSUME NEW h \in hand, pc = "removed", Retry(h) \/ Bury(h), pc' \in {"idle", "down"},
             UNCHANGED <<prio, processing, pushed, cudaDeaths, uncounted>>
      PROVE  PoisonInv'
  <2>1. /\ hand = {h} /\ h \in Envelope /\ h \in Live
        /\ Running = {h} /\ Running' = {} /\ Orphaned = processing \ {h}
        /\ Orphaned' = processing
    BY <1>6 DEF IInv, HandTracked, Busy, TypeOK, Running, Orphaned, Live
  <2>2. PICK d \in Envelope : /\ d.job = h.job /\ d.recoveries = h.recoveries
                              /\ \/ default' = Append(default, d)
                                 \/ default' = default
    BY <1>6, <2>1 DEF Retry, Bury, Envelope
  <2>3. ToSet(default') \subseteq ToSet(default) \cup {d}
    <3>1. ToSet(Append(default, d)) = ToSet(default) \cup {d}
      BY LiveFacts, AppendFacts
    <3> QED BY <2>2, <3>1
  <2>4. Live' \subseteq Live \cup {d}
    BY <1>6, <2>1, <2>3 DEF Live
  <2>5. SweepsItself => /\ d.recoveries <= MaxRecoveries
                        /\ cudaDeaths[d.job] <= d.recoveries + uncounted[d.job] + Due(d)'
    <3>1. SweepsItself => /\ h.recoveries <= MaxRecoveries
                          /\ cudaDeaths[h.job] <= h.recoveries + uncounted[h.job]
      <4>1. h.job \in Jobs /\ h.recoveries \in Nat /\ Due(h) = 0
        BY <2>1 DEF Envelope, Due
      <4> QED BY <2>1, <4>1 DEF PoisonInv
    <3>2. d.job \in Jobs /\ d.recoveries \in Nat
      BY DEF Envelope
    <3> QED BY <2>2, <3>1, <3>2 DEF Due
  <2>6. \A e \in Live : SweepsItself =>
          /\ e.recoveries <= MaxRecoveries
          /\ cudaDeaths[e.job] <= e.recoveries + uncounted[e.job] + Due(e)'
    <3>1. \A e \in Live : e.job \in Jobs /\ e.recoveries \in Nat
      BY LiveFacts DEF Envelope
    <3>2. Orphaned \subseteq Orphaned'
      BY <2>1
    <3> QED BY <3>1, <3>2 DEF PoisonInv, Due
  <2>7. \A e \in Live' : SweepsItself =>
          /\ e.recoveries <= MaxRecoveries
          /\ cudaDeaths'[e.job] <= e.recoveries + uncounted'[e.job] + Due(e)'
    BY <1>6, <2>4, <2>5, <2>6
  <2> QED BY <1>6, <2>7 DEF PoisonInv, PoisonQuarantined, SweepsItself
<1>7. CASE FailPush \/ FailPushError(TRUE)
  BY <1>6, <1>7 DEF FailPush, FailPushError, AfterEscape, books
<1>8. CASE FailPushError(FALSE)
  <2>1. /\ Live' \subseteq Live /\ Orphaned \cap Live' \subseteq Orphaned'
        /\ UNCHANGED <<cudaDeaths, uncounted, pushed>>
    BY <1>8 DEF FailPushError, AfterEscape, books, Live, Running, Orphaned, Busy
  <2> QED BY <2>1, PoisonKept
<1>9. CASE Restart \/ SweepEnd \/ BootDone \/ BootSkip
  <2>1. /\ Live' \subseteq Live /\ Orphaned \cap Live' \subseteq Orphaned'
        /\ UNCHANGED <<cudaDeaths, uncounted, pushed>>
    BY <1>9 DEF Restart, SweepEnd, BootDone, BootSkip, lanes, books, Live, Running,
                Orphaned, Busy
  <2> QED BY <2>1, PoisonKept
<1>10. CASE SweepRewrite
  <2>1. PICK e \in hand : LET seen == [e EXCEPT !.recoveries = @ + 1]
                              rest == LRem(default, e)
                          IN IF seen.recoveries > MaxRecoveries
                               THEN dlq' = Append(dlq, seen) /\ default' = rest
                               ELSE default' = Append(rest, seen) /\ UNCHANGED dlq
    BY <1>10 DEF SweepRewrite
  <2> DEFINE rest == LRem(default, e)
             seen == [e EXCEPT !.recoveries = @ + 1]
  <2>2. /\ e \in Envelope /\ hand = {e} /\ e \in ToSet(default) /\ Distinct(default)
        /\ Running = {} /\ Running' = {} /\ Orphaned = processing \cup {e}
        /\ Orphaned' = processing
        /\ UNCHANGED <<prio, processing, cudaDeaths, uncounted, pushed>>
    BY <1>10 DEF SweepRewrite, IInv, TypeOK, SingleCopy, HandTracked, books,
                 Running, Orphaned, Busy
  <2>3. /\ ToSet(rest) \subseteq ToSet(default) /\ rest \in Seq(Envelope)
        /\ JobsIn(rest) = JobsIn(default) \ {e.job}
    BY <2>2, LiveFacts, LRemSet, LRemFacts
  <2>4. /\ seen \in Envelope /\ seen.job = e.job /\ seen.recoveries = e.recoveries + 1
        /\ \/ seen.recoveries > MaxRecoveries /\ default' = rest
           \/ seen.recoveries <= MaxRecoveries /\ default' = Append(rest, seen)
    BY <2>1, <2>2, Recounted, QueueAssumption DEF Envelope
  <2> HIDE DEF seen, rest
  <2>5. /\ ToSet(default') \subseteq ToSet(rest) \cup {seen}
        /\ seen \in ToSet(default') => seen.recoveries <= MaxRecoveries \/ seen \in ToSet(rest)
    <3>1. ToSet(Append(rest, seen)) = ToSet(rest) \cup {seen}
      BY <2>3, <2>4, AppendFacts
    <3> QED BY <2>4, <3>1
  <2>6. e \notin ToSet(rest) \cup ToSet(prio) \cup processing
    <3>1. JobsIn(rest) = JobsOf(ToSet(rest)) /\ JobsIn(prio) = JobsOf(ToSet(prio))
          /\ JobsIn(default) = JobsOf(ToSet(default))
      BY <2>3, LiveFacts, JobsOfList
    <3>2. e.job \in JobsIn(default)
      BY <2>2, <3>1 DEF JobsOf
    <3>3. e.job \notin JobsIn(rest) \cup JobsIn(prio) \cup JobsOf(processing)
      BY <2>3, <3>2 DEF IInv, SingleCopy, Queued
    <3> QED BY <3>1, <3>3 DEF JobsOf
  <2>7. /\ Live' \subseteq (Live \ {e}) \cup {seen}
        /\ e \in Live
        /\ seen \in Live' => seen.recoveries <= MaxRecoveries \/ seen \in Live \ {e}
    <3>1. ToSet(rest) \cup ToSet(prio) \cup processing \subseteq Live \ {e}
      BY <2>2, <2>3, <2>6 DEF Live
    <3> QED BY <2>2, <2>5, <3>1 DEF Live
  <2>8. SweepsItself => cudaDeaths[seen.job] <= seen.recoveries + uncounted[seen.job]
    <3>1. e.job \in Jobs /\ e.recoveries \in Nat /\ Due(e) \in {0, 1}
      BY <2>2 DEF Envelope, Due
    <3> QED BY <2>4, <2>7, <3>1 DEF PoisonInv
  <2>9. \A d \in Live' : SweepsItself =>
          /\ d.recoveries <= MaxRecoveries
          /\ cudaDeaths'[d.job] <= d.recoveries + uncounted'[d.job] + Due(d)'
    <3> SUFFICES ASSUME SweepsItself, NEW d \in Live'
                 PROVE  /\ d.recoveries <= MaxRecoveries
                        /\ cudaDeaths[d.job] <= d.recoveries + uncounted[d.job] + Due(d)'
      BY <2>2
    <3>1. CASE d \in Live \ {e}
      <4>1. Due(d)' = Due(d)
        BY <2>2, <3>1 DEF Due
      <4> QED BY <3>1, <4>1 DEF PoisonInv
    <3>2. CASE d = seen /\ d \notin Live \ {e}
      <4>1. d.job \in Jobs /\ d.recoveries \in Nat
        BY <2>4, <3>2 DEF Envelope
      <4> QED BY <2>7, <2>8, <3>2, <4>1 DEF Due
    <3> QED BY <2>7, <3>1, <3>2
  <2> QED BY <2>2, <2>9 DEF PoisonInv, PoisonQuarantined, SweepsItself
<1>11. ASSUME NEW e \in processing, SweepMove(e) \/ BootMove(e)
       PROVE  PoisonInv'
  <2>1. /\ default' = Append(default, e) /\ e \in Envelope /\ e.job \in Jobs
        /\ processing' = processing \ {e} /\ pc \in {"sweep", "boot"}
        /\ UNCHANGED <<prio, cudaDeaths, pushed>>
    BY <1>11 DEF SweepMove, BootMove, TypeOK, Envelope, books
  <2>2. ToSet(default') = ToSet(default) \cup {e}
    BY <2>1, AppendFacts, LiveFacts
  <2>3. Live' \subseteq Live /\ Running = {} /\ Orphaned = processing
    <3>1. Running = {} /\ Orphaned = processing
      BY <2>1 DEF Running, Orphaned, Busy
    <3>2. Running' = {}
      BY <1>11 DEF SweepMove, BootMove, Running, Busy
    <3> QED BY <2>1, <2>2, <3>1, <3>2 DEF Live
  <2>4. CASE SweepMove(e)
    <3>1. Orphaned' = processing /\ uncounted' = uncounted
      BY <2>1, <2>4 DEF SweepMove, Orphaned, Running, Busy, books
    <3> QED BY <2>1, <2>3, <3>1, PoisonKept
  <2>5. CASE BootMove(e)
    <3>1. /\ Orphaned' = processing \ {e}
          /\ \A j \in Jobs : uncounted'[j] = uncounted[j] + IF j = e.job THEN 1 ELSE 0
      BY <2>1, <2>5 DEF BootMove, Orphaned, Running, Busy, TypeOK
    <3> QED BY <2>1, <2>3, <3>1, PoisonKept
  <2> QED BY <1>11, <2>4, <2>5
<1>12. CASE Kill \/ SweepError \/ Reboot
  <2>1. /\ Live' \subseteq Live
        /\ \A e \in Orphaned : e \in Orphaned' \/ (pc = "moved" /\ e \in hand)
        /\ UNCHANGED <<cudaDeaths, pushed>> /\ LoseCount
    BY <1>12 DEF Kill, SweepError, Reboot, lanes, Live, Running, Orphaned, Busy
  <2> QED BY <2>1, LostCounts, PoisonKept
<1>13. CASE CudaLost
  <2>1. PICK h \in Envelope : hand = {h} /\ h \in processing /\ h.job \in Jobs
    BY <1>13 DEF CudaLost, IInv, HandTracked, TypeOK, Busy, Envelope
  <2>2. /\ Running = {h} /\ Running' = {} /\ Orphaned = processing \ {h}
        /\ Orphaned' = processing /\ Live' \subseteq Live /\ h \in Live
        /\ UNCHANGED <<uncounted, pushed>> /\ SweepsItself
    BY <1>13, <2>1 DEF CudaLost, lanes, Live, Running, Orphaned, Busy
  <2>3. \A j \in Jobs : cudaDeaths'[j] = cudaDeaths[j] + IF j = h.job THEN 1 ELSE 0
    BY <1>13, <2>1 DEF CudaLost, JobsOf
  <2>4. /\ h.recoveries <= MaxRecoveries /\ h.recoveries \in Nat
        /\ cudaDeaths[h.job] <= h.recoveries + uncounted[h.job]
    <3>1. h.recoveries \in Nat /\ Due(h) = 0
      BY <2>1, <2>2 DEF Envelope, Due
    <3> QED BY <2>1, <2>2, <3>1 DEF PoisonInv
  <2>5. ASSUME NEW e \in Live'
        PROVE  /\ e.recoveries <= MaxRecoveries
               /\ cudaDeaths'[e.job] <= e.recoveries + uncounted[e.job] + Due(e)'
    <3>1. e \in Live /\ e.job \in Jobs /\ e.recoveries \in Nat
      BY <2>2, <2>5, LiveFacts DEF Envelope
    <3>2. CASE e.job = h.job
      <4>1. e = h /\ e \in Orphaned'
        BY <1>13, <2>1, <2>2, <3>1, <3>2, OneOfItsJob DEF CudaLost, Busy
      <4> QED BY <2>1, <2>3, <2>4, <4>1 DEF Due
    <3>3. CASE e.job # h.job
      <4>1. cudaDeaths'[e.job] = cudaDeaths[e.job] /\ Due(e)' >= Due(e)
            /\ Due(e) \in Nat /\ Due(e)' \in Nat
        BY <2>2, <2>3, <3>1, <3>3 DEF Due
      <4> QED BY <2>2, <3>1, <4>1 DEF PoisonInv
    <3> QED BY <3>2, <3>3
  <2>6. PoisonQuarantined'
    <3>1. \A j \in Jobs : cudaDeaths'[j] <= MaxRecoveries + 1 + uncounted[j]
      BY <2>1, <2>3, <2>4, QueueAssumption DEF PoisonInv, PoisonQuarantined
    <3> QED BY <2>2, <3>1 DEF PoisonQuarantined
  <2>7. \A j \in Jobs \ pushed : cudaDeaths'[j] = 0
    <3>1. h.job \in pushed
      BY <2>1 DEF IInv, HandTracked, JobsOf
    <3> QED BY <2>3, <3>1 DEF PoisonInv
  <2> QED BY <2>2, <2>5, <2>6, <2>7 DEF PoisonInv, SweepsItself
<1>14. CASE ReplayPop \/ ReplayDies
  <2>1. /\ Live' \subseteq Live /\ Orphaned' = Orphaned
        /\ UNCHANGED <<cudaDeaths, uncounted, pushed>>
    BY <1>14 DEF ReplayPop, ReplayDies, lanes, books, Live, Running, Orphaned
  <2> QED BY <2>1, PoisonKept
<1>15. CASE ReplayPush
  <2>1. cudaDeaths' = cudaDeaths /\ pushed' = pushed /\ uncounted' = uncounted
    BY <1>15 DEF ReplayPush
  <2>2. CASE SweepsItself
    \* Nothing is replayed on this queue.
    BY <1>15, <2>2 DEF ReplayPush, OneReplay, SweepsItself, HandsOff
  <2>3. CASE ~SweepsItself
    BY <2>1, <2>3 DEF PoisonInv, PoisonQuarantined, SweepsItself
  <2> QED BY <2>2, <2>3
<1>16. CASE UNCHANGED vars
  <2>1. /\ Live' = Live /\ Orphaned' = Orphaned
        /\ UNCHANGED <<cudaDeaths, uncounted, pushed>>
    BY <1>16 DEF vars, Live, Running, Orphaned
  <2> QED BY <2>1, PoisonKept
<1> QED
  BY <1>1, <1>2, <1>3, <1>4, <1>5, <1>7, <1>8, <1>9, <1>10, <1>11, <1>12,
     <1>13, <1>14, <1>15, <1>16
  DEF Next, Producer, Consumer, Watchdog, Failure

\* A job takes the engine down at most MaxRecoveries + 1 times, not counting
\* the recoveries an error, a death or a session reboot left unwritten.
THEOREM PoisonIsQuarantined == Spec => []PoisonQuarantined
<1>1. Init => IInv /\ OneReplay /\ PoisonInv
  BY InitIInv, InitPoison DEF Init, OneReplay
<1>2. IInv /\ OneReplay /\ PoisonInv /\ [Next]_vars => (IInv /\ OneReplay /\ PoisonInv)'
  BY NextIInv, NextReplay, NextPoison
<1>3. PoisonInv => PoisonQuarantined
  BY DEF PoisonInv
<1> QED BY <1>1, <1>2, <1>3, PTL DEF Spec

-----------------------------------------------------------------------------
(* Acknowledgement and loss *)

\* What a step does to the jobs on the lists: one appears there when it is
\* pushed, by push_job or by fail_job, and one leaves them when it is completed,
\* or through the windows of fail_job and of a replay.
ListsMove ==
  /\ Listed' \subseteq Listed \cup (pushed' \ pushed) \cup Limbo
  /\ Listed \subseteq Listed' \cup completed' \cup FailWindow \cup JobsOf(replaying)
  /\ pushed \subseteq pushed' /\ pushed' \ pushed \subseteq Listed'
  /\ completed \subseteq completed'

\* A list that an envelope is appended to gains its job.
LEMMA AppendJob ==
  ASSUME NEW s \in Seq(Envelope), NEW e \in Envelope
  PROVE  JobsIn(Append(s, e)) = JobsIn(s) \cup {e.job}
  BY AppendFacts

\* A retry keeps the job of the envelope.
LEMMA Retried ==
  ASSUME NEW e \in Envelope
  PROVE  /\ [e EXCEPT !.retries = @ + 1] \in Envelope
         /\ [e EXCEPT !.retries = @ + 1].job = e.job
  BY DEF Envelope

\* Every action moves jobs that way.
LEMMA NextMoves == IInv /\ [Next]_vars => ListsMove
<1> SUFFICES ASSUME IInv, [Next]_vars PROVE ListsMove
  OBVIOUS
<1>0. /\ TypeOK /\ prio \in Seq(Envelope) /\ default \in Seq(Envelope)
      /\ dlq \in Seq(Envelope)
  BY DEF IInv, TypeOK
<1> USE <1>0
<1>1. ASSUME NEW j \in Jobs, NEW isPriority \in BOOLEAN, Push(j, isPriority)
      PROVE  ListsMove
  <2>1. Fresh(j) \in Envelope /\ Fresh(j).job = j
    BY FreshIsEnvelope
  <2>2. \/ JobsIn(prio') = JobsIn(prio) \cup {j} /\ default' = default
        \/ JobsIn(default') = JobsIn(default) \cup {j} /\ prio' = prio
    BY <1>1, <2>1, AppendJob DEF Push
  <2>3. /\ Queued' = Queued \cup {j} /\ Dead' = Dead
        /\ JobsOf(processing') = JobsOf(processing)
        /\ pushed' = pushed \cup {j} /\ completed' = completed /\ j \notin pushed
    BY <1>1, <2>2 DEF Push, Queued, Dead
  <2> QED BY <2>3 DEF ListsMove, Listed
<1>2. CASE ClaimPriority
  <2>1. /\ Head(prio) \in Envelope /\ Head(prio).job \in JobsIn(prio)
        /\ JobsIn(prio') = JobsIn(prio) \ {Head(prio).job}
    BY <1>2, TailFacts DEF ClaimPriority, IInv, SingleCopy
  <2>2. /\ JobsOf(processing') = JobsOf(processing) \cup {Head(prio).job}
        /\ UNCHANGED <<default, dlq, replaying, pushed, completed>>
    BY <1>2 DEF ClaimPriority, Take, JobsOf, books
  <2> QED BY <2>1, <2>2 DEF ListsMove, Listed, Queued, Dead
<1>3. CASE ClaimDefault
  <2>1. /\ Head(default) \in Envelope /\ Head(default).job \in JobsIn(default)
        /\ JobsIn(default') = JobsIn(default) \ {Head(default).job}
    BY <1>3, TailFacts DEF ClaimDefault, IInv, SingleCopy
  <2>2. /\ JobsOf(processing') = JobsOf(processing) \cup {Head(default).job}
        /\ UNCHANGED <<prio, dlq, replaying, pushed, completed>>
    BY <1>3 DEF ClaimDefault, Take, JobsOf, books
  <2> QED BY <2>1, <2>2 DEF ListsMove, Listed, Queued, Dead
<1>4. CASE UNCHANGED <<prio, default, dlq, processing, replaying, pushed, completed>>
  BY <1>4 DEF ListsMove, Listed, Queued, Dead, JobsOf
<1>5. CASE \/ PriorityEmpty \/ ClaimTimeout \/ StampLease \/ WorkOk \/ WorkFails
           \/ HandOff \/ Restart \/ SweepEnd \/ BootDone \/ Kill \/ CudaLost
           \/ Reboot \/ ClaimError \/ SweepError \/ BootSkip \/ FailPushError(FALSE)
           \/ UNCHANGED vars \/ \E applied \in BOOLEAN : HandOffError(applied)
  BY <1>4, <1>5
  DEF PriorityEmpty, ClaimTimeout, StampLease, WorkOk, WorkFails, HandOff, Restart,
      SweepEnd, BootDone, Kill, CudaLost, Reboot, ClaimError, SweepError, BootSkip,
      FailPushError, HandOffError, EnterFail, AfterEscape, lanes, books, vars
<1>6. ASSUME UNCHANGED <<prio, default, dlq, replaying, pushed>>,
             \/ UNCHANGED <<processing, completed>>
             \/ Settle
             \/ processing' = processing \ hand /\ completed' = completed /\ pc = "failed"
      PROVE  ListsMove
  <2>1. /\ JobsOf(processing') \subseteq JobsOf(processing)
        /\ JobsOf(processing) \subseteq JobsOf(processing') \cup completed' \cup FailWindow
        /\ completed \subseteq completed'
    BY <1>6 DEF Settle, JobsOf, FailWindow
  <2> QED BY <1>6, <2>1 DEF ListsMove, Listed, Queued, Dead, JobsOf
<1>7. CASE \/ Ack \/ FailRemove
           \/ \E applied \in BOOLEAN :
                AckError(applied) \/ DiscardError(applied) \/ FailRemoveError(applied)
  BY <1>6, <1>7
  DEF Ack, FailRemove, AckError, DiscardError, FailRemoveError, EnterFail, AfterEscape,
      lanes, books
<1>8. CASE FailPush \/ FailPushError(TRUE)
  <2>1. PICK h \in hand : Retry(h) \/ Bury(h)
    BY <1>8 DEF FailPush, FailPushError
  <2>2. /\ pc = "removed" /\ h \in Envelope /\ h.job \in JobsOf(hand)
        /\ UNCHANGED <<prio, processing, replaying, pushed, completed>>
    BY <1>8, <2>1 DEF FailPush, FailPushError, AfterEscape, TypeOK, JobsOf, books
  <2>3. PICK d \in Envelope : /\ d.job = h.job
                              /\ \/ default' = Append(default, d) /\ dlq' = dlq
                                 \/ default' = default /\ dlq' = Append(dlq, d)
    <3> DEFINE d == [h EXCEPT !.retries = @ + 1]
    <3>1. d \in Envelope /\ d.job = h.job
      BY <2>2, Retried
    <3>2. \/ default' = Append(default, d) /\ dlq' = dlq
          \/ default' = default /\ dlq' = Append(dlq, h)
      BY <2>1 DEF Retry, Bury
    <3> HIDE DEF d
    <3> QED BY <2>2, <3>1, <3>2
  <2>4. \/ JobsIn(default') = JobsIn(default) \cup {h.job} /\ dlq' = dlq
        \/ default' = default /\ JobsIn(dlq') = JobsIn(dlq) \cup {h.job}
    BY <2>3, AppendJob
  <2> QED BY <2>2, <2>4 DEF ListsMove, Listed, Limbo, Queued, Dead, JobsOf
<1>9. ASSUME NEW e \in processing, SweepMove(e) \/ BootMove(e)
      PROVE  ListsMove
  <2>1. /\ default' = Append(default, e) /\ e \in Envelope
        /\ processing' = processing \ {e}
        /\ UNCHANGED <<prio, dlq, replaying, pushed, completed>>
    BY <1>9 DEF SweepMove, BootMove, TypeOK, books
  <2>2. JobsIn(default') = JobsIn(default) \cup {e.job}
    BY <2>1, AppendJob
  <2>3. /\ JobsOf(processing') \subseteq JobsOf(processing)
        /\ JobsOf(processing) \subseteq JobsOf(processing') \cup {e.job}
        /\ e.job \in JobsOf(processing)
    BY <2>1 DEF JobsOf
  <2> QED BY <2>1, <2>2, <2>3 DEF ListsMove, Listed, Queued, Dead, JobsOf
<1>10. CASE SweepRewrite
  <2>1. PICK e \in hand : LET seen == [e EXCEPT !.recoveries = @ + 1]
                              rest == LRem(default, e)
                          IN IF seen.recoveries > MaxRecoveries
                               THEN dlq' = Append(dlq, seen) /\ default' = rest
                               ELSE default' = Append(rest, seen) /\ UNCHANGED dlq
    BY <1>10 DEF SweepRewrite
  <2> DEFINE rest == LRem(default, e)
             seen == [e EXCEPT !.recoveries = @ + 1]
  <2>2. /\ e \in Envelope /\ e \in ToSet(default) /\ Distinct(default)
        /\ UNCHANGED <<prio, processing, replaying, pushed, completed>>
    BY <1>10 DEF SweepRewrite, IInv, SingleCopy, HandTracked, TypeOK, books
  <2>3. /\ rest \in Seq(Envelope) /\ JobsIn(rest) = JobsIn(default) \ {e.job}
        /\ e.job \in JobsIn(default)
    BY <2>2, LRemFacts, JobsOfList DEF JobsOf
  <2>4. /\ seen \in Envelope /\ seen.job = e.job
        /\ \/ dlq' = Append(dlq, seen) /\ default' = rest
           \/ default' = Append(rest, seen) /\ dlq' = dlq
    BY <2>1, <2>2, Recounted
  <2> HIDE DEF seen, rest
  <2>5. \/ JobsIn(dlq') = JobsIn(dlq) \cup {e.job} /\ default' = rest
        \/ JobsIn(default') = JobsIn(rest) \cup {e.job} /\ dlq' = dlq
    BY <2>3, <2>4, AppendJob
  <2> QED BY <2>2, <2>3, <2>5 DEF ListsMove, Listed, Queued, Dead, JobsOf
<1>11. CASE ReplayPop
  <2>1. /\ Head(dlq) \in Envelope /\ Head(dlq).job \in JobsIn(dlq)
        /\ JobsIn(dlq') = JobsIn(dlq) \ {Head(dlq).job}
    BY <1>11, TailFacts DEF ReplayPop, IInv, SingleCopy
  <2>2. /\ JobsOf(replaying) = {} /\ JobsOf(replaying') = {Head(dlq).job}
        /\ UNCHANGED <<prio, default, processing, pushed, completed>>
    BY <1>11 DEF ReplayPop, JobsOf, lanes, books
  <2> QED BY <2>1, <2>2 DEF ListsMove, Listed, Queued, Dead, JobsOf
<1>12. CASE ReplayPush
  <2>1. PICK h \in replaying : default' = Append(default, [h EXCEPT !.retries = 0])
    BY <1>12 DEF ReplayPush
  <2>2. PICK d \in Envelope : d.job = h.job /\ default' = Append(default, d)
    BY <2>1 DEF TypeOK, Envelope
  <2>3. JobsIn(default') = JobsIn(default) \cup {h.job} /\ h.job \in JobsOf(replaying)
    BY <2>2, AppendJob DEF JobsOf
  <2>4. JobsOf(replaying') = {} /\ UNCHANGED <<prio, processing, dlq, pushed, completed>>
    BY <1>12 DEF ReplayPush, JobsOf
  <2> QED BY <2>3, <2>4 DEF ListsMove, Listed, Queued, Dead, JobsOf
<1>13. CASE ReplayDies
  BY <1>13 DEF ReplayDies, lanes, books, ListsMove, Listed, Queued, Dead, JobsOf
<1> QED
  BY <1>1, <1>2, <1>3, <1>5, <1>7, <1>8, <1>9, <1>10, <1>11, <1>12, <1>13
  DEF Next, Producer, Consumer, Watchdog, Failure

\* The only windows through which a step loses a job are the one between the
\* two commands of fail_job and the one between the two of a replay.
THEOREM OnlyTwoLossWindows == Spec => LossWindows
<1>1. ListsMove => (Lost' \ Lost \subseteq FailWindow \cup JobsOf(replaying))
  BY DEF ListsMove, Listed, Lost, Limbo, FailWindow
<1>2. IInv /\ [Next]_vars => [Lost' \ Lost \subseteq FailWindow \cup JobsOf(replaying)]_vars
  BY <1>1, NextMoves
<1> QED BY InitIInv, NextIInv, <1>2, PTL DEF Spec, LossWindows

\* Nothing is completed before it was pushed.
LEMMA InitAck == Init => AckInv
<1> SUFFICES ASSUME Init PROVE AckInv
  OBVIOUS
<1>1. completed = {} /\ budget.kill = MaxKills /\ budget.fault = MaxFaults
  BY DEF Init
<1> QED BY <1>1, QueueAssumption DEF AckInv, WithinBudget

\* A step that acknowledges nothing and pushes nothing new keeps AckInv, if the
\* handler then holds nothing, what it held or what was queued, and if the
\* acknowledged job it lets go has been handed on or a death let go of it.
LEMMA AcksKept ==
  ASSUME IInv, IInv', AckInv, ListsMove,
         completed' = completed, pushed' = pushed, handed \subseteq handed',
         budget'["kill"] <= budget["kill"], budget'["fault"] <= budget["fault"],
         pc' \in Busy \ {"acked"} => \/ JobsOf(hand') \subseteq Queued
                                     \/ pc \in Busy \ {"acked"} /\ hand' = hand,
         \/ JobsOf(hand) \subseteq handed' \cup JobsOf(hand') \cup Queued
         \/ pc \in Busy \ {"acked"}
         \/ budget'["kill"] < budget["kill"]
  PROVE  AckInv'
<1> USE QueueAssumption
<1>1. /\ budget["kill"] \in Nat /\ budget["fault"] \in Nat
      /\ budget'["kill"] \in Nat /\ budget'["fault"] \in Nat
      /\ budget["kill"] <= MaxKills /\ budget["fault"] <= MaxFaults
  BY DEF IInv, TypeOK, AckInv, WithinBudget
<1>2. /\ budget'["kill"] <= MaxKills /\ budget'["fault"] <= MaxFaults
      /\ budget'["fault"] = MaxFaults => budget["fault"] = MaxFaults
      /\ budget'["kill"] = MaxKills => /\ budget["kill"] = MaxKills
                                       /\ ~(budget'["kill"] < budget["kill"])
  BY <1>1
<1>3. CASE budget'["fault"] # MaxFaults
  BY <1>2, <1>3 DEF AckInv, WithinBudget, ListsMove
<1>4. CASE budget'["fault"] = MaxFaults
  <2>1. /\ budget["fault"] = MaxFaults /\ completed \cap Listed = {}
        /\ pc \in Busy \ {"acked"} => completed \cap JobsOf(hand) = {}
    BY <1>2, <1>4 DEF AckInv
  <2>2. completed' \cap Listed' = {}
    BY <2>1 DEF ListsMove, Limbo, Busy
  <2>3. pc' \in Busy \ {"acked"} => completed' \cap JobsOf(hand') = {}
    BY <2>1 DEF Listed
  <2>4. HandsOff /\ budget'["kill"] = MaxKills =>
          completed' \ Malformed \subseteq handed' \cup JobsOf(hand')
    BY <1>2, <2>1 DEF AckInv, Listed
  <2> QED BY <1>2, <2>2, <2>3, <2>4 DEF AckInv, WithinBudget, ListsMove, HandsOff
<1> QED BY <1>3, <1>4

\* A step with an error in it owes no more than that only pushed jobs complete.
LEMMA AcksExcused ==
  ASSUME IInv, AckInv, Spend("fault"), pushed' = pushed,
         completed' \subseteq completed \cup JobsOf(hand)
  PROVE  AckInv'
<1>1. /\ budget'["kill"] <= MaxKills /\ budget'["fault"] < MaxFaults
      /\ budget'["fault"] # MaxFaults
  <2>1. /\ budget'["kill"] <= budget["kill"] /\ budget'["fault"] < budget["fault"]
    BY SpentFacts DEF IInv
  <2>2. /\ budget["kill"] \in Nat /\ budget["fault"] \in Nat
        /\ budget["kill"] <= MaxKills /\ budget["fault"] <= MaxFaults
    BY DEF IInv, TypeOK, AckInv, WithinBudget
  <2>3. budget'["kill"] \in Nat /\ budget'["fault"] \in Nat
    BY SpendKeepsType DEF IInv
  <2> QED BY <2>1, <2>2, <2>3, QueueAssumption
<1>2. completed' \subseteq pushed'
  BY DEF AckInv, IInv, HandTracked
<1>3. WithinBudget'
  <2>1. budget'["fault"] \in Nat
    BY SpendKeepsType DEF IInv
  <2> QED BY <1>1, <2>1, QueueAssumption DEF WithinBudget
<1> QED BY <1>1, <1>2, <1>3 DEF AckInv

\* Every action keeps AckInv.
THEOREM NextAck == IInv /\ AckInv /\ [Next]_vars => AckInv'
<1> SUFFICES ASSUME IInv, AckInv, [Next]_vars PROVE AckInv'
  OBVIOUS
<1>0. IInv' /\ TypeOK /\ ListsMove /\ budget["kill"] \in Nat /\ budget["fault"] \in Nat
  BY NextIInv, NextMoves DEF IInv, TypeOK
<1> USE <1>0
<1>1. ASSUME NEW j \in Jobs, NEW isPriority \in BOOLEAN, Push(j, isPriority)
      PROVE  AckInv'
  <2>1. /\ UNCHANGED <<budget, completed, hand, handed, pc>>
        /\ pushed' = pushed \cup {j} /\ j \notin pushed /\ Limbo \subseteq JobsOf(hand)
    BY <1>1 DEF Push, Limbo
  <2>2. Listed' \subseteq Listed \cup {j} \cup Limbo
    BY <2>1 DEF ListsMove
  <2>3. j \notin completed /\ (Limbo # {} => pc \in Busy \ {"acked"})
    BY <2>1 DEF AckInv, Limbo, Busy
  <2> QED BY <2>1, <2>2, <2>3 DEF AckInv, WithinBudget, HandsOff, JobsOf
<1>2. CASE ClaimPriority \/ ClaimDefault
  <2>1. PICK e \in hand' : hand' = {e} /\ e.job \in Queued
    <3>1. CASE ClaimPriority
      BY <3>1, LiveFacts, TailFacts DEF ClaimPriority, Take, Queued
    <3>2. CASE ClaimDefault
      BY <3>2, LiveFacts, TailFacts DEF ClaimDefault, Take, Queued
    <3> QED BY <1>2, <3>1, <3>2
  <2>2. JobsOf(hand) = {} /\ JobsOf(hand') \subseteq Queued
    BY <1>2, <2>1 DEF ClaimPriority, ClaimDefault, IInv, HandTracked, Busy, JobsOf
  <2> QED BY <1>2, <2>2, AcksKept DEF ClaimPriority, ClaimDefault, Take, books
<1>3. CASE \/ PriorityEmpty \/ ClaimTimeout \/ StampLease \/ WorkOk \/ WorkFails
           \/ FailRemove \/ Restart \/ SweepEnd \/ BootDone \/ UNCHANGED vars
  BY <1>3, AcksKept
  DEF PriorityEmpty, ClaimTimeout, StampLease, WorkOk, WorkFails, FailRemove, Restart,
      SweepEnd, BootDone, EnterFail, lanes, books, vars, Busy
<1>4. CASE HandOff \/ FailPush \/ CudaLost
  BY <1>4, AcksKept
  DEF HandOff, FailPush, CudaLost, lanes, books, Busy
<1>5. CASE SweepRewrite
  <2>1. JobsOf(hand) \subseteq Queued
    BY <1>5, LiveFacts, JobsOfList DEF SweepRewrite, IInv, HandTracked, Queued, JobsOf
  <2> QED BY <1>5, <2>1, AcksKept DEF SweepRewrite, books, Busy
<1>6. ASSUME NEW e \in processing, SweepMove(e) \/ BootMove(e)
      PROVE  AckInv'
  <2>1. JobsOf(hand) = {}
    BY <1>6 DEF SweepMove, BootMove, IInv, HandTracked, Busy, JobsOf
  <2> QED BY <1>6, <2>1, AcksKept DEF SweepMove, BootMove, books, Busy
<1>7. CASE Kill \/ Reboot \/ ReplayDies
  BY <1>7, SpentFacts, AcksKept DEF Kill, Reboot, ReplayDies, lanes, books, Busy
<1>8. CASE ReplayPop \/ ReplayPush
  BY <1>8, SpentFacts, AcksKept DEF ReplayPop, ReplayPush, lanes, books, Busy
<1>9. CASE \/ ClaimError \/ SweepError \/ BootSkip
           \/ \E applied \in BOOLEAN :
                \/ AckError(applied) \/ DiscardError(applied) \/ HandOffError(applied)
                \/ FailRemoveError(applied) \/ FailPushError(applied)
  <2>1. Spend("fault") /\ pushed' = pushed /\ completed' \subseteq completed \cup JobsOf(hand)
    BY <1>9
    DEF ClaimError, SweepError, BootSkip, AckError, DiscardError, HandOffError,
        FailRemoveError, FailPushError, Settle, lanes, books
  <2> QED BY <2>1, AcksExcused
<1>10. CASE Ack
  <2>1. PICK h \in hand : hand = {h} /\ JobsOf(hand) = {h.job}
    BY <1>10 DEF Ack, IInv, HandTracked, Busy, JobsOf
  <2>2. /\ processing' = processing \ hand /\ completed' = completed \cup {h.job}
        /\ UNCHANGED <<prio, default, dlq, replaying, budget, pushed, handed>>
    BY <1>10, <2>1 DEF Ack, Settle, lanes
  <2>3. h.job \in pushed
    BY <2>1 DEF IInv, HandTracked
  <2>4. h.job \notin Listed'
    <3>1. h.job \notin JobsOf(processing')
      BY <1>10, <2>1, <2>2 DEF Ack, IInv, HandTracked, SingleCopy, JobsOf
    <3>2. h.job \notin Queued \cup Dead
      BY <1>10, <2>1 DEF Ack, IInv, HandTracked, Busy, Elsewhere
    <3>3. Queued' = Queued /\ Dead' = Dead
      BY <2>2 DEF Queued, Dead, JobsOf
    <3> QED BY <3>1, <3>2, <3>3 DEF Listed
  <2>5. Listed' \subseteq Listed
    BY <1>10, <2>2 DEF ListsMove, Limbo, Ack
  <2>6. CASE HandsOff /\ pc = "done"
    <3>1. pc' = "acked" /\ hand' = hand
      BY <1>10, <2>6 DEF Ack
    <3> QED BY <2>1, <2>2, <2>3, <2>4, <2>5, <3>1 DEF AckInv, WithinBudget, HandsOff
  <2>7. CASE ~(HandsOff /\ pc = "done")
    <3>1. pc' = "idle" /\ hand' = {} /\ (HandsOff => h.job \in Malformed)
      BY <1>10, <2>1, <2>7 DEF Ack, Discards
    <3>2. HandsOff => completed' \ Malformed \subseteq completed \ Malformed
      BY <2>2, <3>1
    <3>3. HandsOff /\ budget.fault = MaxFaults /\ budget.kill = MaxKills =>
            completed' \ Malformed \subseteq handed
      BY <2>1, <3>1, <3>2 DEF AckInv
    <3> QED BY <2>2, <2>3, <2>4, <2>5, <3>1, <3>3 DEF AckInv, WithinBudget, HandsOff, Busy
  <2> QED BY <2>6, <2>7
<1> QED
  BY <1>1, <1>2, <1>3, <1>4, <1>5, <1>6, <1>7, <1>8, <1>9, <1>10
  DEF Next, Producer, Consumer, Watchdog, Failure

\* An acknowledged job is on no list again, unless an error came in between, and
\* frame_worker has handed it on, unless a death did.
THEOREM AcknowledgedIsFinal == Spec => []AckIsFinal
<1>1. Init => IInv /\ AckInv
  BY InitIInv, InitAck
<1>2. IInv /\ AckInv /\ [Next]_vars => (IInv /\ AckInv)'
  BY NextIInv, NextAck
<1>3. AckInv => AckIsFinal
  BY DEF AckInv, AckIsFinal, Listed
<1> QED BY <1>1, <1>2, <1>3, PTL DEF Spec

-----------------------------------------------------------------------------
(* The lifecycle *)

\* A job that is in a handler's hands and neither in PROCESSING nor on its way
\* back to a list has been acknowledged.
HandSettled ==
  /\ pc = "acked" => JobsOf(hand) \subseteq completed
  /\ pc = "failed" => hand \subseteq processing \/ JobsOf(hand) \subseteq completed

LifeInv == HandSettled /\ completed \subseteq pushed

\* Every action keeps LifeInv.
LEMMA NextLife == IInv /\ LifeInv /\ [Next]_vars => LifeInv'
<1> SUFFICES ASSUME IInv, LifeInv, [Next]_vars PROVE LifeInv'
  OBVIOUS
<1>1. pushed \subseteq pushed'
  BY NextMoves DEF ListsMove
<1>2. JobsOf(hand) \subseteq pushed
  BY DEF IInv, HandTracked
<1>3. CASE completed' = completed /\ pc' \notin {"acked", "failed"}
  BY <1>1, <1>3 DEF LifeInv, HandSettled
<1>4. CASE \/ Consumer \/ Watchdog \/ ReplayPop \/ ReplayPush \/ Producer
           \/ UNCHANGED vars
  <2>1. CASE WorkFails
    BY <1>1, <2>1 DEF WorkFails, EnterFail, lanes, LifeInv, HandSettled, IInv, HandTracked
  <2>2. CASE Ack
    BY <1>1, <1>2, <2>2 DEF Ack, Settle, lanes, LifeInv, HandSettled, JobsOf
  <2>3. CASE ReplayPop \/ ReplayPush \/ Producer \/ UNCHANGED vars
    BY <1>1, <2>3 DEF ReplayPop, ReplayPush, Producer, Push, lanes, books, vars, LifeInv,
                      HandSettled, JobsOf
  <2>4. CASE \/ ClaimPriority \/ PriorityEmpty \/ ClaimDefault \/ ClaimTimeout
             \/ StampLease \/ WorkOk \/ HandOff \/ FailRemove \/ FailPush
    <3>1. completed' = completed /\ pc' \notin {"acked", "failed"}
      BY <2>4 DEF ClaimPriority, PriorityEmpty, ClaimDefault, ClaimTimeout, Take,
         StampLease, WorkOk, HandOff, FailRemove, FailPush, lanes, books
    <3> QED BY <1>3, <3>1
  <2>5. CASE Watchdog
    <3>1. completed' = completed /\ pc' \notin {"acked", "failed"}
      BY <2>5 DEF Watchdog, Restart, SweepRewrite, SweepEnd, BootDone, SweepMove,
         BootMove, lanes, books
    <3> QED BY <1>3, <3>1
  <2> QED BY <1>4, <2>1, <2>2, <2>3, <2>4, <2>5 DEF Consumer
<1>5. CASE Failure
  <2>1. CASE \/ Kill \/ CudaLost \/ Reboot \/ ClaimError \/ SweepError \/ BootSkip
             \/ \E applied \in BOOLEAN : FailRemoveError(applied) \/ FailPushError(applied)
    <3>1. completed' = completed /\ pc' \notin {"acked", "failed"}
      BY <2>1 DEF Kill, CudaLost, Reboot, ClaimError, SweepError, BootSkip,
         FailRemoveError, FailPushError, AfterEscape, lanes, books
    <3> QED BY <1>3, <3>1
  <2>2. CASE ReplayDies
    BY <1>1, <2>2 DEF ReplayDies, lanes, books, LifeInv, HandSettled, JobsOf
  <2>3. ASSUME NEW applied \in BOOLEAN, AckError(applied)
        PROVE  LifeInv'
    <3>1. hand \subseteq processing /\ pc' = "failed" /\ hand' = hand /\ pushed' = pushed
      BY <2>3 DEF AckError, EnterFail, IInv, HandTracked
    <3>2. \/ UNCHANGED <<processing, completed>>
          \/ completed' = completed \cup JobsOf(hand)
      BY <2>3 DEF AckError, Settle
    <3> QED BY <1>1, <1>2, <3>1, <3>2 DEF LifeInv, HandSettled, JobsOf
  <2>4. ASSUME NEW applied \in BOOLEAN, DiscardError(applied)
        PROVE  LifeInv'
    <3>1. pc' = "down" /\ completed' \subseteq completed \cup JobsOf(hand)
      BY <2>4 DEF DiscardError, Settle
    <3> QED BY <1>1, <1>2, <3>1 DEF LifeInv, HandSettled
  <2>5. ASSUME NEW applied \in BOOLEAN, HandOffError(applied)
        PROVE  LifeInv'
    BY <1>1, <2>5 DEF HandOffError, EnterFail, lanes, LifeInv, HandSettled, JobsOf
  <2> QED BY <1>5, <2>1, <2>2, <2>3, <2>4, <2>5 DEF Failure
<1> QED BY <1>4, <1>5 DEF Next

\* The edges of JobLifecycle.
Edge(from, to) ==
  \/ from = to
  \/ from = "new" /\ to = "queued"
  \/ from = "queued" /\ to = "processing"
  \/ from = "processing" /\ to \in {"completed", "queued", "dead", "lost"}
  \/ from = "dead" /\ to \in {"queued", "lost", "completed"}
  \/ from = "completed" /\ to \in {"queued", "dead"}

\* The step changes nothing that Status looks at, except for job k.
SameBut(k) ==
  /\ Swept' \ {k} = Swept \ {k} /\ Limbo' \ {k} = Limbo \ {k}
  /\ Queued' \ {k} = Queued \ {k} /\ JobsOf(processing') \ {k} = JobsOf(processing) \ {k}
  /\ Dead' \ {k} = Dead \ {k} /\ completed' \ {k} = completed \ {k}
  /\ pushed' \ {k} = pushed \ {k}

\* What Status makes of a job.
LEMMA StatusOf ==
  \A j \in Jobs : Status[j] =
    IF j \in Swept \cup (Limbo \ completed) THEN "processing"
    ELSE IF j \in Queued THEN "queued"
    ELSE IF j \in JobsOf(processing) THEN "processing"
    ELSE IF j \in Dead THEN "dead"
    ELSE IF j \in completed THEN "completed"
    ELSE IF j \in pushed THEN "lost" ELSE "new"
  BY DEF Status

\* A step that moves one job along an edge is a step of JobLifecycle.
LEMMA EdgeIsStep ==
  ASSUME NEW k \in Jobs, SameBut(k), Edge(Status[k], Status'[k])
  PROVE  [Lifecycle!Next]_Status
<1>1. \A j \in Jobs \ {k} : Status'[j] = Status[j]
  BY StatusOf DEF SameBut, Status
<1>2. Status' = [Status EXCEPT ![k] = Status'[k]]
  BY <1>1 DEF Status
<1>3. CASE Status[k] = Status'[k]
  BY <1>1, <1>2, <1>3 DEF Status
<1>4. CASE Status[k] # Status'[k]
  BY <1>2, <1>4 DEF Edge, Lifecycle!Next, Lifecycle!Push, Lifecycle!Claim,
     Lifecycle!Complete, Lifecycle!Requeue, Lifecycle!Bury, Lifecycle!Replay,
     Lifecycle!Lose, Lifecycle!Reopen, Lifecycle!Reclose, Lifecycle!Move
<1> QED BY <1>3, <1>4

\* And of the same job after a step.
LEMMA StatusAfter ==
  \A j \in Jobs : Status'[j] =
    IF j \in Swept' \cup (Limbo' \ completed') THEN "processing"
    ELSE IF j \in Queued' THEN "queued"
    ELSE IF j \in JobsOf(processing') THEN "processing"
    ELSE IF j \in Dead' THEN "dead"
    ELSE IF j \in completed' THEN "completed"
    ELSE IF j \in pushed' THEN "lost" ELSE "new"
  BY DEF Status, JobsOf

\* A step that changes nothing Status looks at is a stutter of JobLifecycle.
LEMMA Unmoved ==
  ASSUME Swept' = Swept, Limbo' = Limbo, Queued' = Queued,
         JobsOf(processing') = JobsOf(processing), Dead' = Dead,
         completed' = completed, pushed' = pushed
  PROVE  [Lifecycle!Next]_Status
<1>1. Status' = Status
  BY DEF Status, JobsOf
<1> QED BY <1>1

\* A handler that is not between two commands of fail_job or of the sweep has
\* nothing in limbo.
LEMMA NoLimbo ==
  /\ pc # "removed" => Limbo = {}
  /\ pc # "moved" => Swept = {}
  /\ pc' # "removed" => Limbo' = {}
  /\ pc' # "moved" => Swept' = {}
  BY DEF Limbo, Swept

\* A handler or a sweep holds one envelope, of one job.
LEMMA HoldsOne ==
  ASSUME IInv, pc \in Busy \cup {"moved"}
  PROVE  \E h \in hand : hand = {h} /\ JobsOf(hand) = {h.job} /\ h.job \in Jobs /\ h \in Envelope
<1>1. PICK h \in hand : hand = {h}
  BY DEF IInv, HandTracked
<1>2. h \in Envelope /\ h.job \in Jobs
  BY DEF IInv, TypeOK, Envelope
<1>3. JobsOf(hand) = {h.job}
  BY <1>1 DEF JobsOf
<1> QED BY <1>1, <1>2, <1>3

\* What the sweep has moved is queued.
LEMMA SweptIsQueued ==
  ASSUME IInv
  PROVE  Swept \subseteq Queued
<1>1. JobsIn(default) = JobsOf(ToSet(default))
  BY JobsOfList DEF IInv, TypeOK
<1> QED BY <1>1 DEF IInv, HandTracked, Swept, Queued, JobsOf

\* A claim moves one job from a lane to PROCESSING.
LEMMA ClaimMoves ==
  ASSUME IInv, NEW s \in {prio, default}, s # <<>>, Take(Head(s))
  PROVE  /\ Head(s).job \in JobsIn(s) /\ Head(s).job \in Jobs
         /\ JobsIn(Tail(s)) = JobsIn(s) \ {Head(s).job}
         /\ JobsOf(processing') = JobsOf(processing) \cup {Head(s).job}
<1>1. s \in Seq(Envelope) /\ Distinct(s)
  BY DEF IInv, TypeOK, SingleCopy
<1>2. /\ Head(s) \in Envelope /\ Head(s).job \in JobsIn(s)
      /\ JobsIn(Tail(s)) = JobsIn(s) \ {Head(s).job}
  BY <1>1, TailFacts
<1>3. Head(s).job \in Jobs
  BY <1>2 DEF Envelope
<1> QED BY <1>2, <1>3 DEF Take, JobsOf

\* Every step of the queue is a step of the lifecycle or none at all.
THEOREM NextLifecycle == IInv /\ OneReplay /\ LifeInv /\ [Next]_vars => [Lifecycle!Next]_Status
<1> SUFFICES ASSUME IInv, OneReplay, LifeInv, [Next]_vars PROVE [Lifecycle!Next]_Status
  OBVIOUS
<1>0. /\ TypeOK /\ prio \in Seq(Envelope) /\ default \in Seq(Envelope)
      /\ dlq \in Seq(Envelope)
  BY DEF IInv, TypeOK
<1> USE <1>0
<1>1. ASSUME NEW j \in Jobs, NEW isPriority \in BOOLEAN, Push(j, isPriority)
      PROVE  [Lifecycle!Next]_Status
  <2>1. Fresh(j) \in Envelope /\ Fresh(j).job = j
    BY FreshIsEnvelope
  <2>2. \/ JobsIn(prio') = JobsIn(prio) \cup {j} /\ default' = default
        \/ JobsIn(default') = JobsIn(default) \cup {j} /\ prio' = prio
    BY <1>1, <2>1, AppendJob DEF Push
  <2>3. /\ Queued' = Queued \cup {j} /\ Dead' = Dead /\ Limbo' = Limbo /\ Swept' = Swept
        /\ JobsOf(processing') = JobsOf(processing)
        /\ pushed' = pushed \cup {j} /\ completed' = completed /\ j \notin pushed
    BY <1>1, <2>2 DEF Push, Queued, Dead, Limbo, Swept
  <2>4. Status[j] = "new"
    <3>1. /\ Queued \cup JobsOf(processing) \cup Dead \cup JobsOf(hand) \subseteq pushed
          /\ completed \subseteq pushed
      BY DEF IInv, HandTracked, LifeInv
    <3>2. j \notin Swept \cup Limbo \cup Queued \cup JobsOf(processing) \cup Dead \cup completed
      BY <2>3, <3>1 DEF Swept, Limbo
    <3> QED BY <2>3, <3>2, StatusOf
  <2>5. Status'[j] = "queued"
    <3>1. j \notin Swept' \cup Limbo' /\ j \in Queued'
      BY <2>3 DEF Swept, Limbo, IInv, HandTracked
    <3> QED BY <3>1, StatusAfter
  <2> QED BY <2>3, <2>4, <2>5, EdgeIsStep DEF SameBut, Edge
<1>2. CASE ClaimPriority \/ ClaimDefault
  <2>1. PICK k \in Queued :
          /\ Queued' = Queued \ {k} /\ JobsOf(processing') = JobsOf(processing) \cup {k}
          /\ k \in Jobs
    <3>1. CASE ClaimPriority
      <4>1. /\ Head(prio).job \in JobsIn(prio) /\ Head(prio).job \in Jobs
            /\ JobsIn(prio') = JobsIn(prio) \ {Head(prio).job}
            /\ JobsOf(processing') = JobsOf(processing) \cup {Head(prio).job}
            /\ default' = default
        BY <3>1, ClaimMoves DEF ClaimPriority
      <4> QED BY <4>1 DEF Queued, IInv, SingleCopy
    <3>2. CASE ClaimDefault
      <4>1. /\ Head(default).job \in JobsIn(default) /\ Head(default).job \in Jobs
            /\ JobsIn(default') = JobsIn(default) \ {Head(default).job}
            /\ JobsOf(processing') = JobsOf(processing) \cup {Head(default).job}
            /\ prio' = prio
        BY <3>2, ClaimMoves DEF ClaimDefault
      <4> QED BY <4>1 DEF Queued, IInv, SingleCopy
    <3> QED BY <1>2, <3>1, <3>2
  <2>2. /\ Swept = {} /\ Limbo = {} /\ Swept' = {} /\ Limbo' = {}
        /\ Dead' = Dead /\ completed' = completed /\ pushed' = pushed
    BY <1>2, NoLimbo DEF ClaimPriority, ClaimDefault, Take, books, Dead
  <2>3. Status[k] = "queued" /\ Status'[k] = "processing"
    BY <2>1, <2>2, StatusOf, StatusAfter
  <2> QED BY <2>1, <2>2, <2>3, EdgeIsStep DEF SameBut, Edge
<1>3. CASE \/ PriorityEmpty \/ ClaimTimeout \/ StampLease \/ WorkOk \/ WorkFails
           \/ HandOff \/ Restart \/ SweepEnd \/ BootDone \/ BootSkip \/ CudaLost
           \/ ClaimError \/ AckError(FALSE) \/ DiscardError(FALSE)
           \/ FailRemoveError(FALSE) \/ UNCHANGED vars
           \/ \E applied \in BOOLEAN : HandOffError(applied)
           \/ (Kill \/ Reboot \/ SweepError) /\ pc \notin {"moved", "removed"}
  <2>1. /\ UNCHANGED <<prio, default, dlq, processing, replaying, completed, pushed>>
        /\ \/ pc \notin {"moved", "removed"} /\ pc' \notin {"moved", "removed"}
           \/ UNCHANGED <<pc, hand>>
    BY <1>3 DEF PriorityEmpty, ClaimTimeout, StampLease, WorkOk, WorkFails, HandOff,
       Restart, SweepEnd, BootDone, BootSkip, CudaLost, ClaimError, AckError,
       DiscardError, FailRemoveError, HandOffError, Kill, Reboot, SweepError, EnterFail,
       AfterEscape, lanes, books, vars
  <2>2. Swept' = Swept /\ Limbo' = Limbo
    BY <2>1 DEF Swept, Limbo
  <2> QED BY <2>1, <2>2, Unmoved DEF Queued, Dead
<1>4. CASE (Kill \/ Reboot \/ SweepError) /\ pc \in {"moved", "removed"}
  <2>1. PICK h \in hand : hand = {h} /\ JobsOf(hand) = {h.job} /\ h.job \in Jobs
    BY <1>4, HoldsOne DEF Busy
  <2>2. /\ UNCHANGED <<prio, default, dlq, processing, replaying, completed, pushed>>
        /\ pc' \notin {"moved", "removed"}
    BY <1>4 DEF Kill, Reboot, SweepError, lanes
  <2>3. /\ Queued' = Queued /\ Dead' = Dead /\ Swept' = {} /\ Limbo' = {}
        /\ JobsOf(processing') = JobsOf(processing)
    BY <2>2, NoLimbo DEF Queued, Dead
  <2>4. CASE pc = "moved"
    <3>1. Limbo = {} /\ Swept = {h.job}
      BY <2>1, <2>4 DEF Limbo, Swept
    <3>2. h.job \in Queued
      BY <3>1, SweptIsQueued
    <3>3. Status[h.job] = "processing" /\ Status'[h.job] = "queued"
      BY <2>1, <2>3, <3>1, <3>2, StatusOf, StatusAfter
    <3> QED BY <2>1, <2>2, <2>3, <3>1, <3>3, EdgeIsStep DEF SameBut, Edge
  <2>5. CASE pc = "removed"
    <3>1. Limbo = {h.job} /\ Swept = {}
      BY <2>1, <2>5 DEF Limbo, Swept
    <3>2. h.job \notin Queued \cup JobsOf(processing) \cup Dead /\ h.job \in pushed
      BY <2>1, <2>5 DEF IInv, HandTracked, Busy, Elsewhere
    <3>3. \/ Status[h.job] = "completed" /\ Status'[h.job] = "completed"
          \/ Status[h.job] = "processing" /\ Status'[h.job] = "lost"
      BY <2>1, <2>2, <2>3, <3>1, <3>2, StatusOf, StatusAfter
    <3> QED BY <2>1, <2>2, <2>3, <3>1, <3>3, EdgeIsStep DEF SameBut, Edge
  <2> QED BY <1>4, <2>4, <2>5
<1>5. ASSUME pc \in {"working", "done"}, pc' \in {"acked", "idle", "failed", "down"},
             Settle, UNCHANGED <<prio, default, dlq, replaying, pushed>>
      PROVE  [Lifecycle!Next]_Status
  <2>1. PICK h \in hand : hand = {h} /\ JobsOf(hand) = {h.job} /\ h.job \in Jobs
    BY <1>5, HoldsOne DEF Busy
  <2>2. /\ h.job \in JobsOf(processing) /\ h.job \notin Queued \cup Dead
        /\ JobsOf(processing') = JobsOf(processing) \ {h.job}
    BY <1>5, <2>1 DEF IInv, HandTracked, SingleCopy, Busy, Elsewhere, JobsOf, Settle
  <2>3. /\ Queued' = Queued /\ Dead' = Dead /\ Swept = {} /\ Limbo = {}
        /\ Swept' = {} /\ Limbo' = {} /\ completed' = completed \cup {h.job}
    BY <1>5, <2>1, NoLimbo DEF Queued, Dead, Settle
  <2>4. Status[h.job] = "processing" /\ Status'[h.job] = "completed"
    BY <2>1, <2>2, <2>3, StatusOf, StatusAfter
  <2> QED BY <1>5, <2>1, <2>2, <2>3, <2>4, EdgeIsStep DEF SameBut, Edge
<1>6. CASE Ack \/ AckError(TRUE) \/ DiscardError(TRUE)
  BY <1>5, <1>6 DEF Ack, AckError, DiscardError, EnterFail, lanes
<1>7. ASSUME pc = "failed", processing' = processing \ hand,
             \/ pc' = "removed" /\ hand' = hand
             \/ pc' \in {"idle", "down"},
             UNCHANGED <<prio, default, dlq, replaying, pushed, completed>>
      PROVE  [Lifecycle!Next]_Status
  <2>1. PICK h \in hand : hand = {h} /\ JobsOf(hand) = {h.job} /\ h.job \in Jobs
    BY <1>7, HoldsOne DEF Busy
  <2>2. /\ h.job \in JobsOf(processing) \/ h.job \in completed
        /\ h.job \notin Queued \cup Dead /\ h.job \in pushed
        /\ JobsOf(processing') = JobsOf(processing) \ {h.job}
    BY <1>7, <2>1
    DEF IInv, HandTracked, SingleCopy, Busy, Elsewhere, JobsOf, LifeInv, HandSettled
  <2>3. /\ Queued' = Queued /\ Dead' = Dead /\ Swept = {} /\ Limbo = {}
        /\ Swept' = {} /\ (Limbo' = {} \/ Limbo' = {h.job})
    BY <1>7, <2>1, NoLimbo DEF Queued, Dead, Limbo, JobsOf
  <2>4. CASE h.job \in JobsOf(processing)
    <3>1. /\ Status[h.job] = "processing"
          /\ Status'[h.job] \in {"processing", "completed", "lost"}
      BY <1>7, <2>1, <2>2, <2>3, <2>4, StatusOf, StatusAfter
    <3> QED BY <1>7, <2>1, <2>2, <2>3, <3>1, EdgeIsStep DEF SameBut, Edge
  <2>5. CASE h.job \notin JobsOf(processing)
    <3>1. Status[h.job] = "completed" /\ Status'[h.job] = "completed"
      BY <1>7, <2>1, <2>2, <2>3, <2>5, StatusOf, StatusAfter
    <3> QED BY <1>7, <2>1, <2>2, <2>3, <3>1, EdgeIsStep DEF SameBut, Edge
  <2> QED BY <2>4, <2>5
<1>8. CASE FailRemove \/ FailRemoveError(TRUE)
  BY <1>7, <1>8 DEF FailRemove, FailRemoveError, AfterEscape, lanes, books
<1>9. CASE FailPush \/ FailPushError(TRUE) \/ FailPushError(FALSE)
  <2>1. /\ pc = "removed" /\ pc' \in {"idle", "down"}
        /\ UNCHANGED <<prio, processing, replaying, completed, pushed>>
    BY <1>9 DEF FailPush, FailPushError, AfterEscape, books
  <2>2. PICK h \in hand : /\ hand = {h} /\ JobsOf(hand) = {h.job} /\ h.job \in Jobs
                          /\ h \in Envelope
    BY <2>1, HoldsOne DEF Busy
  <2>3. /\ h.job \notin Queued \cup JobsOf(processing) \cup Dead /\ h.job \in pushed
    BY <2>1, <2>2 DEF IInv, HandTracked, Busy, Elsewhere
  <2>4. \/ UNCHANGED <<default, dlq>>
        \/ JobsIn(default') = JobsIn(default) \cup {h.job} /\ dlq' = dlq
        \/ default' = default /\ JobsIn(dlq') = JobsIn(dlq) \cup {h.job}
    <3>1. UNCHANGED <<default, dlq>> \/ Retry(h) \/ Bury(h)
      BY <1>9, <2>2 DEF FailPush, FailPushError
    <3>2. CASE Retry(h)
      BY <2>2, <3>2, Retried, AppendJob DEF Retry
    <3>3. CASE Bury(h)
      BY <2>2, <3>3, AppendJob DEF Bury
    <3> QED BY <3>1, <3>2, <3>3
  <2>5. /\ Limbo = {h.job} /\ Swept = {} /\ Limbo' = {} /\ Swept' = {}
        /\ JobsOf(processing') = JobsOf(processing)
        /\ \/ Queued' = Queued /\ Dead' = Dead
           \/ Queued' = Queued \cup {h.job} /\ Dead' = Dead
           \/ Queued' = Queued /\ Dead' = Dead \cup {h.job}
    BY <2>1, <2>2, <2>4 DEF Limbo, Swept, Queued, Dead
  <2>6. Status[h.job] = IF h.job \in completed THEN "completed" ELSE "processing"
    BY <2>2, <2>3, <2>5, StatusOf
  <2>7. \/ Status'[h.job] \in {"queued", "dead"}
        \/ Status'[h.job] = IF h.job \in completed THEN "completed" ELSE "lost"
    BY <2>1, <2>2, <2>3, <2>5, StatusAfter
  <2>8. Edge(Status[h.job], Status'[h.job])
    BY <2>6, <2>7 DEF Edge
  <2> QED BY <2>1, <2>2, <2>5, <2>8, EdgeIsStep DEF SameBut
<1>10. ASSUME NEW e \in processing, SweepMove(e) \/ BootMove(e)
       PROVE  [Lifecycle!Next]_Status
  <2>1. /\ e \in Envelope /\ e.job \in Jobs /\ default' = Append(default, e)
        /\ processing' = processing \ {e}
        /\ UNCHANGED <<prio, dlq, replaying, completed, pushed>>
        /\ pc \notin {"moved", "removed"}
        /\ \/ pc' = "moved" /\ hand' = {e}
           \/ pc' = "boot"
    BY <1>10 DEF SweepMove, BootMove, TypeOK, Envelope, books
  <2>2. /\ JobsIn(default') = JobsIn(default) \cup {e.job}
        /\ JobsOf(processing') = JobsOf(processing) \ {e.job}
        /\ e.job \in JobsOf(processing) /\ e.job \notin Queued \cup Dead
    BY <2>1, AppendJob DEF IInv, SingleCopy, JobsOf
  <2>3. /\ Queued' = Queued \cup {e.job} /\ Dead' = Dead /\ Limbo = {} /\ Swept = {}
        /\ Limbo' = {} /\ Swept' \subseteq {e.job}
    BY <2>1, <2>2 DEF Queued, Dead, Limbo, Swept, JobsOf
  <2>4. Status[e.job] = "processing" /\ Status'[e.job] \in {"processing", "queued"}
    BY <2>1, <2>2, <2>3, StatusOf, StatusAfter
  <2> QED BY <2>1, <2>2, <2>3, <2>4, EdgeIsStep DEF SameBut, Edge
<1>11. CASE SweepRewrite
  <2>1. PICK e \in hand : LET seen == [e EXCEPT !.recoveries = @ + 1]
                              rest == LRem(default, e)
                          IN IF seen.recoveries > MaxRecoveries
                               THEN dlq' = Append(dlq, seen) /\ default' = rest
                               ELSE default' = Append(rest, seen) /\ UNCHANGED dlq
    BY <1>11 DEF SweepRewrite
  <2> DEFINE rest == LRem(default, e)
             seen == [e EXCEPT !.recoveries = @ + 1]
  <2>2. /\ e \in Envelope /\ e.job \in Jobs /\ e \in ToSet(default) /\ Distinct(default)
        /\ hand = {e} /\ pc = "moved" /\ pc' = "sweep"
        /\ UNCHANGED <<prio, processing, replaying, pushed, completed>>
    BY <1>11 DEF SweepRewrite, IInv, SingleCopy, HandTracked, TypeOK, Envelope, books
  <2>3. /\ rest \in Seq(Envelope) /\ JobsIn(rest) = JobsIn(default) \ {e.job}
        /\ e.job \in JobsIn(default)
    BY <2>2, LRemFacts, JobsOfList DEF JobsOf
  <2>4. /\ seen \in Envelope /\ seen.job = e.job
        /\ \/ dlq' = Append(dlq, seen) /\ default' = rest
           \/ default' = Append(rest, seen) /\ dlq' = dlq
    BY <2>1, <2>2, Recounted
  <2> HIDE DEF seen, rest
  <2>5. \/ JobsIn(dlq') = JobsIn(dlq) \cup {e.job} /\ default' = rest
        \/ JobsIn(default') = JobsIn(rest) \cup {e.job} /\ dlq' = dlq
    BY <2>3, <2>4, AppendJob
  <2>6. e.job \notin JobsIn(prio) \cup JobsOf(processing) \cup Dead
    BY <2>3 DEF IInv, SingleCopy, Queued
  <2>7. /\ Limbo = {} /\ Swept = {e.job} /\ Limbo' = {} /\ Swept' = {}
        /\ JobsOf(processing') = JobsOf(processing)
        /\ \/ Queued' = Queued \ {e.job} /\ Dead' = Dead \cup {e.job}
           \/ Queued' = Queued /\ Dead' = Dead /\ e.job \in Queued
    BY <2>2, <2>3, <2>5, <2>6 DEF Limbo, Swept, Queued, Dead, JobsOf
  <2>8. Status[e.job] = "processing" /\ Status'[e.job] \in {"queued", "dead"}
    BY <2>2, <2>6, <2>7, StatusOf, StatusAfter
  <2> QED BY <2>2, <2>7, <2>8, EdgeIsStep DEF SameBut, Edge
<1>12. CASE ReplayPop
  <2>1. /\ Head(dlq) \in Envelope /\ Head(dlq).job \in JobsIn(dlq)
        /\ JobsIn(dlq') = JobsIn(dlq) \ {Head(dlq).job}
    BY <1>12, TailFacts DEF ReplayPop, IInv, SingleCopy
  <2>2. /\ JobsOf(replaying) = {} /\ JobsOf(replaying') = {Head(dlq).job}
        /\ UNCHANGED <<prio, default, processing, pushed, completed, pc, hand>>
    BY <1>12 DEF ReplayPop, JobsOf, lanes, books
  <2> QED BY <2>1, <2>2, Unmoved DEF Queued, Dead, Swept, Limbo
<1>13. CASE ReplayPush
  <2>1. PICK h \in replaying : default' = Append(default, [h EXCEPT !.retries = 0])
    BY <1>13 DEF ReplayPush
  <2>2. PICK d \in Envelope : d.job = h.job /\ default' = Append(default, d)
    BY <2>1 DEF TypeOK, Envelope
  <2>3. /\ JobsIn(default') = JobsIn(default) \cup {h.job} /\ h.job \in JobsOf(replaying)
        /\ h.job \in Jobs
    BY <2>2, AppendJob DEF JobsOf, Envelope
  <2>4. /\ replaying' = {}
        /\ UNCHANGED <<prio, processing, dlq, pushed, completed, pc, hand>>
    BY <1>13 DEF ReplayPush
  <2>5. \A f \in replaying : f = h
    BY DEF OneReplay
  <2>6. /\ h.job \in Dead
        /\ h.job \notin JobsIn(dlq) \cup Queued \cup JobsOf(processing) \cup Limbo \cup Swept
    BY <2>3, SweptIsQueued DEF Dead, IInv, SingleCopy
  <2>7. /\ Queued' = Queued \cup {h.job} /\ Dead' = Dead \ {h.job}
        /\ Swept' = Swept /\ Limbo' = Limbo /\ JobsOf(processing') = JobsOf(processing)
    BY <2>3, <2>4, <2>5, <2>6 DEF Queued, Dead, Swept, Limbo, JobsOf
  <2>8. Status[h.job] = "dead" /\ Status'[h.job] = "queued"
    BY <2>3, <2>6, <2>7, StatusOf, StatusAfter
  <2> QED BY <2>3, <2>4, <2>7, <2>8, EdgeIsStep DEF SameBut, Edge
<1>14. CASE ReplayDies
  <2>1. PICK h \in replaying : TRUE
    BY <1>14 DEF ReplayDies
  <2>2. \A f \in replaying : f = h
    BY DEF OneReplay
  <2>3. h.job \in JobsOf(replaying) /\ h.job \in Jobs
    BY <2>1 DEF JobsOf, TypeOK, Envelope
  <2>4. /\ h.job \in Dead
        /\ h.job \notin JobsIn(dlq) \cup Queued \cup JobsOf(processing) \cup Limbo \cup Swept
    BY <2>3, SweptIsQueued DEF Dead, IInv, SingleCopy
  <2>5. /\ replaying' = {}
        /\ UNCHANGED <<prio, default, processing, dlq, pushed, completed, pc, hand>>
    BY <1>14 DEF ReplayDies, lanes, books
  <2>6. /\ Queued' = Queued /\ Dead' = Dead \ {h.job}
        /\ Swept' = Swept /\ Limbo' = Limbo /\ JobsOf(processing') = JobsOf(processing)
    BY <2>2, <2>4, <2>5 DEF Queued, Dead, Swept, Limbo, JobsOf
  <2>7. Status[h.job] = "dead" /\ Status'[h.job] \in {"completed", "lost"}
    <3>1. h.job \in pushed
      BY <2>4 DEF IInv, HandTracked
    <3> QED BY <2>3, <2>4, <2>5, <2>6, <3>1, StatusOf, StatusAfter
  <2> QED BY <2>3, <2>5, <2>6, <2>7, EdgeIsStep DEF SameBut, Edge
<1> QED
  <2>1. ASSUME NEW applied \in BOOLEAN,
               AckError(applied) \/ DiscardError(applied) \/ FailRemoveError(applied)
                 \/ FailPushError(applied)
        PROVE  [Lifecycle!Next]_Status
    <3>1. applied = TRUE \/ applied = FALSE
      OBVIOUS
    <3> QED BY <1>3, <1>6, <1>8, <1>9, <2>1, <3>1
  <2>2. CASE Producer \/ Consumer \/ Watchdog \/ ReplayPop \/ ReplayPush \/ UNCHANGED vars
    BY <1>1, <1>2, <1>3, <1>6, <1>8, <1>9, <1>10, <1>11, <1>12, <1>13, <2>2
    DEF Producer, Consumer, Watchdog
  <2>3. CASE Failure
    BY <1>3, <1>4, <1>14, <2>1, <2>3 DEF Failure
  <2> QED BY <2>2, <2>3 DEF Next

\* The queue implements the lifecycle of queue_manager.py's header comment, for
\* every job and whatever dies in between.
THEOREM ImplementsLifecycle == Spec => LifecycleSpec
<1>1. Init => IInv /\ OneReplay /\ LifeInv
  BY InitIInv DEF Init, LifeInv, HandSettled, OneReplay
<1>2. Init => Lifecycle!Init
  <2> SUFFICES ASSUME Init PROVE Lifecycle!Init
    OBVIOUS
  <2>1. /\ Swept = {} /\ Limbo = {} /\ Queued = {} /\ JobsOf(processing) = {}
        /\ Dead = {} /\ completed = {} /\ pushed = {}
    BY DEF Init, Swept, Limbo, Queued, Dead, JobsOf, JobsIn
  <2>2. \A j \in Jobs : Status[j] = "new"
    BY <2>1, StatusOf
  <2>3. Status = [j \in Jobs |-> "new"]
    BY <2>2 DEF Status
  <2> QED BY <2>3 DEF Lifecycle!Init
<1>3. IInv /\ OneReplay /\ LifeInv /\ [Next]_vars => (IInv /\ OneReplay /\ LifeInv)'
  BY NextIInv, NextReplay, NextLife
<1> QED BY <1>1, <1>2, <1>3, NextLifecycle, PTL DEF Spec, LifecycleSpec, Lifecycle!Spec
=============================================================================
