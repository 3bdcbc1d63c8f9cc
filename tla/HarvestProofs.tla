---------------------------- MODULE HarvestProofs ----------------------------
(***************************************************************************)
(* Proofs about Harvest: no job of a harvested video is queued twice, and  *)
(* a post that is Harvested has its job somewhere, for any number of       *)
(* videos and categories and any order of scans, failures and deaths.      *)
(*                                                                         *)
(* The argument.  The dedup set and the queue change together but for one  *)
(* window, the worker between SADD and push: OnceInv counts the jobs of a  *)
(* video and that window as one, and says that a video outside the set has *)
(* neither.  A video enters the set only when its post is Harvested, and   *)
(* the worker downloads only what is not (UnderInv): so the SADD that      *)
(* finds the video in the set already, and pushes nothing, never happens   *)
(* to a post that has no job.                                              *)
(***************************************************************************)
EXTENDS Harvest, FiniteSetTheorems, WellFoundedInduction, SequenceTheorems, TLAPS

GhostPcs == {"down", "top", "ready", "scan", "batch", "select", "get", "save", "add", "push",
             "sleep"}

\* The worker has a video in hand.
InHand == ghost.pc \in {"get", "save", "add", "push", "sleep"}

LakeTyped ==
    /\ channel \subseteq Videos /\ scanned \subseteq channel /\ file \subseteq channel
    /\ post \in [Videos -> {"none", "meta", "harvested"}]
    /\ \A v \in Videos \ scanned: post[v] = "none"
    /\ retry \in [Videos -> [n: Nat, s: {"due", "wait", "terminal"}]]

CatsTyped == local \in Seq(Categories) /\ admin \in Seq(Categories)

GhostTyped ==
    /\ ghost \in [pc: GhostPcs, v: Videos \cup {NoVideo}, missing: SUBSET channel]
    /\ InHand => ghost.v \in channel

JobsTyped ==
    /\ queue \in [Videos -> Nat]
    /\ \A v \in Videos: queue[v] > 0 => v \in channel
    /\ dedup \subseteq channel /\ held \subseteq channel /\ dead \subseteq channel

CvTyped ==
    /\ cv \in [pc: {"down", "idle", "work", "done"}, v: Videos \cup {NoVideo}]
    /\ cv.pc \in {"work", "done"} => cv.v \in channel
    /\ framed \subseteq channel /\ analyze \subseteq channel

FlagsTyped == schema \in BOOLEAN /\ trigger \in BOOLEAN /\ stamp \in BOOLEAN

PanelTyped == panel \subseteq [do: {"push", "rows", "dedup"}, frames: SUBSET channel,
                              videos: SUBSET channel]

Typed == /\ ControlTypeOK /\ LakeTyped /\ CatsTyped /\ GhostTyped /\ JobsTyped /\ CvTyped
         /\ FlagsTyped /\ PanelTyped

\* The worker is between the dedup set and the queue.
AtPush(v) == ghost.pc = "push" /\ ghost.v = v

\* A reset that never began is not under way.
ResetInv == No({"reset"}) => reset.pc = "idle"

\* A request of the panel that was never made is not under way.
PanelInv == \A r \in panel: IF r.do = "push" THEN "prioritize" \in happened
                           ELSE "cleanup" \in happened

OnceInv ==
    No({"prioritize", "cleanup", "redis", "reset"})
    => \A v \in Videos: /\ JobsOf(v) <= 1
                        /\ AtPush(v) => JobsOf(v) = 0 /\ v \in dedup
                        /\ v \notin dedup => JobsOf(v) = 0
                        /\ No({"cv", "boot"}) /\ v \in framed
                           => JobsOf(v) = 0 /\ ~AtPush(v) /\ v \in dedup

UnderInv ==
    No({"ui", "boot", "redis", "push", "reset", "cleanup"})
    => /\ \A v \in Videos: post[v] = "harvested" => Underway(v)
       /\ \A v \in dedup: post[v] = "harvested"
       /\ ghost.pc \in {"get", "save"} => post[ghost.v] = "meta"
       /\ ghost.pc \in {"add", "push"} => post[ghost.v] = "harvested"
       /\ ghost.pc = "add" => ghost.v \notin dedup
       /\ cv.pc = "done" => cv.v \in framed

IInv == Typed /\ ResetInv /\ PanelInv /\ OnceInv /\ UnderInv

-----------------------------------------------------------------------------
(***************************************************************************)
(* Lemmas about the operators.                                             *)
(***************************************************************************)
\* Of some videos there is a newest: the one with the fewest newer ones.
LEMMA NewestExists ==
  ASSUME NEW S \in SUBSET Videos, S # {}
  PROVE  Max(S) \in S
<1> DEFINE newer == [x \in S |-> {y \in S: y > x}]
           all == {newer[x]: x \in S}
<1>1. S \subseteq Nat /\ IsFiniteSet(S) BY HarvestAssumption, FS_Subset
<1>2. FiniteSubsetsOf(S) = SUBSET S BY <1>1, FS_FiniteSubsetsOfFinite
<1>3. \A x \in S: newer[x] \in SUBSET S OBVIOUS
<1>4. all \subseteq SUBSET S /\ all # {} BY <1>3
<1>5. PICK T \in all: \A U \in all: ~(<<U, T>> \in StrictSubsetOrdering(S))
  <2> HIDE DEF all
  <2> QED BY <1>2, <1>4, FS_StrictSubsetOrderingWellFounded, WFMin
<1>6. PICK x \in S: T = newer[x] BY <1>5
<1>7. ASSUME NEW y \in S PROVE x >= y
  <2> SUFFICES ASSUME y > x PROVE FALSE BY <1>1
  <2>1. newer[x] = {z \in S: z > x} /\ newer[y] = {z \in S: z > y} OBVIOUS
  <2>2. ASSUME NEW z \in S, z > y PROVE z > x
    <3>1. x \in Nat /\ y \in Nat /\ z \in Nat BY <1>1
    <3> QED BY <2>2, <3>1
  <2>3. newer[y] \subseteq newer[x] BY <2>1, <2>2
  <2>4. ~(y > y) BY <1>1
  <2>5. y \in newer[x] /\ y \notin newer[y] BY <2>1, <2>4
  <2>6. newer[y] \in all OBVIOUS
  <2> HIDE DEF newer
  <2>7. newer[y] \in SUBSET S /\ T \in SUBSET S BY <1>3, <1>6
  <2>8. <<newer[y], T>> \in StrictSubsetOrdering(S)
    BY <1>6, <2>3, <2>5, <2>7 DEF StrictSubsetOrdering
  <2> QED BY <1>5, <2>6, <2>8
<1> QED BY <1>7 DEF Max

\* No category that was not in the queue gets there.
LEMMA WithoutIsQueue ==
  ASSUME NEW q \in Seq(Categories), NEW c
  PROVE  Without(q, c) \in Seq(Categories)
<1> DEFINE there == {i \in 1..Len(q): q[i] = c}
           shorter == [i \in 1..(Len(q) - 1) |-> IF i < Min(there) THEN q[i] ELSE q[i + 1]]
<1>1. CASE there = {} BY <1>1 DEF Without
<1>2. CASE there # {}
  <2>1. Len(q) - 1 \in Nat BY <1>2
  <2>2. \A i \in 1..(Len(q) - 1): (IF i < Min(there) THEN q[i] ELSE q[i + 1]) \in Categories
    OBVIOUS
  <2>3. shorter \in Seq(Categories) BY <2>1, <2>2, IsASeq
  <2> QED BY <1>2, <2>3 DEF Without
<1> QED BY <1>1, <1>2

\* What is chosen waits for a download.
LEMMA ChosenIsPending ==
  ASSUME NEW q, Pending # {}
  PROVE  Chosen(q) \in Pending
<1> DEFINE first == {i \in 1..Len(q): Of(q[i]) # {} /\ \A j \in 1..(i - 1): Of(q[j]) = {}}
<1>1. Pending \in SUBSET Videos BY DEF Pending
<1>2. CASE first = {}
  <2>1. Chosen(q) = Max(Pending) BY <1>2 DEF Chosen
  <2> QED BY <1>1, <2>1, NewestExists
<1>3. CASE first # {}
  <2> DEFINE i == CHOOSE n \in first: TRUE
  <2>1. i \in first BY <1>3
  <2>2. Of(q[i]) # {} BY <2>1
  <2>3. Chosen(q) = Max(Of(q[i])) BY <1>3 DEF Chosen
  <2> HIDE DEF i, first
  <2>4. Of(q[i]) \in SUBSET Videos /\ Of(q[i]) \subseteq Pending BY <1>1 DEF Of
  <2> QED BY <2>2, <2>3, <2>4, NewestExists
<1> QED BY <1>2, <1>3

-----------------------------------------------------------------------------
(***************************************************************************)
(* Types, group by group.                                                  *)
(***************************************************************************)
\* What a step leaves alone keeps its type.
LEMMA Frames ==
  ASSUME Typed
  PROVE  /\ UNCHANGED control => ControlTypeOK'
         /\ UNCHANGED <<channel, scanned, post, retry, file>> => LakeTyped'
         /\ UNCHANGED <<local, admin>> => CatsTyped'
         /\ UNCHANGED <<channel, ghost>> => GhostTyped'
         /\ UNCHANGED <<channel, queue, dedup, held, dead>> => JobsTyped'
         /\ UNCHANGED <<channel, cv, framed, analyze>> => CvTyped'
         /\ UNCHANGED <<schema, trigger, stamp>> => FlagsTyped'
         /\ UNCHANGED <<channel, panel>> => PanelTyped'
<1>1. UNCHANGED control => ControlTypeOK' BY DEF Typed, control, ControlTypeOK
<1>2. UNCHANGED <<channel, scanned, post, retry, file>> => LakeTyped' BY DEF Typed, LakeTyped
<1>3. UNCHANGED <<local, admin>> => CatsTyped' BY DEF Typed, CatsTyped
<1>4. UNCHANGED <<channel, ghost>> => GhostTyped' BY DEF Typed, GhostTyped, InHand
<1>5. UNCHANGED <<channel, queue, dedup, held, dead>> => JobsTyped' BY DEF Typed, JobsTyped
<1>6. UNCHANGED <<channel, cv, framed, analyze>> => CvTyped' BY DEF Typed, CvTyped
<1>7. UNCHANGED <<schema, trigger, stamp>> => FlagsTyped' BY DEF Typed, FlagsTyped
<1>8. UNCHANGED <<channel, panel>> => PanelTyped' BY DEF Typed, PanelTyped
<1> QED BY <1>1, <1>2, <1>3, <1>4, <1>5, <1>6, <1>7, <1>8

\* The worker in a state without a video, or with one that is in the channel.
LEMMA WorkerMoves ==
  ASSUME Typed
  PROVE  /\ \A pc \in GhostPcs: channel' = channel /\ ghost' = At(pc)
               /\ pc \notin {"get", "save", "add", "push", "sleep"} => GhostTyped'
         /\ \A pc \in GhostPcs: channel' = channel /\ ghost' = [ghost EXCEPT !.pc = pc] /\ InHand
               => GhostTyped'
<1>1. ASSUME NEW pc \in GhostPcs, channel' = channel, ghost' = At(pc),
             pc \notin {"get", "save", "add", "push", "sleep"}
      PROVE  GhostTyped'
  BY <1>1 DEF At, GhostTyped, InHand
<1>2. ASSUME NEW pc \in GhostPcs, channel' = channel, ghost' = [ghost EXCEPT !.pc = pc], InHand
      PROVE  GhostTyped'
  BY <1>2 DEF Typed, GhostTyped, InHand
<1> QED BY <1>1, <1>2

\* The CV engine at rest, and gone with what it had claimed kept in PROCESSING.
LEMMA EngineGone ==
  ASSUME Typed, CvGone, UNCHANGED <<channel, queue, dedup, dead>>, analyze' = analyze
  PROVE  CvTyped' /\ JobsTyped'
<1>1. cv' = [pc |-> "down", v |-> NoVideo] /\ held' \subseteq channel /\ framed' \subseteq channel
  BY DEF CvGone, Typed, JobsTyped, CvTyped
<1> QED BY <1>1 DEF Typed, CvTyped, JobsTyped

\* A reset clears what is left of its targets, front to end.
LEMMA TargetsLeft ==
  ASSUME ControlTypeOK, reset.left # <<>>
  PROVE  \E n \in 0..Len(Scope): Tail(reset.left) = SubSeq(Scope, n + 1, Len(Scope))
<1>1. Scope \in Seq({"media", "queues", "sqlite"}) BY ControlAssumption
<1>2. PICK n \in 0..Len(Scope): reset.left = SubSeq(Scope, n + 1, Len(Scope))
  BY DEF ControlTypeOK
<1>3. n + 1 \in 1..Len(Scope)
  <2>1. n # Len(Scope)
    <3> SUFFICES ASSUME n = Len(Scope) PROVE FALSE OBVIOUS
    <3>1. SubSeq(Scope, n + 1, Len(Scope)) = <<>> BY <1>1, SubSeqEmpty
    <3> QED BY <1>2, <3>1
  <2> QED BY <1>1, <2>1
<1>4. Tail(SubSeq(Scope, n + 1, Len(Scope))) = SubSeq(Scope, (n + 1) + 1, Len(Scope))
  BY <1>1, <1>3, HeadTailOfSubSeq
<1>5. n + 1 \in 0..Len(Scope) BY <1>3
<1> QED BY <1>2, <1>4, <1>5

-----------------------------------------------------------------------------
(***************************************************************************)
(* Types: the worker's steps.                                              *)
(***************************************************************************)
\* Steps that move nothing but the worker, the flags and the category queue.
LEMMA WorkerTurnsTyped ==
  ASSUME Typed, CycleFails \/ Top \/ Wake \/ Scanned \/ Exhausted \/ Complete
  PROVE  Typed'
<1>1. UNCHANGED <<control, channel, panel, scanned, post, retry, file, queue, dedup, held, dead,
                  cv, framed, analyze, schema>>
  BY DEF CycleFails, Top, Wake, Scanned, Exhausted, Complete, lake, jobs, cvs
<1>2. CatsTyped'
  <2>1. local' \in {local, admin, <<>>} /\ admin' \in {admin, <<>>}
    BY DEF CycleFails, Top, Wake, Scanned, Exhausted, Complete, cats, Persist
  <2>2. <<>> \in Seq(Categories) OBVIOUS
  <2> QED BY <2>1, <2>2 DEF Typed, CatsTyped
<1>3. GhostTyped'
  <2>1. Exhausted => GhostTyped' BY <1>1, Frames DEF Exhausted
  <2>2. CycleFails \/ Top \/ Wake \/ Scanned \/ Complete =>
          \E pc \in {"top", "ready", "scan", "select"}: ghost' = At(pc)
    BY DEF CycleFails, Top, Wake, Scanned, Complete
  <2>3. {"top", "ready", "scan", "select"} \subseteq GhostPcs BY DEF GhostPcs
  <2> QED BY <1>1, <2>1, <2>2, <2>3, WorkerMoves
<1>4. FlagsTyped'
  BY <1>1 DEF CycleFails, Top, Wake, Scanned, Exhausted, Complete, cats, Persist, Typed,
              FlagsTyped
<1> QED BY <1>1, <1>2, <1>3, <1>4, Frames DEF Typed

LEMMA ProbeTyped ==
  ASSUME Typed, Probe
  PROVE  Typed'
<1>1. UNCHANGED <<control, channel, panel, scanned, post, retry, file, queue, dedup, held, dead,
                  cv, framed, analyze, schema, trigger, stamp, local, admin>>
  BY DEF Probe, lake, jobs, cvs, cats
<1>2. GhostTyped'
  <2>1. ghost' = [pc |-> "batch", v |-> NoVideo,
                  missing |-> {v \in channel \ scanned: post[v] = "none"}]
    BY DEF Probe
  <2> QED BY <1>1, <2>1 DEF Typed, GhostTyped, InHand, GhostPcs
<1> QED BY <1>1, <1>2, Frames DEF Typed

\* A batch is of posts that are in the channel.
LEMMA BatchTyped ==
  ASSUME Typed, Batch \/ BatchFails
  PROVE  Typed'
<1> DEFINE v == Max(ghost.missing)
<1>1. UNCHANGED <<control, channel, panel, retry, file, queue, dedup, held, dead,
                  cv, framed, analyze, schema, trigger, stamp, local, admin>>
  BY DEF Batch, BatchFails, lake, jobs, cvs, cats
<1>2. v \in ghost.missing /\ ghost.missing \subseteq channel /\ channel \subseteq Videos
      /\ ghost.pc = "batch"
  <2>1. ghost.missing \subseteq channel /\ channel \subseteq Videos
    BY DEF Typed, GhostTyped, LakeTyped
  <2>2. ghost.missing # {} /\ ghost.pc = "batch" BY DEF Batch, BatchFails
  <2> QED BY <2>1, <2>2, NewestExists
<1>3. ghost' = [ghost EXCEPT !.missing = @ \ {v}] BY DEF Batch, BatchFails
<1> HIDE DEF v
<1>4. GhostTyped' BY <1>1, <1>2, <1>3 DEF Typed, GhostTyped, InHand
<1>5. LakeTyped'
  <2>1. CASE BatchFails BY <2>1, Frames DEF BatchFails, lake
  <2>2. CASE Batch
    <3>1. scanned' = scanned \cup {v}
          /\ post' = [post EXCEPT ![v] = IF @ = "none" THEN "meta" ELSE @]
      BY <2>2 DEF Batch, v
    <3> QED BY <1>1, <1>2, <3>1 DEF Typed, LakeTyped
  <2> QED BY <2>1, <2>2
<1> QED BY <1>1, <1>4, <1>5, Frames DEF Typed

\* What is pending is in the channel.
LEMMA PendingIsPosted ==
  ASSUME Typed
  PROVE  Pending \subseteq scanned /\ Pending \subseteq channel
  BY DEF Typed, LakeTyped, Pending

LEMMA SelectTyped ==
  ASSUME Typed, Select
  PROVE  Typed'
<1>1. UNCHANGED <<control, channel, panel, scanned, post, retry, file, queue, dedup, held, dead,
                  cv, framed, analyze, schema>>
  BY DEF Select, lake, jobs, cvs
<1>2. CatsTyped' /\ FlagsTyped' BY <1>1 DEF Select, Sync, Typed, CatsTyped, FlagsTyped
<1>3. GhostTyped'
  <2>1. ghost' = On("get", Chosen(local')) /\ Pending # {} BY DEF Select
  <2>2. Chosen(local') \in channel /\ channel \subseteq Videos
    BY <2>1, ChosenIsPending, PendingIsPosted DEF Typed, LakeTyped
  <2> QED BY <1>1, <2>1, <2>2 DEF On, GhostTyped, InHand, GhostPcs
<1> QED BY <1>1, <1>2, <1>3, Frames DEF Typed

\* The steps with a video in hand that leave the queue alone.
LEMMA FetchTyped ==
  ASSUME Typed, Download \/ Fails \/ Refused \/ Slept \/ Save \/ PushFails
  PROVE  Typed'
<1>1. UNCHANGED <<control, channel, panel, scanned, queue, dedup, held, dead,
                  cv, framed, analyze, schema, trigger, stamp, local, admin>>
  BY DEF Download, Fails, Refused, Slept, Save, PushFails, lake, jobs, cvs, cats
<1>2. InHand /\ ghost.v \in channel /\ channel \subseteq Videos
  BY DEF Download, Fails, Refused, Slept, Save, PushFails, InHand, Typed, GhostTyped, LakeTyped
<1>3. GhostTyped'
  <2>1. \/ ghost' = At("select")
        \/ \E pc \in {"save", "sleep", "add"}: ghost' = [ghost EXCEPT !.pc = pc]
    BY DEF Download, Fails, Refused, Slept, Save, PushFails
  <2>2. {"save", "sleep", "add", "select"} \subseteq GhostPcs BY DEF GhostPcs
  <2> QED BY <1>1, <1>2, <2>1, <2>2, WorkerMoves
<1>4. LakeTyped'
  <2>1. CASE Download
    <3>1. file' = file \cup {ghost.v} /\ UNCHANGED <<post, retry>> BY <2>1 DEF Download, lake
    <3> QED BY <1>1, <1>2, <3>1 DEF Typed, LakeTyped
  <2>2. CASE Fails \/ PushFails \/ Refused
    <3>1. UNCHANGED <<file, post>>
          /\ \E s \in {"wait", "terminal"}: retry' = [retry EXCEPT ![ghost.v] = [n |-> @.n + 1, s |-> s]]
      BY <2>2 DEF Fails, PushFails, Refused, Deferred
    <3>2. retry' \in [Videos -> [n: Nat, s: {"due", "wait", "terminal"}]]
      BY <1>2, <3>1 DEF Typed, LakeTyped
    <3> QED BY <1>1, <3>1, <3>2 DEF Typed, LakeTyped
  <2>3. CASE Slept
    <3>1. UNCHANGED <<file, post>>
          /\ retry' = [retry EXCEPT ![ghost.v] =
                         IF @.s = "wait" /\ @.n <= ShortTries THEN [@ EXCEPT !.s = "due"] ELSE @]
      BY <2>3 DEF Slept
    <3>2. retry' \in [Videos -> [n: Nat, s: {"due", "wait", "terminal"}]]
      BY <1>2, <3>1 DEF Typed, LakeTyped
    <3> QED BY <1>1, <3>1, <3>2 DEF Typed, LakeTyped
  <2>4. CASE Save
    <3>1. /\ file' = file /\ retry' = [retry EXCEPT ![ghost.v] = NoRetry]
          /\ post' = [post EXCEPT ![ghost.v] = IF @ = "none" THEN @ ELSE "harvested"]
      BY <2>4 DEF Save
    <3>2. retry' \in [Videos -> [n: Nat, s: {"due", "wait", "terminal"}]]
      BY <1>2, <3>1 DEF Typed, LakeTyped, NoRetry
    <3>3. post' \in [Videos -> {"none", "meta", "harvested"}]
      BY <1>2, <3>1 DEF Typed, LakeTyped
    <3>4. \A v \in Videos \ scanned': post'[v] = "none"
      BY <1>1, <1>2, <3>1 DEF Typed, LakeTyped
    <3> QED BY <1>1, <3>1, <3>2, <3>3, <3>4 DEF Typed, LakeTyped
  <2> QED BY <2>1, <2>2, <2>3, <2>4
<1> QED BY <1>1, <1>3, <1>4, Frames DEF Typed

LEMMA QueueingTyped ==
  ASSUME Typed, Add \/ Push
  PROVE  Typed'
<1>1. UNCHANGED <<control, channel, panel, scanned, post, retry, file, held, dead,
                  cv, framed, analyze, schema, trigger, stamp, local, admin>>
  BY DEF Add, Push, lake, cvs, cats
<1>2. InHand /\ ghost.v \in channel /\ channel \subseteq Videos
  BY DEF Add, Push, InHand, Typed, GhostTyped, LakeTyped
<1>3. GhostTyped'
  <2>1. ghost' = At("select") \/ ghost' = [ghost EXCEPT !.pc = "push"] BY DEF Add, Push
  <2>2. {"push", "select"} \subseteq GhostPcs BY DEF GhostPcs
  <2> QED BY <1>1, <1>2, <2>1, <2>2, WorkerMoves
<1>4. JobsTyped'
  <2>1. dedup' \subseteq dedup \cup {ghost.v}
        /\ (queue' = queue \/ queue' = [queue EXCEPT ![ghost.v] = @ + 1])
    BY DEF Add, Push
  <2> QED BY <1>1, <1>2, <2>1 DEF Typed, JobsTyped
<1> QED BY <1>1, <1>3, <1>4, Frames DEF Typed

LEMMA ElapseTyped ==
  ASSUME Typed, NEW v \in Videos, Elapse(v)
  PROVE  Typed'
<1>1. UNCHANGED <<control, channel, panel, scanned, post, file, queue, dedup, held, dead,
                  cv, framed, analyze, schema, trigger, stamp, local, admin, ghost>>
      /\ retry' = [retry EXCEPT ![v].s = "due"]
  BY DEF Elapse, jobs, cvs, cats
<1>2. retry' \in [Videos -> [n: Nat, s: {"due", "wait", "terminal"}]]
  BY <1>1 DEF Typed, LakeTyped
<1>3. LakeTyped' BY <1>1, <1>2 DEF Typed, LakeTyped
<1> QED BY <1>1, <1>3, Frames DEF Typed

-----------------------------------------------------------------------------
(***************************************************************************)
(* Types: the CV engine's steps.                                           *)
(***************************************************************************)
LEMMA ClaimTyped ==
  ASSUME Typed, NEW v \in Videos, Claim(v)
  PROVE  Typed'
<1>1. UNCHANGED <<control, channel, panel, scanned, post, retry, file, dedup, held, dead,
                  framed, analyze, schema, trigger, stamp, local, admin, ghost>>
      /\ queue' = [queue EXCEPT ![v] = @ - 1] /\ queue[v] > 0
      /\ cv' = [pc |-> "work", v |-> v]
  BY DEF Claim, lake, cats
<1>2. JobsTyped' BY <1>1 DEF Typed, JobsTyped
<1>3. CvTyped' BY <1>1 DEF Typed, JobsTyped, CvTyped
<1> QED BY <1>1, <1>2, <1>3, Frames DEF Typed

LEMMA EngineTyped ==
  ASSUME Typed, Extract \/ HandOn \/ ExtractFails \/ CvStarts
  PROVE  Typed'
<1>1. UNCHANGED <<control, channel, panel, scanned, post, retry, file, dedup, held, queue,
                  schema, trigger, stamp, local, admin, ghost>>
  BY DEF Extract, HandOn, ExtractFails, CvStarts, lake, cats, jobs
<1>2. /\ \/ cv' = Resting
         \/ cv' = [cv EXCEPT !.pc = "done"] /\ cv.pc = "work"
      /\ framed' \subseteq framed \cup {cv.v} /\ analyze' \subseteq analyze \cup {cv.v}
      /\ dead' \subseteq dead \cup {cv.v}
      /\ cv.pc \in {"work", "done"} \/ UNCHANGED <<framed, analyze, dead>>
  BY DEF Extract, HandOn, ExtractFails, CvStarts, jobs
<1>3. CvTyped' BY <1>1, <1>2 DEF Typed, CvTyped, Resting
<1>4. JobsTyped' BY <1>1, <1>2 DEF Typed, CvTyped, JobsTyped
<1> QED BY <1>1, <1>3, <1>4, Frames DEF Typed

LEMMA CvDiesTyped ==
  ASSUME Typed, CvDies
  PROVE  Typed'
<1>1. UNCHANGED <<control, channel, panel, scanned, post, retry, file, dedup, dead, queue, analyze,
                  schema, trigger, stamp, local, admin, ghost>>
      /\ CvGone
  BY DEF CvDies, lake, cats
<1>2. CvTyped' /\ JobsTyped' BY <1>1, EngineGone
<1> QED BY <1>1, <1>2, Frames DEF Typed

-----------------------------------------------------------------------------
(***************************************************************************)
(* Types: the administrator's steps.                                       *)
(***************************************************************************)
LEMMA CategoriesTyped ==
  ASSUME Typed, NEW q \in AdminChoices, AdminSets(q) \/ Scan(q)
  PROVE  Typed'
<1>1. UNCHANGED <<control, channel, panel, scanned, post, retry, file, queue, dedup, held, dead,
                  cv, framed, analyze, schema, ghost>>
  BY DEF AdminSets, Scan, lake, jobs, cvs
<1>2. q \in Seq(Categories) /\ local \in Seq(Categories) /\ admin \in Seq(Categories)
  BY HarvestAssumption DEF Typed, CatsTyped
<1>3. CASE AdminSets(q)
  <2>1. local' = local /\ admin' = q /\ stamp' = TRUE /\ trigger' = trigger
    BY <1>3 DEF AdminSets
  <2>2. CatsTyped' /\ FlagsTyped' BY <1>1, <1>2, <2>1 DEF Typed, CatsTyped, FlagsTyped
  <2> QED BY <1>1, <2>2, Frames DEF Typed
<1>4. CASE Scan(q)
  <2>1. trigger' = TRUE /\ stamp' \in {stamp, FALSE} BY <1>4 DEF Scan, cats, Persist
  <2>2. CASE q = <<>>
    <3>1. UNCHANGED <<local, admin>> BY <1>4, <2>2 DEF Scan, cats
    <3>2. CatsTyped' /\ FlagsTyped' BY <1>1, <1>2, <2>1, <3>1 DEF Typed, CatsTyped, FlagsTyped
    <3> QED BY <1>1, <3>2, Frames DEF Typed
  <2>3. CASE q # <<>>
    <3> DEFINE rest == Without(local, q[1])
    <3>1. local' = <<q[1]>> \o rest /\ admin' = local' BY <1>4, <2>3 DEF Scan, Persist
    <3>2. q[1] \in Categories BY <1>2, <2>3
    <3>3. rest \in Seq(Categories) BY <1>2, WithoutIsQueue
    <3> HIDE DEF rest
    <3>4. <<q[1]>> \in Seq(Categories) BY <3>2
    <3>5. local' \in Seq(Categories) BY <3>1, <3>3, <3>4, ConcatProperties
    <3>6. CatsTyped' /\ FlagsTyped' BY <1>1, <2>1, <3>1, <3>5 DEF Typed, CatsTyped, FlagsTyped
    <3> QED BY <1>1, <3>6, Frames DEF Typed
  <2> QED BY <2>2, <2>3
<1> QED BY <1>3, <1>4

LEMMA NewPostTyped ==
  ASSUME Typed, NEW v \in Videos, NewPost(v)
  PROVE  Typed'
<1>1. UNCHANGED <<control, panel, scanned, post, retry, file, queue, dedup, held, dead,
                  cv, framed, analyze, schema, trigger, stamp, local, admin, ghost>>
      /\ channel' = channel \cup {v}
  BY DEF NewPost, lake, jobs, cvs, cats
<1>2. LakeTyped' BY <1>1 DEF Typed, LakeTyped
<1>3. GhostTyped' BY <1>1 DEF Typed, GhostTyped, InHand
<1>4. JobsTyped' BY <1>1 DEF Typed, JobsTyped
<1>5. CvTyped' BY <1>1 DEF Typed, CvTyped
<1>6. PanelTyped'
  <2>1. SUBSET channel \subseteq SUBSET (channel') BY <1>1
  <2> QED BY <1>1, <2>1 DEF Typed, PanelTyped
<1> QED BY <1>1, <1>2, <1>3, <1>4, <1>5, <1>6, Frames DEF Typed

LEMMA FlagsActionTyped ==
  ASSUME Typed, Flags
  PROVE  Typed'
<1>1. UNCHANGED <<reset, channel, panel, scanned, post, retry, file, queue, dedup, held, dead,
                  cv, framed, analyze, schema, trigger, stamp, local, admin, ghost>>
  BY DEF Flags, lake, jobs, cvs, cats
<1>2. "harvest" \in Components BY HarvestAssumption
<1>3. flags' \subseteq Components \cup {"all"}
  BY <1>2 DEF Flags, PauseAll, ResumeAll, SetComponent, Typed, ControlTypeOK
<1>4. ControlTypeOK' BY <1>1, <1>3 DEF Typed, ControlTypeOK
<1> QED BY <1>1, <1>4, Frames DEF Typed

LEMMA PrioritizeTyped ==
  ASSUME Typed, NEW v \in Videos, Prioritize(v)
  PROVE  Typed'
<1>1. UNCHANGED <<control, channel, scanned, post, retry, file, queue, held, dead,
                  cv, framed, analyze, schema, trigger, stamp, local, admin, ghost>>
      /\ panel' = panel \cup {Request("push", {}, {v})} /\ dedup' = dedup \ {v} /\ v \in file
  BY DEF Prioritize, lake, cvs, cats
<1>2. v \in channel BY <1>1 DEF Typed, LakeTyped
<1>3. JobsTyped' BY <1>1, <1>2 DEF Typed, JobsTyped
<1>4. PanelTyped' BY <1>1, <1>2 DEF Typed, PanelTyped, Request
<1> QED BY <1>1, <1>3, <1>4, Frames DEF Typed

\* Jobs that were elsewhere go back to the queue.
LEMMA RequeuedTyped ==
  ASSUME Typed, NEW S \in SUBSET channel,
         queue' = [v \in Videos |-> queue[v] + IF v \in S THEN 1 ELSE 0],
         channel' = channel, dedup' = dedup, held' \subseteq held, dead' \subseteq dead
  PROVE  JobsTyped'
<1>1. ASSUME NEW v \in Videos
      PROVE  queue'[v] \in Nat /\ (queue'[v] > 0 => v \in channel')
  BY DEF Typed, JobsTyped
<1> QED BY <1>1 DEF Typed, JobsTyped

LEMMA ReplayDeadTyped ==
  ASSUME Typed, ReplayDead
  PROVE  Typed'
<1>1. UNCHANGED <<control, channel, panel, scanned, post, retry, file, held, dedup,
                  cv, framed, analyze, schema, trigger, stamp, local, admin, ghost>>
      /\ queue' = [v \in Videos |-> queue[v] + IF v \in dead THEN 1 ELSE 0] /\ dead' = {}
  BY DEF ReplayDead, lake, cvs, cats
<1>2. dead \in SUBSET channel BY DEF Typed, JobsTyped
<1>3. JobsTyped' BY <1>1, <1>2, RequeuedTyped
<1> QED BY <1>1, <1>3, Frames DEF Typed

\* The files of a clean-up go.
LEMMA CleanupTyped ==
  ASSUME Typed, NEW c, NEW frames, NEW videos, Cleanup(c, frames, videos)
  PROVE  Typed'
<1> DEFINE In == {v \in Videos: Category[v] = c}
           F == IF frames THEN In \cap framed ELSE {}
<1>1. UNCHANGED <<control, channel, scanned, post, retry, held, dead, queue, dedup, framed,
                  cv, analyze, schema, trigger, stamp, local, admin, ghost>>
  BY DEF Cleanup, lake, jobs, cvs, cats
<1>2. PICK V \in SUBSET (IF videos THEN In \cap file ELSE {}):
        file' = file \ V /\ panel' = panel \cup {Request("rows", F, V)}
  BY Zenon DEF Cleanup
<1>3. F \in SUBSET channel /\ V \in SUBSET channel BY DEF Typed, LakeTyped, CvTyped
<1> HIDE DEF F
<1>4. LakeTyped' BY <1>1, <1>2 DEF Typed, LakeTyped
<1>5. PanelTyped' BY <1>1, <1>2, <1>3 DEF Typed, PanelTyped, Request
<1> QED BY <1>1, <1>4, <1>5, Frames DEF Typed

\* What a request of the panel still has to do.
LEMMA PanelStepTyped ==
  ASSUME Typed, Panel
  PROVE  Typed'
<1>1. CASE PushPriority
  <2>1. UNCHANGED <<control, channel, scanned, post, retry, file, dedup, held, dead,
                    cv, framed, analyze, schema, trigger, stamp, local, admin, ghost>>
    BY <1>1 DEF PushPriority, lake, cvs, cats
  <2>2. PICK r \in panel:
          /\ queue' = [v \in Videos |-> queue[v] + IF v \in r.videos THEN 1 ELSE 0]
          /\ panel' = panel \ {r}
    BY <1>1 DEF PushPriority
  <2>3. r.videos \in SUBSET channel BY DEF Typed, PanelTyped
  <2>4. JobsTyped' BY <2>1, <2>2, <2>3, RequeuedTyped
  <2>5. PanelTyped' BY <2>1, <2>2 DEF Typed, PanelTyped
  <2> QED BY <2>1, <2>4, <2>5, Frames DEF Typed
<1>2. CASE CleanupRows
  <2>1. UNCHANGED <<control, channel, scanned, retry, file, dedup, held, dead, queue,
                    cv, analyze, schema, trigger, stamp, local, admin, ghost>>
    BY <1>2 DEF CleanupRows, jobs, cats
  <2>2. PICK r \in panel:
          /\ \/ /\ framed' = framed \ r.frames
                /\ post' = [v \in Videos |-> IF v \in r.videos /\ post[v] # "none"
                                            THEN "meta" ELSE post[v]]
             \/ UNCHANGED <<framed, post>>
          /\ panel' \subseteq panel \cup {Request("dedup", r.frames, r.videos)}
    BY <1>2 DEF CleanupRows
  <2>3. r.frames \in SUBSET channel /\ r.videos \in SUBSET channel BY DEF Typed, PanelTyped
  <2>4. /\ post' \in [Videos -> {"none", "meta", "harvested"}]
        /\ \A v \in Videos: post[v] = "none" => post'[v] = "none"
        /\ framed' \subseteq framed
    BY <2>2 DEF Typed, LakeTyped
  <2>5. LakeTyped' BY <2>1, <2>4 DEF Typed, LakeTyped
  <2>6. CvTyped' BY <2>1, <2>4 DEF Typed, CvTyped
  <2>7. PanelTyped'
    <3>1. Request("dedup", r.frames, r.videos)
            \in [do: {"push", "rows", "dedup"}, frames: SUBSET channel, videos: SUBSET channel]
      BY <2>3 DEF Request
    <3> QED BY <2>1, <2>2, <3>1 DEF Typed, PanelTyped
  <2> QED BY <2>1, <2>5, <2>6, <2>7, Frames DEF Typed
<1>3. CASE CleanupDedup
  <2>1. UNCHANGED <<control, channel, scanned, post, retry, file, queue, held, dead,
                    cv, framed, analyze, schema, trigger, stamp, local, admin, ghost>>
        /\ dedup' \subseteq dedup /\ panel' \subseteq panel
    BY <1>3 DEF CleanupDedup, lake, cvs, cats
  <2>2. JobsTyped' /\ PanelTyped' BY <2>1 DEF Typed, JobsTyped, PanelTyped
  <2> QED BY <2>1, <2>2, Frames DEF Typed
<1> QED BY <1>1, <1>2, <1>3 DEF Panel

-----------------------------------------------------------------------------
(***************************************************************************)
(* Types: deaths, restarts and the reset.                                  *)
(***************************************************************************)
\* ui_server is gone, and no reset is left half done.
LEMMA UiGoneTyped ==
  ASSUME Typed, UiGone, channel' = channel, schema' = schema
  PROVE  ControlTypeOK' /\ CatsTyped' /\ GhostTyped' /\ FlagsTyped' /\ PanelTyped'
<1>1. /\ ghost' = At("down") /\ local' = <<>> /\ stamp' = FALSE /\ trigger' = TRUE
      /\ reset' = [pc |-> "idle", left |-> <<>>] /\ panel' = {} /\ UNCHANGED <<flags, admin>>
  BY DEF UiGone
<1>2. ControlTypeOK'
  <2>1. Scope \in Seq({"media", "queues", "sqlite"}) BY ControlAssumption
  <2>2. <<>> = SubSeq(Scope, Len(Scope) + 1, Len(Scope)) BY <2>1, SubSeqEmpty
  <2>3. Len(Scope) \in 0..Len(Scope) BY <2>1
  <2> QED BY <1>1, <2>2, <2>3 DEF Typed, ControlTypeOK
<1>3. CatsTyped' BY <1>1 DEF Typed, CatsTyped
<1>4. GhostTyped' BY <1>1, WorkerMoves DEF GhostPcs
<1>5. FlagsTyped' BY <1>1 DEF Typed, FlagsTyped
<1>6. PanelTyped' BY <1>1 DEF PanelTyped
<1> QED BY <1>2, <1>3, <1>4, <1>5, <1>6

LEMMA UiTyped ==
  ASSUME Typed, UiDies \/ UiStarts
  PROVE  Typed'
<1>1. UNCHANGED <<channel, scanned, post, retry, file, queue, dedup, held, dead,
                  cv, framed, analyze>>
  BY DEF UiDies, UiStarts, lake, jobs, cvs
<1>2. CASE UiDies
  <2>1. UiGone /\ schema' = schema BY <1>2 DEF UiDies, lake
  <2> QED BY <1>1, <2>1, UiGoneTyped, Frames DEF Typed
<1>3. CASE UiStarts
  <2>1. UNCHANGED <<control, panel, local, admin, trigger, stamp>> /\ schema' = TRUE
        /\ ghost' = At("top")
    BY <1>3 DEF UiStarts, cats, EnsureLakeSchema
  <2>2. FlagsTyped' BY <2>1 DEF Typed, FlagsTyped
  <2>3. GhostTyped' BY <1>1, <2>1, WorkerMoves DEF GhostPcs
  <2> QED BY <1>1, <2>1, <2>2, <2>3, Frames DEF Typed
<1> QED BY <1>2, <1>3

LEMMA BootTyped ==
  ASSUME Typed, Boot
  PROVE  Typed'
<1> DEFINE orphans == held \cup (IF cv.pc = "work" THEN {cv.v} ELSE {})
<1>1. /\ UNCHANGED <<channel, scanned, post, retry, file, dedup, dead, framed, analyze, schema>>
      /\ UiGone /\ cv' = [pc |-> "down", v |-> NoVideo]
      /\ queue' = [v \in Videos |-> queue[v] + IF v \in orphans THEN 1 ELSE 0] /\ held' = {}
  BY DEF Boot, RecoverProcessing, lake
<1>2. orphans \in SUBSET channel BY DEF Typed, JobsTyped, CvTyped
<1> HIDE DEF orphans
<1>3. JobsTyped' BY <1>1, <1>2, RequeuedTyped
<1>4. CvTyped' BY <1>1 DEF Typed, CvTyped
<1> QED BY <1>1, <1>3, <1>4, UiGoneTyped, Frames DEF Typed

\* All that Redis held is gone.
LEMMA RedisGoneTyped ==
  ASSUME Typed, RedisGone, UNCHANGED <<channel, cv, framed, schema, trigger>>
  PROVE  CatsTyped' /\ JobsTyped' /\ CvTyped' /\ FlagsTyped' /\ flags' = {}
<1>1. /\ flags' = {} /\ admin' = <<>> /\ stamp' = TRUE /\ local' = local
      /\ dedup' = {} /\ queue' = [v \in Videos |-> 0] /\ held' = {} /\ dead' = {}
      /\ analyze' = {}
  BY DEF RedisGone
<1>2. CatsTyped' BY <1>1 DEF Typed, CatsTyped
<1>3. JobsTyped' BY <1>1 DEF Typed, JobsTyped
<1>4. CvTyped' BY <1>1 DEF Typed, CvTyped
<1>5. FlagsTyped' BY <1>1 DEF Typed, FlagsTyped
<1> QED BY <1>1, <1>2, <1>3, <1>4, <1>5

LEMMA RedisDiesTyped ==
  ASSUME Typed, RedisDies
  PROVE  Typed'
<1>1. /\ UNCHANGED <<reset, channel, panel, scanned, post, retry, file, schema, trigger, ghost, cv,
                     framed>>
      /\ RedisGone
  BY DEF RedisDies, lake
<1>2. CatsTyped' /\ JobsTyped' /\ CvTyped' /\ FlagsTyped' /\ flags' = {}
  BY <1>1, RedisGoneTyped
<1>3. ControlTypeOK' BY <1>1, <1>2 DEF Typed, ControlTypeOK
<1> QED BY <1>1, <1>2, <1>3, Frames DEF Typed

\* The thread of the reset goes to its next stage, or takes the next target.
LEMMA ResetMoves ==
  ASSUME Typed, flags' \subseteq Components \cup {"all"},
         NEW pc \in {"idle", "pause", "clear", "schema", "restart", "resume"},
         \/ reset' = [reset EXCEPT !.pc = pc]
         \/ reset' = [pc |-> pc, left |-> Tail(reset.left)] /\ reset.left # <<>>
         \/ reset' = [pc |-> pc, left |-> Scope]
  PROVE  ControlTypeOK'
<1>1. CASE reset' = [pc |-> pc, left |-> Tail(reset.left)] /\ reset.left # <<>>
  <2>1. \E n \in 0..Len(Scope): Tail(reset.left) = SubSeq(Scope, n + 1, Len(Scope))
    BY <1>1, TargetsLeft DEF Typed
  <2> QED BY <1>1, <2>1 DEF ControlTypeOK
<1>2. CASE reset' = [pc |-> pc, left |-> Scope]
  <2>1. Scope \in Seq({"media", "queues", "sqlite"}) BY ControlAssumption
  <2>2. Scope = SubSeq(Scope, 0 + 1, Len(Scope)) /\ 0 \in 0..Len(Scope) BY <2>1, SubSeqFull
  <2> QED BY <1>2, <2>2 DEF ControlTypeOK
<1>3. CASE reset' = [reset EXCEPT !.pc = pc]
  <2>1. reset'.pc \in {"idle", "pause", "clear", "schema", "restart", "resume"}
        /\ reset'.left = reset.left
    BY <1>3 DEF Typed, ControlTypeOK
  <2> QED BY <2>1 DEF Typed, ControlTypeOK
<1> QED BY <1>1, <1>2, <1>3

LEMMA ResetStagesTyped ==
  ASSUME Typed,
         BeginReset \/ MakeSchema \/ SchemaNotMade \/ RefusedReset
         \/ ((Pause \/ (Cleared /\ UNCHANGED flags) \/ FinishReset)
             /\ UNCHANGED <<channel, panel, lake, file, trigger, cats, ghost, jobs, cvs, happened>>)
  PROVE  Typed'
<1>1. UNCHANGED <<channel, panel, scanned, post, retry, file, queue, dedup, held, dead,
                  cv, framed, analyze, trigger, stamp, local, admin, ghost>>
  BY DEF BeginReset, MakeSchema, SchemaNotMade, RefusedReset, lake, jobs, cvs, cats
<1>2. schema' \in {schema, TRUE} BY DEF BeginReset, MakeSchema, SchemaNotMade, RefusedReset, lake, EnsureLakeSchema
<1>3. flags' \subseteq Components \cup {"all"}
  BY DEF BeginReset, StartReset, MakeSchema, SchemaNotMade, RefusedReset, Pause, PauseRefused,
         PauseCut, ResumeRefused, FinishReset, PauseAll, ResumeAll, Typed, ControlTypeOK
<1>4. \E pc \in {"idle", "pause", "clear", "schema", "restart", "resume"}:
        \/ reset' = [reset EXCEPT !.pc = pc]
        \/ reset' = [pc |-> pc, left |-> Scope]
  BY DEF BeginReset, StartReset, MakeSchema, SchemaNotMade, RefusedReset, Pause, PauseRefused,
         ResumeRefused, Cleared, FinishReset
<1>5. ControlTypeOK' BY <1>3, <1>4, ResetMoves
<1>6. FlagsTyped' BY <1>1, <1>2 DEF Typed, FlagsTyped
<1> QED BY <1>1, <1>5, <1>6, Frames DEF Typed

LEMMA ResetClearsTyped ==
  ASSUME Typed, ClearMedia \/ ClearQueues \/ QueuesKept \/ ClearLake \/ RestartWorkers
  PROVE  Typed'
<1>1. CASE ClearMedia
  <2>1. UNCHANGED <<flags, channel, panel, scanned, post, retry, queue, dedup, held, dead, schema,
                    cv, framed, analyze, trigger, stamp, local, admin, ghost>>
        /\ file' = {} /\ reset.left # <<>> /\ reset' = [pc |-> "clear", left |-> Tail(reset.left)]
    BY <1>1 DEF ClearMedia, Clears, lake, jobs, cvs, cats
  <2>2. LakeTyped' BY <2>1 DEF Typed, LakeTyped
  <2>3. flags' \subseteq Components \cup {"all"} BY <2>1 DEF Typed, ControlTypeOK
  <2>4. ControlTypeOK' BY <2>1, <2>3, ResetMoves
  <2> QED BY <2>1, <2>2, <2>4, Frames DEF Typed
<1>2. CASE ClearQueues
  <2>1. UNCHANGED <<channel, panel, scanned, post, retry, file, schema, cv, framed, trigger, ghost>>
        /\ RedisGone
        /\ reset.left # <<>> /\ reset' = [pc |-> "pause", left |-> Tail(reset.left)]
    BY <1>2 DEF ClearQueues, Clears, lake
  <2>2. CatsTyped' /\ JobsTyped' /\ CvTyped' /\ FlagsTyped' /\ flags' = {}
    BY <2>1, RedisGoneTyped
  <2>3. ControlTypeOK' BY <2>1, <2>2, ResetMoves
  <2> QED BY <2>1, <2>2, <2>3, Frames DEF Typed
<1>3. CASE ClearLake
  <2>1. UNCHANGED <<flags, channel, panel, file, queue, dedup, held, dead, cv, analyze,
                    trigger, stamp, local, admin, ghost>>
        /\ post' = [v \in Videos |-> "none"] /\ scanned' = {}
        /\ retry' = [v \in Videos |-> NoRetry] /\ framed' = {} /\ schema' = FALSE
        /\ reset.left # <<>> /\ reset' = [pc |-> "schema", left |-> Tail(reset.left)]
    BY <1>3 DEF ClearLake, Clears, jobs, cats
  <2>2. LakeTyped' BY <2>1 DEF Typed, LakeTyped, NoRetry
  <2>3. CvTyped' BY <2>1 DEF Typed, CvTyped
  <2>4. FlagsTyped' BY <2>1 DEF Typed, FlagsTyped
  <2>5. flags' \subseteq Components \cup {"all"} BY <2>1 DEF Typed, ControlTypeOK
  <2>6. ControlTypeOK' BY <2>1, <2>5, ResetMoves
  <2> QED BY <2>1, <2>2, <2>3, <2>4, <2>6, Frames DEF Typed
<1>4. CASE RestartWorkers
  <2>1. UNCHANGED <<flags, channel, panel, scanned, post, retry, file, queue, dedup, dead, schema,
                    analyze, trigger, stamp, local, admin, ghost>>
        /\ CvGone /\ reset' = [reset EXCEPT !.pc = "resume"]
    BY <1>4 DEF RestartWorkers, lake, cats
  <2>2. CvTyped' /\ JobsTyped' BY <2>1, EngineGone
  <2>3. flags' \subseteq Components \cup {"all"} BY <2>1 DEF Typed, ControlTypeOK
  <2>4. ControlTypeOK' BY <2>1, <2>3, ResetMoves
  <2> QED BY <2>1, <2>2, <2>4, Frames DEF Typed
<1>5. CASE QueuesKept
  <2>1. UNCHANGED <<flags, channel, panel, scanned, post, retry, file, queue, dedup, held, dead,
                    schema, cv, framed, analyze, trigger, stamp, local, admin, ghost>>
        /\ reset.left # <<>> /\ reset' = [pc |-> "clear", left |-> Tail(reset.left)]
    BY <1>5 DEF QueuesKept, Clears, lake, jobs, cvs, cats
  <2>2. flags' \subseteq Components \cup {"all"} BY <2>1 DEF Typed, ControlTypeOK
  <2>3. ControlTypeOK' BY <2>1, <2>2, ResetMoves
  <2> QED BY <2>1, <2>3, Frames DEF Typed
<1> QED BY <1>1, <1>2, <1>3, <1>4, <1>5

\* Every step, whatever it is.
LEMMA StepTyped == Typed /\ [Next]_vars => Typed'
<1> SUFFICES ASSUME Typed, [Next]_vars PROVE Typed' OBVIOUS
<1>1. CASE UNCHANGED vars
  BY <1>1, Frames DEF vars, lake, cats, jobs, cvs, Typed
<1>2. Ghost => Typed'
  BY WorkerTurnsTyped, ProbeTyped, BatchTyped, SelectTyped, FetchTyped, QueueingTyped DEF Ghost
<1>3. Cv => Typed' BY ClaimTyped, EngineTyped DEF Cv
<1>4. Reset => Typed' BY ResetStagesTyped, ResetClearsTyped DEF Reset
<1>5. CvStarts \/ UiStarts \/ Panel => Typed' BY EngineTyped, UiTyped, PanelStepTyped
<1>6. Happens => Typed'
  <2>1. ASSUME NEW q \in AdminChoices, AdminSets(q) \/ Scan(q) PROVE Typed'
    BY <2>1, CategoriesTyped
  <2>2. CycleFails \/ BatchFails \/ Fails \/ Refused \/ PushFails \/ ExtractFails => Typed'
    BY WorkerTurnsTyped, BatchTyped, FetchTyped, EngineTyped
  <2>3. ASSUME NEW v \in Videos, NewPost(v) \/ Prioritize(v) \/ Elapse(v) PROVE Typed'
    BY <2>3, NewPostTyped, PrioritizeTyped, ElapseTyped
  <2>4. Flags \/ ReplayDead => Typed' BY FlagsActionTyped, ReplayDeadTyped
  <2>5. ASSUME NEW c \in Categories, NEW frames \in BOOLEAN, NEW videos \in BOOLEAN,
               Cleanup(c, frames, videos)
        PROVE  Typed'
    BY <2>5, CleanupTyped
  <2>6. CvDies \/ UiDies \/ Boot \/ RedisDies \/ BeginReset => Typed'
    BY CvDiesTyped, UiTyped, BootTyped, RedisDiesTyped, ResetStagesTyped
  <2>7. QueuesKept \/ SchemaNotMade \/ RefusedReset => Typed'
    BY ResetStagesTyped, ResetClearsTyped
  <2> QED BY <2>1, <2>2, <2>3, <2>4, <2>5, <2>6, <2>7, Zenon DEF Happens
<1> QED BY <1>1, <1>2, <1>3, <1>4, <1>5, <1>6 DEF Next

LEMMA InitTyped == Init => Typed
<1> SUFFICES ASSUME Init PROVE Typed OBVIOUS
<1>1. ControlTypeOK
  <2>1. Scope \in Seq({"media", "queues", "sqlite"}) BY ControlAssumption
  <2>2. <<>> = SubSeq(Scope, Len(Scope) + 1, Len(Scope)) BY <2>1, SubSeqEmpty
  <2>3. Len(Scope) \in 0..Len(Scope) BY <2>1
  <2> QED BY <2>2, <2>3 DEF Init, InitControl, ControlTypeOK
<1>2. LakeTyped BY HarvestAssumption DEF Init, LakeTyped, NoRetry
<1>3. CatsTyped /\ FlagsTyped
  <2>1. <<>> \in Seq(Categories) OBVIOUS
  <2> QED BY <2>1 DEF Init, CatsTyped, FlagsTyped
<1>4. GhostTyped BY DEF Init, GhostTyped, InHand, At, GhostPcs
<1>5. JobsTyped /\ CvTyped /\ PanelTyped BY DEF Init, JobsTyped, CvTyped, Resting, PanelTyped
<1> QED BY <1>1, <1>2, <1>3, <1>4, <1>5 DEF Typed

-----------------------------------------------------------------------------
(***************************************************************************)
(* Jobs: what most steps do to them.                                       *)
(***************************************************************************)
LEMMA JobsCounted ==
  ASSUME Typed, NEW v \in Videos
  PROVE  JobsOf(v) \in Nat /\ queue[v] \in Nat
  BY DEF Typed, JobsTyped, JobsOf

\* No video has more jobs than before, and none enters the dedup set.
OnceQuiet ==
    /\ \A v \in Videos: JobsOf(v)' <= JobsOf(v)
    /\ \A v \in Videos: AtPush(v)' => AtPush(v)
    /\ dedup' = dedup
    /\ framed' \subseteq framed \/ ~No({"cv", "boot"})'
    /\ happened \subseteq happened'

LEMMA OnceQuietKeeps == Typed /\ Typed' /\ OnceInv /\ OnceQuiet => OnceInv'
<1> SUFFICES ASSUME Typed, Typed', OnceInv, OnceQuiet,
                    No({"prioritize", "cleanup", "redis", "reset"})', NEW v \in Videos
             PROVE  (/\ JobsOf(v) <= 1
                     /\ AtPush(v) => JobsOf(v) = 0 /\ v \in dedup
                     /\ v \notin dedup => JobsOf(v) = 0
                     /\ No({"cv", "boot"}) /\ v \in framed
                        => JobsOf(v) = 0 /\ ~AtPush(v) /\ v \in dedup)'
  BY DEF OnceInv
<1>1. No({"prioritize", "cleanup", "redis", "reset"}) BY DEF OnceQuiet, No
<1>2. No({"cv", "boot"})' => No({"cv", "boot"}) BY DEF OnceQuiet, No
<1>3. JobsOf(v) \in Nat BY JobsCounted
<1>4. JobsOf(v)' \in Nat BY DEF Typed, JobsTyped, JobsOf
<1>5. JobsOf(v)' <= JobsOf(v) /\ (AtPush(v)' => AtPush(v)) /\ dedup' = dedup
      /\ (framed' \subseteq framed \/ ~No({"cv", "boot"})')
  BY DEF OnceQuiet
<1>6. /\ JobsOf(v) <= 1
      /\ AtPush(v) => JobsOf(v) = 0 /\ v \in dedup
      /\ v \notin dedup => JobsOf(v) = 0
      /\ No({"cv", "boot"}) /\ v \in framed => JobsOf(v) = 0 /\ ~AtPush(v) /\ v \in dedup
  BY <1>1 DEF OnceInv
<1>7. JobsOf(v)' <= 1 /\ (JobsOf(v) = 0 => JobsOf(v)' = 0) BY <1>3, <1>4, <1>5, <1>6
<1> QED BY <1>2, <1>5, <1>6, <1>7

\* A harvested post keeps its job, and the worker takes up nothing new.
UnderQuiet ==
    /\ \A v \in Videos: \/ post'[v] = post[v]
                        \/ post[v] = "none" /\ post'[v] = "meta"
    /\ \A v \in Videos: Underway(v) => Underway(v)'
    /\ dedup' \subseteq dedup
    /\ ghost'.pc \in {"get", "save", "add", "push"} =>
          /\ ghost'.v = ghost.v
          /\ ghost'.pc = ghost.pc \/ (ghost.pc = "get" /\ ghost'.pc = "save")
    /\ cv'.pc = "done" => cv'.v \in framed' \/ (cv' = cv /\ framed' = framed)
    /\ happened \subseteq happened'

LEMMA UnderQuietKeeps == Typed /\ UnderInv /\ UnderQuiet => UnderInv'
<1> SUFFICES ASSUME Typed, UnderInv, UnderQuiet,
                    No({"ui", "boot", "redis", "push", "reset", "cleanup"})'
             PROVE  /\ \A v \in Videos: post'[v] = "harvested" => Underway(v)'
                    /\ \A v \in dedup': post'[v] = "harvested"
                    /\ ghost'.pc \in {"get", "save"} => post'[ghost'.v] = "meta"
                    /\ ghost'.pc \in {"add", "push"} => post'[ghost'.v] = "harvested"
                    /\ ghost'.pc = "add" => ghost'.v \notin dedup'
                    /\ cv'.pc = "done" => cv'.v \in framed'
  BY DEF UnderInv
<1>1. No({"ui", "boot", "redis", "push", "reset", "cleanup"}) BY DEF UnderQuiet, No
<1>2. /\ \A v \in Videos: post[v] = "harvested" => Underway(v)
      /\ \A v \in dedup: post[v] = "harvested"
      /\ ghost.pc \in {"get", "save"} => post[ghost.v] = "meta"
      /\ ghost.pc \in {"add", "push"} => post[ghost.v] = "harvested"
      /\ ghost.pc = "add" => ghost.v \notin dedup
      /\ cv.pc = "done" => cv.v \in framed
  BY <1>1 DEF UnderInv
<1>3. \A v \in Videos: post'[v] = "harvested" => Underway(v)'
  BY <1>2 DEF UnderQuiet
<1>4. dedup \subseteq Videos BY DEF Typed, JobsTyped, LakeTyped
<1>5. \A v \in dedup': post'[v] = "harvested"
  <2> SUFFICES ASSUME NEW v \in dedup' PROVE post'[v] = "harvested" OBVIOUS
  <2>1. v \in dedup /\ v \in Videos BY <1>4 DEF UnderQuiet
  <2>2. post[v] = "harvested" BY <1>2, <2>1
  <2> QED BY <2>1, <2>2 DEF UnderQuiet
<1>6. ASSUME ghost'.pc \in {"get", "save", "add", "push"}
      PROVE  /\ ghost'.v = ghost.v /\ ghost.v \in Videos
             /\ ghost'.pc = ghost.pc \/ (ghost.pc = "get" /\ ghost'.pc = "save")
  <2>1. /\ ghost'.v = ghost.v
        /\ ghost'.pc = ghost.pc \/ (ghost.pc = "get" /\ ghost'.pc = "save")
    BY <1>6 DEF UnderQuiet
  <2>2. ghost.v \in Videos BY <1>6, <2>1 DEF Typed, GhostTyped, InHand, LakeTyped
  <2> QED BY <2>1, <2>2
<1>7. /\ ghost'.pc \in {"get", "save"} => post'[ghost'.v] = "meta"
      /\ ghost'.pc \in {"add", "push"} => post'[ghost'.v] = "harvested"
      /\ ghost'.pc = "add" => ghost'.v \notin dedup'
  BY <1>2, <1>6 DEF UnderQuiet
<1>8. cv'.pc = "done" => cv'.v \in framed' BY <1>2 DEF UnderQuiet
<1> QED BY <1>3, <1>5, <1>7, <1>8

\* A step that has nothing to do with jobs.
Aside ==
    /\ UNCHANGED <<queue, dedup, held, dead, cv, framed, analyze>>
    /\ \A v \in Videos: \/ post'[v] = post[v]
                        \/ post[v] = "none" /\ post'[v] = "meta"
    /\ ghost.pc \in {"add", "push"} => ghost' = ghost
    /\ ghost'.pc \in {"get", "save", "add", "push"} =>
          /\ ghost'.v = ghost.v
          /\ ghost'.pc = ghost.pc \/ (ghost.pc = "get" /\ ghost'.pc = "save")
    /\ happened \subseteq happened'

LEMMA AsideIsQuiet == Typed /\ Aside => OnceQuiet /\ UnderQuiet
<1> SUFFICES ASSUME Typed, Aside PROVE OnceQuiet /\ UnderQuiet OBVIOUS
<1>1. \A v \in Videos: JobsOf(v)' = JobsOf(v) BY DEF Aside, JobsOf
<1>2. \A v \in Videos: JobsOf(v)' <= JobsOf(v) BY <1>1, JobsCounted
<1>3. \A v \in Videos: AtPush(v)' => AtPush(v) BY DEF Aside, AtPush
<1>4. OnceQuiet BY <1>2, <1>3 DEF OnceQuiet, Aside
<1>5. \A v \in Videos: Underway(v) => Underway(v)'
  <2> SUFFICES ASSUME NEW v \in Videos, Underway(v) PROVE Underway(v)' OBVIOUS
  <2>1. JobsOf(v)' = JobsOf(v) BY <1>1
  <2>2. UNCHANGED <<cv, framed, analyze>> /\ happened \subseteq happened'
        /\ (ghost.pc \in {"add", "push"} => ghost' = ghost)
    BY DEF Aside
  <2> HIDE DEF JobsOf
  <2> QED BY <2>1, <2>2 DEF Underway
<1>6. UnderQuiet BY <1>5 DEF UnderQuiet, Aside
<1> QED BY <1>4, <1>6

LEMMA HappenedGrows == Typed /\ [Next]_vars => happened \subseteq happened'
<1> SUFFICES ASSUME [Next]_vars PROVE happened \subseteq happened' OBVIOUS
<1>1. Ghost => happened \subseteq happened'
  BY DEF Ghost, CycleFails, Top, Wake, Probe, Batch, BatchFails, Scanned, Select, Exhausted,
         Complete, Download, Slept, Save, Add, Push, Event
<1>2. Cv \/ CvStarts \/ UiStarts => happened \subseteq happened'
  BY DEF Cv, Claim, Extract, HandOn, ExtractFails, Event, CvStarts, UiStarts
<1>3. Reset => happened \subseteq happened'
  BY DEF Reset, ClearMedia, ClearQueues, ClearLake, MakeSchema, RestartWorkers
<1>6. Panel => happened \subseteq happened'
  BY DEF Panel, PushPriority, CleanupRows, CleanupDedup
<1>4. Happens => happened \subseteq happened'
  BY DEF Happens, AdminSets, Scan, CycleFails, BatchFails, Fails, Refused, PushFails,
         ExtractFails, NewPost, Prioritize, Elapse, Flags, ReplayDead, Cleanup, CvDies, UiDies,
         Boot, RedisDies, BeginReset, QueuesKept, SchemaNotMade, RefusedReset, Event
<1>5. UNCHANGED vars => happened \subseteq happened' BY DEF vars
<1> QED BY <1>1, <1>2, <1>3, <1>4, <1>5, <1>6 DEF Next

\* A reset that never began is not under way.
LEMMA ResetStep == ResetInv /\ [Next]_vars /\ happened \subseteq happened' => ResetInv'
<1> SUFFICES ASSUME ResetInv, [Next]_vars, happened \subseteq happened', No({"reset"})'
             PROVE  reset'.pc = "idle"
  BY DEF ResetInv
<1>1. No({"reset"}) /\ reset.pc = "idle" BY DEF No, ResetInv
<1>2. Ghost \/ Cv \/ Panel \/ CvStarts \/ UiStarts \/ UNCHANGED vars => reset' = reset
  BY DEF Ghost, CycleFails, Top, Wake, Probe, Batch, BatchFails, Scanned, Select, Exhausted,
         Complete, Download, Slept, Save, Add, Push, control,
         Panel, PushPriority, CleanupRows, CleanupDedup, Cv, Claim, Extract, HandOn, ExtractFails, CvStarts, UiStarts, vars
<1>3. ~Reset
  BY <1>1 DEF Reset, ClearMedia, ClearQueues, ClearLake, Clears, MakeSchema, RestartWorkers,
              Pause, Cleared, FinishReset
<1>4. Happens => reset'.pc = "idle"
  <2>1. ~BeginReset BY DEF BeginReset, Event, No
  <2>2. UiDies \/ Boot => reset'.pc = "idle" BY DEF UiDies, Boot, UiGone
  <2>3. RedisDies \/ Flags => reset' = reset BY DEF RedisDies, Flags
  <2>4. CycleFails \/ BatchFails \/ Fails \/ Refused \/ PushFails \/ ExtractFails \/ ReplayDead
        \/ CvDies => reset' = reset
    BY DEF CycleFails, BatchFails, Fails, Refused, PushFails, ExtractFails, ReplayDead, CvDies,
           control
  <2>5. \A q \in AdminChoices: AdminSets(q) \/ Scan(q) => reset' = reset
    BY DEF AdminSets, Scan, control
  <2>6. \A v \in Videos: NewPost(v) \/ Prioritize(v) \/ Elapse(v) => reset' = reset
    BY DEF NewPost, Prioritize, Elapse, control
  <2>7. \A c \in Categories, frames, videos \in BOOLEAN: Cleanup(c, frames, videos) => reset' = reset
    BY DEF Cleanup, control
  <2>8. ~(QueuesKept \/ SchemaNotMade \/ RefusedReset)
    BY <1>1 DEF QueuesKept, Clears, SchemaNotMade, RefusedReset, PauseRefused, ResumeRefused
  <2> QED BY <1>1, <2>1, <2>2, <2>3, <2>4, <2>5, <2>6, <2>7, <2>8 DEF Happens
<1> QED BY <1>1, <1>2, <1>3, <1>4 DEF Next

\* A request of the panel that was never made is not under way.
LEMMA PanelStep ==
  ASSUME Typed, PanelInv, [Next]_vars, happened \subseteq happened'
  PROVE  PanelInv'
<1>1. CASE panel' \subseteq panel BY <1>1 DEF PanelInv
<1>2. Ghost \/ Cv \/ CvStarts \/ UiStarts \/ UNCHANGED vars => panel' \subseteq panel
  BY DEF Ghost, CycleFails, Top, Wake, Probe, Batch, BatchFails, Scanned, Select, Exhausted,
         Complete, Download, Slept, Save, Add, Push,
         Cv, Claim, Extract, HandOn, ExtractFails, CvStarts, UiStarts, vars
<1>3. Reset => panel' \subseteq panel
  BY DEF Reset, ClearMedia, ClearQueues, ClearLake, MakeSchema, RestartWorkers
<1>4. Panel => PanelInv'
  <2>1. PushPriority \/ CleanupDedup => panel' \subseteq panel
    BY DEF PushPriority, CleanupDedup
  <2>2. ASSUME CleanupRows PROVE PanelInv'
    <3>1. PICK r \in panel: /\ r.do = "rows"
                            /\ panel' \subseteq panel \cup {Request("dedup", r.frames, r.videos)}
      BY <2>2 DEF CleanupRows
    <3>2. "cleanup" \in happened BY <3>1 DEF PanelInv
    <3> QED BY <3>1, <3>2 DEF PanelInv, Request
  <2> QED BY <1>1, <2>1, <2>2 DEF Panel
<1>5. Happens => PanelInv'
  <2>1. \A v \in Videos: Prioritize(v) => PanelInv'
    BY DEF Prioritize, Event, PanelInv, Request
  <2>2. \A v \in Videos: NewPost(v) \/ Elapse(v) => panel' \subseteq panel BY DEF NewPost, Elapse
  <2>3. ASSUME NEW c, NEW frames, NEW videos, Cleanup(c, frames, videos) PROVE PanelInv'
    <3>1. \E F, V: panel' = panel \cup {Request("rows", F, V)} BY <2>3, Zenon DEF Cleanup
    <3>2. "cleanup" \in happened' BY <2>3 DEF Cleanup, Event
    <3> QED BY <3>1, <3>2 DEF PanelInv, Request
  <2>4. \A q \in AdminChoices: AdminSets(q) \/ Scan(q) => panel' \subseteq panel
    BY DEF AdminSets, Scan
  <2>5. CycleFails \/ BatchFails \/ Fails \/ Refused \/ PushFails \/ ExtractFails \/ Flags
        \/ ReplayDead => panel' \subseteq panel
    BY DEF CycleFails, BatchFails, Fails, Refused, PushFails, ExtractFails, Flags, ReplayDead
  <2>6. CvDies \/ UiDies \/ Boot \/ RedisDies \/ BeginReset => panel' \subseteq panel
    BY DEF CvDies, UiDies, Boot, UiGone, RedisDies, BeginReset
  <2>7. QueuesKept \/ SchemaNotMade \/ RefusedReset => panel' \subseteq panel
    BY DEF QueuesKept, SchemaNotMade, RefusedReset
  <2> QED BY <1>1, <2>1, <2>2, <2>3, <2>4, <2>5, <2>6, <2>7 DEF Happens
<1> QED BY <1>1, <1>2, <1>3, <1>4, <1>5 DEF Next

-----------------------------------------------------------------------------
(***************************************************************************)
(* Jobs: step by step.                                                     *)
(***************************************************************************)
LEMMA WorkerAside ==
  ASSUME Typed,
         \/ CycleFails \/ Top \/ Wake \/ Probe \/ Batch \/ BatchFails \/ Scanned
         \/ Exhausted \/ Complete \/ Download \/ Fails \/ Refused \/ Slept
  PROVE  Aside
<1>1. UNCHANGED <<queue, dedup, held, dead, cv, framed, analyze>>
  BY DEF CycleFails, Top, Wake, Probe, Batch, BatchFails, Scanned, Exhausted, Complete, Download,
         Fails, Refused, Slept, jobs, cvs
<1>2. ghost.pc \notin {"add", "push"} \/ ghost' = ghost
  BY DEF CycleFails, Top, Wake, Probe, Batch, BatchFails, Scanned, Exhausted, Complete, Download,
         Fails, Refused, Slept
<1>3. ASSUME ghost'.pc \in {"get", "save", "add", "push"}
      PROVE  /\ ghost'.v = ghost.v
             /\ ghost'.pc = ghost.pc \/ (ghost.pc = "get" /\ ghost'.pc = "save")
  <2>1. ghost \in [pc: GhostPcs, v: Videos \cup {NoVideo}, missing: SUBSET channel]
    BY DEF Typed, GhostTyped
  <2>2. CASE Exhausted BY <2>2 DEF Exhausted
  <2>3. CASE Download BY <2>1, <2>3 DEF Download
  <2>4. CASE Fails \/ Refused BY <1>3, <2>1, <2>4 DEF Fails, Refused
  <2>5. CASE Batch \/ BatchFails BY <1>3, <2>1, <2>5 DEF Batch, BatchFails
  <2>6. CASE CycleFails \/ Top \/ Wake \/ Scanned \/ Complete \/ Slept \/ Probe
    BY <1>3, <2>6 DEF CycleFails, Top, Wake, Scanned, Complete, Slept, Probe, At
  <2> QED BY <2>2, <2>3, <2>4, <2>5, <2>6
<1>4. \A v \in Videos: \/ post'[v] = post[v]
                       \/ post[v] = "none" /\ post'[v] = "meta"
  <2>1. CASE Batch
    <3>1. post' = [post EXCEPT ![Max(ghost.missing)] = IF @ = "none" THEN "meta" ELSE @]
      BY <2>1 DEF Batch
    <3> QED BY <3>1 DEF Typed, LakeTyped
  <2>2. CASE ~Batch
    BY <2>2 DEF CycleFails, Top, Wake, Probe, BatchFails, Scanned, Exhausted, Complete, Download,
                Fails, Refused, Slept, lake
  <2> QED BY <2>1, <2>2
<1>5. happened \subseteq happened'
  BY DEF CycleFails, Top, Wake, Probe, Batch, BatchFails, Scanned, Exhausted, Complete, Download,
         Fails, Refused, Slept, Event
<1> QED BY <1>1, <1>2, <1>3, <1>4, <1>5 DEF Aside

LEMMA OthersAside ==
  ASSUME Typed,
         \/ \E q \in AdminChoices: AdminSets(q) \/ Scan(q)
         \/ \E v \in Videos: NewPost(v) \/ Elapse(v)
         \/ Flags \/ BeginReset \/ UiStarts \/ UNCHANGED vars
  PROVE  Aside
<1>1. UNCHANGED <<queue, dedup, held, dead, cv, framed, analyze, post>>
      /\ (ghost' = ghost \/ (ghost' = At("top") /\ ghost.pc = "down"))
      /\ happened \subseteq happened'
  BY DEF AdminSets, Scan, NewPost, Elapse, Flags, BeginReset, UiStarts, vars, lake, jobs, cvs,
         Event
<1>2. ghost'.pc \in {"get", "save", "add", "push"} => ghost' = ghost BY <1>1 DEF At
<1>3. ghost.pc \in {"add", "push"} => ghost' = ghost BY <1>1
<1> QED BY <1>1, <1>2, <1>3 DEF Aside

\* A new download is of a post that was not harvested.
LEMMA SelectStep ==
  ASSUME Typed, Typed', OnceInv, UnderInv, Select
  PROVE  OnceInv' /\ UnderInv'
<1>1. UNCHANGED <<queue, dedup, held, dead, cv, framed, analyze, post, happened>>
      /\ ghost.pc = "select" /\ ghost' = On("get", Chosen(local')) /\ Pending # {}
  BY DEF Select, lake, jobs, cvs
<1>2. OnceQuiet
  <2>1. \A v \in Videos: JobsOf(v)' = JobsOf(v) BY <1>1 DEF JobsOf
  <2>2. \A v \in Videos: JobsOf(v)' <= JobsOf(v) BY <2>1, JobsCounted
  <2>3. \A v \in Videos: ~AtPush(v)' BY <1>1 DEF AtPush, On
  <2> QED BY <1>1, <2>2, <2>3 DEF OnceQuiet
<1>3. OnceInv' BY <1>2, OnceQuietKeeps
<1>4. ghost'.pc = "get" /\ post'[ghost'.v] = "meta"
  BY <1>1, ChosenIsPending DEF On, Pending
<1>5. ASSUME NEW v \in Videos, Underway(v) PROVE Underway(v)'
  <2>1. JobsOf(v)' = JobsOf(v) BY <1>1 DEF JobsOf
  <2> HIDE DEF JobsOf
  <2> QED BY <1>1, <1>5, <2>1 DEF Underway
<1>6. UnderInv' BY <1>1, <1>4, <1>5 DEF UnderInv, No
<1> QED BY <1>3, <1>6

\* A post that becomes Harvested was not in the dedup set: its job comes next.
LEMMA SaveStep ==
  ASSUME Typed, Typed', OnceInv, UnderInv, Save
  PROVE  OnceInv' /\ UnderInv'
<1> DEFINE g == ghost.v
<1>1. UNCHANGED <<queue, dedup, held, dead, cv, framed, analyze, happened>>
      /\ ghost.pc = "save" /\ ghost' = [ghost EXCEPT !.pc = "add"]
      /\ post' = [post EXCEPT ![g] = IF @ = "none" THEN @ ELSE "harvested"]
  BY DEF Save, jobs, cvs
<1>2. g \in Videos /\ dedup \subseteq Videos
  BY <1>1 DEF Typed, GhostTyped, InHand, LakeTyped, JobsTyped
<1>3. ghost'.pc = "add" /\ ghost'.v = g BY <1>1 DEF Typed, GhostTyped
<1>4. \A v \in Videos: JobsOf(v)' = JobsOf(v) BY <1>1 DEF JobsOf
<1>5. OnceQuiet
  <2>1. \A v \in Videos: JobsOf(v)' <= JobsOf(v) BY <1>4, JobsCounted
  <2>2. \A v \in Videos: ~AtPush(v)' BY <1>3 DEF AtPush
  <2> QED BY <1>1, <2>1, <2>2 DEF OnceQuiet
<1>6. OnceInv' BY <1>5, OnceQuietKeeps
<1>7. UnderInv'
  <2> SUFFICES ASSUME No({"ui", "boot", "redis", "push", "reset", "cleanup"})'
               PROVE  /\ \A v \in Videos: post'[v] = "harvested" => Underway(v)'
                      /\ \A v \in dedup': post'[v] = "harvested"
                      /\ ghost'.pc \in {"get", "save"} => post'[ghost'.v] = "meta"
                      /\ ghost'.pc \in {"add", "push"} => post'[ghost'.v] = "harvested"
                      /\ ghost'.pc = "add" => ghost'.v \notin dedup'
                      /\ cv'.pc = "done" => cv'.v \in framed'
    BY DEF UnderInv
  <2>1. /\ \A v \in Videos: post[v] = "harvested" => Underway(v)
        /\ \A v \in dedup: post[v] = "harvested"
        /\ post[g] = "meta"
        /\ cv.pc = "done" => cv.v \in framed
    BY <1>1 DEF UnderInv, No
  <2>2. post'[g] = "harvested" /\ \A v \in Videos \ {g}: post'[v] = post[v]
    BY <1>1, <1>2, <2>1 DEF Typed, LakeTyped
  <2>3. g \notin dedup BY <2>1
  <2>4. ASSUME NEW v \in Videos, post'[v] = "harvested" PROVE Underway(v)'
    <3>1. CASE v = g BY <1>3, <3>1 DEF Underway
    <3>2. CASE v # g
      <4>1. Underway(v) /\ JobsOf(v)' = JobsOf(v) BY <1>4, <2>1, <2>2, <2>4, <3>2
      <4> HIDE DEF JobsOf
      <4> QED BY <1>1, <4>1 DEF Underway
    <3> QED BY <3>1, <3>2
  <2>5. \A v \in dedup': post'[v] = "harvested" BY <1>1, <1>2, <2>1, <2>2
  <2> QED BY <1>1, <1>3, <2>1, <2>2, <2>3, <2>4, <2>5
<1> QED BY <1>6, <1>7

\* SADD and push: a video that is in the set already has had its job.
LEMMA AddStep ==
  ASSUME Typed, Typed', OnceInv, UnderInv, Add
  PROVE  OnceInv' /\ UnderInv'
<1> DEFINE g == ghost.v
<1>1. UNCHANGED <<queue, held, dead, cv, framed, analyze, post, happened>>
      /\ ghost.pc = "add" /\ dedup' = dedup \cup {g}
      /\ ghost' = IF g \in dedup THEN At("select") ELSE [ghost EXCEPT !.pc = "push"]
  BY DEF Add, cvs, lake
<1>2. g \in Videos BY <1>1 DEF Typed, GhostTyped, InHand, LakeTyped
<1>3. \A v \in Videos: JobsOf(v)' = JobsOf(v) BY <1>1 DEF JobsOf
<1>4. \A v \in Videos: AtPush(v)' => v = g /\ g \notin dedup
  BY <1>1 DEF AtPush, At, Typed, GhostTyped
<1>5. OnceInv'
  <2> SUFFICES ASSUME No({"prioritize", "cleanup", "redis", "reset"})', NEW v \in Videos
               PROVE  (/\ JobsOf(v) <= 1
                       /\ AtPush(v) => JobsOf(v) = 0 /\ v \in dedup
                       /\ v \notin dedup => JobsOf(v) = 0
                       /\ No({"cv", "boot"}) /\ v \in framed
                          => JobsOf(v) = 0 /\ ~AtPush(v) /\ v \in dedup)'
    BY DEF OnceInv
  <2>1. /\ JobsOf(v) <= 1
        /\ v \notin dedup => JobsOf(v) = 0
        /\ No({"cv", "boot"}) /\ v \in framed => JobsOf(v) = 0 /\ v \in dedup
    BY <1>1 DEF OnceInv, No
  <2>2. JobsOf(v)' = JobsOf(v) /\ (AtPush(v)' => v = g /\ g \notin dedup) BY <1>3, <1>4
  <2>3. No({"cv", "boot"})' => No({"cv", "boot"}) BY <1>1 DEF No
  <2> HIDE DEF JobsOf, AtPush, g
  <2> QED BY <1>1, <2>1, <2>2, <2>3
<1>6. UnderInv'
  <2> SUFFICES ASSUME No({"ui", "boot", "redis", "push", "reset", "cleanup"})'
               PROVE  /\ \A v \in Videos: post'[v] = "harvested" => Underway(v)'
                      /\ \A v \in dedup': post'[v] = "harvested"
                      /\ ghost'.pc \in {"get", "save"} => post'[ghost'.v] = "meta"
                      /\ ghost'.pc \in {"add", "push"} => post'[ghost'.v] = "harvested"
                      /\ ghost'.pc = "add" => ghost'.v \notin dedup'
                      /\ cv'.pc = "done" => cv'.v \in framed'
    BY DEF UnderInv
  <2>1. /\ \A v \in Videos: post[v] = "harvested" => Underway(v)
        /\ \A v \in dedup: post[v] = "harvested"
        /\ post[g] = "harvested" /\ g \notin dedup
        /\ cv.pc = "done" => cv.v \in framed
    BY <1>1 DEF UnderInv, No
  <2>2. ghost'.pc = "push" /\ ghost'.v = g
    BY <1>1, <2>1 DEF Typed, GhostTyped
  <2>3. ASSUME NEW v \in Videos, post'[v] = "harvested" PROVE Underway(v)'
    <3>1. CASE v = g BY <2>2, <3>1 DEF Underway
    <3>2. CASE v # g
      <4>1. Underway(v) /\ JobsOf(v)' = JobsOf(v) BY <1>1, <1>3, <2>1, <2>3
      <4> HIDE DEF JobsOf
      <4> QED BY <1>1, <3>2, <4>1 DEF Underway
    <3> QED BY <3>1, <3>2
  <2> QED BY <1>1, <2>1, <2>2, <2>3
<1> QED BY <1>5, <1>6

LEMMA PushStep ==
  ASSUME Typed, Typed', OnceInv, UnderInv, Push
  PROVE  OnceInv' /\ UnderInv'
<1> DEFINE g == ghost.v
<1>1. UNCHANGED <<dedup, held, dead, cv, framed, analyze, post, happened>>
      /\ ghost.pc = "push" /\ ghost' = At("select") /\ queue' = [queue EXCEPT ![g] = @ + 1]
  BY DEF Push, cvs, lake
<1>2. g \in Videos BY <1>1 DEF Typed, GhostTyped, InHand, LakeTyped
<1>3. /\ queue'[g] = queue[g] + 1 /\ \A v \in Videos \ {g}: queue'[v] = queue[v]
  BY <1>1, <1>2 DEF Typed, JobsTyped
<1>4. \A v \in Videos: JobsOf(v)' = IF v = g THEN JobsOf(v) + 1 ELSE JobsOf(v)
  BY <1>1, <1>3 DEF JobsOf, Typed, JobsTyped
<1>5. AtPush(g) /\ \A v \in Videos: ~AtPush(v)' BY <1>1 DEF AtPush, At
<1>6. OnceInv'
  <2> SUFFICES ASSUME No({"prioritize", "cleanup", "redis", "reset"})', NEW v \in Videos
               PROVE  (/\ JobsOf(v) <= 1
                       /\ AtPush(v) => JobsOf(v) = 0 /\ v \in dedup
                       /\ v \notin dedup => JobsOf(v) = 0
                       /\ No({"cv", "boot"}) /\ v \in framed
                          => JobsOf(v) = 0 /\ ~AtPush(v) /\ v \in dedup)'
    BY DEF OnceInv
  <2>1. /\ JobsOf(v) <= 1
        /\ AtPush(v) => JobsOf(v) = 0 /\ v \in dedup
        /\ v \notin dedup => JobsOf(v) = 0
        /\ No({"cv", "boot"}) /\ v \in framed => JobsOf(v) = 0 /\ ~AtPush(v) /\ v \in dedup
    BY <1>1 DEF OnceInv, No
  <2>2. No({"cv", "boot"})' => No({"cv", "boot"}) BY <1>1 DEF No
  <2>3. JobsOf(v)' = (IF v = g THEN JobsOf(v) + 1 ELSE JobsOf(v)) /\ ~AtPush(v)' BY <1>4, <1>5
  <2>4. CASE v = g
    <3>1. JobsOf(v) = 0 /\ v \in dedup /\ AtPush(v) BY <1>5, <2>1, <2>4
    <3>2. JobsOf(v)' = 1 BY <2>3, <2>4, <3>1
    <3> HIDE DEF JobsOf, AtPush, g
    <3> QED BY <1>1, <2>1, <2>2, <2>3, <3>1, <3>2
  <2>5. CASE v # g
    <3>1. JobsOf(v)' = JobsOf(v) BY <2>3, <2>5
    <3> HIDE DEF JobsOf, AtPush, g
    <3> QED BY <1>1, <2>1, <2>2, <2>3, <3>1
  <2> QED BY <2>4, <2>5
<1>7. UnderQuiet
  <2>1. ASSUME NEW v \in Videos, Underway(v) PROVE Underway(v)'
    <3>1. CASE v = g
      <4>1. JobsOf(v)' > 0 BY <1>4, <3>1, JobsCounted
      <4> QED BY <4>1 DEF Underway
    <3>2. CASE v # g
      <4>1. JobsOf(v)' = JobsOf(v) BY <1>4, <3>2
      <4> HIDE DEF JobsOf
      <4> QED BY <1>1, <2>1, <3>2, <4>1 DEF Underway
    <3> QED BY <3>1, <3>2
  <2> QED BY <1>1, <2>1 DEF UnderQuiet, At
<1> QED BY <1>6, <1>7, UnderQuietKeeps

\* The job is not pushed after all, or its worker is gone.
LEMMA PushLostStep ==
  ASSUME Typed, Typed', OnceInv, UnderInv, PushFails \/ UiDies
  PROVE  OnceInv' /\ UnderInv'
<1>1. UNCHANGED <<queue, dedup, held, dead, cv, framed>>
      /\ ghost'.pc \in {"sleep", "down"} /\ happened \subseteq happened'
  BY DEF PushFails, UiDies, UiGone, At, cvs, jobs, Event, Typed, GhostTyped
<1>2. \A v \in Videos: JobsOf(v)' = JobsOf(v) BY <1>1 DEF JobsOf
<1>3. \A v \in Videos: JobsOf(v)' <= JobsOf(v) BY <1>2, JobsCounted
<1>4. \A v \in Videos: ~AtPush(v)' BY <1>1 DEF AtPush
<1>5. OnceQuiet BY <1>1, <1>3, <1>4 DEF OnceQuiet
<1>6. ~No({"ui", "push"})' BY DEF PushFails, UiDies, Event, No
<1>7. UnderInv' BY <1>6 DEF UnderInv, No
<1> QED BY <1>5, <1>7, OnceQuietKeeps

\* A job is claimed: it is counted as the engine's.
LEMMA ClaimStep ==
  ASSUME Typed, Typed', OnceInv, UnderInv, NEW v \in Videos, Claim(v)
  PROVE  OnceInv' /\ UnderInv'
<1>1. UNCHANGED <<dedup, held, dead, framed, analyze, post, ghost, happened>>
      /\ cv.pc = "idle" /\ queue[v] > 0
      /\ queue' = [queue EXCEPT ![v] = @ - 1] /\ cv' = [pc |-> "work", v |-> v]
  BY DEF Claim, lake
<1>2. \A u \in Videos: JobsOf(u)' = JobsOf(u)
  <2> TAKE u \in Videos
  <2>1. queue[u] \in Nat /\ queue'[u] = IF u = v THEN queue[u] - 1 ELSE queue[u]
    BY <1>1 DEF Typed, JobsTyped
  <2>2. cv'.pc = "work" /\ cv'.v = v BY <1>1
  <2> QED BY <1>1, <2>1, <2>2 DEF JobsOf
<1>3. \A u \in Videos: JobsOf(u)' <= JobsOf(u) BY <1>2, JobsCounted
<1>4. \A u \in Videos: AtPush(u)' => AtPush(u) BY <1>1 DEF AtPush
<1>5. OnceQuiet BY <1>1, <1>3, <1>4 DEF OnceQuiet
<1>6. \A u \in Videos: Underway(u) => Underway(u)'
  <2> SUFFICES ASSUME NEW u \in Videos, Underway(u) PROVE Underway(u)' OBVIOUS
  <2>1. JobsOf(u)' = JobsOf(u) BY <1>2
  <2> HIDE DEF JobsOf
  <2> QED BY <1>1, <2>1 DEF Underway
<1>7. UnderQuiet BY <1>1, <1>6 DEF UnderQuiet
<1> QED BY <1>5, <1>7, OnceQuietKeeps, UnderQuietKeeps

\* Its frames are recorded: no job of the video is left.
LEMMA ExtractStep ==
  ASSUME Typed, Typed', OnceInv, UnderInv, Extract
  PROVE  OnceInv' /\ UnderInv'
<1> DEFINE g == cv.v
<1>1. UNCHANGED <<queue, dedup, held, dead, analyze, post, ghost, happened>>
      /\ cv.pc = "work" /\ framed' = framed \cup {g} /\ cv' = [cv EXCEPT !.pc = "done"]
  BY DEF Extract, lake, jobs
<1>2. g \in Videos /\ cv'.pc = "done" /\ cv'.v = g
  BY <1>1 DEF Typed, CvTyped, LakeTyped
<1>3. \A v \in Videos: JobsOf(v)' = IF v = g THEN JobsOf(v) - 1 ELSE JobsOf(v)
  BY <1>1, <1>2 DEF JobsOf, Typed, JobsTyped
<1>4. JobsOf(g) > 0
  BY <1>1, <1>2 DEF JobsOf, Typed, JobsTyped
<1>5. \A v \in Videos: AtPush(v)' = AtPush(v) BY <1>1 DEF AtPush
<1>6. OnceInv'
  <2> SUFFICES ASSUME No({"prioritize", "cleanup", "redis", "reset"})', NEW v \in Videos
               PROVE  (/\ JobsOf(v) <= 1
                       /\ AtPush(v) => JobsOf(v) = 0 /\ v \in dedup
                       /\ v \notin dedup => JobsOf(v) = 0
                       /\ No({"cv", "boot"}) /\ v \in framed
                          => JobsOf(v) = 0 /\ ~AtPush(v) /\ v \in dedup)'
    BY DEF OnceInv
  <2>1. /\ JobsOf(v) <= 1
        /\ AtPush(v) => JobsOf(v) = 0 /\ v \in dedup
        /\ v \notin dedup => JobsOf(v) = 0
        /\ No({"cv", "boot"}) /\ v \in framed => JobsOf(v) = 0 /\ ~AtPush(v) /\ v \in dedup
    BY <1>1 DEF OnceInv, No
  <2>2. No({"cv", "boot"})' => No({"cv", "boot"}) BY <1>1 DEF No
  <2>3. JobsOf(v)' = (IF v = g THEN JobsOf(v) - 1 ELSE JobsOf(v)) /\ AtPush(v)' = AtPush(v)
        /\ JobsOf(v) \in Nat
    BY <1>3, <1>5, JobsCounted
  <2>4. CASE v = g
    <3>1. JobsOf(v) = 1 BY <1>4, <2>1, <2>3, <2>4
    <3>2. v \in dedup /\ ~AtPush(v) BY <2>1, <3>1
    <3>3. JobsOf(v)' = 0 BY <2>3, <2>4, <3>1
    <3> HIDE DEF JobsOf, AtPush, g
    <3> QED BY <1>1, <2>3, <3>2, <3>3
  <2>5. CASE v # g
    <3>1. JobsOf(v)' = JobsOf(v) /\ (v \in framed' => v \in framed) BY <1>1, <2>3, <2>5
    <3> HIDE DEF JobsOf, AtPush, g
    <3> QED BY <1>1, <2>1, <2>2, <2>3, <3>1
  <2> QED BY <2>4, <2>5
<1>7. UnderQuiet
  <2>1. ASSUME NEW v \in Videos, Underway(v) PROVE Underway(v)'
    <3>1. CASE v = g BY <1>2, <3>1 DEF Underway
    <3>2. CASE v # g
      <4>1. JobsOf(v)' = JobsOf(v) BY <1>3, <3>2
      <4> HIDE DEF JobsOf
      <4> QED BY <1>1, <2>1, <3>2, <4>1 DEF Underway
    <3> QED BY <3>1, <3>2
  <2> QED BY <1>1, <1>2, <2>1 DEF UnderQuiet
<1> QED BY <1>6, <1>7, UnderQuietKeeps

\* Handed on, given up, started: no job appears, and none is lost.
LEMMA EngineStep ==
  ASSUME Typed, Typed', OnceInv, UnderInv, HandOn \/ ExtractFails \/ CvStarts
  PROVE  OnceInv' /\ UnderInv'
<1>1. UNCHANGED <<queue, dedup, held, framed, post, ghost>> /\ cv' = Resting
      /\ happened \subseteq happened'
  BY DEF HandOn, ExtractFails, CvStarts, lake, jobs, Event
<1>2. cv'.pc = "idle" BY <1>1 DEF Resting
<1>3. \/ cv.pc \in {"done", "down"} /\ dead' = dead
      \/ cv.pc = "work" /\ dead' = dead \cup {cv.v}
  BY DEF HandOn, ExtractFails, CvStarts, jobs
<1>4. \A v \in Videos: JobsOf(v)' <= JobsOf(v) /\ (JobsOf(v) > 0 => JobsOf(v)' > 0)
  <2> TAKE v \in Videos
  <2>1. queue[v] \in Nat /\ queue'[v] = queue[v] BY <1>1 DEF Typed, JobsTyped
  <2>2. CASE cv.pc \in {"done", "down"} /\ dead' = dead
    BY <1>1, <1>2, <2>1, <2>2 DEF JobsOf
  <2>3. CASE cv.pc = "work" /\ dead' = dead \cup {cv.v}
    BY <1>1, <1>2, <2>1, <2>3 DEF JobsOf
  <2> QED BY <1>3, <2>2, <2>3
<1>5. \A v \in Videos: AtPush(v)' => AtPush(v) BY <1>1 DEF AtPush
<1>6. OnceQuiet BY <1>1, <1>4, <1>5 DEF OnceQuiet
<1>7. analyze \subseteq analyze' /\ (cv.pc = "done" => cv.v \in analyze')
  BY DEF HandOn, ExtractFails, CvStarts
<1>8. \A v \in Videos: Underway(v) => Underway(v)'
  <2> SUFFICES ASSUME NEW v \in Videos, Underway(v) PROVE Underway(v)' OBVIOUS
  <2>1. JobsOf(v) > 0 => JobsOf(v)' > 0 BY <1>4
  <2> HIDE DEF JobsOf
  <2> QED BY <1>1, <1>7, <2>1 DEF Underway
<1>9. UnderQuiet BY <1>1, <1>2, <1>8 DEF UnderQuiet
<1> QED BY <1>6, <1>9, OnceQuietKeeps, UnderQuietKeeps

\* What a dead engine had claimed is kept in PROCESSING, or its frames are.
LEMMA CvDiesStep ==
  ASSUME Typed, Typed', OnceInv, UnderInv, CvDies
  PROVE  OnceInv' /\ UnderInv'
<1>1. UNCHANGED <<queue, dedup, dead, analyze, post, ghost>> /\ cv' = [pc |-> "down", v |-> NoVideo]
      /\ held' = (IF cv.pc = "work" THEN held \cup {cv.v} ELSE held)
      /\ framed \subseteq framed' /\ happened \subseteq happened' /\ "cv" \in happened'
  BY DEF CvDies, CvGone, lake, Event
<1>2. cv'.pc = "down" BY <1>1
<1>3. \A v \in Videos: JobsOf(v)' <= JobsOf(v) /\ (JobsOf(v) > 0 => JobsOf(v)' > 0)
  <2> TAKE v \in Videos
  <2>1. queue[v] \in Nat /\ queue'[v] = queue[v] BY <1>1 DEF Typed, JobsTyped
  <2>2. CASE cv.pc = "work" BY <1>1, <1>2, <2>1, <2>2 DEF JobsOf
  <2>3. CASE cv.pc # "work" BY <1>1, <1>2, <2>1, <2>3 DEF JobsOf
  <2> QED BY <2>2, <2>3
<1>4. \A v \in Videos: AtPush(v)' => AtPush(v) BY <1>1 DEF AtPush
<1>5. OnceQuiet BY <1>1, <1>3, <1>4 DEF OnceQuiet, No
<1>6. OnceInv' BY <1>5, OnceQuietKeeps
<1>7. ASSUME No({"ui", "boot", "redis", "push", "reset", "cleanup"})'
      PROVE  UnderQuiet
  <2>1. cv.pc = "done" => cv.v \in framed BY <1>1, <1>7 DEF UnderInv, No
  <2>2. ASSUME NEW v \in Videos, Underway(v) PROVE Underway(v)'
    <3>1. JobsOf(v) > 0 => JobsOf(v)' > 0 BY <1>3
    <3> HIDE DEF JobsOf
    <3> QED BY <1>1, <2>1, <2>2, <3>1 DEF Underway
  <2> QED BY <1>1, <1>2, <2>2 DEF UnderQuiet
<1>8. UnderInv' BY <1>7, UnderQuietKeeps DEF UnderInv
<1> QED BY <1>6, <1>8

\* A priority takes the video out of the set first,
LEMMA PrioritizeStep ==
  ASSUME Typed, Typed', OnceInv, UnderInv, NEW v \in Videos, Prioritize(v)
  PROVE  OnceInv' /\ UnderInv'
<1>1. UNCHANGED <<queue, held, dead, cv, framed, analyze, post, ghost>>
      /\ dedup' \subseteq dedup
      /\ happened \subseteq happened' /\ "prioritize" \in happened'
  BY DEF Prioritize, lake, cvs, Event
<1>2. OnceInv' BY <1>1 DEF OnceInv, No
<1>3. \A u \in Videos: JobsOf(u)' = JobsOf(u) BY <1>1 DEF JobsOf
<1>4. \A u \in Videos: Underway(u) => Underway(u)'
  <2> SUFFICES ASSUME NEW u \in Videos, Underway(u) PROVE Underway(u)' OBVIOUS
  <2>1. JobsOf(u)' = JobsOf(u) BY <1>3
  <2> HIDE DEF JobsOf
  <2> QED BY <1>1, <2>1 DEF Underway
<1>5. UnderQuiet BY <1>1, <1>4 DEF UnderQuiet
<1> QED BY <1>2, <1>5, UnderQuietKeeps

\* and then pushes its job: one more than it had.
LEMMA PushPriorityStep ==
  ASSUME Typed, Typed', PanelInv, OnceInv, UnderInv, PushPriority
  PROVE  OnceInv' /\ UnderInv'
<1>1. UNCHANGED <<dedup, held, dead, cv, framed, analyze, post, ghost, happened>>
  BY DEF PushPriority, lake, cvs
<1>2. PICK r \in panel:
        r.do = "push" /\ queue' = [v \in Videos |-> queue[v] + IF v \in r.videos THEN 1 ELSE 0]
  BY DEF PushPriority
<1>3. "prioritize" \in happened' BY <1>1, <1>2 DEF PanelInv
<1>4. OnceInv' BY <1>3 DEF OnceInv, No
<1>5. \A u \in Videos: JobsOf(u) > 0 => JobsOf(u)' > 0
  <2> TAKE u \in Videos
  <2>1. queue[u] \in Nat /\ queue'[u] \in Nat /\ queue'[u] >= queue[u]
    BY <1>2 DEF Typed, JobsTyped
  <2> QED BY <1>1, <2>1 DEF JobsOf
<1>6. \A u \in Videos: Underway(u) => Underway(u)'
  <2> SUFFICES ASSUME NEW u \in Videos, Underway(u) PROVE Underway(u)' OBVIOUS
  <2>1. JobsOf(u) > 0 => JobsOf(u)' > 0 BY <1>5
  <2> HIDE DEF JobsOf
  <2> QED BY <1>1, <2>1 DEF Underway
<1>7. UnderQuiet BY <1>1, <1>6 DEF UnderQuiet
<1> QED BY <1>4, <1>7, UnderQuietKeeps

\* Dead letters are queued again: as many jobs as before.
LEMMA ReplayDeadStep ==
  ASSUME Typed, Typed', OnceInv, UnderInv, ReplayDead
  PROVE  OnceInv' /\ UnderInv'
<1>1. UNCHANGED <<held, dedup, cv, framed, analyze, post, ghost>>
      /\ queue' = [v \in Videos |-> queue[v] + IF v \in dead THEN 1 ELSE 0] /\ dead' = {}
      /\ happened \subseteq happened'
  BY DEF ReplayDead, lake, cvs, Event
<1>2. \A v \in Videos: JobsOf(v)' = JobsOf(v)
  <2> TAKE v \in Videos
  <2>1. queue[v] \in Nat /\ queue'[v] = queue[v] + IF v \in dead THEN 1 ELSE 0
    BY <1>1 DEF Typed, JobsTyped
  <2> QED BY <1>1, <2>1 DEF JobsOf
<1>3. \A v \in Videos: JobsOf(v)' <= JobsOf(v) BY <1>2, JobsCounted
<1>4. \A v \in Videos: AtPush(v)' => AtPush(v) BY <1>1 DEF AtPush
<1>5. OnceQuiet BY <1>1, <1>3, <1>4 DEF OnceQuiet
<1>6. \A v \in Videos: Underway(v) => Underway(v)'
  <2> SUFFICES ASSUME NEW v \in Videos, Underway(v) PROVE Underway(v)' OBVIOUS
  <2>1. JobsOf(v)' = JobsOf(v) BY <1>2
  <2> HIDE DEF JobsOf
  <2> QED BY <1>1, <2>1 DEF Underway
<1>7. UnderQuiet BY <1>1, <1>6 DEF UnderQuiet
<1> QED BY <1>5, <1>7, OnceQuietKeeps, UnderQuietKeeps

\* Orphaned jobs are moved back to the queue, and not copied.
LEMMA BootStep ==
  ASSUME Typed, Typed', OnceInv, UnderInv, Boot
  PROVE  OnceInv' /\ UnderInv'
<1> DEFINE orphans == held \cup (IF cv.pc = "work" THEN {cv.v} ELSE {})
<1>1. UNCHANGED <<dedup, dead, framed>> /\ cv' = [pc |-> "down", v |-> NoVideo]
      /\ queue' = [v \in Videos |-> queue[v] + IF v \in orphans THEN 1 ELSE 0] /\ held' = {}
      /\ ghost' = At("down") /\ happened \subseteq happened' /\ "boot" \in happened'
  BY DEF Boot, UiGone, RecoverProcessing, Event
<1>2. \A v \in Videos: JobsOf(v)' <= JobsOf(v)
  <2> TAKE v \in Videos
  <2>1. queue[v] \in Nat /\ queue'[v] = queue[v] + (IF v \in orphans THEN 1 ELSE 0)
    BY <1>1 DEF Typed, JobsTyped
  <2>2. cv'.pc = "down" /\ held' = {} /\ dead' = dead BY <1>1
  <2>3. JobsOf(v)' = queue'[v] + (IF v \in dead THEN 1 ELSE 0)
    BY <2>1, <2>2 DEF JobsOf
  <2> QED BY <2>1, <2>3 DEF JobsOf
<1>3. \A v \in Videos: ~AtPush(v)' BY <1>1 DEF AtPush, At
<1>4. OnceQuiet BY <1>1, <1>2, <1>3 DEF OnceQuiet
<1>5. UnderInv' BY <1>1 DEF UnderInv, No
<1> QED BY <1>4, <1>5, OnceQuietKeeps

\* What takes jobs away on purpose, or with Redis.
LEMMA ExcusedSteps ==
  ASSUME ResetInv, PanelInv, happened \subseteq happened',
         \/ \E c \in Categories, frames, videos \in BOOLEAN: Cleanup(c, frames, videos)
         \/ CleanupRows \/ CleanupDedup
         \/ RedisDies
         \/ Reset \/ QueuesKept \/ SchemaNotMade \/ RefusedReset
  PROVE  OnceInv' /\ UnderInv'
<1>1. ASSUME NEW c, NEW frames, NEW videos, Cleanup(c, frames, videos)
      PROVE  OnceInv' /\ UnderInv'
  BY <1>1 DEF Cleanup, Event, OnceInv, UnderInv, No
<1>2. ASSUME RedisDies PROVE OnceInv' /\ UnderInv'
  BY <1>2 DEF RedisDies, Event, OnceInv, UnderInv, No
<1>3. ASSUME Reset \/ QueuesKept \/ SchemaNotMade \/ RefusedReset
      PROVE  OnceInv' /\ UnderInv'
  <2>1. reset.pc # "idle"
    BY <1>3 DEF Reset, ClearMedia, ClearQueues, ClearLake, Clears, MakeSchema, RestartWorkers,
                Pause, Cleared, FinishReset, QueuesKept, SchemaNotMade, RefusedReset, PauseRefused,
                ResumeRefused
  <2>2. "reset" \in happened' BY <2>1 DEF ResetInv, No
  <2> QED BY <2>2 DEF OnceInv, UnderInv, No
<1>4. ASSUME CleanupRows \/ CleanupDedup PROVE OnceInv' /\ UnderInv'
  <2>1. \E r \in panel: r.do # "push" BY <1>4 DEF CleanupRows, CleanupDedup
  <2>2. "cleanup" \in happened' BY <2>1 DEF PanelInv
  <2> QED BY <2>2 DEF OnceInv, UnderInv, No
<1> QED BY <1>1, <1>2, <1>3, <1>4

-----------------------------------------------------------------------------
(***************************************************************************)
(* The invariant.                                                          *)
(***************************************************************************)
LEMMA InitKeeps == Init => IInv
<1> SUFFICES ASSUME Init PROVE IInv OBVIOUS
<1>1. Typed BY InitTyped
<1>2. ResetInv /\ PanelInv BY DEF Init, InitControl, ResetInv, PanelInv
<1>3. ghost.pc = "top" /\ cv.pc = "idle" BY DEF Init, At, Resting
<1>4. \A v \in Videos: JobsOf(v) = 0 BY <1>3 DEF Init, JobsOf
<1>5. OnceInv BY <1>3, <1>4 DEF Init, OnceInv, AtPush
<1>6. UnderInv BY <1>3 DEF Init, UnderInv
<1> QED BY <1>1, <1>2, <1>5, <1>6 DEF IInv

LEMMA StepKeeps == IInv /\ [Next]_vars => IInv'
<1> SUFFICES ASSUME Typed, ResetInv, PanelInv, OnceInv, UnderInv, [Next]_vars PROVE IInv' BY DEF IInv
<1>1. Typed' /\ happened \subseteq happened' BY StepTyped, HappenedGrows
<1>2. ResetInv' /\ PanelInv' BY <1>1, ResetStep, PanelStep
<1>3. Aside => OnceInv' /\ UnderInv'
  BY <1>1, AsideIsQuiet, OnceQuietKeeps, UnderQuietKeeps
<1>4. Ghost => OnceInv' /\ UnderInv'
  BY <1>1, <1>3, WorkerAside, SelectStep, SaveStep, AddStep, PushStep DEF Ghost
<1>5. Cv \/ CvStarts => OnceInv' /\ UnderInv'
  BY <1>1, ClaimStep, ExtractStep, EngineStep DEF Cv
<1>6. Reset \/ Panel => OnceInv' /\ UnderInv' BY <1>1, ExcusedSteps, PushPriorityStep DEF Panel
<1>7. UiStarts \/ UNCHANGED vars => OnceInv' /\ UnderInv' BY <1>3, OthersAside
<1>8. Happens => OnceInv' /\ UnderInv'
  <2>1. (\E q \in AdminChoices: AdminSets(q) \/ Scan(q)) => OnceInv' /\ UnderInv'
    BY <1>3, OthersAside
  <2>2. CycleFails \/ BatchFails \/ Fails \/ Refused => OnceInv' /\ UnderInv'
    BY <1>3, WorkerAside
  <2>3. PushFails \/ UiDies => OnceInv' /\ UnderInv' BY <1>1, PushLostStep
  <2>4. ExtractFails => OnceInv' /\ UnderInv' BY <1>1, EngineStep
  <2>5. ASSUME NEW v \in Videos, NewPost(v) \/ Prioritize(v) \/ Elapse(v)
        PROVE  OnceInv' /\ UnderInv'
    BY <1>1, <1>3, <2>5, OthersAside, PrioritizeStep
  <2>6. Flags \/ BeginReset => OnceInv' /\ UnderInv' BY <1>3, OthersAside
  <2>7. ReplayDead => OnceInv' /\ UnderInv' BY <1>1, ReplayDeadStep
  <2>8. RedisDies \/ (\E c \in Categories, frames, videos \in BOOLEAN: Cleanup(c, frames, videos))
        => OnceInv' /\ UnderInv'
    BY <1>1, ExcusedSteps
  <2>9. CvDies => OnceInv' /\ UnderInv' BY <1>1, CvDiesStep
  <2>10. Boot => OnceInv' /\ UnderInv' BY <1>1, BootStep
  <2>11. QueuesKept \/ SchemaNotMade \/ RefusedReset => OnceInv' /\ UnderInv'
    BY <1>1, ExcusedSteps
  <2> QED BY <2>1, <2>2, <2>3, <2>4, <2>5, <2>6, <2>7, <2>8, <2>9, <2>10, <2>11, Zenon DEF Happens
<1>9. OnceInv' /\ UnderInv' BY <1>4, <1>5, <1>6, <1>7, <1>8, Zenon DEF Next
<1> QED BY <1>1, <1>2, <1>9 DEF IInv

\* In every state, for any number of videos, categories, failures and deaths: no
\* video waits for the CV engine twice, and none whose frames are recorded waits
\* at all, unless an administrator or a loss of Redis made it so (ui_server.py:648).
THEOREM NoJobIsDoubled == Spec => []HarvestInv
<1>1. IInv => HarvestInv
  <2> SUFFICES ASSUME Typed, OnceInv PROVE HarvestInv BY DEF IInv
  <2>1. HarvestTypeOK
    <3>1. ghost.pc \in GhostPcs /\ ghost.v \in Videos \cup {NoVideo}
          /\ ghost.missing \subseteq channel
      BY DEF Typed, GhostTyped
    <3>2. cv.pc \in {"down", "idle", "work", "done"} BY DEF Typed, CvTyped
    <3>3. dedup \cup framed \cup analyze \cup dead \cup held \subseteq channel
      BY DEF Typed, JobsTyped, CvTyped
    <3> QED BY <3>1, <3>2, <3>3
        DEF Typed, LakeTyped, CatsTyped, JobsTyped, FlagsTyped, PanelTyped, HarvestTypeOK, GhostPcs
  <2>2. QueuedOnce
    <3> SUFFICES ASSUME No({"prioritize", "cleanup", "redis", "reset"}), NEW v \in Videos
                 PROVE  JobsOf(v) <= 1 /\ (No({"cv", "boot"}) /\ v \in framed => queue[v] = 0)
      BY DEF QueuedOnce
    <3>1. JobsOf(v) <= 1 /\ (No({"cv", "boot"}) /\ v \in framed => JobsOf(v) = 0) BY DEF OnceInv
    <3>2. JobsOf(v) = 0 => queue[v] = 0 BY DEF JobsOf, Typed, JobsTyped
    <3> QED BY <3>1, <3>2
  <2> QED BY <2>1, <2>2 DEF HarvestInv
<1>2. Spec => Init /\ [][Next]_vars BY DEF Spec
<1> QED BY <1>1, <1>2, InitKeeps, StepKeeps, PTL

\* In every state a post that is Harvested has its job about to be pushed, queued,
\* claimed, orphaned, dead or handed on: nobody looks at the post again, so it
\* would be lost otherwise (ui_server.py:635-652).
THEOREM NoHarvestIsLost == Spec => []HarvestedIsUnderway
<1>1. IInv => HarvestedIsUnderway BY DEF IInv, UnderInv, HarvestedIsUnderway
<1>2. Spec => Init /\ [][Next]_vars BY DEF Spec
<1> QED BY <1>1, <1>2, InitKeeps, StepKeeps, PTL

=============================================================================
