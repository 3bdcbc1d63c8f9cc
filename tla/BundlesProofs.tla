---------------------------- MODULE BundlesProofs ----------------------------
(***************************************************************************)
(* Proofs about Bundles, for any number of parts, posts, bundles, messages *)
(* and faults: a posted manifest names a whole bundle, a part is in the    *)
(* channel twice only for a cause, the lake becomes nothing but the        *)
(* snapshot of one posted bundle, and it is the one that was shown.        *)
(*                                                                         *)
(* The argument.  What a manifest says is posted is in the channel, be it  *)
(* the one the upload works with or the one on disk (Backed), and the      *)
(* channel only grows.  For the copies, the ledger is the manifests that   *)
(* an upload of a bundle works from, now or next: a part in the channel    *)
(* that the one in hand or the one on disk does not list (Resendable) may  *)
(* go up once more, so it is counted in advance (CopyInv).  The part just  *)
(* posted is not on disk yet: until _save_local has been tried it is in    *)
(* suspense, and then it is listed, or the failure is counted (Charged).   *)
(***************************************************************************)
EXTENDS Bundles, FiniteSetTheorems, SequenceTheorems, WellFoundedInduction, TLAPS

ExpPcs == {"none", "spawned", "build", "probe", "upload", "save", "pin", "finish"}
ResPcs == {"none", "spawned", "find", "fetch", "join", "lake", "pg"}
Loading == {"fetch", "join", "lake", "pg"}

Records == [seq: 0 .. MaxBundles, lake: SUBSET Posts, pg: {Whole, Torn},
            sent: [Parts -> Nat], committed: BOOLEAN]
PartMessages == [kind: {"part"}, seq: Seqs, part: Parts]
ManMessages  == [kind: {"manifest"}, man: Records]
Messages == {Other} \cup PartMessages \cup ManMessages

Saved(s) == disk[s] \notin {Absent, Unsaved}

\* What the manifest says is posted is among these messages.
Backed(ch, man) ==
  \A p \in Parts : man.sent[p] # 0 =>
    man.sent[p] \in 1 .. Len(ch) /\ ch[man.sent[p]] = Part(man.seq, p)

BaseTyped ==
  /\ lake \subseteq Posts /\ pg \in {Whole, Torn}
  /\ channel \in Seq(Messages)
  /\ pinned \in 0 .. Len(channel) /\ pending \in 0 .. MaxBundles
  /\ built \in 0 .. MaxBundles /\ unsure \in Nat

Exports  == [running: BOOLEAN, pc: ExpPcs, man: Records]
Restores == [running: BOOLEAN, pc: ResPcs, mode: {"inspect", "apply"}, seq: 0 .. MaxBundles,
             man: Records, got: Seq(Nat), auto: BOOLEAN, shown: 0 .. MaxBundles]

ExpTyped ==
  /\ exp \in Exports
  /\ exp.pc = "none" => exp = ExpIdle
  /\ exp.running <=> exp.pc \notin {"none", "spawned"}
  /\ exp.running => exp.man.seq \in 1 .. built /\ Backed(channel, exp.man)
  /\ exp.pc = "spawned" => \/ exp.man.seq = 0 /\ built < MaxBundles
                           \/ exp.man.seq \in Resumable
  /\ exp.pc = "spawned" => exp.man.sent = NoMan.sent
  /\ exp.pc \in {"pin", "finish"} => Unsent(exp.man) = {}
  /\ exp.pc = "pin" => Manifests # {}

DiskTyped ==
  /\ disk \in [Seqs -> Records \cup {Absent, Unsaved}]
  /\ \A s \in Seqs : Saved(s) => disk[s] \in Records /\ disk[s].seq = s /\ Backed(channel, disk[s])
  /\ \A s \in Seqs : s > built => disk[s] = Absent

\* The restore works for the bundle it was asked for, found posted.
ResTyped ==
  /\ res \in Restores
  /\ res.pc = "none" => res = ResIdle
  /\ res.running => res.pc # "spawned"
  /\ res.shown # 0 => res.seq = res.shown
  /\ res.pc \in Loading => /\ \E i \in Manifests : res.man = channel[i].man
                           /\ res.seq # 0 => res.man.seq = res.seq
                           /\ \A p \in 1 .. Len(res.got) : res.got[p] = res.man.seq
  /\ res.pc = "lake" => Len(res.got) >= LakeParts
  /\ res.pc = "join" => Len(res.got) >= LakeParts
  /\ res.pc = "spawned" => res.got = <<>>
  /\ res.pc = "find" => res.got = <<>>

Typed == BaseTyped /\ ExpTyped /\ DiskTyped /\ ResTyped

PartPosts == {i \in 1 .. Len(channel) : channel[i].kind = "part"}
Distinct  == {channel[i] : i \in PartPosts}

\* A manifest that an upload of the bundle works from does not list it.
Missing(m) ==
  \/ exp.running /\ exp.man.seq = m.seq /\ exp.man.sent[m.part] = 0
  \/ Saved(m.seq) /\ disk[m.seq].sent[m.part] = 0
Resendable == {m \in Distinct : Missing(m)}

\* What the disk lists of the bundle in hand, the upload lists; the part just
\* posted is not on disk yet.
SyncInv ==
  exp.running /\ Saved(exp.man.seq) =>
    /\ \A p \in Parts : disk[exp.man.seq].sent[p] # 0 => exp.man.sent[p] # 0
    /\ exp.pc = "save" =>
         \E p \in Parts : exp.man.sent[p] # 0 /\ disk[exp.man.seq].sent[p] = 0

\* The causes so far, and the part in suspense.
Suspense == IF exp.pc = "save" /\ Saved(exp.man.seq) THEN 1 ELSE 0
Charged  == unsure + Suspense

\* A copy more than its kind is charged, those to come included.
Counted ==
  /\ IsFiniteSet(PartPosts) /\ IsFiniteSet(Distinct)
  /\ Cardinality(PartPosts) + Cardinality(Resendable) <= Charged + Cardinality(Distinct)

CopyInv == (\A m \in Distinct : m.seq <= built) /\ SyncInv /\ Counted

IInv == Typed /\ BundleIsWhole /\ CopyInv

-----------------------------------------------------------------------------
(* Sets of naturals, and messages                                           *)

LEMMA HasGreatest ==
  ASSUME NEW S \in SUBSET Nat, S # {}, NEW n \in Nat, \A k \in S : k <= n
  PROVE  Max(S) \in S
<1> DEFINE T == {n - k : k \in S}
<1>0. \A k \in S : k \in Nat /\ n - k \in Nat
  OBVIOUS
<1>1. T \subseteq Nat /\ T # {}
  BY <1>0
<1>2. PICK x \in T : \A y \in T : <<y, x>> \notin OpToRel(<, Nat)
  BY <1>1, NatLessThanWellFounded, WFMin
<1>3. \A y \in T : ~(y < x)
  BY <1>1, <1>2 DEF OpToRel
<1>4. PICK m \in S : x = n - m
  OBVIOUS
<1>5. ASSUME NEW k \in S PROVE m >= k
  <2>1. ~(n - k < n - m)
    BY <1>3, <1>4
  <2> QED BY <2>1, <1>0
<1> QED BY <1>5 DEF Max

LEMMA HasLeast ==
  ASSUME NEW S \in SUBSET Nat, S # {}
  PROVE  Min(S) \in S
<1>1. PICK x \in S : \A y \in S : <<y, x>> \notin OpToRel(<, Nat)
  BY NatLessThanWellFounded, WFMin
<1>2. \A y \in S : ~(y < x)
  BY <1>1 DEF OpToRel
<1>3. \A y \in S : x <= y
  BY <1>2
<1> QED BY <1>3 DEF Min

LEMMA ConstantFacts ==
  /\ LakeParts \in Nat \ {0} /\ MaxBundles \in Nat \ {0} /\ Window \in Nat \ {0}
  /\ MaxPosts \in Nat /\ MaxMessages \in Nat /\ MaxFaults \in Nat
  /\ Parts \subseteq Nat \ {0} /\ Seqs \subseteq Nat \ {0} /\ Posts \subseteq Nat
  /\ Cardinality(Parts) = LakeParts + 1
<1>1. /\ LakeParts \in Nat \ {0} /\ MaxBundles \in Nat \ {0} /\ Window \in Nat \ {0}
      /\ MaxPosts \in Nat /\ MaxMessages \in Nat /\ MaxFaults \in Nat
  BY BundlesAssumption
<1>2. Cardinality(1 .. LakeParts + 1) = LakeParts + 1
  BY <1>1, FS_Interval
<1> QED BY <1>1, <1>2 DEF Parts, Seqs, Posts

\* The three kinds of messages.
LEMMA Kinds ==
  /\ \A s \in Seqs, p \in Parts : /\ Part(s, p) \in Messages /\ Part(s, p).kind = "part"
                                  /\ Part(s, p).seq = s /\ Part(s, p).part = p
  /\ \A man \in Records : /\ Manifest(man) \in Messages /\ Manifest(man).kind = "manifest"
                          /\ Manifest(man).man = man
  /\ Other \in Messages /\ Other.kind = "other"
  /\ \A m \in Messages :
       /\ m.kind = "part" => m.seq \in Seqs /\ m.part \in Parts /\ m = Part(m.seq, m.part)
       /\ m.kind = "manifest" => m.man \in Records
<1>1. \A s \in Seqs, p \in Parts : /\ Part(s, p) \in Messages /\ Part(s, p).kind = "part"
                                  /\ Part(s, p).seq = s /\ Part(s, p).part = p
  BY DEF Part, Messages, PartMessages
<1>2. \A man \in Records : /\ Manifest(man) \in Messages /\ Manifest(man).kind = "manifest"
                          /\ Manifest(man).man = man
  BY DEF Manifest, Messages, ManMessages
<1>3. Other \in Messages /\ Other.kind = "other"
  BY DEF Other, Messages
<1>4. ASSUME NEW m \in PartMessages PROVE
        m.kind = "part" /\ m.seq \in Seqs /\ m.part \in Parts /\ m = Part(m.seq, m.part)
  BY DEF PartMessages, Part
<1>5. ASSUME NEW m \in ManMessages PROVE m.kind = "manifest" /\ m.man \in Records
  BY DEF ManMessages
<1>6. \A m \in Messages : m = Other \/ m \in PartMessages \/ m \in ManMessages
  BY DEF Messages
<1> QED BY <1>1, <1>2, <1>3, <1>4, <1>5, <1>6

-----------------------------------------------------------------------------
(* The channel grows                                                        *)

ChannelStep == channel' = channel \/ \E m \in Messages : channel' = Append(channel, m)

LEMMA Grows ==
  ASSUME channel \in Seq(Messages), NEW m \in Messages, channel' = Append(channel, m)
  PROVE  /\ channel' \in Seq(Messages)
         /\ Len(channel) \in Nat /\ Len(channel') = Len(channel) + 1
         /\ \A i \in 1 .. Len(channel) : channel'[i] = channel[i]
         /\ channel'[Len(channel')] = m
         /\ m.kind # "manifest" => Manifests' = Manifests
         /\ m.kind = "manifest" => Manifests' = Manifests \cup {Len(channel')}
         /\ m.kind # "part" => PartPosts' = PartPosts
         /\ m.kind = "part" => PartPosts' = PartPosts \cup {Len(channel')}
<1>1. /\ channel' \in Seq(Messages)
      /\ Len(channel) \in Nat /\ Len(channel') = Len(channel) + 1
      /\ \A i \in 1 .. Len(channel) : channel'[i] = channel[i]
      /\ channel'[Len(channel')] = m
  <2>1. Append(channel, m) \in Seq(Messages) /\ Len(channel) \in Nat
    OBVIOUS
  <2>2. Len(Append(channel, m)) = Len(channel) + 1
    OBVIOUS
  <2>3. /\ \A i \in 1 .. Len(channel) : Append(channel, m)[i] = channel[i]
        /\ Append(channel, m)[Len(channel) + 1] = m
    OBVIOUS
  <2> QED BY <2>1, <2>2, <2>3
<1>2. \A i : i \in 1 .. Len(channel') <=> i \in 1 .. Len(channel) \/ i = Len(channel')
  BY <1>1
<1> QED BY <1>1, <1>2 DEF Manifests, PartPosts

\* Every message and every manifest that was there is there.
LEMMA Remains ==
  ASSUME channel \in Seq(Messages), ChannelStep
  PROVE  /\ channel' \in Seq(Messages)
         /\ Len(channel) \in Nat /\ Len(channel') \in Nat /\ Len(channel) <= Len(channel')
         /\ \A i \in 1 .. Len(channel) : channel'[i] = channel[i]
         /\ \A i \in Manifests : i \in Manifests' /\ channel'[i] = channel[i]
         /\ \A man : Backed(channel, man) => Backed(channel', man)
<1>1. CASE channel' = channel
  BY <1>1 DEF Manifests
<1>2. CASE \E m \in Messages : channel' = Append(channel, m)
  <2>1. PICK m \in Messages : channel' = Append(channel, m)
    BY <1>2
  <2>2. /\ channel' \in Seq(Messages)
        /\ Len(channel) \in Nat /\ Len(channel') \in Nat /\ Len(channel) <= Len(channel')
        /\ \A i \in 1 .. Len(channel) : channel'[i] = channel[i]
    BY <2>1, Grows
  <2>3. \A i \in Manifests : i \in Manifests' /\ channel'[i] = channel[i]
    BY <2>1, <2>2, Grows DEF Manifests
  <2>4. ASSUME NEW man, Backed(channel, man) PROVE Backed(channel', man)
    BY <2>2, <2>4 DEF Backed
  <2> QED BY <2>2, <2>3, <2>4
<1> QED BY <1>1, <1>2 DEF ChannelStep

LEMMA ManifestOf ==
  ASSUME channel \in Seq(Messages), NEW i \in Manifests
  PROVE  i \in 1 .. Len(channel) /\ channel[i].man \in Records
<1>1. i \in 1 .. Len(channel) /\ channel[i].kind = "manifest" /\ channel[i] \in Messages
  BY DEF Manifests
<1> QED BY <1>1, Kinds

LEMMA DistinctParts ==
  ASSUME channel \in Seq(Messages), NEW m \in Distinct
  PROVE  m.seq \in Seqs /\ m.part \in Parts /\ m = Part(m.seq, m.part)
<1>1. PICK i \in 1 .. Len(channel) : m = channel[i] /\ m.kind = "part"
  BY DEF Distinct, PartPosts
<1>2. m \in Messages
  BY <1>1
<1> QED BY <1>1, <1>2, Kinds

\* What the channel's parts become: unchanged, but for a part that is added.
LEMMA PartsAfter ==
  ASSUME channel \in Seq(Messages), NEW m \in Messages, channel' = Append(channel, m)
  PROVE  /\ m.kind # "part" => PartPosts' = PartPosts /\ Distinct' = Distinct
         /\ m.kind = "part" => /\ PartPosts' = PartPosts \cup {Len(channel) + 1}
                               /\ Len(channel) + 1 \notin PartPosts
                               /\ Distinct' = Distinct \cup {m}
<1>1. /\ Len(channel) \in Nat /\ Len(channel') = Len(channel) + 1
      /\ \A i \in 1 .. Len(channel) : channel'[i] = channel[i]
      /\ channel'[Len(channel')] = m
      /\ m.kind # "part" => PartPosts' = PartPosts
      /\ m.kind = "part" => PartPosts' = PartPosts \cup {Len(channel')}
  BY Grows
<1>2. \A i \in PartPosts : channel'[i] = channel[i]
  BY <1>1 DEF PartPosts
<1>3. Distinct' = {channel'[i] : i \in PartPosts'}
  BY DEF Distinct
<1>4. CASE m.kind # "part"
  BY <1>1, <1>2, <1>3, <1>4 DEF Distinct
<1>5. CASE m.kind = "part"
  <2>1. PartPosts' = PartPosts \cup {Len(channel) + 1} /\ channel'[Len(channel) + 1] = m
    BY <1>1, <1>5
  <2>2. Len(channel) + 1 \notin PartPosts
    BY <1>1 DEF PartPosts
  <2>3. Distinct' = Distinct \cup {m}
    BY <1>2, <1>3, <2>1 DEF Distinct
  <2> QED BY <1>5, <2>1, <2>2, <2>3
<1> QED BY <1>4, <1>5

-----------------------------------------------------------------------------
(* What a step leaves alone                                                 *)

LEMMA Recorded ==
  \A man \in Records : man # Absent /\ man # Unsaved
<1> SUFFICES ASSUME NEW man \in Records PROVE man # Absent /\ man # Unsaved
  OBVIOUS
<1>1. DOMAIN man = {"seq", "lake", "pg", "sent", "committed"}
  BY DEF Records
<1>2. DOMAIN Absent = {"seq"} /\ DOMAIN Unsaved = {"seq"}
  BY DEF Absent, Unsaved
<1>3. "lake" # "seq"
  OBVIOUS
<1> QED BY <1>1, <1>2, <1>3

LEMMA ExportKept ==
  ASSUME BaseTyped, ExpTyped, DiskTyped, ChannelStep, UNCHANGED <<exp, disk, built>>
  PROVE  ExpTyped' /\ DiskTyped'
<1>1. /\ \A i \in Manifests : i \in Manifests'
      /\ \A man : Backed(channel, man) => Backed(channel', man)
  BY Remains DEF BaseTyped
<1>2. ExpTyped'
  BY <1>1 DEF ExpTyped, Resumable, Unsent
<1>3. DiskTyped'
  BY <1>1 DEF DiskTyped, Saved
<1> QED BY <1>2, <1>3

LEMMA RestoreKept ==
  ASSUME BaseTyped, ResTyped, ChannelStep, res' = res
  PROVE  ResTyped'
<1>1. \A i \in Manifests : i \in Manifests' /\ channel'[i] = channel[i]
  BY Remains DEF BaseTyped
<1>2. res.pc \in Loading => \E i \in Manifests' : res.man = channel'[i].man
  BY <1>1 DEF ResTyped
<1> QED BY <1>2 DEF ResTyped

\* What is posted whole stays so.
LEMMA StaysWhole ==
  ASSUME BaseTyped, BundleIsWhole, ChannelStep, NEW i \in Manifests, NEW p \in Parts
  PROVE  /\ channel'[i].man.sent[p] \in 1 .. i - 1
         /\ channel'[channel'[i].man.sent[p]] = Part(channel'[i].man.seq, p)
<1>1. /\ channel[i].man.sent[p] \in 1 .. i - 1
      /\ channel[channel[i].man.sent[p]] = Part(channel[i].man.seq, p)
  BY DEF BundleIsWhole
<1>2. i \in 1 .. Len(channel) /\ Len(channel) \in Nat
  BY DEF Manifests, BaseTyped
<1>3. channel[i].man.sent[p] \in 1 .. Len(channel)
  BY <1>1, <1>2
<1>4. \A j \in 1 .. Len(channel) : channel'[j] = channel[j]
  BY Remains DEF BaseTyped
<1> QED BY <1>1, <1>2, <1>3, <1>4

\* Posting anything but a manifest leaves the posted ones whole.
LEMMA WholeKept ==
  ASSUME BaseTyped, BundleIsWhole,
         \/ channel' = channel
         \/ \E m \in Messages : m.kind # "manifest" /\ channel' = Append(channel, m)
  PROVE  BundleIsWhole'
<1>1. ChannelStep
  BY DEF ChannelStep
<1>2. Manifests' = Manifests
  BY Grows DEF BaseTyped, Manifests
<1> QED BY <1>1, <1>2, StaysWhole DEF BundleIsWhole

\* The count when the parts stay and no message is to be sent again that was not.
LEMMA CountKept ==
  ASSUME Counted, PartPosts' = PartPosts, Distinct' = Distinct,
         Charged \in Nat, Charged' \in Nat, Charged' >= Charged,
         Resendable' \subseteq Resendable
  PROVE  Counted'
<1>1. Resendable \subseteq Distinct
  BY DEF Resendable
<1>2. IsFiniteSet(Resendable) /\ IsFiniteSet(Resendable')
  BY <1>1, FS_Subset DEF Counted
<1>3. Cardinality(Resendable') <= Cardinality(Resendable)
  BY <1>2, FS_Subset
<1>4. /\ Cardinality(Resendable') \in Nat /\ Cardinality(Resendable) \in Nat
      /\ Cardinality(PartPosts) \in Nat /\ Cardinality(Distinct) \in Nat
  BY <1>2, FS_CardinalityType DEF Counted
<1>5. /\ IsFiniteSet(PartPosts) /\ IsFiniteSet(Distinct)
      /\ Cardinality(PartPosts) + Cardinality(Resendable) <= Charged + Cardinality(Distinct)
  BY DEF Counted
<1>6. Cardinality(PartPosts) + Cardinality(Resendable') <= Charged' + Cardinality(Distinct)
  BY <1>3, <1>4, <1>5
<1> QED BY <1>5, <1>6 DEF Counted

\* One message less may be sent again, and nothing is in suspense any more.
LEMMA CountSettled ==
  ASSUME Counted, PartPosts' = PartPosts, Distinct' = Distinct,
         Charged \in Nat, Charged' \in Nat, Charged' >= Charged - 1,
         NEW m \in Resendable, Resendable' \subseteq Resendable \ {m}
  PROVE  Counted'
<1>1. Resendable \subseteq Distinct
  BY DEF Resendable
<1>2. IsFiniteSet(Resendable) /\ IsFiniteSet(Resendable \ {m}) /\ IsFiniteSet(Resendable')
  <2>1. IsFiniteSet(Resendable)
    BY <1>1, FS_Subset DEF Counted
  <2>2. IsFiniteSet(Resendable \ {m})
    BY <2>1, FS_RemoveElement
  <2> QED BY <2>1, <2>2, FS_Subset
<1>3. /\ Cardinality(Resendable') <= Cardinality(Resendable \ {m})
      /\ Cardinality(Resendable \ {m}) = Cardinality(Resendable) - 1
  BY <1>2, FS_Subset, FS_RemoveElement
<1>4. /\ Cardinality(Resendable') \in Nat /\ Cardinality(Resendable) \in Nat
      /\ Cardinality(PartPosts) \in Nat /\ Cardinality(Distinct) \in Nat
  BY <1>2, FS_CardinalityType DEF Counted
<1>5. /\ IsFiniteSet(PartPosts) /\ IsFiniteSet(Distinct)
      /\ Cardinality(PartPosts) + Cardinality(Resendable) <= Charged + Cardinality(Distinct)
  BY DEF Counted
<1>6. Cardinality(PartPosts) + Cardinality(Resendable') <= Charged' + Cardinality(Distinct)
  BY <1>3, <1>4, <1>5
<1> QED BY <1>5, <1>6 DEF Counted

LEMMA CopiesKept ==
  ASSUME BaseTyped, CopyInv, UNCHANGED <<exp, disk, built>>, unsure' \in Nat, unsure' >= unsure,
         \/ channel' = channel
         \/ \E m \in Messages : m.kind # "part" /\ channel' = Append(channel, m)
  PROVE  CopyInv'
<1>1. PartPosts' = PartPosts /\ Distinct' = Distinct
  <2>1. CASE channel' = channel
    BY <2>1 DEF PartPosts, Distinct
  <2>2. CASE \E m \in Messages : m.kind # "part" /\ channel' = Append(channel, m)
    BY <2>2, PartsAfter DEF BaseTyped
  <2> QED BY <2>1, <2>2
<1>2. Resendable' = Resendable
  BY <1>1 DEF Resendable, Missing, Saved
<1>3. Counted'
  <2>1. Suspense' = Suspense
    BY DEF Suspense, Saved
  <2>2. Suspense = 0 \/ Suspense = 1
    BY DEF Suspense
  <2>3. Charged = unsure + Suspense /\ Charged' = unsure' + Suspense
    BY <2>1 DEF Charged
  <2>4. unsure \in Nat
    BY DEF BaseTyped
  <2>5. Charged \in Nat /\ Charged' \in Nat /\ Charged' >= Charged
    BY <2>2, <2>3, <2>4
  <2> QED BY <1>1, <1>2, <2>5, CountKept DEF CopyInv
<1>4. SyncInv'
  BY <1>1 DEF CopyInv, SyncInv, Saved
<1> QED BY <1>1, <1>3, <1>4 DEF CopyInv

-----------------------------------------------------------------------------
(* The initial state, and the steps that leave the export alone             *)

LEMMA Idle ==
  /\ NoMan \in Records /\ ExpIdle \in Exports /\ ResIdle \in Restores
  /\ Backed(channel, NoMan)
<1>1. NoMan \in Records
  BY ConstantFacts DEF NoMan, Records, Posts
<1>2. ExpIdle \in Exports
  BY <1>1 DEF ExpIdle, Exports, ExpPcs
<1>3. ResIdle \in Restores
  BY <1>1, ConstantFacts DEF ResIdle, Restores, ResPcs
<1>4. Backed(channel, NoMan)
  BY DEF Backed, NoMan
<1> QED BY <1>1, <1>2, <1>3, <1>4

LEMMA IdleRestore ==
  ASSUME res' = ResIdle
  PROVE  ResTyped'
BY Idle DEF ResTyped, ResIdle, Loading

LEMMA Initially == Init => IInv
<1> SUFFICES ASSUME Init PROVE IInv
  OBVIOUS
<1>1. /\ channel = <<>> /\ channel \in Seq(Messages) /\ Len(channel) = 0
      /\ exp = ExpIdle /\ res = ResIdle /\ built = 0 /\ unsure = 0
      /\ \A s \in Seqs : disk[s] = Absent
  BY DEF Init
<1>2. Manifests = {} /\ PartPosts = {}
  BY <1>1 DEF Manifests, PartPosts
<1>3. Distinct = {}
  BY <1>2 DEF Distinct
<1>4. Resendable = {}
  BY <1>3 DEF Resendable
<1>5. BaseTyped
  BY <1>1, ConstantFacts DEF Init, BaseTyped
<1>6. ExpTyped
  BY <1>1, Idle DEF ExpTyped, ExpIdle
<1>7. DiskTyped
  BY <1>1 DEF Init, DiskTyped, Saved
<1>8. ResTyped
  BY <1>1, Idle DEF ResTyped, ResIdle, Loading
<1>9. BundleIsWhole
  BY <1>2 DEF BundleIsWhole
<1>10. Counted
  BY <1>1, <1>2, <1>3, <1>4, FS_EmptySet DEF Counted, Charged, Suspense, ExpIdle
<1>11. CopyInv
  BY <1>1, <1>3, <1>10 DEF CopyInv, SyncInv, ExpIdle
<1> QED BY <1>5, <1>6, <1>7, <1>8, <1>9, <1>11 DEF IInv, Typed

LEMMA RestoreSide ==
  ASSUME IInv, UNCHANGED <<exp, disk, built, unsure>>,
         channel' = channel \/ channel' = Append(channel, Other),
         BaseTyped', ResTyped'
  PROVE  IInv'
<1>1. /\ ChannelStep
      /\ \/ channel' = channel
         \/ \E m \in Messages : m.kind # "manifest" /\ channel' = Append(channel, m)
      /\ \/ channel' = channel
         \/ \E m \in Messages : m.kind # "part" /\ channel' = Append(channel, m)
  BY Kinds DEF ChannelStep
<1>2. ExpTyped' /\ DiskTyped'
  BY <1>1, ExportKept DEF IInv, Typed
<1>3. BundleIsWhole'
  BY <1>1, WholeKept DEF IInv, Typed
<1>4. unsure \in Nat /\ unsure' \in Nat /\ unsure' >= unsure
  BY DEF IInv, Typed, BaseTyped
<1>5. CopyInv'
  BY <1>1, <1>4, CopiesKept DEF IInv, Typed
<1> QED BY <1>2, <1>3, <1>5 DEF IInv, Typed

\* The base variables after a stray message, or none.
LEMMA StrayTyped ==
  ASSUME BaseTyped, channel' = channel \/ channel' = Append(channel, Other),
         UNCHANGED <<built, unsure>>,
         lake' \subseteq Posts, pg' \in {Whole, Torn},
         pending' \in 0 .. MaxBundles, pinned' = pinned \/ pinned' = Len(channel')
  PROVE  BaseTyped'
<1>1. ChannelStep
  BY Kinds DEF ChannelStep
<1>2. /\ channel' \in Seq(Messages)
      /\ Len(channel) \in Nat /\ Len(channel') \in Nat /\ Len(channel) <= Len(channel')
  BY <1>1, Remains DEF BaseTyped
<1> QED BY <1>2 DEF BaseTyped

LEMMA HarvestStep == IInv /\ Harvest => IInv'
<1> SUFFICES ASSUME IInv, Harvest PROVE IInv'
  OBVIOUS
<1>1. lake' \subseteq Posts
  <2>1. Posts \ lake # {} /\ Posts \ lake \subseteq Nat
    BY ConstantFacts DEF Harvest
  <2>2. Min(Posts \ lake) \in Posts \ lake
    BY <2>1, HasLeast
  <2> QED BY <2>2 DEF Harvest, IInv, Typed, BaseTyped
<1>2. BaseTyped'
  BY <1>1, StrayTyped DEF Harvest, counts, IInv, Typed, BaseTyped
<1>3. ResTyped'
  BY RestoreKept DEF Harvest, IInv, Typed, ChannelStep
<1> QED BY <1>2, <1>3, RestoreSide DEF Harvest, counts

LEMMA PinStageStep == IInv /\ PinStage => IInv'
<1> SUFFICES ASSUME IInv, PinStage PROVE IInv'
  OBVIOUS
<1>1. channel' = Append(channel, Other) /\ ChannelStep
  BY Kinds DEF PinStage, PostOther, Post, ChannelStep
<1>2. BaseTyped'
  BY <1>1, StrayTyped DEF PinStage, IInv, Typed, BaseTyped
<1>3. ResTyped'
  BY <1>1, RestoreKept DEF PinStage, IInv, Typed
<1> QED BY <1>1, <1>2, <1>3, RestoreSide DEF PinStage

LEMMA CancelStep == IInv /\ CancelExport => IInv'
<1> SUFFICES ASSUME IInv, CancelExport PROVE IInv'
  OBVIOUS
<1>1. BaseTyped'
  BY StrayTyped DEF CancelExport, counts, IInv, Typed, BaseTyped
<1>2. ResTyped'
  BY RestoreKept DEF CancelExport, IInv, Typed, ChannelStep
<1> QED BY <1>1, <1>2, RestoreSide DEF CancelExport, counts

-----------------------------------------------------------------------------
(* The restore's steps                                                      *)

LEMMA SpawnTyped ==
  ASSUME BaseTyped, NEW mode \in {"inspect", "apply"}, NEW seq \in 0 .. MaxBundles,
         NEW auto \in BOOLEAN, SpawnRestore(mode, seq, auto)
  PROVE  ResTyped'
<1>1. /\ res' \in Restores
      /\ res'.pc = "spawned" /\ res'.running = FALSE /\ res'.got = <<>>
      /\ res'.shown # 0 => res'.seq = res'.shown
  BY Idle DEF SpawnRestore, Asked, BaseTyped, Restores, ResIdle, ResPcs
<1> QED BY <1>1 DEF ResTyped, Loading

LEMMA StartStep == IInv /\ (StartRestore \/ BootRestore) => IInv'
<1> SUFFICES ASSUME IInv, StartRestore \/ BootRestore PROVE IInv'
  OBVIOUS
<1>1. /\ UNCHANGED <<lake, pg, channel, pinned, pending, built, unsure, exp, disk>>
      /\ built \in 0 .. MaxBundles
  BY DEF StartRestore, BootRestore, IInv, Typed, BaseTyped
<1>2. BaseTyped'
  BY <1>1, StrayTyped DEF IInv, Typed, BaseTyped
<1>3. ResTyped'
  <2>1. CASE StartRestore
    <3>1. PICK mode \in {"inspect", "apply"}, seq \in 0 .. built : SpawnRestore(mode, seq, FALSE)
      BY <2>1 DEF StartRestore
    <3>2. seq \in 0 .. MaxBundles
      BY <1>1, ConstantFacts
    <3> QED BY <3>1, <3>2, SpawnTyped DEF IInv, Typed
  <2>2. CASE BootRestore /\ res' = res
    BY <1>1, <2>2, RestoreKept DEF IInv, Typed, ChannelStep
  <2>3. CASE SpawnRestore("apply", 0, TRUE)
    <3>1. 0 \in 0 .. MaxBundles
      BY ConstantFacts
    <3> QED BY <2>3, <3>1, SpawnTyped DEF IInv, Typed
  <2> QED BY <2>1, <2>2, <2>3 DEF BootRestore
<1> QED BY <1>1, <1>2, <1>3, RestoreSide

LEMMA RunRestoreStep == IInv /\ RunRestore => IInv'
<1> SUFFICES ASSUME IInv, RunRestore PROVE IInv'
  OBVIOUS
<1>1. UNCHANGED <<lake, pg, channel, pinned, pending, built, unsure, exp, disk>>
  BY DEF RunRestore, RestoreFrame
<1>2. BaseTyped'
  BY <1>1, StrayTyped DEF IInv, Typed, BaseTyped
<1>3. ResTyped'
  <2>1. CASE EndRestore
    BY <2>1, IdleRestore DEF EndRestore
  <2>2. CASE res' = [res EXCEPT !.running = TRUE, !.pc = "find"]
    <3>1. res \in Restores /\ res.got = <<>> /\ (res.shown # 0 => res.seq = res.shown)
      BY DEF IInv, Typed, ResTyped, RunRestore
    <3>2. /\ res' \in Restores /\ res'.pc = "find" /\ res'.got = <<>>
          /\ res'.shown # 0 => res'.seq = res'.shown
      BY <2>2, <3>1 DEF Restores, ResPcs
    <3> QED BY <3>2 DEF ResTyped, Loading
  <2> QED BY <2>1, <2>2 DEF RunRestore
<1> QED BY <1>1, <1>2, <1>3, RestoreSide

LEMMA FindStep == IInv /\ Find => IInv'
<1> SUFFICES ASSUME IInv, Find PROVE IInv'
  OBVIOUS
<1>1. /\ UNCHANGED <<lake, pg, pinned, built, unsure, exp, disk>>
      /\ channel' = channel \/ channel' = Append(channel, Other)
      /\ channel \in Seq(Messages) /\ Len(channel) \in Nat
      /\ res \in Restores /\ res.pc = "find" /\ res.got = <<>>
      /\ res.shown # 0 => res.seq = res.shown
  BY DEF Find, RestoreFrame, PostOther, Post, IInv, Typed, BaseTyped, ResTyped
<1>2. ChannelStep
  BY <1>1, Kinds DEF ChannelStep
<1>3. \/ EndRestore /\ UNCHANGED pending
      \/ \E i \in Manifests : res.seq \in Names(i) /\ Take(channel[i].man)
  <2>1. FromPin \subseteq {i \in Manifests : res.seq \in Names(i)}
    BY DEF FromPin
  <2>2. FromScan \subseteq {i \in Manifests : res.seq \in Names(i)}
    <3> DEFINE hits == {i \in Manifests : res.seq \in Names(i)
                                         /\ i > Len(channel) - Window}
    <3>1. CASE hits = {}
      BY <3>1 DEF FromScan
    <3>2. CASE hits # {}
      <4>1. hits \subseteq Nat /\ \A i \in hits : i <= Len(channel)
        BY <1>1 DEF Manifests
      <4>2. Max(hits) \in hits
        BY <1>1, <3>2, <4>1, HasGreatest
      <4> QED BY <3>2, <4>2 DEF FromScan
    <3> QED BY <3>1, <3>2
  <2> QED BY <2>1, <2>2 DEF Find
<1>4. CASE EndRestore /\ UNCHANGED pending
  <2>1. ResTyped'
    BY <1>4, IdleRestore DEF EndRestore
  <2>2. BaseTyped'
    BY <1>1, <1>4, StrayTyped DEF IInv, Typed, BaseTyped
  <2> QED BY <1>1, <2>1, <2>2, RestoreSide
<1>5. CASE \E i \in Manifests : res.seq \in Names(i) /\ Take(channel[i].man)
  <2>1. PICK i \in Manifests : res.seq \in Names(i) /\ Take(channel[i].man)
    BY <1>5
  <2>2. /\ channel[i].man \in Records /\ channel[i].man.seq \in 0 .. MaxBundles
        /\ i \in Manifests' /\ channel'[i] = channel[i]
    BY <1>1, <1>2, ManifestOf, Remains DEF Records
  <2>3. pending' \in 0 .. MaxBundles
    BY <2>1, <2>2 DEF Take, IInv, Typed, BaseTyped
  <2>4. BaseTyped'
    BY <1>1, <2>3, StrayTyped DEF IInv, Typed, BaseTyped
  <2>5. CASE res.mode = "inspect"
    <3>1. ResTyped'
      BY <2>1, <2>5, IdleRestore DEF Take, EndRestore
    <3> QED BY <1>1, <2>4, <3>1, RestoreSide
  <2>6. CASE res.mode # "inspect"
    <3>1. res' = [res EXCEPT !.pc = "fetch", !.man = channel[i].man]
      BY <2>1, <2>6 DEF Take
    <3>2. /\ res' \in Restores /\ res'.pc = "fetch" /\ res'.got = <<>>
          /\ res'.man = channel'[i].man
          /\ res'.shown # 0 => res'.seq = res'.shown
          /\ res'.seq = res.seq
      BY <1>1, <2>2, <3>1 DEF Restores, ResPcs
    <3>3. res'.seq # 0 => res'.man.seq = res'.seq
      BY <2>1, <2>2, <3>2 DEF Names
    <3>4. Len(res'.got) = 0
      BY <3>2
    <3>5. ResTyped'
      BY <2>2, <3>2, <3>3, <3>4 DEF ResTyped
    <3> QED BY <1>1, <2>4, <3>5, RestoreSide
  <2> QED BY <2>5, <2>6
<1> QED BY <1>3, <1>4, <1>5

\* A restore that goes on with the manifest it has, on the channel as it was.
LEMMA GoesOn ==
  ASSUME IInv, channel' = channel, res.pc \in Loading,
         res' \in Restores, res'.pc \in Loading, res'.seq = res.seq,
         res'.man = res.man, res'.shown = res.shown,
         \A p \in 1 .. Len(res'.got) : res'.got[p] = res.man.seq,
         res'.pc \in {"join", "lake"} => Len(res'.got) >= LakeParts
  PROVE  ResTyped'
<1>1. /\ \E i \in Manifests : res.man = channel[i].man
      /\ res.seq # 0 => res.man.seq = res.seq
      /\ res.shown # 0 => res.seq = res.shown
  BY DEF IInv, Typed, ResTyped
<1>2. \E i \in Manifests' : res'.man = channel'[i].man
  BY <1>1 DEF Manifests
<1> QED BY <1>1, <1>2 DEF ResTyped, Loading

LEMMA FetchStep == IInv /\ Fetch => IInv'
<1> SUFFICES ASSUME IInv, Fetch PROVE IInv'
  OBVIOUS
<1>1. /\ UNCHANGED <<lake, pg, channel, pinned, pending, built, unsure, exp, disk>>
      /\ res.pc = "fetch" /\ res \in Restores
      /\ \A p \in 1 .. Len(res.got) : res.got[p] = res.man.seq
  BY DEF Fetch, RestoreFrame, IInv, Typed, ResTyped, Loading
<1>2. BaseTyped'
  BY <1>1, StrayTyped DEF IInv, Typed, BaseTyped
<1>3. \/ EndRestore
      \/ res' = [res EXCEPT !.got = Append(@, res.man.seq),
                  !.pc = IF Len(res.got) + 1 = Cardinality(Parts) THEN "join" ELSE "fetch"]
  BY DEF Fetch, Reuse
<1>4. CASE EndRestore
  <2>1. ResTyped'
    BY <1>4, IdleRestore DEF EndRestore
  <2> QED BY <1>1, <1>2, <2>1, RestoreSide
<1>5. CASE res' = [res EXCEPT !.got = Append(@, res.man.seq),
                   !.pc = IF Len(res.got) + 1 = Cardinality(Parts) THEN "join" ELSE "fetch"]
  <2>1. res.got \in Seq(Nat) /\ res.man.seq \in Nat
    BY <1>1, ConstantFacts DEF Restores, Records
  <2>2. /\ Append(res.got, res.man.seq) \in Seq(Nat)
        /\ Len(Append(res.got, res.man.seq)) = Len(res.got) + 1
        /\ \A p \in 1 .. Len(res.got) + 1 : Append(res.got, res.man.seq)[p] = res.man.seq
    BY <1>1, <2>1
  <2>3. /\ res' \in Restores /\ res'.pc \in {"join", "fetch"} /\ res'.seq = res.seq
        /\ res'.man = res.man /\ res'.shown = res.shown
        /\ res'.got = Append(res.got, res.man.seq)
        /\ res'.pc = "join" => Len(res.got) + 1 = Cardinality(Parts)
    BY <1>1, <1>5, <2>2 DEF Restores, ResPcs
  <2>4. res'.pc \in {"join", "lake"} => Len(res'.got) >= LakeParts
    BY <2>2, <2>3, ConstantFacts
  <2>5. ResTyped'
    BY <1>1, <2>2, <2>3, <2>4, GoesOn DEF Loading
  <2> QED BY <1>1, <1>2, <2>5, RestoreSide
<1> QED BY <1>3, <1>4, <1>5

LEMMA JoinStep == IInv /\ Join => IInv'
<1> SUFFICES ASSUME IInv, Join PROVE IInv'
  OBVIOUS
<1>1. /\ UNCHANGED <<lake, pg, channel, pinned, pending, built, unsure, exp, disk>>
      /\ res.pc = "join" /\ res \in Restores /\ res' = [res EXCEPT !.pc = "lake"]
      /\ \A p \in 1 .. Len(res.got) : res.got[p] = res.man.seq
      /\ Len(res.got) >= LakeParts
  BY DEF Join, RestoreFrame, IInv, Typed, ResTyped, Loading
<1>2. BaseTyped'
  BY <1>1, StrayTyped DEF IInv, Typed, BaseTyped
<1>3. /\ res' \in Restores /\ res'.pc = "lake" /\ res'.seq = res.seq
      /\ res'.man = res.man /\ res'.shown = res.shown /\ res'.got = res.got
  BY <1>1 DEF Restores, ResPcs
<1>4. ResTyped'
  BY <1>1, <1>3, GoesOn DEF Loading
<1> QED BY <1>1, <1>2, <1>4, RestoreSide

\* What is joined is the lake of the one bundle that was fetched.
LEMMA OneBundle ==
  ASSUME IInv, res.pc = "lake"
  PROVE  Joined = res.man.lake /\ \E i \in Manifests : res.man = channel[i].man
<1>1. /\ Len(res.got) >= LakeParts /\ Len(res.got) \in Nat
      /\ \A p \in 1 .. Len(res.got) : res.got[p] = res.man.seq
      /\ \E i \in Manifests : res.man = channel[i].man
  BY DEF IInv, Typed, ResTyped, Loading, Restores
<1>2. \A p \in 1 .. LakeParts : res.got[p] = res.man.seq
  BY <1>1, ConstantFacts
<1> QED BY <1>1, <1>2 DEF Joined

LEMMA LoadLakeStep == IInv /\ LoadLake => IInv'
<1> SUFFICES ASSUME IInv, LoadLake PROVE IInv'
  OBVIOUS
<1>1. /\ UNCHANGED <<pg, channel, pinned, pending, built, unsure, exp, disk>>
      /\ res.pc = "lake" /\ res \in Restores /\ res' = [res EXCEPT !.pc = "pg"]
      /\ lake' = Joined
      /\ \A p \in 1 .. Len(res.got) : res.got[p] = res.man.seq
  BY DEF LoadLake, RestoreFrame, IInv, Typed, ResTyped, Loading
<1>2. lake' \subseteq Posts
  BY <1>1, OneBundle DEF Restores, Records
<1>3. BaseTyped'
  BY <1>1, <1>2, StrayTyped DEF IInv, Typed, BaseTyped
<1>4. /\ res' \in Restores /\ res'.pc = "pg" /\ res'.seq = res.seq
      /\ res'.man = res.man /\ res'.shown = res.shown /\ res'.got = res.got
  BY <1>1 DEF Restores, ResPcs
<1>5. ResTyped'
  BY <1>1, <1>4, GoesOn DEF Loading
<1> QED BY <1>1, <1>3, <1>5, RestoreSide

LEMMA LoadPostgresStep == IInv /\ LoadPostgres => IInv'
<1> SUFFICES ASSUME IInv, LoadPostgres PROVE IInv'
  OBVIOUS
<1>1. /\ UNCHANGED <<lake, channel, pinned, built, unsure, exp, disk>>
      /\ res' = ResIdle
      /\ res \in Restores /\ pg' \in {pg, Torn, res.man.pg}
      /\ pending' \in {pending, 0}
  BY DEF LoadPostgres, RestoreFrame, Loaded, EndRestore, IInv, Typed, ResTyped
<1>2. pg' \in {Whole, Torn} /\ pending' \in 0 .. MaxBundles
  BY <1>1, ConstantFacts DEF IInv, Typed, BaseTyped, Restores, Records
<1>3. BaseTyped'
  BY <1>1, <1>2, StrayTyped DEF IInv, Typed, BaseTyped
<1>4. ResTyped'
  BY <1>1, IdleRestore
<1> QED BY <1>1, <1>3, <1>4, RestoreSide

-----------------------------------------------------------------------------
(* The export's steps that post nothing                                     *)

LEMMA IdleExport ==
  ASSUME exp' = ExpIdle
  PROVE  ExpTyped'
BY Idle DEF ExpTyped, ExpIdle

LEMMA ExportSide ==
  ASSUME IInv, UNCHANGED <<lake, pg, res, pending, channel>>, unsure' \in Nat,
         pinned' \in 0 .. Len(channel), built' \in 0 .. MaxBundles,
         ExpTyped', DiskTyped', CopyInv'
  PROVE  IInv'
<1>1. BaseTyped'
  BY DEF IInv, Typed, BaseTyped
<1>2. ResTyped'
  BY RestoreKept DEF IInv, Typed, ChannelStep
<1>3. BundleIsWhole'
  BY WholeKept DEF IInv, Typed
<1> QED BY <1>1, <1>2, <1>3 DEF IInv, Typed

LEMMA Charges ==
  ASSUME IInv
  PROVE  unsure \in Nat /\ Charged \in Nat /\ (exp.pc # "save" => Charged = unsure)
BY DEF Charged, Suspense, IInv, Typed, BaseTyped

LEMMA CopiesSame ==
  ASSUME IInv, channel' = channel, Charged' \in Nat, Charged' >= Charged,
         built \in Nat, built' \in Nat,
         built' >= built, SyncInv', \A m \in Distinct : Missing(m)' => Missing(m)
  PROVE  CopyInv'
<1>1. PartPosts' = PartPosts /\ Distinct' = Distinct
  BY DEF PartPosts, Distinct
<1>2. Resendable' \subseteq Resendable
  BY <1>1 DEF Resendable
<1>3. Counted'
  BY <1>1, <1>2, CountKept, Charges DEF IInv, CopyInv
<1>4. \A m \in Distinct : m.seq \in Nat /\ m.seq <= built
  BY DistinctParts, ConstantFacts DEF IInv, Typed, BaseTyped, CopyInv
<1>5. \A m \in Distinct' : m.seq <= built'
  BY <1>1, <1>4
<1> QED BY <1>3, <1>5 DEF CopyInv

\* A step outside the save, and what it adds to the causes.
LEMMA ChargedAfter ==
  ASSUME IInv, exp.pc # "save", exp'.pc # "save", unsure' \in Nat, unsure' >= unsure
  PROVE  Charged' \in Nat /\ Charged' >= Charged
<1>1. Charged = unsure /\ unsure \in Nat
  BY Charges
<1>2. Suspense' = 0
  BY DEF Suspense
<1>3. Charged' = unsure' + 0
  BY <1>2 DEF Charged
<1>4. ASSUME NEW u \in Nat, NEW v \in Nat, v >= u PROVE v + 0 \in Nat /\ v + 0 >= u
  BY <1>4
<1> QED BY <1>1, <1>3, <1>4

\* The bundle in hand.
LEMMA InHand ==
  ASSUME IInv, exp.running
  PROVE  /\ exp \in Exports /\ exp.man \in Records /\ exp.pc \notin {"none", "spawned"}
         /\ exp.man.seq \in Seqs /\ exp.man.seq \in 1 .. built /\ built \in 0 .. MaxBundles
         /\ exp.man.sent \in [Parts -> Nat]
         /\ Backed(channel, exp.man)
<1>1. /\ exp \in Exports /\ exp.man \in Records /\ exp.pc \notin {"none", "spawned"}
      /\ exp.man.seq \in 1 .. built /\ built \in 0 .. MaxBundles
      /\ Backed(channel, exp.man)
  BY DEF IInv, Typed, BaseTyped, ExpTyped, Exports
<1>2. exp.man.seq \in Seqs
  BY <1>1, ConstantFacts DEF Seqs
<1>3. exp.man.sent \in [Parts -> Nat]
  BY <1>1 DEF Records
<1> QED BY <1>1, <1>2, <1>3

\* What _save_local leaves on disk: the record, or the old one or none and a cause.
LEMMA SaveDisk ==
  ASSUME IInv, exp.running, SaveLocal(exp.man), UNCHANGED <<channel, built>>
  PROVE  /\ DiskTyped'
         /\ unsure \in Nat /\ unsure' \in Nat /\ unsure' >= unsure
         /\ \/ disk'[exp.man.seq] = exp.man /\ unsure' = unsure
            \/ /\ disk'[exp.man.seq] = disk[exp.man.seq] \/ disk'[exp.man.seq] = Unsaved
               /\ unsure' = unsure + 1
         /\ \A s \in Seqs : s # exp.man.seq => disk'[s] = disk[s]
<1>1. /\ disk \in [Seqs -> Records \cup {Absent, Unsaved}] /\ exp.man.seq \in Seqs
      /\ unsure \in Nat
  BY InHand DEF IInv, Typed, BaseTyped, DiskTyped
<1>2. exp.man \in Records
  BY InHand
<1>3. \/ disk' = [disk EXCEPT ![exp.man.seq] = exp.man] /\ unsure' = unsure
      \/ disk' = disk /\ unsure' = unsure + 1
      \/ disk' = [disk EXCEPT ![exp.man.seq] = Unsaved] /\ unsure' = unsure + 1
  BY DEF SaveLocal, counts
<1>4. /\ disk' \in [Seqs -> Records \cup {Absent, Unsaved}]
      /\ \A s \in Seqs : s # exp.man.seq => disk'[s] = disk[s]
      /\ unsure' \in Nat /\ unsure' >= unsure
      /\ \/ disk'[exp.man.seq] = exp.man /\ unsure' = unsure
         \/ /\ disk'[exp.man.seq] = disk[exp.man.seq] \/ disk'[exp.man.seq] = Unsaved
            /\ unsure' = unsure + 1
  BY <1>1, <1>2, <1>3
<1>5. ASSUME NEW s \in Seqs, disk'[s] \notin {Absent, Unsaved}
      PROVE  disk'[s] \in Records /\ disk'[s].seq = s /\ Backed(channel', disk'[s])
  <2>1. CASE disk'[s] = disk[s]
    BY <1>5, <2>1 DEF IInv, Typed, DiskTyped, Saved
  <2>2. CASE s = exp.man.seq /\ disk'[s] = exp.man
    BY <1>2, <2>2, InHand
  <2> QED BY <1>4, <1>5, <2>1, <2>2
<1>6. ASSUME NEW s \in Seqs, s > built' PROVE disk'[s] = Absent
  <2>1. s # exp.man.seq
    BY <1>6, InHand
  <2> QED BY <1>4, <1>6, <2>1 DEF IInv, Typed, DiskTyped
<1>7. DiskTyped'
  BY <1>4, <1>5, <1>6 DEF DiskTyped, Saved
<1> QED BY <1>1, <1>4, <1>7

LEMMA RemoveDisk ==
  ASSUME IInv, NEW seq \in Seqs, disk' = [disk EXCEPT ![seq] = Absent],
         UNCHANGED <<channel, built>>
  PROVE  /\ DiskTyped'
         /\ disk'[seq] = Absent
         /\ \A s \in Seqs : s # seq => disk'[s] = disk[s]
<1>1. /\ disk' \in [Seqs -> Records \cup {Absent, Unsaved}]
      /\ disk'[seq] = Absent
      /\ \A s \in Seqs : s # seq => disk'[s] = disk[s]
  BY DEF IInv, Typed, DiskTyped
<1>2. DiskTyped'
  BY <1>1 DEF IInv, Typed, DiskTyped, Saved
<1> QED BY <1>1, <1>2

LEMMA DiskKept ==
  ASSUME IInv, UNCHANGED <<channel, disk, built>>
  PROVE  DiskTyped'
BY DEF IInv, Typed, DiskTyped, Saved

\* An upload that ends leaves the next one what it knew, or knew to be gone.
LEMMA EndsExport ==
  ASSUME IInv, exp.running, exp.pc # "save", exp' = ExpIdle,
         UNCHANGED <<lake, pg, res, pending, channel, pinned, built>>,
         DiskTyped', unsure' \in Nat, unsure' >= unsure,
         \A s \in Seqs : s # exp.man.seq => disk'[s] = disk[s],
         \/ disk'[exp.man.seq] = disk[exp.man.seq]
         \/ disk'[exp.man.seq] = exp.man
         \/ disk'[exp.man.seq] = Absent
         \/ disk'[exp.man.seq] = Unsaved
  PROVE  IInv'
<1>1. ASSUME NEW m \in Distinct, Missing(m)' PROVE Missing(m)
  <2>1. m.seq \in Seqs /\ ~exp'.running
    BY DistinctParts DEF IInv, Typed, BaseTyped, ExpIdle
  <2>2. disk'[m.seq] \notin {Absent, Unsaved} /\ disk'[m.seq].sent[m.part] = 0
    BY <1>1, <2>1 DEF Missing, Saved
  <2> QED BY <2>1, <2>2 DEF Missing, Saved
<1>2. SyncInv' /\ exp'.pc # "save"
  BY DEF SyncInv, ExpIdle
<1>3. built \in Nat /\ built \in 0 .. MaxBundles /\ pinned \in 0 .. Len(channel)
  BY DEF IInv, Typed, BaseTyped
<1>4. CopyInv'
  BY <1>1, <1>2, <1>3, ChargedAfter, CopiesSame
<1> QED BY <1>3, <1>4, IdleExport, ExportSide

LEMMA StartExportStep == IInv /\ StartExport => IInv'
<1> SUFFICES ASSUME IInv, StartExport PROVE IInv'
  OBVIOUS
<1>1. /\ exp = ExpIdle /\ UNCHANGED <<lake, pg, channel, pinned, disk, res, pending, built, unsure>>
      /\ Resumable = {} => built < MaxBundles
      /\ exp' = [exp EXCEPT !.pc = "spawned",
                    !.man.seq = IF Resumable = {} THEN 0 ELSE Max(Resumable)]
      /\ built \in Nat /\ built \in 0 .. MaxBundles /\ pinned \in 0 .. Len(channel)
  BY DEF StartExport, IInv, Typed, ExpTyped, BaseTyped
<1> DEFINE seq == IF Resumable = {} THEN 0 ELSE Max(Resumable)
<1>2. /\ seq \in 0 .. MaxBundles
      /\ \/ seq = 0 /\ built < MaxBundles
         \/ seq \in Resumable
  <2>1. CASE Resumable = {}
    BY <1>1, <2>1, ConstantFacts
  <2>2. CASE Resumable # {}
    <3>1. Resumable \subseteq Nat /\ \A s \in Resumable : s <= MaxBundles
      BY ConstantFacts DEF Resumable, Seqs
    <3>2. Max(Resumable) \in Resumable
      BY <2>2, <3>1, ConstantFacts, HasGreatest
    <3>3. \A s \in Resumable : s \in 0 .. MaxBundles
      BY <3>1, ConstantFacts
    <3> QED BY <2>2, <3>2, <3>3
  <2> QED BY <2>1, <2>2
<1>3. /\ exp' \in Exports /\ exp'.pc = "spawned" /\ exp'.running = FALSE
      /\ exp'.man.seq = seq /\ exp'.man.sent = NoMan.sent
  <2>1. exp' = [running |-> FALSE, pc |-> "spawned", man |-> [NoMan EXCEPT !.seq = seq]]
    BY <1>1 DEF ExpIdle
  <2>2. [NoMan EXCEPT !.seq = seq] \in Records
    BY <1>2, Idle DEF Records
  <2>3. [NoMan EXCEPT !.seq = seq].seq = seq /\ [NoMan EXCEPT !.seq = seq].sent = NoMan.sent
    BY DEF NoMan
  <2> QED BY <2>1, <2>2, <2>3 DEF Exports, ExpPcs
<1>4. Resumable' = Resumable
  BY <1>1 DEF Resumable
<1>5. ExpTyped'
  BY <1>1, <1>2, <1>3, <1>4 DEF ExpTyped
<1>6. DiskTyped'
  BY <1>1, DiskKept
<1>7. CopyInv'
  <2>1. \A m \in Distinct : Missing(m)' => Missing(m)
    BY <1>1, <1>3 DEF Missing, Saved, ExpIdle
  <2>2. SyncInv'
    BY <1>3 DEF SyncInv
  <2>3. exp.pc # "save" /\ exp'.pc # "save" /\ unsure \in Nat
    BY <1>1, <1>3, Charges DEF ExpIdle
  <2>4. Charged' \in Nat /\ Charged' >= Charged
    BY <1>1, <2>3, ChargedAfter
  <2>5. channel' = channel /\ built \in Nat /\ built' \in Nat /\ built' >= built
    BY <1>1
  <2> QED BY <2>1, <2>2, <2>4, <2>5, CopiesSame
<1>8. /\ UNCHANGED <<lake, pg, res, pending, channel>> /\ unsure' \in Nat
      /\ pinned' \in 0 .. Len(channel) /\ built' \in 0 .. MaxBundles
  BY <1>1, Charges
<1> QED BY <1>5, <1>6, <1>7, <1>8, ExportSide

LEMMA RunExportStep == IInv /\ RunExport => IInv'
<1> SUFFICES ASSUME IInv, RunExport PROVE IInv'
  OBVIOUS
<1>1. /\ exp.pc = "spawned" /\ ~exp.running /\ exp \in Exports /\ exp.man \in Records
      /\ exp.man.sent = NoMan.sent
      /\ UNCHANGED <<lake, pg, channel, pinned, res, pending, unsure>>
      /\ built \in Nat /\ built \in 0 .. MaxBundles /\ pinned \in 0 .. Len(channel)
      /\ \/ exp.man.seq = 0 /\ built < MaxBundles
         \/ exp.man.seq \in Resumable
      /\ disk \in [Seqs -> Records \cup {Absent, Unsaved}]
  BY DEF RunExport, ExportFrame, counts, IInv, Typed, ExpTyped, BaseTyped, Exports, DiskTyped
<1>2. CASE exp.man.seq # 0
  <2> DEFINE seq == exp.man.seq
  <2>1. /\ seq \in Seqs /\ Saved(seq)
        /\ disk[seq] \in Records /\ disk[seq].seq = seq /\ Backed(channel, disk[seq])
    BY <1>1, <1>2 DEF Resumable, Saved, IInv, Typed, DiskTyped
  <2>2. seq \in 1 .. built
    <3>1. ~(seq > built)
      BY <2>1 DEF IInv, Typed, DiskTyped, Saved
    <3> QED BY <1>1, <2>1, <3>1, ConstantFacts DEF Seqs
  <2>3. /\ exp' = [exp EXCEPT !.running = TRUE, !.pc = "probe", !.man = disk[seq]]
        /\ UNCHANGED <<disk, built>>
    BY <1>2 DEF RunExport, ReadBack
  <2>4. /\ exp' \in Exports /\ exp'.running = TRUE /\ exp'.pc = "probe"
        /\ exp'.man = disk[seq]
    BY <1>1, <2>1, <2>3 DEF Exports, ExpPcs
  <2>5. ExpTyped'
    BY <1>1, <2>1, <2>2, <2>3, <2>4 DEF ExpTyped
  <2>6. DiskTyped'
    BY <1>1, <2>3, DiskKept
  <2>7. CopyInv'
    <3>1. \A m \in Distinct : Missing(m)' => Missing(m)
      BY <1>1, <2>1, <2>3, <2>4 DEF Missing, Saved
    <3>2. SyncInv'
      BY <2>1, <2>3, <2>4 DEF SyncInv, Saved
    <3> QED BY <1>1, <2>3, <2>4, <3>1, <3>2, Charges, ChargedAfter, CopiesSame
  <2> QED BY <1>1, <2>3, <2>5, <2>6, <2>7, Charges, ExportSide
<1>3. CASE exp.man.seq = 0
  <2>1. exp.man.seq \notin Resumable /\ built < MaxBundles
    BY <1>1, <1>3, ConstantFacts DEF Resumable
  <2>2. /\ built' = built + 1 /\ built' \in Seqs /\ built' \in 1 .. built' /\ built' \in Nat
        /\ built' \in 0 .. MaxBundles
        /\ exp' = [exp EXCEPT !.running = TRUE, !.pc = "build", !.man.seq = built']
        /\ disk' = [disk EXCEPT ![built'] = Unsaved]
    BY <1>1, <1>3, <2>1, ConstantFacts DEF RunExport, Seqs
  <2>3. /\ exp' \in Exports /\ exp'.running = TRUE /\ exp'.pc = "build"
        /\ exp'.man.seq = built' /\ exp'.man.sent = NoMan.sent
    BY <1>1, <2>2 DEF Exports, ExpPcs, Records
  <2>4. Backed(channel', exp'.man)
    BY <2>3 DEF Backed, NoMan
  <2>5. ExpTyped'
    BY <2>2, <2>3, <2>4 DEF ExpTyped
  <2>6. /\ disk' \in [Seqs -> Records \cup {Absent, Unsaved}]
        /\ disk'[built'] = Unsaved
        /\ \A s \in Seqs : s # built' => disk'[s] = disk[s]
    BY <1>1, <2>2
  <2>7. DiskTyped'
    <3>1. ASSUME NEW s \in Seqs, disk'[s] \notin {Absent, Unsaved}
          PROVE  disk'[s] \in Records /\ disk'[s].seq = s /\ Backed(channel', disk'[s])
      BY <1>1, <2>6, <3>1 DEF IInv, Typed, DiskTyped, Saved
    <3>2. ASSUME NEW s \in Seqs, s > built' PROVE disk'[s] = Absent
      <4>1. s # built' /\ s > built
        BY <1>1, <2>2, <3>2, ConstantFacts
      <4> QED BY <2>6, <4>1 DEF IInv, Typed, DiskTyped
    <3> QED BY <2>6, <3>1, <3>2 DEF DiskTyped, Saved
  <2>8. CopyInv'
    <3>1. \A m \in Distinct : m.seq \in Seqs /\ m.seq # built'
      <4>1. \A m \in Distinct : m.seq \in Seqs /\ m.seq \in Nat /\ m.seq <= built
        BY DistinctParts, ConstantFacts DEF IInv, Typed, BaseTyped, CopyInv
      <4> QED BY <1>1, <2>2, <4>1
    <3>2. \A m \in Distinct : Missing(m)' => Missing(m)
      BY <1>1, <2>3, <2>6, <3>1 DEF Missing, Saved
    <3>3. SyncInv'
      BY <2>3, <2>6 DEF SyncInv, Saved
    <3> QED BY <1>1, <2>2, <2>3, <3>2, <3>3, Charges, ChargedAfter, CopiesSame
  <2> QED BY <1>1, <2>2, <2>5, <2>7, <2>8, Charges, ExportSide
<1> QED BY <1>2, <1>3

\* The export goes on with the bundle in hand, and the disk as it was.
LEMMA GoesOnExport ==
  ASSUME IInv, exp.running, exp.pc # "save",
         exp' \in Exports, exp'.running, exp'.pc \in {"probe", "upload", "pin", "finish"},
         exp'.man.seq = exp.man.seq, exp'.man.sent = exp.man.sent,
         exp'.pc \in {"pin", "finish"} => Unsent(exp'.man) = {},
         exp'.pc = "pin" => Manifests' # {},
         UNCHANGED <<lake, pg, res, pending, channel, unsure, disk, built>>,
         pinned' \in 0 .. Len(channel)
  PROVE  IInv'
<1>1. /\ exp.man.seq \in 1 .. built /\ Backed(channel, exp.man)
      /\ built \in Nat /\ built \in 0 .. MaxBundles
  BY InHand DEF IInv, Typed, BaseTyped
<1>2. Backed(channel', exp'.man)
  BY <1>1 DEF Backed
<1>3. ExpTyped'
  BY <1>1, <1>2 DEF ExpTyped, Unsent
<1>4. DiskTyped'
  BY DiskKept
<1>5. \A m \in Distinct : Missing(m)' => Missing(m)
  BY DEF Missing, Saved
<1>6. SyncInv'
  BY DEF IInv, CopyInv, SyncInv, Saved
<1>7. CopyInv'
  BY <1>1, <1>5, <1>6, Charges, ChargedAfter, CopiesSame
<1> QED BY <1>1, <1>3, <1>4, <1>7, Charges, ExportSide

LEMMA AbandonStep == IInv /\ AbandonBuild => IInv'
<1> SUFFICES ASSUME IInv, AbandonBuild PROVE IInv'
  OBVIOUS
<1>1. /\ exp.pc = "build" /\ exp.running /\ exp' = ExpIdle
      /\ UNCHANGED <<lake, pg, res, pending, channel, unsure, pinned, built>>
      /\ disk' = disk \/ disk' = [disk EXCEPT ![exp.man.seq] = Absent]
  BY DEF AbandonBuild, EndExport, ExportFrame, counts, IInv, Typed, ExpTyped
<1>2. exp.man.seq \in Seqs
  BY <1>1, InHand
<1>3. CASE disk' = disk
  BY <1>1, <1>3, Charges, DiskKept, EndsExport
<1>4. CASE disk' = [disk EXCEPT ![exp.man.seq] = Absent]
  <2>1. /\ DiskTyped' /\ disk'[exp.man.seq] = Absent
        /\ \A s \in Seqs : s # exp.man.seq => disk'[s] = disk[s]
    BY <1>1, <1>2, <1>4, RemoveDisk
  <2>2. unsure' \in Nat /\ unsure' >= unsure
    BY <1>1, Charges
  <2> QED BY <1>1, <2>1, <2>2, EndsExport
<1> QED BY <1>1, <1>3, <1>4

LEMMA BuildStep == IInv /\ Build => IInv'
<1> SUFFICES ASSUME IInv, Build PROVE IInv'
  OBVIOUS
<1>1. /\ exp.pc = "build" /\ exp.running /\ exp \in Exports /\ exp.man \in Records
      /\ exp' = [exp EXCEPT !.pc = "probe", !.man.lake = lake, !.man.pg = pg]
      /\ UNCHANGED <<lake, pg, res, pending, channel, unsure, disk, built, pinned>>
      /\ lake \subseteq Posts /\ pg \in {Whole, Torn} /\ pinned \in 0 .. Len(channel)
  BY DEF Build, ExportFrame, counts, IInv, Typed, ExpTyped, BaseTyped, Exports
<1>2. /\ exp' \in Exports /\ exp'.running /\ exp'.pc = "probe"
      /\ exp'.man.seq = exp.man.seq /\ exp'.man.sent = exp.man.sent
  <2>1. exp' = [exp EXCEPT !.pc = "probe", !.man = [[exp.man EXCEPT !.lake = lake] EXCEPT !.pg = pg]]
    BY <1>1 DEF Exports
  <2>2. /\ [[exp.man EXCEPT !.lake = lake] EXCEPT !.pg = pg] \in Records
        /\ [[exp.man EXCEPT !.lake = lake] EXCEPT !.pg = pg].seq = exp.man.seq
        /\ [[exp.man EXCEPT !.lake = lake] EXCEPT !.pg = pg].sent = exp.man.sent
    BY <1>1 DEF Records
  <2> QED BY <1>1, <2>1, <2>2 DEF Exports, ExpPcs
<1> QED BY <1>1, <1>2, GoesOnExport

LEMMA ProbeStep == IInv /\ Probe => IInv'
<1> SUFFICES ASSUME IInv, Probe PROVE IInv'
  OBVIOUS
<1>1. /\ exp.pc = "probe" /\ exp.running /\ exp \in Exports /\ exp.man \in Records
      /\ UNCHANGED <<lake, pg, res, pending, channel, pinned, built>>
      /\ \/ SaveLocal(exp.man) /\ exp' = ExpIdle
         \/ exp' = ExpIdle /\ UNCHANGED <<disk, unsure>>
         \/ SaveLocal(exp.man) /\ exp' = [exp EXCEPT !.pc = "upload"]
      /\ pinned \in 0 .. Len(channel) /\ built \in Nat /\ built \in 0 .. MaxBundles
  BY DEF Probe, EndExport, ToExport, ExportFrame, counts, IInv, Typed, ExpTyped, BaseTyped, Exports
<1>2. CASE SaveLocal(exp.man) /\ exp' = ExpIdle
  BY <1>1, <1>2, SaveDisk, EndsExport
<1>3. CASE exp' = ExpIdle /\ UNCHANGED <<disk, unsure>>
  BY <1>1, <1>3, Charges, DiskKept, EndsExport
<1>4. CASE SaveLocal(exp.man) /\ exp' = [exp EXCEPT !.pc = "upload"]
  <2>1. /\ exp' \in Exports /\ exp'.running /\ exp'.pc = "upload" /\ exp'.man = exp.man
    BY <1>1, <1>4 DEF Exports, ExpPcs
  <2>2. /\ exp.man.seq \in 1 .. built /\ exp.man.seq \in Seqs /\ Backed(channel, exp.man)
    BY <1>1, InHand
  <2>3. /\ DiskTyped'
        /\ unsure \in Nat /\ unsure' \in Nat /\ unsure' >= unsure
        /\ disk'[exp.man.seq] \in {exp.man, disk[exp.man.seq], Unsaved}
        /\ \A s \in Seqs : s # exp.man.seq => disk'[s] = disk[s]
    BY <1>1, <1>4, SaveDisk
  <2>4. ExpTyped'
    BY <1>1, <2>1, <2>2 DEF ExpTyped
  <2>5. \A m \in Distinct : Missing(m)' => Missing(m)
    <3>1. \A m \in Distinct : m.seq \in Seqs
      BY DistinctParts DEF IInv, Typed, BaseTyped
    <3> QED BY <1>1, <2>1, <2>3, <3>1 DEF Missing, Saved
  <2>6. SyncInv'
    BY <1>1, <2>1, <2>3 DEF IInv, CopyInv, SyncInv, Saved
  <2>7. CopyInv'
    BY <1>1, <2>1, <2>3, <2>5, <2>6, ChargedAfter, CopiesSame
  <2> QED BY <1>1, <2>3, <2>4, <2>7, ExportSide
<1> QED BY <1>1, <1>2, <1>3, <1>4

\* The part in suspense may still go up again.
LEMMA InSuspense ==
  ASSUME IInv, exp.pc = "save", exp.running, Saved(exp.man.seq)
  PROVE  \E p \in Parts : exp.man.sent[p] # 0 /\ Part(exp.man.seq, p) \in Resendable
<1>1. PICK p \in Parts : exp.man.sent[p] # 0 /\ disk[exp.man.seq].sent[p] = 0
  BY DEF IInv, CopyInv, SyncInv
<1>2. PICK i \in 1 .. Len(channel) : channel[i] = Part(exp.man.seq, p)
  BY <1>1, InHand DEF Backed
<1>3. /\ Part(exp.man.seq, p).kind = "part"
      /\ Part(exp.man.seq, p).seq = exp.man.seq /\ Part(exp.man.seq, p).part = p
  BY InHand, Kinds
<1> QED BY <1>1, <1>2, <1>3 DEF Resendable, Missing, Distinct, PartPosts

\* The part in suspense is listed on disk now, or its cause is counted.
LEMMA SaveCounted ==
  ASSUME IInv, exp.pc = "save", exp.running, exp' = [exp EXCEPT !.pc = "upload"],
         SaveLocal(exp.man), UNCHANGED <<channel, built>>,
         \A m \in Distinct : Missing(m)' => Missing(m)
  PROVE  Counted'
<1>1. /\ PartPosts' = PartPosts /\ Distinct' = Distinct /\ Resendable' \subseteq Resendable
      /\ Counted /\ unsure \in Nat /\ Charged \in Nat
  BY Charges DEF PartPosts, Distinct, Resendable, IInv, CopyInv
<1>2. exp'.pc = "upload" /\ exp'.man = exp.man /\ exp'.running
  BY InHand DEF Exports
<1>3. /\ unsure' \in Nat /\ unsure' >= unsure
      /\ \/ disk'[exp.man.seq] = exp.man /\ unsure' = unsure
         \/ unsure' = unsure + 1
  BY SaveDisk
<1>4. Charged' = unsure'
  BY <1>2, <1>3 DEF Charged, Suspense
<1>5. CASE unsure' = unsure + 1 \/ ~Saved(exp.man.seq)
  <2>1. Charged' >= Charged
    BY <1>1, <1>3, <1>4, <1>5 DEF Charged, Suspense
  <2> QED BY <1>1, <1>3, <1>4, <2>1, CountKept
<1>6. CASE Saved(exp.man.seq) /\ disk'[exp.man.seq] = exp.man /\ unsure' = unsure
  <2>1. PICK p \in Parts : exp.man.sent[p] # 0 /\ Part(exp.man.seq, p) \in Resendable
    BY <1>6, InSuspense
  <2> DEFINE m == Part(exp.man.seq, p)
  <2>3. m.seq = exp.man.seq /\ m.part = p
    BY InHand, Kinds
  <2>4. m \in Resendable
    BY <2>1
  <2>5. ASSUME NEW d, d = m PROVE ~Missing(d)'
    <3>1. disk'[exp.man.seq].sent[p] # 0 /\ exp'.man.sent[p] # 0
      BY <1>2, <1>6, <2>1
    <3> QED BY <2>3, <2>5, <3>1 DEF Missing
  <2>6. Resendable' \subseteq Resendable \ {m}
    BY <1>1, <2>5 DEF Resendable
  <2>7. Charged' >= Charged - 1
    BY <1>1, <1>4, <1>6 DEF Charged, Suspense
  <2> HIDE DEF m
  <2> QED BY <1>1, <1>3, <1>4, <2>4, <2>6, <2>7, CountSettled
<1> QED BY <1>3, <1>5, <1>6

LEMMA SaveStep == IInv /\ Save => IInv'
<1> SUFFICES ASSUME IInv, Save PROVE IInv'
  OBVIOUS
<1>1. /\ exp.pc = "save" /\ exp.running /\ exp \in Exports /\ exp.man \in Records
      /\ UNCHANGED <<lake, pg, res, pending, channel, pinned, built>>
      /\ SaveLocal(exp.man) /\ exp' = [exp EXCEPT !.pc = "upload"]
      /\ pinned \in 0 .. Len(channel) /\ built \in Nat /\ built \in 0 .. MaxBundles
  BY DEF Save, ToExport, ExportFrame, counts, IInv, Typed, ExpTyped, BaseTyped, Exports
<1>2. /\ exp' \in Exports /\ exp'.running /\ exp'.pc = "upload" /\ exp'.man = exp.man
  BY <1>1 DEF Exports, ExpPcs
<1>3. /\ exp.man.seq \in 1 .. built /\ exp.man.seq \in Seqs /\ Backed(channel, exp.man)
  BY <1>1, InHand
<1>4. /\ DiskTyped' /\ unsure' \in Nat
      /\ disk'[exp.man.seq] \in {exp.man, disk[exp.man.seq], Unsaved}
      /\ \A s \in Seqs : s # exp.man.seq => disk'[s] = disk[s]
  BY <1>1, SaveDisk
<1>5. ExpTyped'
  BY <1>1, <1>2, <1>3 DEF ExpTyped
<1>6. \A m \in Distinct : Missing(m)' => Missing(m)
  <2>1. \A m \in Distinct : m.seq \in Seqs
    BY DistinctParts DEF IInv, Typed, BaseTyped
  <2> QED BY <1>1, <1>2, <1>4, <2>1 DEF Missing, Saved
<1>7. SyncInv'
  BY <1>1, <1>2, <1>4 DEF IInv, CopyInv, SyncInv, Saved
<1>8. CopyInv'
  <2>1. Distinct' = Distinct
    BY <1>1 DEF Distinct, PartPosts
  <2>2. Counted'
    BY <1>1, <1>6, SaveCounted
  <2> QED BY <1>1, <1>7, <2>1, <2>2 DEF IInv, CopyInv
<1> QED BY <1>1, <1>4, <1>5, <1>8, ExportSide

LEMMA StopStep == IInv /\ StopUpload => IInv'
<1> SUFFICES ASSUME IInv, StopUpload PROVE IInv'
  OBVIOUS
<1>1. /\ exp.pc = "upload" /\ exp.running /\ exp' = ExpIdle
      /\ UNCHANGED <<lake, pg, res, pending, channel, unsure, pinned, disk, built>>
  BY DEF StopUpload, EndExport, ExportFrame, counts, IInv, Typed, ExpTyped
<1> QED BY <1>1, Charges, DiskKept, EndsExport

LEMMA FinishStep == IInv /\ FinishExport => IInv'
<1> SUFFICES ASSUME IInv, FinishExport PROVE IInv'
  OBVIOUS
<1>1. /\ exp.pc = "finish" /\ exp.running /\ exp' = ExpIdle
      /\ UNCHANGED <<lake, pg, res, pending, channel, pinned, built>>
      /\ \/ SaveLocal(exp.man)
         \/ disk' = [disk EXCEPT ![exp.man.seq] = Absent] /\ UNCHANGED unsure
  BY DEF FinishExport, EndExport, ExportFrame, counts, IInv, Typed, ExpTyped
<1>2. exp.man.seq \in Seqs
  BY <1>1, InHand
<1>3. CASE SaveLocal(exp.man)
  BY <1>1, <1>3, SaveDisk, EndsExport
<1>4. CASE disk' = [disk EXCEPT ![exp.man.seq] = Absent] /\ UNCHANGED unsure
  <2>1. /\ DiskTyped' /\ disk'[exp.man.seq] = Absent
        /\ \A s \in Seqs : s # exp.man.seq => disk'[s] = disk[s]
    BY <1>1, <1>2, <1>4, RemoveDisk
  <2>2. unsure' \in Nat /\ unsure' >= unsure
    BY <1>4, Charges
  <2> QED BY <1>1, <2>1, <2>2, EndsExport
<1> QED BY <1>1, <1>3, <1>4

LEMMA PinStep == IInv /\ Pin => IInv'
<1> SUFFICES ASSUME IInv, Pin PROVE IInv'
  OBVIOUS
<1>1. /\ exp.pc = "pin" /\ exp.running /\ exp \in Exports /\ exp.man \in Records
      /\ exp' = [exp EXCEPT !.pc = "finish"]
      /\ UNCHANGED <<lake, pg, res, pending, channel, unsure, disk, built>>
      /\ Unsent(exp.man) = {} /\ Manifests # {}
      /\ pinned \in 0 .. Len(channel) /\ Len(channel) \in Nat
      /\ pinned' \in {pinned, Max(Manifests)}
  BY DEF Pin, ToExport, ExportFrame, counts, IInv, Typed, ExpTyped, BaseTyped, Exports
<1>2. /\ exp' \in Exports /\ exp'.running /\ exp'.pc = "finish" /\ exp'.man = exp.man
  BY <1>1 DEF Exports, ExpPcs
<1>3. pinned' \in 0 .. Len(channel)
  <2>1. Manifests \subseteq Nat /\ \A i \in Manifests : i <= Len(channel) /\ i \in 0 .. Len(channel)
    BY <1>1 DEF Manifests
  <2>2. Max(Manifests) \in Manifests
    BY <1>1, <2>1, HasGreatest
  <2> QED BY <1>1, <2>1, <2>2
<1> QED BY <1>1, <1>2, <1>3, GoesOnExport

-----------------------------------------------------------------------------
(* The export's steps that post                                             *)

LEMMA Balance ==
  ASSUME NEW posts \in Nat, NEW kinds \in Nat, NEW again \in Nat, NEW lost \in Nat,
         posts + again <= lost + kinds, NEW again2 \in Nat
  PROVE  /\ again2 <= again - 1 => posts + 1 + again2 <= lost + kinds
         /\ again2 <= again => posts + 1 + again2 <= lost + (kinds + 1)
         /\ again2 <= again => posts + 1 + again2 <= lost + 1 + kinds
         /\ again2 <= again + 1 => posts + 1 + again2 <= lost + 1 + (kinds + 1)
OBVIOUS

\* One part more in the channel, which the sender lists now.
LEMMA CountSent ==
  ASSUME Counted, NEW m, NEW n, n \notin PartPosts, PartPosts' = PartPosts \cup {n},
         Distinct' = Distinct \cup {m}, m \in Distinct => m \in Resendable,
         Resendable' \subseteq Resendable \ {m}, Charged \in Nat, Charged' = Charged
  PROVE  Counted'
<1>1. Resendable \subseteq Distinct
  BY DEF Resendable
<1>2. IsFiniteSet(PartPosts) /\ IsFiniteSet(Distinct) /\ IsFiniteSet(Resendable)
  BY <1>1, FS_Subset DEF Counted
<1>3. /\ IsFiniteSet(PartPosts') /\ Cardinality(PartPosts') = Cardinality(PartPosts) + 1
      /\ IsFiniteSet(Distinct')
      /\ m \notin Distinct => Cardinality(Distinct') = Cardinality(Distinct) + 1
      /\ m \in Distinct => Distinct' = Distinct
  BY <1>2, FS_AddElement
<1>4. /\ IsFiniteSet(Resendable \ {m})
      /\ m \in Resendable => Cardinality(Resendable \ {m}) = Cardinality(Resendable) - 1
      /\ m \notin Resendable => Resendable \ {m} = Resendable
  BY <1>2, FS_RemoveElement
<1>5. IsFiniteSet(Resendable') /\ Cardinality(Resendable') <= Cardinality(Resendable \ {m})
  BY <1>4, FS_Subset
<1>6. /\ Cardinality(Resendable') \in Nat /\ Cardinality(Resendable) \in Nat
      /\ Cardinality(PartPosts) \in Nat /\ Cardinality(Distinct) \in Nat
      /\ Cardinality(PartPosts) + Cardinality(Resendable) <= Charged + Cardinality(Distinct)
  BY <1>2, <1>5, FS_CardinalityType DEF Counted
<1>7. CASE m \in Distinct
  <2>1. Cardinality(Resendable') <= Cardinality(Resendable) - 1
    BY <1>4, <1>5, <1>7
  <2>2. Cardinality(PartPosts') + Cardinality(Resendable') <= Charged' + Cardinality(Distinct')
    BY <1>3, <1>6, <1>7, <2>1, Balance
  <2> QED BY <1>3, <2>2 DEF Counted
<1>8. CASE m \notin Distinct
  <2>1. Cardinality(Resendable') <= Cardinality(Resendable)
    BY <1>1, <1>4, <1>5, <1>8
  <2>2. Cardinality(PartPosts') + Cardinality(Resendable') <= Charged' + Cardinality(Distinct')
    BY <1>3, <1>6, <1>8, <2>1, Balance
  <2> QED BY <1>3, <2>2 DEF Counted
<1> QED BY <1>7, <1>8

\* One part more in the channel, and no answer that says so.
LEMMA CountLost ==
  ASSUME Counted, NEW m, NEW n, n \notin PartPosts, PartPosts' = PartPosts \cup {n},
         Distinct' = Distinct \cup {m}, m \in Distinct => m \in Resendable,
         Resendable' \subseteq Resendable \cup {m}, Charged \in Nat,
         Charged' = Charged + 1
  PROVE  Counted'
<1>1. Resendable \subseteq Distinct
  BY DEF Resendable
<1>2. IsFiniteSet(PartPosts) /\ IsFiniteSet(Distinct) /\ IsFiniteSet(Resendable)
  BY <1>1, FS_Subset DEF Counted
<1>3. /\ IsFiniteSet(PartPosts') /\ Cardinality(PartPosts') = Cardinality(PartPosts) + 1
      /\ IsFiniteSet(Distinct')
      /\ m \notin Distinct => Cardinality(Distinct') = Cardinality(Distinct) + 1
      /\ m \in Distinct => Distinct' = Distinct
  BY <1>2, FS_AddElement
<1>4. /\ IsFiniteSet(Resendable \cup {m})
      /\ m \in Resendable => Resendable \cup {m} = Resendable
      /\ m \notin Resendable => Cardinality(Resendable \cup {m}) = Cardinality(Resendable) + 1
  BY <1>2, FS_AddElement
<1>5. IsFiniteSet(Resendable') /\ Cardinality(Resendable') <= Cardinality(Resendable \cup {m})
  BY <1>4, FS_Subset
<1>6. /\ Cardinality(Resendable') \in Nat /\ Cardinality(Resendable) \in Nat
      /\ Cardinality(PartPosts) \in Nat /\ Cardinality(Distinct) \in Nat
      /\ Cardinality(PartPosts) + Cardinality(Resendable) <= Charged + Cardinality(Distinct)
  BY <1>2, <1>5, FS_CardinalityType DEF Counted
<1>7. CASE m \in Distinct
  <2>1. Cardinality(Resendable') <= Cardinality(Resendable)
    BY <1>4, <1>5, <1>7
  <2>2. Cardinality(PartPosts') + Cardinality(Resendable') <= Charged' + Cardinality(Distinct')
    BY <1>3, <1>6, <1>7, <2>1, Balance
  <2> QED BY <1>3, <2>2 DEF Counted
<1>8. CASE m \notin Distinct
  <2>1. Cardinality(Resendable') <= Cardinality(Resendable) + 1
    BY <1>1, <1>4, <1>5, <1>8
  <2>2. Cardinality(PartPosts') + Cardinality(Resendable') <= Charged' + Cardinality(Distinct')
    BY <1>3, <1>6, <1>8, <2>1, Balance
  <2> QED BY <1>3, <2>2 DEF Counted
<1> QED BY <1>7, <1>8

LEMMA Uploading ==
  ASSUME IInv, exp.pc = "upload"
  PROVE  /\ exp.running
         /\ Saved(exp.man.seq) =>
              \A p \in Parts : disk[exp.man.seq].sent[p] # 0 => exp.man.sent[p] # 0
<1>1. exp.running
  BY DEF IInv, Typed, ExpTyped
<1> QED BY <1>1 DEF IInv, CopyInv, SyncInv

LEMMA PostTyped ==
  ASSUME IInv, ChannelStep, UNCHANGED <<lake, pg, res, pending, pinned, built>>, unsure' \in Nat
  PROVE  BaseTyped' /\ ResTyped'
<1>1. channel' \in Seq(Messages) /\ Len(channel) \in Nat /\ Len(channel') \in Nat
      /\ Len(channel) <= Len(channel')
  BY Remains DEF IInv, Typed, BaseTyped
<1>2. BaseTyped'
  BY <1>1 DEF IInv, Typed, BaseTyped
<1>3. ResTyped'
  BY RestoreKept DEF IInv, Typed
<1> QED BY <1>2, <1>3

\* What the upload posts: a part it does not list, or the manifest of a whole bundle.
LEMMA NextIsPart ==
  ASSUME IInv, exp.running, Unsent(exp.man) # {}
  PROVE  \E p \in Parts : /\ exp.man.sent[p] = 0
                          /\ NextPost(exp.man) = Part(exp.man.seq, p)
<1>1. Unsent(exp.man) \subseteq Nat
  BY ConstantFacts DEF Unsent
<1>2. Min(Unsent(exp.man)) \in Unsent(exp.man)
  BY <1>1, HasLeast
<1> QED BY <1>2 DEF Unsent, NextPost

LEMMA ManifestIsWhole ==
  ASSUME IInv, exp.running, Unsent(exp.man) = {}, channel' = Append(channel, Manifest(exp.man))
  PROVE  BundleIsWhole'
<1>1. exp.man \in Records /\ exp.man.sent \in [Parts -> Nat] /\ Backed(channel, exp.man)
  BY InHand
<1>2. /\ Manifest(exp.man) \in Messages /\ Manifest(exp.man).kind = "manifest"
      /\ Manifest(exp.man).man = exp.man
  BY <1>1, Kinds
<1>3. channel \in Seq(Messages) /\ BaseTyped /\ BundleIsWhole /\ ChannelStep
  BY <1>2 DEF IInv, Typed, BaseTyped, ChannelStep
<1>4. /\ Len(channel) \in Nat /\ Len(channel') = Len(channel) + 1
      /\ \A i \in 1 .. Len(channel) : channel'[i] = channel[i]
      /\ channel'[Len(channel')] = Manifest(exp.man)
      /\ Manifests' = Manifests \cup {Len(channel')}
  BY <1>2, <1>3, Grows
<1>5. ASSUME NEW p \in Parts
      PROVE  /\ exp.man.sent[p] \in 1 .. Len(channel') - 1
             /\ channel'[exp.man.sent[p]] = Part(exp.man.seq, p)
  <2>1. exp.man.sent[p] # 0
    BY DEF Unsent
  <2>2. exp.man.sent[p] \in 1 .. Len(channel) /\ channel[exp.man.sent[p]] = Part(exp.man.seq, p)
    BY <1>1, <2>1 DEF Backed
  <2> QED BY <1>4, <2>2
<1>6. ASSUME NEW i \in Manifests', NEW p \in Parts
      PROVE  /\ channel'[i].man.sent[p] \in 1 .. i - 1
             /\ channel'[channel'[i].man.sent[p]] = Part(channel'[i].man.seq, p)
  <2>1. CASE i \in Manifests
    BY <1>3, <2>1, StaysWhole
  <2>2. CASE i = Len(channel')
    BY <1>2, <1>4, <1>5, <2>2
  <2> QED BY <1>4, <2>1, <2>2
<1> QED BY <1>6 DEF BundleIsWhole

\* A part of the bundle in hand, that its manifest does not list, is posted.
LEMMA PartPosted ==
  ASSUME IInv, exp.pc = "upload", NEW p \in Parts, exp.man.sent[p] = 0,
         channel' = Append(channel, Part(exp.man.seq, p))
  PROVE  LET m == Part(exp.man.seq, p) IN
         /\ ChannelStep /\ BundleIsWhole'
         /\ m.seq = exp.man.seq /\ m.part = p
         /\ PartPosts' = PartPosts \cup {Len(channel) + 1} /\ Len(channel) + 1 \notin PartPosts
         /\ Distinct' = Distinct \cup {m}
         /\ m \in Distinct => m \in Resendable
         /\ \A d \in Distinct' : d.seq \in Seqs /\ d.part \in Parts /\ d = Part(d.seq, d.part)
         /\ \A d \in Distinct' : d.seq <= built
         /\ Len(channel) \in Nat /\ Len(channel') = Len(channel) + 1
         /\ channel'[Len(channel')] = m
<1> DEFINE m == Part(exp.man.seq, p)
<1>1. exp.running
  BY Uploading
<1>2. exp.man.seq \in Seqs /\ exp.man.seq \in 1 .. built /\ built \in 0 .. MaxBundles
  BY <1>1, InHand
<1>3. m \in Messages /\ m.kind = "part" /\ m.seq = exp.man.seq /\ m.part = p
  BY <1>2, Kinds
<1>4. channel \in Seq(Messages) /\ ChannelStep
  BY <1>3 DEF IInv, Typed, BaseTyped, ChannelStep
<1>5. /\ PartPosts' = PartPosts \cup {Len(channel) + 1} /\ Len(channel) + 1 \notin PartPosts
      /\ Distinct' = Distinct \cup {m}
  BY <1>3, <1>4, PartsAfter
<1>6. m \in Distinct => m \in Resendable
  BY <1>1, <1>3 DEF Resendable, Missing
<1>7. \A d \in Distinct' : d.seq \in Seqs /\ d.part \in Parts /\ d = Part(d.seq, d.part)
  BY <1>2, <1>3, <1>4, <1>5, DistinctParts
<1>8. \A d \in Distinct' : d.seq <= built
  BY <1>2, <1>3, <1>5 DEF IInv, CopyInv
<1>9. BundleIsWhole'
  <2>1. m.kind # "manifest"
    BY <1>3
  <2> QED BY <1>3, <2>1, WholeKept DEF IInv, Typed
<1>10. /\ Len(channel) \in Nat /\ Len(channel') = Len(channel) + 1
       /\ channel'[Len(channel')] = m
  BY <1>3, <1>4, Grows
<1> QED BY <1>3, <1>4, <1>5, <1>6, <1>7, <1>8, <1>9, <1>10

LEMMA SendPart ==
  ASSUME IInv, Send, NEW p \in Parts, exp.man.sent[p] = 0,
         NextPost(exp.man) = Part(exp.man.seq, p)
  PROVE  IInv'
<1> DEFINE m == Part(exp.man.seq, p)
<1>1. /\ exp.pc = "upload" /\ exp.running
      /\ Saved(exp.man.seq) =>
           \A q \in Parts : disk[exp.man.seq].sent[q] # 0 => exp.man.sent[q] # 0
  BY Uploading DEF Send
<1>2. /\ exp \in Exports /\ exp.man \in Records
      /\ exp.man.seq \in Seqs /\ exp.man.seq \in 1 .. built
      /\ exp.man.sent \in [Parts -> Nat] /\ Backed(channel, exp.man)
  BY <1>1, InHand
<1>3. m.kind = "part" /\ m.part = p
  BY <1>2, Kinds
<1>4. /\ channel' = Append(channel, m)
      /\ exp' = [exp EXCEPT !.pc = "save", !.man.sent[p] = Len(channel')]
      /\ UNCHANGED <<lake, pg, res, pending, pinned, disk, built, unsure>>
  BY <1>3 DEF Send, Post, ExportFrame, counts
<1>5. /\ ChannelStep /\ BundleIsWhole'
      /\ m.seq = exp.man.seq /\ m.part = p
      /\ PartPosts' = PartPosts \cup {Len(channel) + 1} /\ Len(channel) + 1 \notin PartPosts
      /\ Distinct' = Distinct \cup {m}
      /\ m \in Distinct => m \in Resendable
      /\ \A d \in Distinct' : d.seq \in Seqs /\ d.part \in Parts /\ d = Part(d.seq, d.part)
      /\ \A d \in Distinct' : d.seq <= built
      /\ Len(channel) \in Nat /\ Len(channel') = Len(channel) + 1
      /\ channel'[Len(channel')] = m
  BY <1>1, <1>4, PartPosted
<1>6. /\ exp' \in Exports /\ exp'.running /\ exp'.pc = "save"
      /\ exp'.man.seq = exp.man.seq
      /\ exp'.man.sent = [exp.man.sent EXCEPT ![p] = Len(channel')]
  <2> DEFINE man == [exp.man EXCEPT !.sent[p] = Len(channel')]
  <2>1. exp' = [exp EXCEPT !.pc = "save", !.man = man]
    BY <1>2, <1>4 DEF Exports
  <2>2. [exp.man.sent EXCEPT ![p] = Len(channel')] \in [Parts -> Nat]
    BY <1>2, <1>5
  <2>3. man.seq = exp.man.seq /\ man.sent = [exp.man.sent EXCEPT ![p] = Len(channel')]
        /\ man \in Records
    BY <1>2, <2>2 DEF Records
  <2> HIDE DEF man
  <2> QED BY <1>1, <1>2, <2>1, <2>3 DEF Exports, ExpPcs
<1>7. /\ exp'.man.sent[p] = Len(channel) + 1
      /\ \A q \in Parts : q # p => exp'.man.sent[q] = exp.man.sent[q]
  BY <1>2, <1>5, <1>6
<1>8. Backed(channel', exp'.man)
  <2>1. Backed(channel', exp.man)
    BY <1>2, <1>5, Remains DEF IInv, Typed, BaseTyped
  <2>2. ASSUME NEW q \in Parts, exp'.man.sent[q] # 0
        PROVE  /\ exp'.man.sent[q] \in 1 .. Len(channel')
               /\ channel'[exp'.man.sent[q]] = Part(exp'.man.seq, q)
    <3>1. CASE q = p
      BY <1>5, <1>6, <1>7, <3>1
    <3>2. CASE q # p
      BY <1>6, <1>7, <2>1, <2>2, <3>2 DEF Backed
    <3> QED BY <3>1, <3>2
  <2> QED BY <2>2 DEF Backed
<1>9. ExpTyped'
  BY <1>2, <1>4, <1>6, <1>8 DEF ExpTyped
<1>10. DiskTyped'
  BY <1>4, <1>5, Remains DEF IInv, Typed, BaseTyped, DiskTyped, Saved
<1>11. SyncInv'
  <2>1. ASSUME Saved(exp.man.seq)
        PROVE  /\ \A q \in Parts : disk[exp.man.seq].sent[q] # 0 => exp'.man.sent[q] # 0
               /\ exp'.man.sent[p] # 0 /\ disk[exp.man.seq].sent[p] = 0
    BY <1>1, <1>5, <1>7, <2>1
  <2> QED BY <1>4, <1>6, <2>1 DEF SyncInv, Saved
<1>12. Resendable' \subseteq Resendable \cup {m}
  <2>1. ASSUME NEW d \in Distinct', Missing(d)', d # m PROVE d \in Resendable
    <3>1. d.seq \in Seqs /\ d.part \in Parts /\ d = Part(d.seq, d.part) /\ d \in Distinct
      BY <1>5, <2>1
    <3>2. CASE d.seq = exp.man.seq
      <4>1. d.part # p
        BY <2>1, <3>1, <3>2
      <4>2. exp'.man.sent[d.part] = exp.man.sent[d.part]
        BY <1>7, <3>1, <4>1
      <4> QED BY <1>1, <1>4, <1>6, <2>1, <3>1, <3>2, <4>2 DEF Missing, Resendable, Saved
    <3>3. CASE d.seq # exp.man.seq
      BY <1>4, <1>6, <2>1, <3>1, <3>3 DEF Missing, Resendable, Saved
    <3> QED BY <3>2, <3>3
  <2> QED BY <2>1 DEF Resendable
<1>13. /\ unsure \in Nat /\ unsure' \in Nat /\ unsure' = unsure
       /\ Charged = unsure /\ Counted
  BY <1>1, <1>4, Charges DEF IInv, CopyInv
<1>14. Counted'
  <2>1. CASE Saved(exp.man.seq)
    <3>1. Charged' = Charged + 1
      BY <1>4, <1>6, <1>13, <2>1 DEF Charged, Suspense, Saved
    <3> HIDE DEF m
    <3> QED BY <1>5, <1>12, <1>13, <3>1, CountLost
  <2>2. CASE ~Saved(exp.man.seq)
    <3>1. Charged' = Charged
      BY <1>4, <1>6, <1>13, <2>2 DEF Charged, Suspense, Saved
    <3>2. ASSUME NEW d, d = m PROVE ~Missing(d)'
      <4>1. exp'.man.sent[p] # 0 /\ ~(disk'[exp.man.seq] \notin {Absent, Unsaved})
        BY <1>4, <1>5, <1>7, <2>2 DEF Saved
      <4> QED BY <1>5, <3>2, <4>1 DEF Missing, Saved
    <3>3. Resendable' \subseteq Resendable \ {m}
      BY <1>12, <3>2 DEF Resendable
    <3> HIDE DEF m
    <3> QED BY <1>5, <1>13, <3>1, <3>3, CountSent
  <2> QED BY <2>1, <2>2
<1>15. CopyInv'
  BY <1>4, <1>5, <1>11, <1>14 DEF CopyInv
<1>16. BaseTyped' /\ ResTyped'
  BY <1>4, <1>5, <1>13, PostTyped
<1> QED BY <1>5, <1>9, <1>10, <1>15, <1>16 DEF IInv, Typed

LEMMA SendManifest ==
  ASSUME IInv, Send, Unsent(exp.man) = {}
  PROVE  IInv'
<1>1. exp.pc = "upload" /\ exp.running
  BY Uploading DEF Send
<1>2. /\ exp \in Exports /\ exp.man \in Records
      /\ exp.man.seq \in Seqs /\ exp.man.seq \in 1 .. built /\ Backed(channel, exp.man)
  BY <1>1, InHand
<1>3. /\ Manifest(exp.man) \in Messages /\ Manifest(exp.man).kind = "manifest"
      /\ Manifest(exp.man).kind # "part"
  BY <1>2, Kinds
<1>4. /\ channel' = Append(channel, Manifest(exp.man))
      /\ exp' = [exp EXCEPT !.pc = "pin", !.man.committed = TRUE]
      /\ UNCHANGED <<lake, pg, res, pending, pinned, disk, built, unsure>>
  BY <1>3 DEF Send, Post, NextPost, ExportFrame, counts
<1>5. ChannelStep
  BY <1>3, <1>4 DEF ChannelStep
<1>6. /\ exp' \in Exports /\ exp'.running /\ exp'.pc = "pin"
      /\ exp'.man.seq = exp.man.seq /\ exp'.man.sent = exp.man.sent
  BY <1>1, <1>2, <1>4 DEF Exports, ExpPcs, Records
<1>7. Backed(channel', exp'.man)
  <2>1. Backed(channel', exp.man)
    BY <1>2, <1>5, Remains DEF IInv, Typed, BaseTyped
  <2> QED BY <1>6, <2>1 DEF Backed
<1>8. Manifests' # {}
  BY <1>3, <1>4, Grows DEF IInv, Typed, BaseTyped
<1>9. ExpTyped'
  BY <1>2, <1>4, <1>6, <1>7, <1>8 DEF ExpTyped, Unsent
<1>10. DiskTyped'
  BY <1>4, <1>5, Remains DEF IInv, Typed, BaseTyped, DiskTyped, Saved
<1>11. BundleIsWhole'
  BY <1>1, <1>4, ManifestIsWhole
<1>12. PartPosts' = PartPosts /\ Distinct' = Distinct
  BY <1>3, <1>4, PartsAfter DEF IInv, Typed, BaseTyped
<1>13. SyncInv'
  BY <1>1, <1>4, <1>6 DEF IInv, CopyInv, SyncInv, Saved
<1>14. Resendable' \subseteq Resendable
  BY <1>1, <1>4, <1>6, <1>12 DEF Resendable, Missing, Saved
<1>15. unsure \in Nat /\ unsure' \in Nat /\ unsure' >= unsure
  BY <1>4 DEF IInv, Typed, BaseTyped
<1>16. Counted'
  BY <1>1, <1>6, <1>12, <1>14, <1>15, Charges, ChargedAfter, CountKept DEF IInv, CopyInv
<1>17. CopyInv'
  BY <1>4, <1>12, <1>13, <1>16 DEF IInv, CopyInv
<1>18. BaseTyped' /\ ResTyped'
  BY <1>4, <1>5, <1>15, PostTyped
<1> QED BY <1>9, <1>10, <1>11, <1>17, <1>18 DEF IInv, Typed

LEMMA SendStep == IInv /\ Send => IInv'
<1> SUFFICES ASSUME IInv, Send PROVE IInv'
  OBVIOUS
<1>1. exp.running
  BY Uploading DEF Send
<1>2. CASE Unsent(exp.man) = {}
  BY <1>2, SendManifest
<1>3. CASE Unsent(exp.man) # {}
  BY <1>1, <1>3, NextIsPart, SendPart
<1> QED BY <1>2, <1>3

LEMMA LoseReplyStep == IInv /\ LoseReply => IInv'
<1> SUFFICES ASSUME IInv, LoseReply PROVE IInv'
  OBVIOUS
<1>1. exp.pc = "upload" /\ exp.running
  BY Uploading DEF LoseReply
<1>2. /\ UNCHANGED <<lake, pg, res, pending, pinned, disk, exp, built>>
      /\ channel' = Append(channel, NextPost(exp.man))
      /\ unsure \in Nat /\ unsure' = unsure + 1 /\ unsure' \in Nat /\ unsure' >= unsure
  BY DEF LoseReply, Post, ExportFrame, IInv, Typed, BaseTyped
<1>3. CASE Unsent(exp.man) = {}
  <2>1. NextPost(exp.man) = Manifest(exp.man)
    BY <1>3 DEF NextPost
  <2>2. /\ NextPost(exp.man) \in Messages /\ NextPost(exp.man).kind # "part"
    BY <1>1, <2>1, InHand, Kinds
  <2>3. ChannelStep
    BY <1>2, <2>2 DEF ChannelStep
  <2>4. BundleIsWhole'
    BY <1>1, <1>2, <1>3, <2>1, ManifestIsWhole
  <2>5. ExpTyped' /\ DiskTyped'
    BY <1>2, <2>3, ExportKept DEF IInv, Typed
  <2>6. CopyInv'
    BY <1>2, <2>2, CopiesKept DEF IInv, Typed
  <2>7. BaseTyped' /\ ResTyped'
    BY <1>2, <2>3, PostTyped
  <2> QED BY <2>4, <2>5, <2>6, <2>7 DEF IInv, Typed
<1>4. CASE Unsent(exp.man) # {}
  <2>1. PICK p \in Parts : exp.man.sent[p] = 0 /\ NextPost(exp.man) = Part(exp.man.seq, p)
    BY <1>1, <1>4, NextIsPart
  <2> DEFINE m == Part(exp.man.seq, p)
  <2>2. channel' = Append(channel, m)
    BY <1>2, <2>1
  <2>3. /\ ChannelStep /\ BundleIsWhole'
        /\ m.seq = exp.man.seq /\ m.part = p
        /\ PartPosts' = PartPosts \cup {Len(channel) + 1} /\ Len(channel) + 1 \notin PartPosts
        /\ Distinct' = Distinct \cup {m}
        /\ m \in Distinct => m \in Resendable
        /\ \A d \in Distinct' : d.seq <= built
    BY <1>1, <2>1, <2>2, PartPosted
  <2>4. ExpTyped' /\ DiskTyped'
    BY <1>2, <2>3, ExportKept DEF IInv, Typed
  <2>5. Resendable' \subseteq Resendable \cup {m}
    <3>1. \A d \in Distinct' : Missing(d)' => Missing(d)
      BY <1>2 DEF Missing, Saved
    <3> QED BY <2>3, <3>1 DEF Resendable
  <2>6. Counted'
    <3>1. Counted /\ Charged \in Nat /\ Charged' = Charged + 1
      BY <1>1, <1>2, Charges DEF IInv, CopyInv, Charged, Suspense
    <3> HIDE DEF m
    <3> QED BY <1>2, <2>3, <2>5, <3>1, CountLost
  <2>7. SyncInv'
    BY <1>2 DEF IInv, CopyInv, SyncInv, Saved
  <2>8. CopyInv'
    BY <1>2, <2>3, <2>6, <2>7 DEF CopyInv
  <2>9. BaseTyped' /\ ResTyped'
    BY <1>2, <2>3, PostTyped
  <2> QED BY <2>3, <2>4, <2>8, <2>9 DEF IInv, Typed
<1> QED BY <1>3, <1>4

-----------------------------------------------------------------------------
(* The session's end, and every step                                        *)

LEMMA DieStep == IInv /\ Die => IInv'
<1> SUFFICES ASSUME IInv, Die PROVE IInv'
  OBVIOUS
<1>1. /\ exp' = ExpIdle /\ res' = ResIdle /\ pending' = 0
      /\ UNCHANGED <<channel, pinned, built>>
      /\ unsure \in Nat /\ unsure' = unsure + 1
      /\ \/ UNCHANGED <<lake, pg, disk>>
         \/ lake' = {} /\ pg' = Whole /\ disk' = [s \in Seqs |-> Absent]
  BY DEF Die, IInv, Typed, BaseTyped
<1>2. BaseTyped'
  <2>1. lake' \subseteq Posts /\ pg' \in {Whole, Torn}
    BY <1>1 DEF IInv, Typed, BaseTyped
  <2>2. pending' \in 0 .. MaxBundles /\ unsure' \in Nat
    BY <1>1, ConstantFacts
  <2> QED BY <1>1, <2>1, <2>2 DEF IInv, Typed, BaseTyped
<1>3. ExpTyped' /\ ResTyped'
  BY <1>1, IdleExport, IdleRestore
<1>4. DiskTyped'
  <2>1. CASE disk' = disk
    BY <1>1, <2>1, DiskKept
  <2>2. CASE disk' = [s \in Seqs |-> Absent]
    BY <2>2 DEF DiskTyped, Saved
  <2> QED BY <1>1, <2>1, <2>2
<1>5. BundleIsWhole'
  BY <1>1, WholeKept DEF IInv, Typed
<1>6. PartPosts' = PartPosts /\ Distinct' = Distinct
  BY <1>1 DEF PartPosts, Distinct
<1>7. Resendable' \subseteq Resendable
  <2>1. \A m \in Distinct : m.seq \in Seqs
    BY DistinctParts DEF IInv, Typed, BaseTyped
  <2>2. \A m \in Distinct : Missing(m)' => Missing(m)
    BY <1>1, <2>1 DEF Missing, Saved, ExpIdle
  <2> QED BY <1>6, <2>2 DEF Resendable
<1>8. Counted'
  <2>1. Charged \in Nat /\ Charged' \in Nat /\ Charged' >= Charged
    BY <1>1 DEF Charged, Suspense, ExpIdle
  <2> QED BY <1>6, <1>7, <2>1, CountKept DEF IInv, CopyInv
<1>9. CopyInv'
  BY <1>1, <1>6, <1>8 DEF IInv, CopyInv, SyncInv, ExpIdle
<1> QED BY <1>2, <1>3, <1>4, <1>5, <1>9 DEF IInv, Typed

LEMMA Inductive == IInv /\ [Next]_vars => IInv'
<1> SUFFICES ASSUME IInv, [Next]_vars PROVE IInv'
  OBVIOUS
<1>1. CASE UNCHANGED vars
  <2>1. UNCHANGED <<lake, pg, channel, pinned, pending, built, unsure, exp, disk, res>>
    BY <1>1 DEF vars, counts
  <2>2. BaseTyped'
    BY <2>1 DEF IInv, Typed, BaseTyped
  <2>3. ResTyped'
    BY <2>1, RestoreKept DEF IInv, Typed, ChannelStep
  <2> QED BY <2>1, <2>2, <2>3, RestoreSide
<1>2. CASE Next
  BY <1>2, HarvestStep, PinStageStep, StartExportStep, CancelStep, RunExportStep, AbandonStep,
     BuildStep, ProbeStep, SendStep, SaveStep, LoseReplyStep, StopStep, PinStep, FinishStep,
     StartStep, RunRestoreStep, FindStep, FetchStep, JoinStep, LoadLakeStep, LoadPostgresStep,
     DieStep
  DEF Next
<1> QED BY <1>1, <1>2

-----------------------------------------------------------------------------
(* The theorems                                                             *)

\* A bundle exists if and only if its manifest is posted (db_export.py): each
\* part a posted manifest names is in the channel, before it, under the message
\* id it names; and every variable keeps its shape.
THEOREM BundlesAreWhole == Spec => []BundlesInv
<1>1. IInv => BundlesInv
  <2> SUFFICES ASSUME IInv PROVE BundlesInv
    OBVIOUS
  <2>1. exp.running => exp.pc # "spawned" /\ exp.man.seq \in Seqs
    BY InHand
  <2>2. ASSUME NEW s \in Seqs, disk[s] \notin {Absent, Unsaved}
        PROVE  /\ disk[s].seq = s
               /\ \A p \in Parts :
                    disk[s].sent[p] # 0 => channel[disk[s].sent[p]] = Part(s, p)
    BY <2>2 DEF IInv, Typed, DiskTyped, Saved, Backed
  <2>3. BundlesTypeOK
    BY <2>1, <2>2 DEF BundlesTypeOK, IInv, Typed, BaseTyped, ExpTyped, ResTyped
  <2> QED BY <2>3 DEF BundlesInv, IInv
<1>2. Init => IInv
  BY Initially
<1>3. IInv /\ [Next]_vars => IInv'
  BY Inductive
<1> QED BY <1>1, <1>2, <1>3, PTL DEF Spec

\* A part is in the channel twice only because an answer was lost, a session
\* ended before _save_local or a _save_local failed, one copy for each: what a
\* resume reads back, it does not send again.
THEOREM NoPartIsSentTwice == Spec => []ExtraCopiesHaveACause
<1>1. IInv => ExtraCopiesHaveACause
  <2> SUFFICES ASSUME IInv PROVE ExtraCopiesHaveACause
    OBVIOUS
  <2>1. Resendable \subseteq Distinct
    BY DEF Resendable
  <2>2. IsFiniteSet(PartPosts) /\ IsFiniteSet(Distinct) /\ IsFiniteSet(Resendable)
    BY <2>1, FS_Subset DEF IInv, CopyInv, Counted
  <2>3. /\ Cardinality(Resendable) \in Nat /\ Cardinality(PartPosts) \in Nat
        /\ Cardinality(Distinct) \in Nat /\ unsure \in Nat
        /\ Cardinality(PartPosts) + Cardinality(Resendable) <= Charged + Cardinality(Distinct)
    BY <2>2, FS_CardinalityType DEF IInv, Typed, BaseTyped, CopyInv, Counted
  <2>4. Charged <= unsure + Cardinality(Resendable)
    <3>1. CASE exp.pc = "save" /\ Saved(exp.man.seq)
      <4>1. Resendable # {}
        BY <3>1, InSuspense DEF IInv, Typed, ExpTyped
      <4>2. Cardinality(Resendable) # 0
        BY <2>2, <4>1, FS_EmptySet
      <4> QED BY <2>3, <3>1, <4>2 DEF Charged, Suspense
    <3>2. CASE ~(exp.pc = "save" /\ Saved(exp.man.seq))
      <4>1. Suspense = 0
        BY <3>2 DEF Suspense
      <4> QED BY <2>3, <4>1 DEF Charged
    <3> QED BY <3>1, <3>2
  <2>5. Cardinality(PartPosts) - Cardinality(Distinct) <= unsure
    <3>1. Charged \in Nat
      BY Charges
    <3> QED BY <2>3, <2>4, <3>1
  <2> QED BY <2>5 DEF ExtraCopiesHaveACause, PartPosts, Distinct
<1>2. Init => IInv
  BY Initially
<1>3. IInv /\ [Next]_vars => IInv'
  BY Inductive
<1> QED BY <1>1, <1>2, <1>3, PTL DEF Spec

\* A restore loads the lake of one posted bundle or nothing: never a mixture of
\* two, whatever an interrupted restore left in the work directory.
THEOREM OneBundleReplacesTheLake == Spec => ReplacedByOneBundle
<1> DEFINE Replaced == ~(lake \subseteq lake') =>
                         \/ unsure' > unsure
                         \/ \E i \in Manifests : lake' = channel[i].man.lake
<1>1. IInv /\ [Next]_vars => [Replaced]_vars
  <2> SUFFICES ASSUME IInv, Next, ~(lake \subseteq lake')
               PROVE  \/ unsure' > unsure
                      \/ \E i \in Manifests : lake' = channel[i].man.lake
    OBVIOUS
  <2>1. CASE LoadLake
    <3>1. res.pc = "lake" /\ lake' = Joined
      BY <2>1 DEF LoadLake
    <3> QED BY <3>1, OneBundle
  <2>2. CASE Die
    BY <2>2 DEF Die, IInv, Typed, BaseTyped
  <2>3. CASE Harvest
    BY <2>3 DEF Harvest
  <2>4. ASSUME ~LoadLake, ~Die, ~Harvest PROVE lake' = lake
    BY <2>4 DEF Next, PinStage, StartExport, CancelExport, RunExport, AbandonBuild, Build, Probe,
       Send, Save, LoseReply, StopUpload, Pin, FinishExport, StartRestore, BootRestore, RunRestore,
       Find, Fetch, Join, LoadPostgres, ExportFrame
  <2> QED BY <2>1, <2>2, <2>3, <2>4
<1>2. Init => IInv
  BY Initially
<1>3. IInv /\ [Next]_vars => IInv'
  BY Inductive
<1> QED BY <1>1, <1>2, <1>3, PTL DEF Spec, ReplacedByOneBundle

\* What an apply loads after an inspect is the bundle that inspect showed, though
\* a newer one may have been posted and pinned in between (db_restore._pending).
THEOREM WhatWasShownIsApplied == Spec => AppliesWhatWasShown
<1> DEFINE Applied == res.pc = "lake" /\ res'.pc # "lake" /\ res.shown # 0 /\ unsure' = unsure
                        => res.man.seq = res.shown
<1>1. IInv /\ [Next]_vars => [Applied]_vars
  <2> SUFFICES ASSUME IInv, res.pc = "lake", res.shown # 0 PROVE res.man.seq = res.shown
    OBVIOUS
  <2> QED BY DEF IInv, Typed, ResTyped, Loading
<1>2. Init => IInv
  BY Initially
<1>3. IInv /\ [Next]_vars => IInv'
  BY Inductive
<1> QED BY <1>1, <1>2, <1>3, PTL DEF Spec, AppliesWhatWasShown

=============================================================================
