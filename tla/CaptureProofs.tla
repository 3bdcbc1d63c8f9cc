---------------------------- MODULE CaptureProofs ----------------------------
(***************************************************************************)
(* Proofs about the capture plane: the ledger keeps what its scan mark     *)
(* promises, and no run sends a reel again that lies at or below it.       *)
(*                                                                         *)
(* The mark is not the only thing that answers for a message: a scan in    *)
(* progress read the mark when it began, and has recorded what it read by  *)
(* the time it moves the mark.  Answered names the messages that either of *)
(* them answers for; LedgerKeeps says that each of those videos belongs to *)
(* a reel that rests in the ledger, recorded and in nobody's hand.         *)
(***************************************************************************)
EXTENDS CaptureEngine, FiniteSetTheorems, SequenceTheorems, TLAPS

HandPcs == {"fetch", "record", "sendfailed", "mark", "marked", "assets"}
IdlePcs == {"off", "repair", "seed", "top", "claim", "after"}

EngTyped ==
  /\ eng \in [pc : HandPcs \cup IdlePcs, state : {"idle", "running", "paused", "stopping", "error"},
              stop : BOOLEAN, pause : BOOLEAN, reel : SUBSET Reels, sent : Ids,
              since : Nat, streak : Nat]
  /\ eng.pc \in HandPcs => \E k \in Reels : eng.reel = {k}
  /\ eng.pc \in IdlePcs => eng.reel = {}

ScanTyped ==
  /\ scan \in [Scanners -> [pc : {"off", "read", "adopt", "mark"},
                            from : Ids, head : Ids, upto : Ids]]
  /\ \A s \in Scanners :
       /\ scan[s].from <= scan[s].head /\ scan[s].head <= Last
       /\ scan[s].pc \in {"adopt", "mark"} =>
            scan[s].from <= scan[s].upto /\ scan[s].upto <= scan[s].head
  /\ scan["engine"].pc # "off" => eng.pc = "seed"

FillTyped ==
  /\ fill \in [pc : {"off", "build", "mark"}, stop : BOOLEAN, todo : SUBSET Reels,
               reel : SUBSET Reels, sent : Ids, tries : [Reels -> 0 .. SessionTries]]
  /\ fill.pc # "off" => \E k \in Reels : fill.reel = {k}
  /\ fill.pc = "off" => fill.reel = {}
  /\ \A k \in fill.todo : fill.tries[k] < SessionTries

LedgerTyped ==
  /\ item \in [Reels -> Row] /\ high \in Ids /\ high <= Last
  /\ channel \in Seq([kind : {"video", "manifest"}, reel : Reels]) /\ Last <= MaxMessages
  /\ pinned \in [item : [Reels -> Row], high : Ids, there : BOOLEAN]
  /\ pinned.high <= Last
  /\ closed \subseteq Threads /\ excused \subseteq Reels /\ budget \in 0 .. MaxTroubles

Typed == LedgerTyped /\ EngTyped /\ ScanTyped /\ FillTyped

CopyTyped ==
  /\ copy \in [pc : {"off", "get", "swap"}, item : [Reels -> Row], high : Ids]
  /\ copy.high <= Last /\ dropped \subseteq Reels

\* Message i has been answered for: by the mark, or by a scan that will move it.
AnsweredBy(s, i) ==
  /\ s \notin closed
  /\ \/ scan[s].pc \in {"read", "adopt"} /\ i <= scan[s].from
     \/ scan[s].pc = "mark" /\ i <= scan[s].upto
Answered(i) == i <= high \/ \E s \in Scanners : AnsweredBy(s, i)

Rests(k) == item[k].state = "uploaded" /\ k \notin eng.reel

LedgerKeeps ==
  \A i \in 1 .. Last :
    channel[i].kind = "video" /\ Answered(i) =>
      Rests(channel[i].reel) \/ channel[i].reel \in excused

PinKeeps ==
  \A i \in 1 .. pinned.high :
    channel[i].kind = "video" =>
      pinned.item[channel[i].reel].state = "uploaded" \/ channel[i].reel \in excused

CopyKeeps ==
  \A i \in 1 .. copy.high :
    channel[i].kind = "video" =>
      copy.item[channel[i].reel].state = "uploaded" \/ channel[i].reel \in excused

IInv == Typed /\ CopyTyped /\ LedgerKeeps /\ PinKeeps /\ CopyKeeps

-----------------------------------------------------------------------------
(* The ledger's operations *)

\* A bounded set of numbers has a greatest one.
LEMMA HasGreatest ==
  ASSUME NEW S \in SUBSET Nat, S # {}, NEW n \in Nat, \A k \in S : k <= n
  PROVE  \E m \in S : \A k \in S : k <= m
<1> DEFINE T == {n - k : k \in S}
<1>0. \A k \in S : k \in Nat /\ n - k \in Nat
  OBVIOUS
<1>1. T \subseteq Nat /\ T # {}
  BY <1>0
<1>2. PICK x \in T : \A y \in T : <<y, x>> \notin OpToRel(<, Nat)
  BY <1>1, NatLessThanWellFounded, WFMin
<1>3. \A y \in T : ~(y < x)
  BY <1>1, <1>2 DEF OpToRel
<1>4. PICK m \in S : x = n - m
  OBVIOUS
<1>5. \A k \in S : ~(n - k < n - m)
  BY <1>3, <1>4
<1> QED BY <1>5

\* The newest of some messages is one of them.
LEMMA NewestFacts ==
  ASSUME NEW ids \in SUBSET Ids, 0 \notin ids
  PROVE  Newest(ids) \in Ids /\ (ids # {} => Newest(ids) \in ids)
<1>1. MaxMessages \in Nat /\ ids \in SUBSET Nat /\ \A i \in ids : i <= MaxMessages
  BY LedgerAssumption DEF Ids
<1>2. ids # {} => \E i \in ids : \A j \in ids : j <= i
  BY <1>1, HasGreatest
<1>3. ids # {} => Newest(ids) \in ids
  BY <1>2, Zenon DEF Newest
<1>4. ids = {} => Newest(ids) = 0
  BY DEF Newest
<1>5. 0 \in Ids
  BY <1>1 DEF Ids
<1> QED BY <1>3, <1>4, <1>5

\* What a scan reads names one message of the channel per reel.
LEMMA FoundFacts ==
  ASSUME LedgerTyped, NEW from \in Ids, NEW upto \in Ids
  PROVE  /\ \A f \in Found(from, upto) : f.reel \in Reels /\ f.msg \in Ids /\ f.manifest \in Ids
         /\ \A i \in from + 1 .. upto :
              i \in 1 .. Last /\ channel[i].kind = "video" =>
                \E f \in Found(from, upto) : f.reel = channel[i].reel
<1> DEFINE in(kind, k) == Messages(kind, k) \cap (from + 1) .. upto
<1>0. Last \in Nat /\ Last <= MaxMessages /\ from \in Nat /\ upto \in Nat /\ MaxMessages \in Nat
  BY LedgerAssumption DEF LedgerTyped, Last, Ids
<1>1. ASSUME NEW kind, NEW k \in Reels
      PROVE  in(kind, k) \in SUBSET Ids /\ 0 \notin in(kind, k)
  BY <1>0 DEF Messages, Ids
<1>2. ASSUME NEW kind, NEW k \in Reels PROVE Newest(in(kind, k)) \in Ids
  <2> HIDE DEF in
  <2> QED BY <1>1, NewestFacts
<1>3. ASSUME NEW i \in from + 1 .. upto, i \in 1 .. Last, channel[i].kind = "video"
      PROVE  channel[i].reel \in Reels /\ i \in in("video", channel[i].reel)
  <2>1. channel[i] \in [kind : {"video", "manifest"}, reel : Reels]
    <3>1. channel \in Seq([kind : {"video", "manifest"}, reel : Reels])
      BY DEF LedgerTyped
    <3>2. i \in 1 .. Len(channel)
      BY <1>3 DEF Last
    <3> QED BY <3>1, <3>2, ElementOfSeq
  <2>2. channel[i] = [kind |-> "video", reel |-> channel[i].reel]
    BY <2>1, <1>3
  <2> QED BY <2>1, <2>2, <1>3 DEF Messages
<1>4. Found(from, upto) =
        {[reel |-> k, msg |-> Newest(in("video", k)), manifest |-> Newest(in("manifest", k))] :
           k \in {k \in Reels : in("video", k) # {}}}
  BY DEF Found
<1> HIDE DEF in
<1>5. \A f \in Found(from, upto) : f.reel \in Reels /\ f.msg \in Ids /\ f.manifest \in Ids
  BY <1>2, <1>4
<1>6. ASSUME NEW k \in Reels, in("video", k) # {}
      PROVE  \E f \in Found(from, upto) : f.reel = k
  <2> DEFINE f == [reel |-> k, msg |-> Newest(in("video", k)), manifest |-> Newest(in("manifest", k))]
  <2>1. f \in Found(from, upto)
    BY <1>4, <1>6, Zenon
  <2> QED BY <2>1
<1>7. ASSUME NEW i \in from + 1 .. upto, i \in 1 .. Last, channel[i].kind = "video"
      PROVE  \E f \in Found(from, upto) : f.reel = channel[i].reel
  BY <1>3, <1>6, <1>7
<1> QED BY <1>5, <1>7

\* The place behind the rows there are, and behind some that come with it.
LEMMA Positions ==
  ASSUME LedgerTyped, NEW k \in Reels \ Known(item), NEW S \in SUBSET (Reels \ Known(item)), k \notin S
  PROVE  NextPosition + Cardinality(S) \in 0 .. Cardinality(Reels)
<1>1. IsFiniteSet(Reels) /\ IsFiniteSet(Known(item)) /\ IsFiniteSet(S)
  BY LedgerAssumption, FS_Subset DEF Known
<1>2. IsFiniteSet(Known(item) \cup S)
      /\ Cardinality(Known(item) \cup S) = Cardinality(Known(item)) + Cardinality(S)
  <2>1. Known(item) \cap S = {}
    OBVIOUS
  <2>2. Cardinality(Known(item) \cap S) = 0
    BY <2>1, FS_EmptySet
  <2>3. Cardinality(Known(item)) \in Nat /\ Cardinality(S) \in Nat
    BY <1>1, FS_CardinalityType
  <2> HIDE DEF Known
  <2>4. /\ IsFiniteSet(Known(item) \cup S)
        /\ Cardinality(Known(item) \cup S) =
             Cardinality(Known(item)) + Cardinality(S) - Cardinality(Known(item) \cap S)
    BY <1>1, FS_Union
  <2> QED BY <2>2, <2>3, <2>4
<1>3. k \notin Known(item) \cup S
  OBVIOUS
<1>4. Cardinality((Known(item) \cup S) \cup {k}) = Cardinality(Known(item) \cup S) + 1
  BY <1>2, <1>3, FS_AddElement
<1>5. (Known(item) \cup S) \cup {k} \in SUBSET Reels
  BY DEF Known
<1>6. Cardinality((Known(item) \cup S) \cup {k}) <= Cardinality(Reels)
  BY <1>1, <1>5, FS_Subset
<1>7. /\ Cardinality(Known(item)) \in Nat /\ Cardinality(S) \in Nat /\ Cardinality(Reels) \in Nat
      /\ Cardinality(Known(item) \cup S) \in Nat
  BY <1>1, <1>2, FS_CardinalityType
<1> QED BY <1>2, <1>4, <1>6, <1>7 DEF NextPosition

\* Rows, and what the statements make of them.
LEMMA RowFacts ==
  /\ Absent \in Row /\ 0 \in Ids
  /\ \A r \in Row :
       /\ Failed(r) \in Row
       /\ \A st \in States : [r EXCEPT !.state = st] \in Row /\ [r EXCEPT !.state = st].state = st
       /\ [r EXCEPT !.recent = FALSE] \in Row /\ [r EXCEPT !.recent = FALSE].state = r.state
       /\ [r EXCEPT !.cooling = FALSE] \in Row /\ [r EXCEPT !.cooling = FALSE].state = r.state
       /\ \A p \in 0 .. Cardinality(Reels) : [r EXCEPT !.position = p] \in Row
       /\ \A m \in Ids : /\ [r EXCEPT !.state = "uploaded", !.msg = m] \in Row
                          /\ [r EXCEPT !.state = "uploaded", !.msg = m].state = "uploaded"
                          /\ [r EXCEPT !.manifest = IF m = 0 THEN @ ELSE m] \in Row
                          /\ [r EXCEPT !.manifest = IF m = 0 THEN @ ELSE m].state = r.state
<1>1. Cardinality(Reels) \in Nat /\ MaxAttempts \in Nat \ {0} /\ MaxRevivals \in Nat /\ MaxMessages \in Nat
  BY LedgerAssumption, FS_CardinalityType
<1>2. Absent \in Row /\ 0 \in Ids
  BY <1>1 DEF Absent, Row, States, Ids
<1>3. ASSUME NEW r \in Row PROVE Failed(r) \in Row
  <2>1. r.attempts \in 0 .. MaxAttempts /\ r.revivals \in 0 .. MaxRevivals
    BY DEF Row
  <2>2. CASE r.attempts = MaxAttempts /\ r.revivals < MaxRevivals
    <3>1. r.revivals + 1 \in 0 .. MaxRevivals /\ 0 \in 0 .. MaxAttempts
      BY <1>1, <2>1, <2>2
    <3>2. Failed(r) = [r EXCEPT !.state = "failed", !.cooling = TRUE, !.attempts = 0,
                                !.revivals = r.revivals + 1]
      BY <2>2 DEF Failed
    <3> QED BY <3>1, <3>2 DEF Row, States
  <2>3. CASE ~(r.attempts = MaxAttempts /\ r.revivals < MaxRevivals)
    <3>1. Failed(r) = [r EXCEPT !.state = "failed", !.cooling = TRUE]
      BY <2>3 DEF Failed
    <3> QED BY <3>1 DEF Row, States
  <2> QED BY <2>2, <2>3
<1>4. ASSUME NEW r \in Row
      PROVE  /\ \A st \in States : [r EXCEPT !.state = st] \in Row /\ [r EXCEPT !.state = st].state = st
             /\ [r EXCEPT !.recent = FALSE] \in Row /\ [r EXCEPT !.recent = FALSE].state = r.state
             /\ [r EXCEPT !.cooling = FALSE] \in Row /\ [r EXCEPT !.cooling = FALSE].state = r.state
             /\ \A p \in 0 .. Cardinality(Reels) : [r EXCEPT !.position = p] \in Row
  BY DEF Row
<1>5. ASSUME NEW r \in Row, NEW m \in Ids
      PROVE  /\ [r EXCEPT !.state = "uploaded", !.msg = m] \in Row
             /\ [r EXCEPT !.state = "uploaded", !.msg = m].state = "uploaded"
             /\ [r EXCEPT !.manifest = IF m = 0 THEN @ ELSE m] \in Row
             /\ [r EXCEPT !.manifest = IF m = 0 THEN @ ELSE m].state = r.state
  BY DEF Row, States
<1> QED BY <1>2, <1>3, <1>4, <1>5

\* A statement about one reel leaves the other rows alone.
LEMMA UpdateFacts ==
  ASSUME LedgerTyped, NEW k \in Reels, NEW r \in Row, Update(k, r)
  PROVE  /\ item' \in [Reels -> Row]
         /\ \A j \in Reels : j # k => item'[j] = item[j]
         /\ item'[k] = item[k] \/ item'[k] = r
BY DEF Update, LedgerTyped

\* An import writes new rows only.
LEMMA ImportFacts ==
  ASSUME LedgerTyped, NEW file, AddMany(file)
  PROVE  /\ item' \in [Reels -> Row]
         /\ \A k \in Reels : item[k].state # "absent" => item'[k] = item[k]
<1> DEFINE new == {k \in Reels : InFile(file, k) /\ item[k].state = "absent"}
           ahead(k) == {j \in new \ {k} : Before(file, j, k)}
           row(k) == [Absent EXCEPT !.state = "queued", !.position = NextPosition + Cardinality(ahead(k))]
<1>1. item' = [k \in Reels |-> IF k \in new THEN row(k) ELSE item[k]]
  BY DEF AddMany
<1>2. ASSUME NEW k \in new PROVE row(k) \in Row
  <2>1. k \in Reels \ Known(item) /\ ahead(k) \in SUBSET (Reels \ Known(item)) /\ k \notin ahead(k)
    BY DEF Known
  <2>2. NextPosition + Cardinality(ahead(k)) \in 0 .. Cardinality(Reels)
    <3> HIDE DEF ahead
    <3> QED BY <2>1, Positions
  <2> HIDE DEF ahead
  <2>3. Absent \in Row
    BY RowFacts
  <2> QED BY <2>2, <2>3 DEF Row, States
<1>3. \A k \in new : item[k].state = "absent" /\ k \in Reels
  OBVIOUS
<1> HIDE DEF new, row
<1> QED BY <1>1, <1>2, <1>3 DEF LedgerTyped

\* An adoption writes the rows of the reels it names, and records them as uploaded.
LEMMA AdoptFacts ==
  ASSUME LedgerTyped, NEW found, AdoptAll(found),
         \A f \in found : f.reel \in Reels /\ f.msg \in Ids /\ f.manifest \in Ids
  PROVE  /\ item' \in [Reels -> Row]
         /\ \A f \in found : item'[f.reel].state = "uploaded"
         /\ \A k \in Reels : (\A f \in found : f.reel # k) => item'[k] = item[k]
         /\ \A k \in Reels : item[k].state = "uploaded" => item'[k].state = "uploaded"
<1> DEFINE hit(k) == {f \in found : f.reel = k}
           new    == {k \in Reels : hit(k) # {} /\ item[k].state = "absent"}
           ahead(k) == {j \in new \ {k} : \A f \in hit(j), g \in hit(k) : f.msg <= g.msg}
           base(k) == IF k \in new
                        THEN [Absent EXCEPT !.position = NextPosition + Cardinality(ahead(k))]
                        ELSE item[k]
           pick(k) == CHOOSE f \in hit(k) : TRUE
<1>1. item' = [k \in Reels |-> IF hit(k) = {} THEN item[k] ELSE Adopted(base(k), pick(k))]
  BY DEF AdoptAll
<1>2. ASSUME NEW k \in Reels PROVE base(k) \in Row
  <2>1. CASE k \in new
    <3>1. k \in Reels \ Known(item) /\ ahead(k) \in SUBSET (Reels \ Known(item)) /\ k \notin ahead(k)
      BY <2>1 DEF Known
    <3>2. NextPosition + Cardinality(ahead(k)) \in 0 .. Cardinality(Reels)
      <4> HIDE DEF ahead
      <4> QED BY <3>1, Positions
    <3> HIDE DEF ahead, new
    <3> QED BY <2>1, <3>2, RowFacts
  <2>2. CASE k \notin new
    <3> HIDE DEF new, ahead
    <3> QED BY <2>2 DEF LedgerTyped
  <2> QED BY <2>1, <2>2
<1>3. ASSUME NEW k \in Reels, hit(k) # {} PROVE pick(k) \in found
  BY <1>3
<1>4. ASSUME NEW r \in Row, NEW f \in found
      PROVE  Adopted(r, f) \in Row /\ Adopted(r, f).state = "uploaded"
  BY DEF Adopted, Row, States
<1>5. \A f \in found : hit(f.reel) # {}
  OBVIOUS
<1>6. \A k \in Reels : (\A f \in found : f.reel # k) => hit(k) = {}
  OBVIOUS
<1> HIDE DEF hit, base, pick
<1> QED BY <1>1, <1>2, <1>3, <1>4, <1>5, <1>6 DEF LedgerTyped

-----------------------------------------------------------------------------
(* Types *)

Message(kind, k) == [kind |-> kind, reel |-> k]

\* n messages of one reel go up, or the one that Post puts there.
Appended(n, kind, k) ==
  \/ channel' = channel \o [i \in 1 .. n |-> Message(kind, k)]
  \/ n = 1 /\ channel' = Append(channel, Message(kind, k))

\* Posting leaves the messages there are, and stays within the bound.
LEMMA PostFacts ==
  ASSUME LedgerTyped, NEW n \in 0 .. 2, Room(n), NEW k \in Reels, NEW kind \in {"video", "manifest"},
         Appended(n, kind, k)
  PROVE  /\ channel' \in Seq([kind : {"video", "manifest"}, reel : Reels])
         /\ Last' = Last + n /\ Last' <= MaxMessages /\ Last \in Nat
         /\ \A i \in 1 .. Last : channel'[i] = channel[i]
         /\ \A i \in Last + 1 .. Last' : channel'[i] = Message(kind, k)
<1> DEFINE M == [kind : {"video", "manifest"}, reel : Reels]
           m == Message(kind, k)
<1>1. channel \in Seq(M) /\ Last \in Nat /\ Last <= MaxMessages /\ MaxMessages \in Nat /\ m \in M
  BY LedgerAssumption DEF LedgerTyped, Last, Message
<1>2. CASE channel' = channel \o [i \in 1 .. n |-> m]
  <2> DEFINE t == [i \in 1 .. n |-> m]
  <2>1. t \in Seq(M) /\ Len(t) = n /\ \A i \in 1 .. n : t[i] = m
    <3> HIDE DEF m, M
    <3> QED BY <1>1
  <2> HIDE DEF t, m, M
  <2>2. /\ channel \o t \in Seq(M) /\ Len(channel \o t) = Len(channel) + Len(t)
        /\ \A i \in 1 .. Len(channel) + Len(t) :
             (channel \o t)[i] = IF i <= Len(channel) THEN channel[i] ELSE t[i - Len(channel)]
    BY <1>1, <2>1, ConcatProperties
  <2>3. channel' = channel \o t
    BY <1>2 DEF t
  <2>4. Last' = Last + n /\ Last' <= MaxMessages
    BY <1>1, <2>1, <2>2, <2>3 DEF Last, Room
  <2>5. \A i \in 1 .. Last : channel'[i] = channel[i]
    BY <1>1, <2>1, <2>2, <2>3 DEF Last
  <2>6. \A i \in Last + 1 .. Last + n : channel'[i] = m
    BY <1>1, <2>1, <2>2, <2>3 DEF Last
  <2> QED BY <1>1, <2>2, <2>3, <2>4, <2>5, <2>6 DEF m, M
<1>3. CASE n = 1 /\ channel' = Append(channel, m)
  <2> HIDE DEF m, M
  <2>1. /\ channel' \in Seq(M) /\ Len(channel') = Len(channel) + 1
        /\ \A i \in 1 .. Len(channel) : channel'[i] = channel[i]
        /\ channel'[Len(channel) + 1] = m
    BY <1>1, <1>3, AppendProperties
  <2>2. Last' = Last + n /\ Last' <= MaxMessages
    BY <1>1, <1>3, <2>1 DEF Last, Room
  <2>3. \A i \in Last + 1 .. Last' : channel'[i] = m
    BY <1>1, <1>3, <2>1, <2>2 DEF Last
  <2> QED BY <1>1, <2>1, <2>2, <2>3 DEF Last, m, M
<1> QED BY <1>2, <1>3 DEF Appended

\* What the senders do, in these terms.
LEMMA Senders ==
  ASSUME NEW n, NEW kind, NEW k
  PROVE  /\ channel' = channel \o [i \in 1 .. n |-> [kind |-> kind, reel |-> k]] => Appended(n, kind, k)
         /\ Post(kind, k) => Appended(1, kind, k)
  BY DEF Appended, Post, Message

\* What a step leaves alone keeps its type.
LEMMA Frames ==
  ASSUME Typed
  PROVE  /\ fill' = fill => FillTyped'
         /\ eng' = eng => EngTyped'
         /\ scan' = scan /\ channel' = channel /\ (eng'.pc = eng.pc \/ scan["engine"].pc = "off") =>
              ScanTyped'
         /\ UNCHANGED <<high, channel, pinned, excused>> /\ item' \in [Reels -> Row]
              /\ closed' \in SUBSET Threads /\ budget' \in 0 .. MaxTroubles => LedgerTyped'
         /\ Trouble => budget' \in 0 .. MaxTroubles
         /\ item \in [Reels -> Row] /\ closed \in SUBSET Threads /\ budget \in 0 .. MaxTroubles
<1>1. fill' = fill => FillTyped'
  BY DEF Typed, FillTyped
<1>2. eng' = eng => EngTyped'
  BY DEF Typed, EngTyped
<1>3. scan' = scan /\ channel' = channel /\ (eng'.pc = eng.pc \/ scan["engine"].pc = "off") => ScanTyped'
  BY DEF Typed, ScanTyped, Last
<1>4. UNCHANGED <<high, channel, pinned, excused>> /\ item' \in [Reels -> Row]
        /\ closed' \in SUBSET Threads /\ budget' \in 0 .. MaxTroubles => LedgerTyped'
  BY DEF Typed, LedgerTyped, Last
<1>5. Trouble => budget' \in 0 .. MaxTroubles
  BY CaptureAssumption DEF Typed, LedgerTyped, Trouble
<1> QED BY <1>1, <1>2, <1>3, <1>4, <1>5 DEF Typed, LedgerTyped

\* The operator's buttons that leave the ledger alone.
LEMMA ButtonsTyped ==
  ASSUME Typed, Start \/ Pause \/ Resume \/ Stop \/ FillStop
  PROVE  Typed'
<1>0. LedgerTyped'
  BY Frames DEF Start, Pause, Resume, Stop, FillStop, ledgerVars
<1>1. CASE Start
  <2>1. EngTyped'
    BY <1>1, RowFacts DEF Start, NoEngine, Typed, EngTyped, HandPcs, IdlePcs
  <2>2. scan["engine"].pc = "off"
    BY <1>1 DEF Start, Alive, At, Typed, ScanTyped
  <2> QED BY <1>0, <1>1, <2>1, <2>2, Frames DEF Start, Typed
<1>2. CASE Pause
  <2>1. EngTyped' /\ eng'.pc = eng.pc
    BY <1>2 DEF Pause, Typed, EngTyped
  <2> QED BY <1>0, <1>2, <2>1, Frames DEF Pause, Typed
<1>3. CASE Resume
  <2>1. EngTyped' /\ eng'.pc = eng.pc
    BY <1>3 DEF Resume, Typed, EngTyped
  <2> QED BY <1>0, <1>3, <2>1, Frames DEF Resume, Typed
<1>4. CASE Stop
  <2>1. EngTyped' /\ eng'.pc = eng.pc
    BY <1>4 DEF Stop, Typed, EngTyped
  <2> QED BY <1>0, <1>4, <2>1, Frames DEF Stop, Typed
<1>5. CASE FillStop
  <2>1. FillTyped'
    BY <1>5 DEF FillStop, Typed, FillTyped
  <2> QED BY <1>0, <1>5, <2>1, Frames DEF FillStop, Typed
<1> QED BY <1>1, <1>2, <1>3, <1>4, <1>5

\* The operator's buttons that write the ledger, its mark or its pinned copy.
LEMMA LedgerButtonsTyped ==
  ASSUME Typed,
         \/ \E file \in Files : Import(file)
         \/ \E k \in Reels : PasteCaptured(k)
         \/ Rescan
         \/ \E pins \in BOOLEAN : SnapshotNow(pins)
  PROVE  Typed'
<1>0. LedgerTyped
  BY DEF Typed
<1>01. 0 \in Ids
  BY RowFacts
<1>1. ASSUME NEW file \in Files, Import(file) PROVE Typed'
  <2>1. item' \in [Reels -> Row]
    BY <1>0, <1>1, ImportFacts DEF Import
  <2> QED BY <1>1, <2>1, Frames DEF Import, Typed
<1>2. ASSUME NEW k \in Reels, PasteCaptured(k) PROVE Typed'
  <2> DEFINE found == {[reel |-> k, msg |-> 0, manifest |-> 0]}
  <2>0. AdoptAll(found)
    BY <1>2, Zenon DEF PasteCaptured, SeedFromUrls
  <2>1. \A f \in found : f.reel \in Reels /\ f.msg \in Ids /\ f.manifest \in Ids
    BY <1>01
  <2>2. item' \in [Reels -> Row]
    <3> HIDE DEF found
    <3> QED BY <1>0, <2>0, <2>1, AdoptFacts
  <2> QED BY <1>2, <2>2, Frames DEF PasteCaptured, Typed
<1>3. CASE Rescan
  <2>1. LedgerTyped'
    <3>1. Last \in Nat /\ 0 \in Ids /\ budget' \in 0 .. MaxTroubles
      <4>1. Last \in Nat
        BY <1>0 DEF LedgerTyped, Last
      <4>2. budget' \in 0 .. MaxTroubles
        BY <1>3, Frames DEF Rescan
      <4> QED BY <1>01, <4>1, <4>2
    <3> QED BY <1>0, <1>3, <3>1 DEF Rescan, LedgerTyped, Last
  <2> QED BY <1>3, <2>1, Frames DEF Rescan, Typed
<1>4. ASSUME NEW pins \in BOOLEAN, SnapshotNow(pins) PROVE Typed'
  <2>1. EngTyped' /\ eng'.pc = eng.pc
    BY <1>4 DEF SnapshotNow, Typed, EngTyped
  <2>2. LedgerTyped'
    BY <1>0, <1>4, Frames DEF SnapshotNow, Snapshot, LedgerTyped, Last, ledgerVars
  <2> QED BY <1>4, <2>1, <2>2, Frames DEF SnapshotNow, Typed
<1> QED BY <1>1, <1>2, <1>3, <1>4, <1>4

\* A restore, from its first question to the ledger it puts in place.
LEMMA RestoreTyped ==
  ASSUME Typed, CopyTyped, RestoreAsk \/ RestoreSteps
  PROVE  Typed'
<1>0. LedgerTyped
  BY DEF Typed
<1>1. CASE RestoreAsk \/ RestoreGet
  <2>1. LedgerTyped'
    BY <1>1, Frames DEF RestoreAsk, RestoreGet, ledgerVars
  <2> QED BY <1>1, <2>1, Frames DEF RestoreAsk, RestoreGet, Typed
<1>2. CASE RestoreSwap
  <2>1. closed' \in SUBSET Threads
    BY <1>2 DEF RestoreSwap
  <2>2. excused' \subseteq Reels
    BY <1>0, <1>2 DEF RestoreSwap, LedgerTyped, InFlight, Typed, EngTyped
  <2>3. item' \in [Reels -> Row] /\ high' \in Ids /\ high' <= Last
    BY <1>2 DEF RestoreSwap, CopyTyped
  <2>4. LedgerTyped'
    BY <1>0, <1>2, <2>1, <2>2, <2>3 DEF RestoreSwap, LedgerTyped, Last
  <2> QED BY <1>2, <2>4, Frames DEF RestoreSwap, Typed
<1> QED BY <1>1, <1>2 DEF RestoreSteps

\* One scan's record moves.
LEMMA ScanSet ==
  ASSUME Typed, NEW s \in Scanners,
         NEW r \in [pc : {"off", "read", "adopt", "mark"}, from : Ids, head : Ids, upto : Ids],
         scan' = [scan EXCEPT ![s] = r], channel' = channel,
         r.from <= r.head /\ r.head <= Last,
         r.pc \in {"adopt", "mark"} => r.from <= r.upto /\ r.upto <= r.head,
         eng'.pc = eng.pc, s = "engine" /\ r.pc # "off" => eng.pc = "seed"
  PROVE  ScanTyped'
BY DEF Typed, ScanTyped, Last

\* The message a scan passed over belongs to some reel.
LEMMA ReelOf ==
  ASSUME LedgerTyped, NEW i \in 1 .. Last
  PROVE  channel[i].reel \in Reels /\ channel[i].kind \in {"video", "manifest"}
<1>1. channel[i] \in [kind : {"video", "manifest"}, reel : Reels]
  BY ElementOfSeq DEF LedgerTyped, Last
<1> QED BY <1>1

\* The scans.
LEMMA ScansTyped ==
  ASSUME Typed, SideScan \/ ScanSteps
  PROVE  Typed'
<1>0. /\ LedgerTyped /\ ScanTyped /\ Last \in Nat /\ Last \in Ids
      /\ \A s \in Scanners : /\ scan[s].from \in Ids /\ scan[s].head \in Ids
                             /\ scan[s].from <= scan[s].head /\ scan[s].head <= Last
      /\ Ids \subseteq Nat /\ 0 \in Ids /\ MaxMessages \in Nat
  BY LedgerAssumption DEF Typed, LedgerTyped, ScanTyped, Last, Ids
<1>1. CASE SideScan
  <2> DEFINE r == [pc |-> "read", from |-> high, head |-> Last, upto |-> 0]
  <2>1. ScanTyped'
    <3>1. r \in [pc : {"off", "read", "adopt", "mark"}, from : Ids, head : Ids, upto : Ids]
      BY <1>0 DEF LedgerTyped
    <3>2. scan' = [scan EXCEPT !["side"] = r] /\ "side" \in Scanners
      BY <1>1 DEF SideScan, ScanBegin, Scanners
    <3>3. r.from <= r.head /\ r.head <= Last /\ r.pc = "read"
      BY <1>0 DEF LedgerTyped
    <3> HIDE DEF r
    <3> QED BY <1>1, <3>1, <3>2, <3>3, ScanSet DEF SideScan
  <2> QED BY <1>1, <2>1, Frames DEF SideScan, Typed, ledgerVars
<1>2. ASSUME NEW s \in Scanners, ScanRead(s) PROVE Typed'
  <2>1. PICK upto \in scan[s].from .. scan[s].head :
          scan' = [scan EXCEPT ![s].pc = "adopt", ![s].upto = upto]
    <3>1. scan[s].head \in scan[s].from .. scan[s].head
      <4>1. scan[s].head \in Nat /\ scan[s].from \in Nat /\ scan[s].from <= scan[s].head
        BY <1>0 DEF Ids
      <4> QED BY <4>1
    <3> QED BY <1>2, <3>1, Zenon DEF ScanRead
  <2>2. upto \in Ids /\ scan[s].from <= upto /\ upto <= scan[s].head
    BY <1>0 DEF Ids
  <2>3. ScanTyped'
    <3> DEFINE r == [scan[s] EXCEPT !.pc = "adopt", !.upto = upto]
    <3>1. r \in [pc : {"off", "read", "adopt", "mark"}, from : Ids, head : Ids, upto : Ids]
          /\ r.from = scan[s].from /\ r.head = scan[s].head /\ r.upto = upto /\ r.pc = "adopt"
      BY <1>0, <2>2 DEF ScanTyped
    <3>2. scan' = [scan EXCEPT ![s] = r]
      BY <1>0, <2>1 DEF ScanTyped
    <3>3. s = "engine" => eng.pc = "seed"
      BY <1>0, <1>2 DEF ScanRead, ScanTyped
    <3> HIDE DEF r
    <3> QED BY <1>0, <1>2, <2>2, <3>1, <3>2, <3>3, ScanSet DEF ScanRead
  <2> QED BY <1>2, <2>3, Frames DEF ScanRead, Typed, ledgerVars
<1>3. ASSUME NEW s \in Scanners, ScanAdopt(s) PROVE Typed'
  <2> DEFINE found == Found(scan[s].from, scan[s].upto)
  <2>1. \A f \in found : f.reel \in Reels /\ f.msg \in Ids /\ f.manifest \in Ids
    BY <1>0, FoundFacts DEF ScanTyped
  <2>2. AdoptAll(found)
    BY <1>3 DEF ScanAdopt
  <2>3. item' \in [Reels -> Row]
    <3> HIDE DEF found
    <3> QED BY <1>0, <2>1, <2>2, AdoptFacts
  <2>4. excused' \subseteq Reels
    <3> HIDE DEF found
    <3>1. excused' = excused \cup {k \in InFlight : \E f \in found : f.reel = k}
      BY <1>3 DEF ScanAdopt, found
    <3> QED BY <3>1 DEF Typed, LedgerTyped, InFlight, EngTyped
  <2>5. LedgerTyped'
    BY <1>0, <1>3, <2>3, <2>4 DEF ScanAdopt, LedgerTyped, Last
  <2>6. ScanTyped'
    <3> DEFINE r == [scan[s] EXCEPT !.pc = "mark"]
    <3>1. r \in [pc : {"off", "read", "adopt", "mark"}, from : Ids, head : Ids, upto : Ids]
          /\ r.from = scan[s].from /\ r.head = scan[s].head /\ r.upto = scan[s].upto /\ r.pc = "mark"
      BY <1>0 DEF ScanTyped
    <3>2. scan' = [scan EXCEPT ![s] = r]
      BY <1>0, <1>3 DEF ScanAdopt, ScanTyped
    <3>3. (s = "engine" => eng.pc = "seed") /\ r.from <= r.upto /\ r.upto <= r.head
      BY <1>0, <1>3, <3>1 DEF ScanAdopt, ScanTyped
    <3> HIDE DEF r
    <3> QED BY <1>0, <1>3, <3>1, <3>2, <3>3, ScanSet DEF ScanAdopt
  <2> QED BY <1>3, <2>5, <2>6, Frames DEF ScanAdopt, Typed
<1>4. ASSUME NEW s \in Scanners, ScanMark(s) PROVE Typed'
  <2>1. high' \in Ids /\ high' <= Last
    BY <1>0, <1>4 DEF ScanMark, MarkTo, LedgerTyped
  <2>2. \A i \in 1 .. Last : channel[i].reel \in Reels
    BY <1>0, ReelOf
  <2>3. scan[s].upto + 1 .. scan[s].head \subseteq 1 .. Last
    <3>1. scan[s].upto \in Nat /\ scan[s].head \in Nat /\ scan[s].head <= Last
      BY <1>0 DEF ScanTyped
    <3> QED BY <1>0, <3>1
  <2>4. excused' \subseteq Reels
    BY <1>0, <1>4, <2>2, <2>3 DEF ScanMark, LedgerTyped
  <2>5. LedgerTyped'
    BY <1>0, <1>4, <2>1, <2>4 DEF ScanMark, LedgerTyped, Last
  <2>6. ScanTyped'
    BY <1>0, <1>4 DEF ScanMark, ScanTyped, NoScan, Last
  <2> QED BY <1>4, <2>5, <2>6, Frames DEF ScanMark, Typed
<1>5. ASSUME NEW s \in Scanners, ScanFails(s) PROVE Typed'
  <2>1. LedgerTyped'
    BY <1>5, Frames DEF ScanFails, ledgerVars
  <2>2. ScanTyped'
    BY <1>0, <1>5 DEF ScanFails, ScanTyped, NoScan, Last
  <2> QED BY <1>5, <2>1, <2>2, Frames DEF ScanFails, Typed
<1> QED BY <1>1, <1>2, <1>3, <1>4, <1>5 DEF ScanSteps

\* A snapshot is pinned, or it is not; nothing else of the ledger moves.
LEMMA SnapshotFacts ==
  ASSUME Typed, UNCHANGED <<ledgerVars, channel, excused, closed, budget>>,
         \/ \E force, pins \in BOOLEAN : Snapshot(force, pins)
         \/ pinned' = pinned
  PROVE  LedgerTyped'
<1>1. pinned' = pinned \/ pinned' = [item |-> item, high |-> high, there |-> TRUE]
  BY DEF Snapshot
<1>2. Last' = Last
  BY DEF Last
<1>3. pinned' \in [item : [Reels -> Row], high : Ids, there : BOOLEAN] /\ pinned'.high <= Last
  <2>1. item \in [Reels -> Row] /\ high \in Ids /\ high <= Last
    BY DEF Typed, LedgerTyped
  <2>2. CASE pinned' = pinned
    BY <2>2 DEF Typed, LedgerTyped
  <2>3. CASE pinned' = [item |-> item, high |-> high, there |-> TRUE]
    BY <2>1, <2>3
  <2> QED BY <1>1, <2>2, <2>3
<1> QED BY <1>2, <1>3 DEF Typed, LedgerTyped, ledgerVars

\* The engine moves on without touching the ledger.
LEMMA TurnsTyped ==
  ASSUME Typed,
         \/ Seeded \/ Top \/ SendRecord \/ Broken \/ Repair
         \/ \E pins \in BOOLEAN : NothingDue(pins) \/ After(pins)
  PROVE  Typed'
<1>0. EngTyped /\ LedgerTyped /\ ScanTyped /\ item \in [Reels -> Row] /\ 0 \in Ids
  BY RowFacts DEF Typed, LedgerTyped
<1>1. CASE Seeded
  <2>1. EngTyped'
    BY <1>0, <1>1 DEF Seeded, Goto, At, EngTyped, HandPcs, IdlePcs
  <2> QED BY <1>1, <2>1, Frames DEF Seeded, Typed, ledgerVars
<1>2. CASE Top
  <2>1. EngTyped'
    <3>1. CASE eng.stop /\ Ends("idle")
      BY <1>0, <3>1 DEF Ends, EngTyped, HandPcs, IdlePcs
    <3>2. CASE eng' = [eng EXCEPT !.state = "paused"]
      BY <1>0, <3>2 DEF EngTyped
    <3>3. CASE eng.pc = "top" /\ eng' = [eng EXCEPT !.pc = "claim", !.state = "running"]
      BY <1>0, <3>3 DEF EngTyped, HandPcs, IdlePcs
    <3> QED BY <1>2, <3>1, <3>2, <3>3 DEF Top, At
  <2>2. scan["engine"].pc = "off"
    BY <1>0, <1>2 DEF Top, At, ScanTyped
  <2> QED BY <1>2, <2>1, <2>2, Frames DEF Top, Typed, ledgerVars
<1>3. CASE SendRecord
  <2>1. EngTyped'
    BY <1>0, <1>3 DEF SendRecord, Goto, At, EngTyped, HandPcs, IdlePcs
  <2>2. scan["engine"].pc = "off"
    BY <1>0, <1>3 DEF SendRecord, At, ScanTyped
  <2> QED BY <1>3, <2>1, <2>2, Frames DEF SendRecord, Typed, ledgerVars
<1>4. CASE Broken
  <2>1. EngTyped'
    BY <1>0, <1>4 DEF Broken, Ends, EngTyped, HandPcs, IdlePcs
  <2>2. scan["engine"].pc = "off"
    BY <1>0, <1>4 DEF Broken, ScanTyped
  <2> QED BY <1>4, <2>1, <2>2, Frames DEF Broken, Typed, ledgerVars
<1>5. CASE Repair
  <2>1. item' \in [Reels -> Row]
    BY <1>0, <1>5, RowFacts DEF Repair, RepairStale, States
  <2>2. LedgerTyped'
    BY <1>5, <2>1, Frames DEF Repair
  <2>3. EngTyped'
    BY <1>0, <1>5 DEF Repair, Goto, At, EngTyped, HandPcs, IdlePcs
  <2>4. scan["engine"].pc = "off" /\ eng.pc = "repair"
    BY <1>0, <1>5 DEF Repair, At, ScanTyped
  <2>5. CASE scan' = scan
    BY <1>5, <2>2, <2>3, <2>4, <2>5, Frames DEF Repair, Typed
  <2>6. CASE ScanBegin("engine") /\ Goto("seed")
    <3> DEFINE r == [pc |-> "read", from |-> high, head |-> Last, upto |-> 0]
    <3>1. /\ r \in [pc : {"off", "read", "adopt", "mark"}, from : Ids, head : Ids, upto : Ids]
          /\ r.from <= r.head /\ r.head <= Last /\ r.pc = "read"
      BY <1>0, LedgerAssumption DEF LedgerTyped, Last, Ids
    <3>2. scan' = [scan EXCEPT !["engine"] = r] /\ eng'.pc = "seed"
      BY <1>0, <2>6 DEF ScanBegin, Goto, EngTyped
    <3> HIDE DEF r
    <3>3. ScanTyped'
      BY <1>0, <1>5, <3>1, <3>2 DEF ScanTyped, Repair, Scanners, Last
    <3> QED BY <1>5, <2>2, <2>3, <3>3, Frames DEF Repair, Typed
  <2> QED BY <1>5, <2>5, <2>6 DEF Repair
<1>6. ASSUME NEW pins \in BOOLEAN, NothingDue(pins) PROVE Typed'
  <2>1. EngTyped'
    <3>1. CASE eng.pc = "claim" /\ Goto("top")
      BY <1>0, <3>1 DEF Goto, EngTyped, HandPcs, IdlePcs
    <3>2. CASE eng.pc = "claim" /\ eng' = [eng EXCEPT !.pc = "off", !.state = "idle", !.since = 0]
      BY <1>0, <3>2 DEF EngTyped, HandPcs, IdlePcs
    <3> QED BY <1>6, <3>1, <3>2 DEF NothingDue, At
  <2>2. scan["engine"].pc = "off"
    BY <1>0, <1>6 DEF NothingDue, At, ScanTyped
  <2>3. LedgerTyped'
    BY <1>6, SnapshotFacts DEF NothingDue
  <2> QED BY <1>6, <2>1, <2>2, <2>3, Frames DEF NothingDue, Typed
<1>7. ASSUME NEW pins \in BOOLEAN, After(pins) PROVE Typed'
  <2>1. EngTyped'
    <3>1. CASE Ends("idle")
      BY <1>0, <3>1 DEF Ends, EngTyped, HandPcs, IdlePcs
    <3>2. ASSUME NEW p \in {"off", "top"}, NEW st \in {"error", eng.state}, NEW n \in {0, eng.since},
                 eng.pc = "after", eng' = [eng EXCEPT !.pc = p, !.state = st, !.since = n]
          PROVE  EngTyped'
      <4>1. st \in {"idle", "running", "paused", "stopping", "error"} /\ n \in Nat
        BY <1>0 DEF EngTyped
      <4>2. eng.reel = {}
        BY <1>0, <3>2 DEF EngTyped, IdlePcs
      <4> QED BY <1>0, <3>2, <4>1, <4>2 DEF EngTyped, HandPcs, IdlePcs
    <3>3. CASE ~eng.stop
      <4> DEFINE due == eng.since >= SnapshotEvery
                 halt == eng.streak >= HostileStop
      <4>1. eng.pc = "after"
            /\ eng' = [eng EXCEPT !.pc = IF halt THEN "off" ELSE "top",
                                  !.state = IF halt THEN "error" ELSE @,
                                  !.since = IF due \/ halt THEN 0 ELSE @]
        BY <1>7, <3>3 DEF After, At
      <4> HIDE DEF due, halt
      <4>2. /\ (IF halt THEN "off" ELSE "top") \in {"off", "top"}
            /\ (IF halt THEN "error" ELSE eng.state) \in {"error", eng.state}
            /\ (IF due \/ halt THEN 0 ELSE eng.since) \in {0, eng.since}
        OBVIOUS
      <4> QED BY <3>2, <4>1, <4>2
    <3> QED BY <1>7, <3>1, <3>3 DEF After
  <2>2. scan["engine"].pc = "off"
    BY <1>0, <1>7 DEF After, At, ScanTyped
  <2>3. LedgerTyped'
    BY <1>7, SnapshotFacts DEF After
  <2> QED BY <1>7, <2>1, <2>2, <2>3, Frames DEF After, Typed
<1> QED BY <1>1, <1>2, <1>3, <1>4, <1>5, <1>6, <1>7

\* What the engine's handler does to the reel in hand.
LEMMA HandFacts ==
  ASSUME Typed, eng.pc \in HandPcs,
         \/ \E hostile \in BOOLEAN : Fails(hostile)
         \/ \A k \in eng.reel : MarkUnavailable(k)
         \/ \A k \in eng.reel : MarkUploaded(k, eng.sent)
         \/ \A k \in eng.reel : MarkAssets(k, eng.sent)
  PROVE  /\ item' \in [Reels -> Row]
         /\ \A k \in Reels : k \notin eng.reel => item'[k] = item[k]
<1>0. LedgerTyped /\ item \in [Reels -> Row]
  BY DEF Typed, LedgerTyped
<1>1. PICK k \in Reels : eng.reel = {k}
  BY DEF Typed, EngTyped
<1>2. PICK r \in Row : Update(k, r)
  <2>1. item[k] \in Row /\ eng.sent \in Ids
    BY <1>0 DEF Typed, EngTyped
  <2>2. /\ Failed(item[k]) \in Row /\ [item[k] EXCEPT !.state = "unavailable"] \in Row
        /\ [item[k] EXCEPT !.state = "uploaded", !.msg = eng.sent] \in Row
        /\ [item[k] EXCEPT !.manifest = IF eng.sent = 0 THEN @ ELSE eng.sent] \in Row
    BY <2>1, RowFacts DEF States
  <2>3. \/ Update(k, Failed(item[k]))
        \/ Update(k, [item[k] EXCEPT !.state = "unavailable"])
        \/ Update(k, [item[k] EXCEPT !.state = "uploaded", !.msg = eng.sent])
        \/ Update(k, [item[k] EXCEPT !.manifest = IF eng.sent = 0 THEN @ ELSE eng.sent])
    BY <1>1, Zenon DEF Fails, MarkFailed, MarkUnavailable, MarkUploaded, MarkAssets
  <2> QED BY <2>2, <2>3
<1>3. item' \in [Reels -> Row] /\ \A j \in Reels : j # k => item'[j] = item[j]
  BY <1>0, <1>2, UpdateFacts
<1> QED BY <1>1, <1>3

\* The steps of the engine that have a reel in hand, or take one.
LEMMA HandTyped ==
  ASSUME Typed,
         \/ ClaimNext \/ FetchFails \/ UploadFails \/ Mark \/ JournalFails \/ RecordAssets
         \/ \E copies \in 0 .. 2, fails \in BOOLEAN : SendVideo(copies, fails)
         \/ \E sent \in BOOLEAN : Assets(sent)
  PROVE  Typed'
<1>0. EngTyped /\ LedgerTyped /\ ScanTyped /\ item \in [Reels -> Row] /\ 0 \in Ids
  BY RowFacts DEF Typed, LedgerTyped
<1>9. eng.pc \in HandPcs \cup {"claim"} => scan["engine"].pc = "off"
  BY <1>0 DEF ScanTyped, HandPcs
<1>1. CASE ClaimNext
  <2>1. PICK k \in Reels : Claim(k) /\ eng' = [eng EXCEPT !.pc = "fetch", !.reel = {k}]
    BY <1>1 DEF ClaimNext
  <2> DEFINE r == [item[k] EXCEPT !.state = "fetching", !.recent = TRUE,
                                  !.attempts = IF @ < MaxAttempts THEN @ + 1 ELSE @]
  <2>2. r \in Row
    <3>1. item[k] \in Row /\ item[k].attempts \in 0 .. MaxAttempts /\ MaxAttempts \in Nat
      BY <1>0, LedgerAssumption DEF Row
    <3>2. (IF item[k].attempts < MaxAttempts THEN item[k].attempts + 1 ELSE item[k].attempts)
            \in 0 .. MaxAttempts
      BY <3>1
    <3> QED BY <3>1, <3>2 DEF Row, States
  <2>3. Update(k, r)
    BY <2>1 DEF Claim
  <2>4. item' \in [Reels -> Row]
    <3> HIDE DEF r
    <3> QED BY <1>0, <2>2, <2>3, UpdateFacts
  <2>5. EngTyped'
    BY <1>0, <1>1, <2>1 DEF EngTyped, HandPcs, IdlePcs
  <2> QED BY <1>1, <1>9, <2>4, <2>5, Frames DEF ClaimNext, At, Typed
<1>10. ASSUME eng.pc \in HandPcs,
             eng' = [eng EXCEPT !.pc = "after", !.reel = {}]
               \/ Captured \/ \E hostile \in BOOLEAN : Fails(hostile)
      PROVE  EngTyped'
  <2>1. eng.since + 1 \in Nat /\ eng.streak + 1 \in Nat
    BY <1>0 DEF EngTyped
  <2>2. CASE eng' = [eng EXCEPT !.pc = "after", !.reel = {}]
    BY <1>0, <2>2 DEF EngTyped, HandPcs, IdlePcs
  <2>3. CASE Captured
    BY <1>0, <2>1, <2>3 DEF Captured, EngTyped, HandPcs, IdlePcs
  <2>4. ASSUME NEW hostile \in BOOLEAN, Fails(hostile) PROVE EngTyped'
    BY <1>0, <2>1, <2>4 DEF Fails, EngTyped, HandPcs, IdlePcs
  <2> QED BY <1>10, <2>2, <2>3, <2>4
<1>2. CASE FetchFails
  <2>1. eng.pc \in HandPcs
    BY <1>2 DEF FetchFails, At, HandPcs
  <2>2. \/ \E hostile \in BOOLEAN : Fails(hostile)
        \/ /\ \A k \in eng.reel : MarkUnavailable(k)
           /\ eng' = [eng EXCEPT !.pc = "after", !.reel = {}]
    BY <1>2 DEF FetchFails
  <2>3. item' \in [Reels -> Row]
    BY <2>1, <2>2, HandFacts
  <2>4. EngTyped'
    BY <2>1, <2>2, <1>10
  <2> QED BY <1>2, <1>9, <2>1, <2>3, <2>4, Frames DEF FetchFails, Typed
<1>3. CASE UploadFails
  <2>1. eng.pc \in HandPcs /\ Fails(FALSE)
    BY <1>3 DEF UploadFails, At, HandPcs
  <2> QED BY <1>3, <1>9, <1>10, <2>1, HandFacts, Frames DEF UploadFails, Typed
<1>4. CASE Mark
  <2>1. eng.pc \in HandPcs /\ \A k \in eng.reel : MarkUploaded(k, eng.sent)
    BY <1>4 DEF Mark, At, HandPcs
  <2>2. EngTyped'
    BY <1>0, <1>4 DEF Mark, At, Goto, EngTyped, HandPcs, IdlePcs
  <2>3. item' \in [Reels -> Row]
    BY <2>1, HandFacts
  <2> QED BY <1>4, <1>9, <2>1, <2>2, <2>3, Frames DEF Mark, Typed
<1>5. CASE JournalFails
  <2>1. eng.pc \in HandPcs /\ Fails(FALSE)
    BY <1>5 DEF JournalFails, At, HandPcs
  <2> QED BY <1>5, <1>9, <1>10, <2>1, HandFacts, Frames DEF JournalFails, Typed
<1>6. CASE RecordAssets
  <2>1. eng.pc \in HandPcs /\ (\A k \in eng.reel : MarkAssets(k, eng.sent)) /\ Captured
    BY <1>6 DEF RecordAssets, At, HandPcs
  <2>2. item' \in [Reels -> Row]
    BY <2>1, HandFacts
  <2> QED BY <1>6, <1>9, <1>10, <2>1, <2>2, Frames DEF RecordAssets, Typed
<1>11. ASSUME NEW n \in 0 .. 2, NEW k \in Reels, NEW kind \in {"video", "manifest"}, Room(n),
             Appended(n, kind, k),
             UNCHANGED <<item, high, pinned, scan, closed, excused>>,
             budget' \in 0 .. MaxTroubles, scan["engine"].pc = "off" \/ eng'.pc = eng.pc
      PROVE  LedgerTyped' /\ ScanTyped' /\ Last' = Last + n /\ Last' \in Ids
  <2>1. /\ channel' \in Seq([kind : {"video", "manifest"}, reel : Reels])
        /\ Last' = Last + n /\ Last' <= MaxMessages /\ Last \in Nat
    BY <1>0, <1>11, PostFacts
  <2>2. Last' \in Ids /\ Last <= Last' /\ MaxMessages \in Nat
    BY <2>1, LedgerAssumption DEF Ids
  <2>3. LedgerTyped'
    <3>1. high' <= Last' /\ pinned'.high <= Last'
      BY <1>0, <1>11, <2>1, <2>2 DEF LedgerTyped, Ids
    <3> QED BY <1>0, <1>11, <2>1, <3>1 DEF LedgerTyped
  <2>4. ScanTyped'
    <3>1. \A s \in Scanners : scan[s].head \in Nat /\ scan[s].head <= Last'
      BY <1>0, <2>1, <2>2 DEF ScanTyped, Ids
    <3> QED BY <1>0, <1>11, <3>1 DEF ScanTyped
  <2> QED BY <2>1, <2>2, <2>3, <2>4
<1>7. ASSUME NEW copies \in 0 .. 2, NEW fails \in BOOLEAN, SendVideo(copies, fails) PROVE Typed'
  <2>1. eng.pc = "fetch" /\ eng.pc \in HandPcs
    BY <1>7 DEF SendVideo, At, HandPcs
  <2>2. PICK k \in Reels : eng.reel = {k}
    BY <1>0, <2>1 DEF EngTyped
  <2>3. budget' \in 0 .. MaxTroubles
    BY <1>7, Frames DEF SendVideo
  <2>4. /\ LedgerTyped' /\ ScanTyped' /\ Last + copies \in Ids
    BY <1>7, <1>9, <1>11, <2>1, <2>2, <2>3, Senders DEF SendVideo, ledgerVars
  <2>5. EngTyped'
    BY <1>0, <1>7, <2>1, <2>4 DEF SendVideo, EngTyped, HandPcs, IdlePcs
  <2> QED BY <1>7, <2>4, <2>5, Frames DEF SendVideo, Typed
<1>8. ASSUME NEW sent \in BOOLEAN, Assets(sent) PROVE Typed'
  <2>1. eng.pc = "marked" /\ eng.pc \in HandPcs
    BY <1>8 DEF Assets, At, HandPcs
  <2>2. PICK k \in Reels : eng.reel = {k}
    BY <1>0, <2>1 DEF EngTyped
  <2>3. CASE sent
    <3>0. Room(1) /\ Post("manifest", k) /\ eng' = [eng EXCEPT !.pc = "assets", !.sent = Last + 1]
      BY <1>8, <2>2, <2>3 DEF Assets
    <3>1. /\ LedgerTyped' /\ ScanTyped' /\ Last + 1 \in Ids
      <4>1. budget' \in 0 .. MaxTroubles
        BY <1>8, Frames DEF Assets
      <4>2. UNCHANGED <<item, high, pinned, scan, closed, excused>> /\ scan["engine"].pc = "off"
        BY <1>8, <1>9, <2>1 DEF Assets, ledgerVars
      <4>3. 1 \in 0 .. 2 /\ "manifest" \in {"video", "manifest"}
        OBVIOUS
      <4>4. LedgerTyped' /\ ScanTyped' /\ Last' = Last + 1 /\ Last' \in Ids
        BY <1>11, <3>0, <4>1, <4>2, <4>3, Senders, Zenon
      <4> QED BY <4>4
    <3>2. EngTyped'
      BY <1>0, <2>1, <3>0, <3>1 DEF EngTyped, HandPcs, IdlePcs
    <3> QED BY <1>8, <3>1, <3>2, Frames DEF Assets, Typed
  <2>4. CASE ~sent
    <3>1. EngTyped' /\ channel' = channel
      BY <1>8, <1>10, <2>1, <2>4 DEF Assets
    <3> QED BY <1>8, <1>9, <2>1, <3>1, Frames DEF Assets, Typed, ledgerVars
  <2> QED BY <2>3, <2>4
<1> QED BY <1>1, <1>2, <1>3, <1>4, <1>5, <1>6, <1>7, <1>8

\* The head of the backfill's loop takes the next video, or ends.
LEMMA FillTurnFacts ==
  ASSUME NEW f \in [pc : {"off", "build", "mark"}, stop : BOOLEAN, todo : SUBSET Reels,
                     reel : SUBSET Reels, sent : Ids, tries : [Reels -> 0 .. SessionTries]],
         \A k \in f.todo : f.tries[k] < SessionTries, FillTurn(f)
  PROVE  FillTyped'
<1>0. 0 \in Ids /\ SessionTries \in Nat
  BY RowFacts, CaptureAssumption
<1>1. CASE fill' = [f EXCEPT !.pc = "off", !.todo = {}, !.reel = {}, !.sent = 0]
  BY <1>0, <1>1 DEF FillTyped
<1>2. ASSUME NEW k \in f.todo,
             fill' = [f EXCEPT !.pc = "build", !.todo = @ \ {k}, !.reel = {k}, !.sent = 0,
                               !.tries[k] = @ + 1]
      PROVE  FillTyped'
  <2>1. k \in Reels /\ f.tries[k] + 1 \in 0 .. SessionTries
    BY <1>0
  <2>2. [f.tries EXCEPT ![k] = @ + 1] \in [Reels -> 0 .. SessionTries]
    BY <1>0, <2>1
  <2>3. /\ fill'.tries = [f.tries EXCEPT ![k] = @ + 1] /\ fill'.todo = f.todo \ {k}
        /\ fill'.reel = {k} /\ fill'.pc = "build"
    BY <1>2
  <2>4. fill' \in [pc : {"off", "build", "mark"}, stop : BOOLEAN, todo : SUBSET Reels,
                   reel : SUBSET Reels, sent : Ids, tries : [Reels -> 0 .. SessionTries]]
    BY <1>0, <1>2, <2>1, <2>2
  <2>5. \A j \in fill'.todo : fill'.tries[j] < SessionTries
    BY <2>1, <2>3
  <2> QED BY <2>1, <2>3, <2>4, <2>5 DEF FillTyped
<1> QED BY <1>1, <1>2 DEF FillTurn

\* The backfill.
LEMMA FillsTyped ==
  ASSUME Typed, FillSteps
  PROVE  Typed'
<1>0. EngTyped /\ LedgerTyped /\ ScanTyped /\ FillTyped /\ item \in [Reels -> Row] /\ 0 \in Ids
      /\ SessionTries \in Nat
  BY RowFacts, CaptureAssumption DEF Typed, LedgerTyped
<1>1. CASE FillStart
  <2> DEFINE f == [fill EXCEPT !.stop = FALSE, !.todo = Outstanding]
  <2>1. /\ f \in [pc : {"off", "build", "mark"}, stop : BOOLEAN, todo : SUBSET Reels,
                  reel : SUBSET Reels, sent : Ids, tries : [Reels -> 0 .. SessionTries]]
        /\ \A k \in f.todo : f.tries[k] < SessionTries
    BY <1>0 DEF FillTyped, Outstanding, NeedsAssets
  <2>2. FillTurn(f)
    BY <1>1 DEF FillStart
  <2>3. FillTyped'
    <3> HIDE DEF f
    <3> QED BY <2>1, <2>2, FillTurnFacts
  <2> QED BY <1>1, <2>3, Frames DEF FillStart, Typed, ledgerVars
<1>2. ASSUME NEW sent \in BOOLEAN, FillBuild(sent) PROVE Typed'
  <2>1. PICK k \in Reels : fill.reel = {k}
    BY <1>0, <1>2 DEF FillBuild, FillTyped
  <2>2. CASE sent
    <3>0. Room(1) /\ Post("manifest", k) /\ fill' = [fill EXCEPT !.pc = "mark", !.sent = Last + 1]
      BY <1>2, <2>1, <2>2 DEF FillBuild
    <3>1. 1 \in 0 .. 2 /\ "manifest" \in {"video", "manifest"}
      OBVIOUS
    <3>2. /\ channel' \in Seq([kind : {"video", "manifest"}, reel : Reels])
          /\ Last' = Last + 1 /\ Last' <= MaxMessages /\ Last \in Nat
      BY <1>0, <3>0, <3>1, PostFacts, Senders
    <3>3. Last + 1 \in Ids /\ Last <= Last' /\ MaxMessages \in Nat
      BY <3>2, LedgerAssumption DEF Ids
    <3>4. LedgerTyped'
      <4>1. high <= Last' /\ pinned.high <= Last'
        BY <1>0, <3>2, <3>3 DEF LedgerTyped, Ids
      <4> QED BY <1>0, <1>2, <3>2, <4>1 DEF FillBuild, LedgerTyped, ledgerVars
    <3>5. ScanTyped'
      <4>1. \A s \in Scanners : scan[s].head \in Nat /\ scan[s].head <= Last'
        BY <1>0, <3>2, <3>3 DEF ScanTyped, Ids
      <4> QED BY <1>0, <1>2, <4>1 DEF FillBuild, ScanTyped
    <3>6. FillTyped'
      BY <1>0, <1>2, <3>0, <3>3 DEF FillBuild, FillTyped
    <3> QED BY <1>2, <3>4, <3>5, <3>6, Frames DEF FillBuild, Typed
  <2>3. CASE ~sent
    <3>1. FillTyped'
      BY <1>0, <1>2, <2>3 DEF FillBuild, FillTyped
    <3> QED BY <1>2, <2>3, <3>1, Frames DEF FillBuild, Typed, ledgerVars
  <2> QED BY <2>2, <2>3
<1>3. CASE FillMark
  <2>1. PICK k \in Reels : fill.reel = {k}
    BY <1>0, <1>3 DEF FillMark, FillTyped
  <2>2. CASE Open("fill")
    <3>1. MarkAssets(k, fill.sent) /\ FillTurn(fill)
      BY <1>3, <2>1, <2>2 DEF FillMark
    <3>2. [item[k] EXCEPT !.manifest = IF fill.sent = 0 THEN @ ELSE fill.sent] \in Row
      BY <1>0, RowFacts DEF FillTyped
    <3>3. item' \in [Reels -> Row]
      BY <1>0, <3>1, <3>2, UpdateFacts DEF MarkAssets
    <3>4. FillTyped'
      BY <1>0, <3>1, FillTurnFacts DEF FillTyped
    <3> QED BY <1>3, <3>3, <3>4, Frames DEF FillMark, Typed
  <2>3. CASE ~Open("fill")
    <3>1. FillTyped' /\ item' = item
      BY <1>0, <1>3, <2>3 DEF FillMark, FillTyped, NoFill
    <3> QED BY <1>3, <3>1, Frames DEF FillMark, Typed
  <2> QED BY <2>2, <2>3
<1> QED BY <1>1, <1>2, <1>3 DEF FillSteps

\* Time passes, or the process is killed.
LEMMA WorldTyped ==
  ASSUME Typed,
         \/ HalfHourPasses \/ \E k \in Reels : CoolsOff(k)
         \/ \E wiped \in BOOLEAN : Die(wiped)
  PROVE  Typed'
<1>0. EngTyped /\ LedgerTyped /\ ScanTyped /\ item \in [Reels -> Row] /\ 0 \in Ids
      /\ Last \in Nat /\ SessionTries \in Nat
  <2>1. EngTyped /\ LedgerTyped /\ ScanTyped /\ item \in [Reels -> Row] /\ Last \in Nat
    BY DEF Typed, LedgerTyped, Last
  <2>2. 0 \in Ids /\ SessionTries \in Nat
    BY RowFacts, CaptureAssumption
  <2> QED BY <2>1, <2>2
<1>1. CASE HalfHourPasses
  <2>1. item' \in [Reels -> Row]
    BY <1>0, <1>1, RowFacts DEF HalfHourPasses, HalfHour
  <2> QED BY <1>1, <2>1, Frames DEF HalfHourPasses, Typed
<1>2. ASSUME NEW k \in Reels, CoolsOff(k) PROVE Typed'
  <2>1. item' = [item EXCEPT ![k] = [item[k] EXCEPT !.cooling = FALSE]]
    BY <1>0, <1>2 DEF CoolsOff, Cooled
  <2>2. item' \in [Reels -> Row]
    BY <1>0, <2>1, RowFacts
  <2> QED BY <1>2, <2>2, Frames DEF CoolsOff, Typed
<1>3. ASSUME NEW wiped \in BOOLEAN, Die(wiped) PROVE Typed'
  <2>1. item' \in [Reels -> Row] /\ high' \in Ids /\ high' <= Last
    <3>1. NewLedger \in [Reels -> Row]
      BY RowFacts DEF NewLedger
    <3>2. 0 <= Last /\ high \in Ids /\ high <= Last
      BY <1>0 DEF LedgerTyped
    <3> QED BY <1>0, <1>3, <3>1, <3>2 DEF Die, ledgerVars
  <2>2. budget' \in 0 .. MaxTroubles
    BY <1>3, Frames DEF Die
  <2>3. LedgerTyped'
    BY <1>0, <1>3, <2>1, <2>2 DEF Die, LedgerTyped, Last
  <2>4. EngTyped'
    BY <1>0, <1>3 DEF Die, NoEngine, EngTyped, HandPcs, IdlePcs
  <2>5. FillTyped'
    BY <1>0, <1>3 DEF Die, NoFill, FillTyped
  <2>6. ScanTyped'
    BY <1>0, <1>3 DEF Die, NoScan, ScanTyped, Scanners, Last
  <2> QED BY <2>3, <2>4, <2>5, <2>6 DEF Typed
<1> QED BY <1>1, <1>2, <1>3

\* Every step leaves every variable in its type.
LEMMA NextTyped ==
  ASSUME Typed, CopyTyped, [CaptureNext]_captureVars
  PROVE  Typed'
<1>1. CASE UNCHANGED captureVars
  BY <1>1, Frames DEF captureVars, Typed
<1>2. CASE CaptureNext
  <2>1. CASE EngineSteps
    <3>1. ASSUME SendVideo(1, FALSE) PROVE Typed'
      <4>1. 1 \in 0 .. 2
        OBVIOUS
      <4> QED BY <3>1, <4>1, HandTyped
    <3>2. \/ Seeded \/ Top \/ SendRecord \/ Broken \/ Repair
          \/ \E pins \in BOOLEAN : NothingDue(pins) \/ After(pins)
          \/ ClaimNext \/ UploadFails \/ Mark \/ RecordAssets \/ \E sent \in BOOLEAN : Assets(sent)
          \/ SendVideo(1, FALSE)
      BY <2>1, Zenon DEF EngineSteps
    <3>3. ASSUME \/ Seeded \/ Top \/ SendRecord \/ Broken \/ Repair
                 \/ \E pins \in BOOLEAN : NothingDue(pins) \/ After(pins)
          PROVE  Typed'
      BY <3>3, TurnsTyped
    <3>4. ASSUME \/ ClaimNext \/ UploadFails \/ Mark \/ RecordAssets
                 \/ \E sent \in BOOLEAN : Assets(sent)
          PROVE  Typed'
      BY <3>4, HandTyped
    <3> QED BY <3>1, <3>2, <3>3, <3>4
  <2>2. CASE ScanSteps
    BY <2>2, ScansTyped
  <2>3. CASE FillSteps
    BY <2>3, FillsTyped
  <2>4. CASE Operator
    BY <2>4, ButtonsTyped, LedgerButtonsTyped, RestoreTyped, ScansTyped DEF Operator
  <2>5. CASE Setbacks
    <3>1. ASSUME SendVideo(2, FALSE) PROVE Typed'
      <4>1. 2 \in 0 .. 2
        OBVIOUS
      <4> QED BY <3>1, <4>1, HandTyped
    <3>2. ASSUME NEW copies \in 0 .. 2, SendVideo(copies, TRUE) PROVE Typed'
      BY <3>2, HandTyped
    <3>3. ASSUME FetchFails \/ JournalFails PROVE Typed'
      BY <3>3, HandTyped
    <3>4. ASSUME NEW wiped \in BOOLEAN, Die(wiped) PROVE Typed'
      BY <3>4, WorldTyped
    <3> QED BY <2>5, <3>1, <3>2, <3>3, <3>4 DEF Setbacks
  <2>6. CASE Start \/ Resume
    BY <2>6, ButtonsTyped
  <2>7. CASE HalfHourPasses \/ \E k \in Reels : CoolsOff(k)
    BY <2>7, WorldTyped
  <2>8. CASE RestoreSteps
    BY <2>8, RestoreTyped
  <2> QED BY <1>2, <2>1, <2>2, <2>3, <2>4, <2>5, <2>6, <2>7, <2>8 DEF CaptureNext
<1> QED BY <1>1, <1>2

\* What a restore has downloaded is the pinned ledger of that moment, and what it
\* takes out of the ledger are reels.
Copies ==
  /\ copy' \in {copy, NoCopy, [copy EXCEPT !.pc = "get"],
                [pc |-> "swap", item |-> pinned.item, high |-> pinned.high]}
  /\ dropped' \subseteq dropped \cup Reels

LEMMA StepCopies ==
  ASSUME CaptureNext
  PROVE  Copies
<1> DEFINE Still == copy' = copy /\ dropped' = dropped
<1>0. Still => Copies
  BY DEF Copies
<1>1. CASE EngineSteps
  BY <1>0, <1>1 DEF EngineSteps, Repair, Seeded, Top, ClaimNext, SendVideo, SendRecord, UploadFails,
                    Mark, RecordAssets, Broken, NothingDue, After, Assets
<1>2. CASE ScanSteps
  <2>1. PICK s \in Scanners : ScanRead(s) \/ ScanAdopt(s) \/ ScanMark(s) \/ ScanFails(s)
    BY <1>2 DEF ScanSteps
  <2>2. Still
    BY <2>1, Zenon DEF ScanRead, ScanAdopt, ScanMark, ScanFails
  <2> QED BY <1>0, <2>2
<1>3. CASE FillSteps
  BY <1>0, <1>3 DEF FillSteps, FillStart, FillBuild, FillMark
<1>4. CASE RestoreAsk \/ RestoreGet
  BY <1>4 DEF RestoreAsk, RestoreGet, Copies
<1>5. CASE RestoreSwap
  BY <1>5 DEF RestoreSwap, Copies, Known
<1>6. CASE Operator
  <2>1. \/ RestoreAsk
        \/ \E file \in Files : Import(file)
        \/ \E k \in Reels : PasteCaptured(k)
        \/ Pause \/ Stop \/ Rescan \/ SideScan \/ FillStop
        \/ \E pins \in BOOLEAN : SnapshotNow(pins)
    BY <1>6, Zenon DEF Operator
  <2> QED BY <1>0, <1>4, <2>1 DEF Import, PasteCaptured, Pause, Stop, Rescan, SideScan, FillStop, SnapshotNow
<1>7. CASE Setbacks
  <2>1. ASSUME NEW wiped \in BOOLEAN, Die(wiped) PROVE Copies
    BY <2>1 DEF Die, Copies, Known
  <2> QED BY <1>0, <1>7, <2>1 DEF Setbacks, FetchFails, JournalFails, SendVideo
<1>8. CASE Start \/ Resume \/ HalfHourPasses \/ \E k \in Reels : CoolsOff(k)
  BY <1>0, <1>8 DEF Start, Resume, HalfHourPasses, CoolsOff
<1> QED BY <1>1, <1>2, <1>3, <1>4, <1>5, <1>6, <1>7, <1>8 DEF CaptureNext, RestoreSteps

-----------------------------------------------------------------------------
(* What the mark promises *)

\* The channel only grows, a reel stays excused, and the pinned copy is the
\* ledger of some moment with its mark.
Grows ==
  /\ Last <= Last' /\ \A i \in 1 .. Last : channel'[i] = channel[i]
  /\ excused \subseteq excused'
  /\ \/ pinned' = pinned
     \/ pinned'.item = item /\ pinned'.high = high

\* No reel that rests in the ledger is disturbed, and nobody answers for more.
Quiet ==
  /\ \A k \in Reels : item[k].state = "uploaded" /\ k \notin eng.reel =>
                       item'[k].state = "uploaded" /\ k \notin eng'.reel
  /\ high' \in {0, high}
  /\ \A s \in Scanners :
       \/ scan'[s].pc = "off"
       \/ scan'[s] = scan[s] /\ (s \in closed => s \in closed')
       \/ scan'[s].pc = "read" /\ scan'[s].from = high
       \/ /\ scan[s].pc = "read" /\ scan'[s].pc = "adopt" /\ scan'[s].from = scan[s].from
          /\ s \in closed => s \in closed'

\* What is answered for has been posted.
LEMMA AnsweredIsPosted ==
  ASSUME Typed, NEW i \in Nat, Answered(i)
  PROVE  i <= Last
<1>1. high \in Nat /\ high <= Last /\ Last \in Nat
  BY LedgerAssumption DEF Typed, LedgerTyped, Ids, Last
<1>2. ASSUME NEW s \in Scanners, AnsweredBy(s, i) PROVE i <= Last
  <2>1. /\ scan[s].from \in Nat /\ scan[s].head \in Nat /\ scan[s].upto \in Nat
        /\ scan[s].from <= scan[s].head /\ scan[s].head <= Last
        /\ scan[s].pc = "mark" => scan[s].upto <= scan[s].head
    BY LedgerAssumption DEF Typed, ScanTyped, Ids
  <2> QED BY <1>1, <1>2, <2>1 DEF AnsweredBy
<1> QED BY <1>1, <1>2 DEF Answered

\* In a quiet step whatever is answered for afterwards was answered for before.
LEMMA QuietAnswers ==
  ASSUME Typed, Quiet, NEW i \in Nat \ {0}, Answered(i)'
  PROVE  Answered(i)
<1>1. high \in Nat
  BY LedgerAssumption DEF Typed, LedgerTyped, Ids
<1>2. CASE i <= high'
  BY <1>1, <1>2 DEF Quiet, Answered
<1>3. ASSUME NEW s \in Scanners, AnsweredBy(s, i)' PROVE Answered(i)
  BY <1>3 DEF Quiet, Answered, AnsweredBy
<1> QED BY <1>2, <1>3 DEF Answered

\* So a quiet step keeps the promise.
LEMMA QuietKeeps ==
  ASSUME Typed, LedgerKeeps, Grows, Quiet
  PROVE  LedgerKeeps'
<1> SUFFICES ASSUME NEW i \in 1 .. Last', channel'[i].kind = "video", Answered(i)'
             PROVE  \/ item'[channel'[i].reel].state = "uploaded" /\ channel'[i].reel \notin eng'.reel
                    \/ channel'[i].reel \in excused'
  BY DEF LedgerKeeps, Rests
<1>1. Last \in Nat /\ Last' \in Nat
  BY DEF Typed, LedgerTyped, Last, Grows
<1>2. Answered(i) /\ i \in 1 .. Last
  BY <1>1, QuietAnswers, AnsweredIsPosted
<1>3. channel'[i] = channel[i] /\ channel[i].reel \in Reels
  BY <1>2, ReelOf DEF Grows, Typed
<1>4. Rests(channel[i].reel) \/ channel[i].reel \in excused
  BY <1>2, <1>3 DEF LedgerKeeps
<1> QED BY <1>3, <1>4 DEF Rests, Quiet, Grows

\* And any step keeps that of the pinned copy.
LEMMA PinnedKeeps ==
  ASSUME Typed, LedgerKeeps, PinKeeps, Grows
  PROVE  PinKeeps'
<1> SUFFICES ASSUME NEW i \in 1 .. pinned'.high, channel'[i].kind = "video"
             PROVE  \/ pinned'.item[channel'[i].reel].state = "uploaded"
                    \/ channel'[i].reel \in excused'
  BY DEF PinKeeps
<1>1. Last \in Nat /\ high \in Nat /\ high <= Last /\ pinned.high \in Nat /\ pinned.high <= Last
  BY LedgerAssumption DEF Typed, LedgerTyped, Last, Ids
<1>2. CASE pinned' = pinned
  BY <1>1, <1>2 DEF PinKeeps, Grows
<1>3. CASE pinned'.item = item /\ pinned'.high = high
  <2>1. i \in 1 .. Last /\ Answered(i)
    BY <1>1, <1>3 DEF Answered
  <2>2. channel'[i] = channel[i]
    BY <2>1 DEF Grows
  <2> QED BY <1>3, <2>1, <2>2 DEF LedgerKeeps, Rests, Grows
<1> QED BY <1>2, <1>3 DEF Grows

\* And that of a copy: it is the pinned one, or none.
LEMMA CopiedKeeps ==
  ASSUME Typed, CopyTyped, PinKeeps, CopyKeeps, Grows, Copies
  PROVE  CopyTyped' /\ CopyKeeps'
<1>1. /\ Last \in Nat /\ Last' \in Nat /\ Last <= Last' /\ pinned.high \in Ids /\ pinned.high <= Last
      /\ pinned.item \in [Reels -> Row] /\ 0 \in Ids /\ Ids \subseteq Nat
  BY LedgerAssumption DEF Typed, LedgerTyped, Last, Ids, Grows
<1>2. /\ copy'.pc \in {"off", "get", "swap"}
      /\ \/ copy'.item = copy.item /\ copy'.high = copy.high
         \/ copy'.item = pinned.item /\ copy'.high = pinned.high
         \/ copy'.item = NewLedger /\ copy'.high = 0
      /\ copy' = [pc |-> copy'.pc, item |-> copy'.item, high |-> copy'.high]
  BY DEF Copies, CopyTyped, NoCopy
<1>3. NewLedger \in [Reels -> Row]
  BY RowFacts DEF NewLedger
<1>4. CopyTyped'
  <2>1. copy'.item \in [Reels -> Row] /\ copy'.high \in Ids /\ copy'.high <= Last'
    BY <1>1, <1>2, <1>3 DEF CopyTyped
  <2>2. dropped' \subseteq Reels
    BY DEF Copies, CopyTyped
  <2> QED BY <1>2, <2>1, <2>2 DEF CopyTyped
<1>5. CopyKeeps'
  <2> SUFFICES ASSUME NEW i \in 1 .. copy'.high, channel'[i].kind = "video"
               PROVE  \/ copy'.item[channel'[i].reel].state = "uploaded"
                      \/ channel'[i].reel \in excused'
    BY DEF CopyKeeps
  <2>1. copy.high \in Nat /\ copy.high <= Last /\ pinned.high \in Nat
    BY <1>1 DEF CopyTyped
  <2>2. CASE copy'.item = copy.item /\ copy'.high = copy.high
    <3>1. i \in 1 .. copy.high /\ channel'[i] = channel[i]
      BY <1>1, <2>1, <2>2 DEF Grows
    <3> QED BY <2>2, <3>1 DEF CopyKeeps, Grows
  <2>3. CASE copy'.item = pinned.item /\ copy'.high = pinned.high
    <3>1. i \in 1 .. pinned.high /\ channel'[i] = channel[i]
      BY <1>1, <2>1, <2>3 DEF Grows
    <3> QED BY <2>3, <3>1 DEF PinKeeps, Grows
  <2> QED BY <1>2, <2>2, <2>3
<1> QED BY <1>4, <1>5

-----------------------------------------------------------------------------
(* The steps *)

\* In every step the channel grows and the pinned copy is of its moment.
LEMMA StepGrows ==
  ASSUME Typed, CaptureNext
  PROVE  Grows
<1>0. LedgerTyped /\ Last \in Nat
  BY DEF Typed, LedgerTyped, Last
<1> DEFINE Still == UNCHANGED <<channel, pinned>> /\ excused \subseteq excused'
<1>1. Still => Grows
  BY <1>0 DEF Grows, Last
<1>2. ASSUME NEW n \in 0 .. 2, NEW k \in Reels, NEW kind \in {"video", "manifest"}, Room(n),
             Appended(n, kind, k),
             UNCHANGED <<pinned, excused>>
      PROVE  Grows
  <2>1. Last' = Last + n /\ \A i \in 1 .. Last : channel'[i] = channel[i]
    BY <1>0, <1>2, PostFacts
  <2>2. Last <= Last'
    BY <1>0, <2>1
  <2> QED BY <1>2, <2>1, <2>2 DEF Grows
<1>3. ASSUME UNCHANGED <<channel, excused>>,
             \/ \E force, pins \in BOOLEAN : Snapshot(force, pins)
             \/ pinned' = pinned
      PROVE  Grows
  BY <1>0, <1>3 DEF Grows, Snapshot, Last
<1>4. CASE EngineSteps
  <2>1. CASE \/ Repair \/ Seeded \/ Top \/ ClaimNext \/ SendRecord \/ UploadFails \/ Mark
             \/ RecordAssets \/ Broken
    BY <1>1, <2>1 DEF Repair, Seeded, Top, ClaimNext, SendRecord, UploadFails, Mark, RecordAssets, Broken
  <2>2. CASE SendVideo(1, FALSE)
    <3>1. /\ 1 \in 0 .. 2 /\ "video" \in {"video", "manifest"} /\ Room(1) /\ UNCHANGED <<pinned, excused>>
          /\ \E k \in eng.reel : Appended(1, "video", k)
      BY <2>2 DEF SendVideo, Appended, Message
    <3>2. eng.reel \subseteq Reels
      BY DEF Typed, EngTyped
    <3> QED BY <1>2, <3>1, <3>2
  <2>3. ASSUME NEW pins \in BOOLEAN, NothingDue(pins) \/ After(pins) PROVE Grows
    BY <1>3, <2>3 DEF NothingDue, After
  <2>4. ASSUME NEW sent \in BOOLEAN, Assets(sent) PROVE Grows
    <3>1. CASE ~sent
      BY <1>1, <2>4, <3>1 DEF Assets
    <3>2. CASE sent
      <4>1. eng.pc = "marked" /\ Room(1) /\ UNCHANGED <<pinned, excused>>
            /\ \E k \in eng.reel : Appended(1, "manifest", k)
        BY <2>4, <3>2, Senders DEF Assets, At
      <4>2. 1 \in 0 .. 2 /\ "manifest" \in {"video", "manifest"} /\ eng.reel \subseteq Reels
        BY DEF Typed, EngTyped
      <4> QED BY <1>2, <4>1, <4>2
    <3> QED BY <3>1, <3>2
  <2> QED BY <1>4, <2>1, <2>2, <2>3, <2>4 DEF EngineSteps
<1>5. CASE ScanSteps
  <2>1. ASSUME NEW s \in Scanners, ScanRead(s) \/ ScanFails(s) PROVE Still
    BY <2>1 DEF ScanRead, ScanFails
  <2>2. ASSUME NEW s \in Scanners, ScanAdopt(s) PROVE Still
    BY <2>2, Zenon DEF ScanAdopt
  <2>3. ASSUME NEW s \in Scanners, ScanMark(s) PROVE Still
    BY <2>3 DEF ScanMark
  <2> HIDE DEF Still
  <2> QED BY <1>1, <1>5, <2>1, <2>2, <2>3, Zenon DEF ScanSteps
<1>6. CASE FillSteps
  <2>1. CASE FillStart \/ FillMark
    BY <1>1, <2>1 DEF FillStart, FillMark
  <2>2. ASSUME NEW sent \in BOOLEAN, FillBuild(sent) PROVE Grows
    <3>1. CASE ~sent
      BY <1>1, <2>2, <3>1 DEF FillBuild
    <3>2. CASE sent
      <4>1. Room(1) /\ UNCHANGED <<pinned, excused>> /\ \E k \in fill.reel : Appended(1, "manifest", k)
        BY <2>2, <3>2, Senders DEF FillBuild
      <4>2. 1 \in 0 .. 2 /\ "manifest" \in {"video", "manifest"} /\ fill.reel \subseteq Reels
        BY DEF Typed, FillTyped
      <4> QED BY <1>2, <4>1, <4>2
    <3> QED BY <3>1, <3>2
  <2> QED BY <1>6, <2>1, <2>2 DEF FillSteps
<1>7. CASE Operator
  <2>1. CASE \/ \E file \in Files : Import(file)
             \/ \E k \in Reels : PasteCaptured(k)
             \/ Pause \/ Stop \/ Rescan \/ RestoreAsk \/ SideScan \/ FillStop
    BY <1>1, <2>1 DEF Import, PasteCaptured, Pause, Stop, Rescan, RestoreAsk, SideScan, FillStop
  <2>2. ASSUME NEW pins \in BOOLEAN, SnapshotNow(pins) PROVE Grows
    BY <1>3, <2>2 DEF SnapshotNow
  <2> QED BY <1>7, <2>1, <2>2 DEF Operator
<1>8. CASE Setbacks
  <2>1. CASE FetchFails \/ JournalFails \/ \E wiped \in BOOLEAN : Die(wiped)
    BY <1>1, <2>1 DEF FetchFails, JournalFails, Die
  <2>2. ASSUME NEW copies \in 0 .. 2, NEW fails \in BOOLEAN, SendVideo(copies, fails) PROVE Grows
    <3>1. /\ "video" \in {"video", "manifest"} /\ Room(copies) /\ UNCHANGED <<pinned, excused>>
          /\ \E k \in eng.reel : Appended(copies, "video", k)
      BY <2>2 DEF SendVideo, Appended, Message
    <3>2. eng.reel \subseteq Reels
      BY DEF Typed, EngTyped
    <3> QED BY <1>2, <3>1, <3>2
  <2>3. 2 \in 0 .. 2
    OBVIOUS
  <2> QED BY <1>8, <2>1, <2>2, <2>3 DEF Setbacks
<1>9. CASE Start \/ Resume \/ HalfHourPasses \/ \E k \in Reels : CoolsOff(k)
  BY <1>1, <1>9 DEF Start, Resume, HalfHourPasses, CoolsOff
<1>10. CASE RestoreSteps
  BY <1>1, <1>10 DEF RestoreSteps, RestoreGet, RestoreSwap
<1> QED BY <1>4, <1>5, <1>6, <1>7, <1>8, <1>9, <1>10 DEF CaptureNext

\* The steps that may disturb what is answered for.
Stirs == RestoreSwap \/ (\E s \in Scanners : ScanAdopt(s) \/ ScanMark(s)) \/ \E wiped \in BOOLEAN : Die(wiped)

\* No other step does.
LEMMA StepQuiet ==
  ASSUME Typed, CaptureNext, ~Stirs
  PROVE  Quiet
<1>0. /\ LedgerTyped /\ EngTyped /\ ScanTyped /\ item \in [Reels -> Row]
      /\ eng.reel \subseteq Reels
  BY DEF Typed, LedgerTyped, EngTyped
<1> DEFINE Rows == \A k \in Reels : item[k].state = "uploaded" /\ k \notin eng.reel =>
                                   item'[k].state = "uploaded" /\ k \notin eng'.reel
           Marks == /\ high' \in {0, high} /\ scan' = scan
                    /\ \A s \in Scanners : s \in closed => s \in closed' \/ scan[s].pc = "off"
<1>1. Rows /\ Marks => Quiet
  BY DEF Quiet
<1>2. ASSUME eng.pc \in HandPcs, eng'.reel \subseteq eng.reel,
             \/ item' = item
             \/ \E hostile \in BOOLEAN : Fails(hostile)
             \/ \A k \in eng.reel : MarkUnavailable(k)
             \/ \A k \in eng.reel : MarkUploaded(k, eng.sent)
             \/ \A k \in eng.reel : MarkAssets(k, eng.sent)
      PROVE  Rows
  <2>1. \A k \in Reels : k \notin eng.reel => item'[k] = item[k]
    BY <1>2, HandFacts
  <2> QED BY <1>2, <2>1
<1>3. ASSUME item' = item, eng'.reel \subseteq eng.reel PROVE Rows
  BY <1>3
<1>4. ASSUME item' \in [Reels -> Row], eng' = eng,
             \A k \in Reels : item[k].state = "uploaded" => item'[k].state = "uploaded"
      PROVE  Rows
  BY <1>4
<1>5. CASE EngineSteps
  <2>1. CASE Seeded \/ Top \/ SendRecord \/ Broken
    <3>1. Marks /\ item' = item
      BY <2>1 DEF Seeded, Top, SendRecord, Broken, ledgerVars
    <3>2. eng'.reel \subseteq eng.reel
      BY <1>0, <2>1 DEF Seeded, Top, SendRecord, Broken, Goto, Ends, EngTyped
    <3> QED BY <1>1, <1>3, <3>1, <3>2
  <2>2. CASE Repair
    <3>1. Rows
      <4>1. eng'.reel = eng.reel
        BY <1>0, <2>2 DEF Repair, Goto, EngTyped
      <4>2. \A k \in Reels : item[k].state = "uploaded" => item'[k] = item[k]
        BY <1>0, <2>2 DEF Repair, RepairStale
      <4> QED BY <4>1, <4>2
    <3>2. /\ high' = high /\ closed' = closed
          /\ scan' = scan \/ scan' = [scan EXCEPT !["engine"] =
                                        [pc |-> "read", from |-> high, head |-> Last, upto |-> 0]]
      BY <2>2 DEF Repair, ScanBegin
    <3> HIDE DEF Rows
    <3>3. \A s \in Scanners : scan'[s] = scan[s] \/ (scan'[s].pc = "read" /\ scan'[s].from = high)
      BY <1>0, <3>2 DEF ScanTyped
    <3> QED BY <3>1, <3>2, <3>3 DEF Quiet, Rows
  <2>3. CASE ClaimNext
    <3>1. PICK k \in Reels : Claim(k) /\ eng' = [eng EXCEPT !.pc = "fetch", !.reel = {k}]
      BY <2>3 DEF ClaimNext
    <3>2. item[k].state # "uploaded" /\ \A j \in Reels : j # k => item'[j] = item[j]
      BY <1>0, <3>1 DEF Claim, Claimable, Waiting, Update
    <3>3. eng'.reel = {k}
      BY <1>0, <3>1 DEF EngTyped
    <3>4. Rows
      BY <3>2, <3>3
    <3>5. Marks
      BY <2>3 DEF ClaimNext
    <3> QED BY <1>1, <3>4, <3>5
  <2>4. ASSUME NEW pins \in BOOLEAN, NothingDue(pins) \/ After(pins) PROVE Quiet
    <3>1. Marks /\ item' = item
      BY <2>4 DEF NothingDue, After, ledgerVars
    <3>2. eng'.reel \subseteq eng.reel
      BY <1>0, <2>4 DEF NothingDue, After, Goto, Ends, EngTyped
    <3> QED BY <1>1, <1>3, <3>1, <3>2
  <2>5. CASE SendVideo(1, FALSE)
    <3>1. Marks /\ item' = item /\ eng'.reel = eng.reel
      BY <1>0, <2>5 DEF SendVideo, ledgerVars, EngTyped
    <3> QED BY <1>1, <1>3, <3>1
  <2>6. CASE UploadFails \/ Mark \/ RecordAssets
    <3>1. Marks /\ eng.pc \in HandPcs
      BY <2>6 DEF UploadFails, Mark, RecordAssets, At, HandPcs
    <3>2. eng'.reel \subseteq eng.reel
      BY <1>0, <2>6 DEF UploadFails, Mark, RecordAssets, Fails, Goto, Captured, EngTyped
    <3>3. \/ Fails(FALSE)
          \/ \A k \in eng.reel : MarkUploaded(k, eng.sent)
          \/ \A k \in eng.reel : MarkAssets(k, eng.sent)
      BY <2>6 DEF UploadFails, Mark, RecordAssets
    <3>4. Rows
      <4> HIDE DEF Rows
      <4> QED BY <1>2, <3>1, <3>2, <3>3
    <3> QED BY <1>1, <3>1, <3>4
  <2>7. ASSUME NEW sent \in BOOLEAN, Assets(sent) PROVE Quiet
    <3>1. Marks /\ item' = item
      BY <2>7 DEF Assets, ledgerVars
    <3>2. Captured \/ eng' = [eng EXCEPT !.pc = "assets", !.sent = Last + 1]
      BY <2>7 DEF Assets
    <3>3. eng'.reel \subseteq eng.reel
      BY <1>0, <3>2 DEF Captured, EngTyped
    <3> QED BY <1>1, <1>3, <3>1, <3>3
  <2> HIDE DEF Rows, Marks
  <2> QED BY <1>5, <2>1, <2>2, <2>3, <2>4, <2>5, <2>6, <2>7 DEF EngineSteps
<1>6. CASE ScanSteps
  <2>1. PICK s \in Scanners : ScanRead(s) \/ ScanFails(s)
    BY <1>6 DEF ScanSteps, Stirs
  <2>2. item' = item /\ high' = high /\ closed' = closed /\ eng' = eng
    BY <2>1 DEF ScanRead, ScanFails, ledgerVars
  <2>3. \/ scan' = [scan EXCEPT ![s] = NoScan]
        \/ scan[s].pc = "read" /\ \E u : scan' = [scan EXCEPT ![s].pc = "adopt", ![s].upto = u]
    BY <2>1 DEF ScanRead, ScanFails
  <2>4. \/ scan'[s].pc = "off"
        \/ scan[s].pc = "read" /\ scan'[s].pc = "adopt" /\ scan'[s].from = scan[s].from
    BY <1>0, <2>3 DEF ScanTyped, NoScan
  <2>5. \A t \in Scanners : t # s => scan'[t] = scan[t]
    BY <1>0, <2>3 DEF ScanTyped
  <2> QED BY <2>2, <2>4, <2>5 DEF Quiet
<1>7. CASE FillSteps
  <2>1. CASE FillStart \/ \E sent \in BOOLEAN : FillBuild(sent)
    <3>1. item' = item /\ eng' = eng
      BY <2>1 DEF FillStart, FillBuild, ledgerVars
    <3>2. Marks
      BY <2>1 DEF FillStart, FillBuild, ledgerVars, Scanners
    <3> QED BY <1>1, <1>3, <3>1, <3>2
  <2>2. CASE FillMark
    <3>1. PICK k \in Reels : fill.reel = {k}
      BY <2>2 DEF FillMark, Typed, FillTyped
    <3>2. item' = item \/ MarkAssets(k, fill.sent)
      BY <2>2, <3>1 DEF FillMark
    <3>3. \A j \in Reels : item'[j].state = item[j].state
      BY <1>0, <3>2 DEF MarkAssets, Update, Row
    <3>4. Rows /\ Marks
      BY <2>2, <3>3 DEF FillMark
    <3> QED BY <1>1, <3>4
  <2> QED BY <1>7, <2>1, <2>2 DEF FillSteps
<1>8. CASE Operator
  <2>1. ASSUME NEW file \in Files, Import(file) PROVE Quiet
    <3>1. \A k \in Reels : item[k].state = "uploaded" => item'[k] = item[k]
      BY <1>0, <2>1, ImportFacts DEF Import
    <3>2. Rows /\ Marks
      BY <2>1, <3>1 DEF Import
    <3> QED BY <1>1, <3>2
  <2>2. ASSUME NEW k \in Reels, PasteCaptured(k) PROVE Quiet
    <3> DEFINE found == {[reel |-> k, msg |-> 0, manifest |-> 0]}
    <3>0. 0 \in Ids
      BY RowFacts
    <3>1. AdoptAll(found)
      BY <2>2, Zenon DEF PasteCaptured, SeedFromUrls
    <3>2. \A f \in found : f.reel \in Reels /\ f.msg \in Ids /\ f.manifest \in Ids
      BY <3>0
    <3> HIDE DEF found
    <3>3. \A j \in Reels : item[j].state = "uploaded" => item'[j].state = "uploaded"
      BY <1>0, <3>1, <3>2, AdoptFacts
    <3>4. Rows /\ Marks
      BY <2>2, <3>3 DEF PasteCaptured
    <3> QED BY <1>1, <3>4
  <2>3. CASE Pause \/ Stop \/ Rescan \/ RestoreAsk \/ FillStop
    <3>1. item' = item /\ Marks
      BY <2>3 DEF Pause, Stop, Rescan, RestoreAsk, FillStop, ledgerVars
    <3>2. eng'.reel = eng.reel
      BY <1>0, <2>3 DEF Pause, Stop, Rescan, RestoreAsk, FillStop, EngTyped
    <3> QED BY <1>1, <1>3, <3>1, <3>2
  <2>4. CASE SideScan
    <3>1. item' = item /\ high' = high /\ eng' = eng /\ closed' = closed \ {"side"}
          /\ scan' = [scan EXCEPT !["side"] = [pc |-> "read", from |-> high, head |-> Last, upto |-> 0]]
      BY <2>4 DEF SideScan, ScanBegin, ledgerVars
    <3>2. \A s \in Scanners : \/ scan'[s].pc = "read" /\ scan'[s].from = high
                              \/ scan'[s] = scan[s] /\ s # "side"
      BY <1>0, <3>1 DEF ScanTyped
    <3> QED BY <3>1, <3>2 DEF Quiet
  <2>5. ASSUME NEW pins \in BOOLEAN, SnapshotNow(pins) PROVE Quiet
    <3>1. item' = item /\ Marks
      BY <2>5 DEF SnapshotNow, ledgerVars
    <3>2. eng'.reel = eng.reel
      BY <1>0, <2>5 DEF SnapshotNow, EngTyped
    <3> QED BY <1>1, <1>3, <3>1, <3>2
  <2> HIDE DEF Rows, Marks
  <2> QED BY <1>8, <2>1, <2>2, <2>3, <2>4, <2>5 DEF Operator, Stirs
<1>9. CASE Setbacks
  <2>1. CASE FetchFails \/ JournalFails
    <3>1. Marks /\ eng.pc \in HandPcs
      BY <2>1 DEF FetchFails, JournalFails, At, HandPcs
    <3>2. \/ \E hostile \in BOOLEAN : Fails(hostile)
          \/ /\ \A k \in eng.reel : MarkUnavailable(k)
             /\ eng' = [eng EXCEPT !.pc = "after", !.reel = {}]
      BY <2>1 DEF FetchFails, JournalFails
    <3>3. eng'.reel \subseteq eng.reel
      BY <1>0, <3>2 DEF Fails, EngTyped
    <3>4. Rows
      <4> HIDE DEF Rows
      <4> QED BY <1>2, <3>1, <3>2, <3>3
    <3> QED BY <1>1, <3>1, <3>4
  <2>2. ASSUME NEW copies \in 0 .. 2, NEW fails \in BOOLEAN, SendVideo(copies, fails) PROVE Quiet
    <3>1. Marks /\ item' = item /\ eng'.reel = eng.reel
      BY <1>0, <2>2 DEF SendVideo, ledgerVars, EngTyped
    <3> QED BY <1>1, <1>3, <3>1
  <2>3. 2 \in 0 .. 2
    OBVIOUS
  <2> HIDE DEF Rows, Marks
  <2> QED BY <1>9, <2>1, <2>2, <2>3 DEF Setbacks, Stirs
<1>10. CASE Start \/ Resume
  <2>1. item' = item /\ eng'.reel \subseteq eng.reel
    BY <1>0, <1>10 DEF Start, Resume, NoEngine, EngTyped, ledgerVars
  <2>2. Start => scan["engine"].pc = "off"
    BY <1>0 DEF Start, Alive, At, ScanTyped
  <2>3. Marks
    BY <1>10, <2>2 DEF Start, Resume, ledgerVars
  <2> QED BY <1>1, <1>3, <2>1, <2>3
<1>11. CASE HalfHourPasses \/ \E k \in Reels : CoolsOff(k)
  <2>1. \A k \in Reels : item'[k].state = item[k].state
    BY <1>0, <1>11 DEF HalfHourPasses, HalfHour, CoolsOff, Cooled, Row
  <2>2. Rows /\ Marks
    BY <1>11, <2>1 DEF HalfHourPasses, CoolsOff
  <2> QED BY <1>1, <2>2
<1>12. CASE RestoreSteps
  <2>1. item' = item /\ Marks /\ eng'.reel = eng.reel
    BY <1>12 DEF RestoreSteps, RestoreGet, ledgerVars, Stirs
  <2> QED BY <1>1, <1>3, <2>1
<1> HIDE DEF Rows, Marks
<1> QED BY <1>5, <1>6, <1>7, <1>8, <1>9, <1>10, <1>11, <1>12 DEF CaptureNext

\* A scan records what it has read before it answers for it; the reel the engine
\* has in hand is excused.
LEMMA AdoptKeeps ==
  ASSUME Typed, LedgerKeeps, Grows, NEW s \in Scanners, ScanAdopt(s)
  PROVE  LedgerKeeps'
<1> DEFINE found == Found(scan[s].from, scan[s].upto)
<1>0. /\ LedgerTyped /\ ScanTyped /\ scan[s].from \in Ids /\ scan[s].upto \in Ids
      /\ scan[s].pc = "adopt" /\ s \notin closed
  BY DEF Typed, ScanTyped, ScanAdopt, Open
<1>1. /\ \A f \in found : f.reel \in Reels /\ f.msg \in Ids /\ f.manifest \in Ids
      /\ \A i \in scan[s].from + 1 .. scan[s].upto :
           i \in 1 .. Last /\ channel[i].kind = "video" => \E f \in found : f.reel = channel[i].reel
  BY <1>0, FoundFacts
<1>2. AdoptAll(found) /\ excused' = excused \cup {k \in InFlight : \E f \in found : f.reel = k}
  BY DEF ScanAdopt
<1>3. UNCHANGED <<high, channel, eng, closed>> /\ scan' = [scan EXCEPT ![s].pc = "mark"]
  BY DEF ScanAdopt
<1> HIDE DEF found
<1>4. /\ \A f \in found : item'[f.reel].state = "uploaded"
      /\ \A k \in Reels : item[k].state = "uploaded" => item'[k].state = "uploaded"
  BY <1>0, <1>1, <1>2, AdoptFacts
<1> SUFFICES ASSUME NEW i \in 1 .. Last', channel'[i].kind = "video", Answered(i)'
             PROVE  \/ item'[channel'[i].reel].state = "uploaded" /\ channel'[i].reel \notin eng'.reel
                    \/ channel'[i].reel \in excused'
  BY DEF LedgerKeeps, Rests
<1>5. i \in 1 .. Last /\ channel[i].kind = "video" /\ channel[i].reel \in Reels
  BY <1>0, <1>3, ReelOf DEF Last
<1>6. /\ scan'[s].pc = "mark" /\ scan'[s].upto = scan[s].upto
      /\ \A t \in Scanners : t # s => scan'[t] = scan[t]
  BY <1>0, <1>3 DEF ScanTyped
<1>7. CASE Answered(i)
  <2>1. Rests(channel[i].reel) \/ channel[i].reel \in excused
    BY <1>5, <1>7 DEF LedgerKeeps
  <2> QED BY <1>2, <1>3, <1>4, <1>5, <2>1 DEF Rests
<1>8. CASE ~Answered(i)
  <2>1. i <= scan[s].upto /\ ~(i <= scan[s].from)
    BY <1>0, <1>3, <1>6, <1>8 DEF Answered, AnsweredBy
  <2>2. scan[s].from \in Nat /\ scan[s].upto \in Nat /\ i \in Nat
    BY <1>0, LedgerAssumption DEF Ids
  <2>3. i \in scan[s].from + 1 .. scan[s].upto
    BY <2>1, <2>2
  <2>4. PICK f \in found : f.reel = channel[i].reel
    BY <1>1, <1>5, <2>3
  <2>5. item'[channel[i].reel].state = "uploaded"
    BY <1>4, <2>4
  <2>6. channel[i].reel \in eng.reel => channel[i].reel \in excused'
    BY <1>2, <2>4 DEF InFlight
  <2> QED BY <1>3, <2>5, <2>6
<1> QED BY <1>7, <1>8

\* The mark moves to what the scan has recorded, or past what it never read.
LEMMA MarkKeeps ==
  ASSUME Typed, LedgerKeeps, Grows, NEW s \in Scanners, ScanMark(s)
  PROVE  LedgerKeeps'
<1>0. /\ LedgerTyped /\ ScanTyped /\ scan[s].head \in Nat /\ scan[s].upto \in Nat
      /\ scan[s].pc = "mark" /\ s \notin closed /\ high \in Nat
  BY LedgerAssumption DEF Typed, LedgerTyped, ScanTyped, ScanMark, Open, Ids
<1>1. /\ UNCHANGED <<item, channel, eng, closed>> /\ scan' = [scan EXCEPT ![s] = NoScan]
      /\ high' = IF Halted(s) THEN high ELSE scan[s].head
      /\ excused' = IF Halted(s) THEN excused
                    ELSE excused \cup {channel[i].reel : i \in scan[s].upto + 1 .. scan[s].head}
  BY DEF ScanMark, MarkTo
<1> SUFFICES ASSUME NEW i \in 1 .. Last', channel'[i].kind = "video", Answered(i)'
             PROVE  \/ item'[channel'[i].reel].state = "uploaded" /\ channel'[i].reel \notin eng'.reel
                    \/ channel'[i].reel \in excused'
  BY DEF LedgerKeeps, Rests
<1>2. i \in 1 .. Last /\ channel[i].kind = "video" /\ channel[i].reel \in Reels
  BY <1>0, <1>1, ReelOf DEF Last
<1>3. /\ scan'[s].pc = "off"
      /\ \A t \in Scanners : t # s => scan'[t] = scan[t]
  BY <1>0, <1>1 DEF ScanTyped, NoScan
<1>4. CASE Answered(i)
  <2>1. Rests(channel[i].reel) \/ channel[i].reel \in excused
    BY <1>2, <1>4 DEF LedgerKeeps
  <2> QED BY <1>1, <2>1 DEF Rests, Grows
<1>5. CASE ~Answered(i)
  <2>1. ~Halted(s) /\ i <= scan[s].head /\ ~(i <= scan[s].upto)
    BY <1>0, <1>1, <1>3, <1>5 DEF Answered, AnsweredBy
  <2>2. i \in scan[s].upto + 1 .. scan[s].head
    BY <1>0, <2>1
  <2> QED BY <1>1, <2>1, <2>2
<1> QED BY <1>4, <1>5

\* A restore brings back a ledger with its own mark, and every scan under way has
\* lost its handle; the reel a stopping run has in hand is excused.
LEMMA RestoreKeeps ==
  ASSUME Typed, CopyTyped, CopyKeeps, RestoreSwap
  PROVE  LedgerKeeps'
<1>0. ScanTyped /\ LedgerTyped
  BY DEF Typed
<1>1. /\ item' = copy.item /\ high' = copy.high /\ UNCHANGED <<channel, eng, scan>>
      /\ excused' = excused \cup {k \in eng.reel : copy.item[k].state = "uploaded"}
  BY DEF RestoreSwap, InFlight
<1>2. \A s \in Scanners : scan[s].pc # "off" => s \in closed'
  BY <1>0 DEF RestoreSwap, Scanners, Threads, Alive, At, ScanTyped
<1> SUFFICES ASSUME NEW i \in 1 .. Last', channel'[i].kind = "video", Answered(i)'
             PROVE  \/ item'[channel'[i].reel].state = "uploaded" /\ channel'[i].reel \notin eng'.reel
                    \/ channel'[i].reel \in excused'
  BY DEF LedgerKeeps, Rests
<1>3. i <= copy.high
  BY <1>1, <1>2 DEF Answered, AnsweredBy
<1>4. i \in 1 .. copy.high
  BY <1>0, <1>3, LedgerAssumption DEF CopyTyped, Ids
<1>5. copy.item[channel[i].reel].state = "uploaded" \/ channel[i].reel \in excused
  BY <1>1, <1>4 DEF CopyKeeps
<1> QED BY <1>1, <1>5

\* After a death nobody answers for anything but the mark, and a machine that is
\* wiped has none.
LEMMA DeathKeeps ==
  ASSUME Typed, LedgerKeeps, NEW wiped \in BOOLEAN, Die(wiped)
  PROVE  LedgerKeeps'
<1>1. /\ channel' = channel /\ excused' = excused /\ eng'.reel = {}
      /\ \A s \in Scanners : scan'[s].pc = "off"
      /\ high' = 0 \/ UNCHANGED <<item, high>>
  BY DEF Die, NoEngine, NoScan, ledgerVars
<1> SUFFICES ASSUME NEW i \in 1 .. Last', channel'[i].kind = "video", Answered(i)'
             PROVE  \/ item'[channel'[i].reel].state = "uploaded" /\ channel'[i].reel \notin eng'.reel
                    \/ channel'[i].reel \in excused'
  BY DEF LedgerKeeps, Rests
<1>2. i <= high' /\ i \in 1 .. Last
  BY <1>1 DEF Answered, AnsweredBy, Last
<1>3. UNCHANGED <<item, high>> /\ i <= high
  BY <1>1, <1>2
<1>4. Rests(channel[i].reel) \/ channel[i].reel \in excused
  BY <1>1, <1>2, <1>3 DEF LedgerKeeps, Answered
<1> QED BY <1>1, <1>3, <1>4 DEF Rests

-----------------------------------------------------------------------------
(* The theorems *)

\* The invariant holds at first, and every step keeps it.
LEMMA InitIInv ==
  ASSUME CaptureInit
  PROVE  IInv
<1>1. /\ 0 \in Ids /\ Absent \in Row /\ MaxTroubles \in Nat /\ SessionTries \in Nat
      /\ MaxMessages \in Nat
  BY RowFacts, LedgerAssumption, CaptureAssumption
<1>2. Last = 0 /\ channel = <<>> /\ NewLedger \in [Reels -> Row]
  BY <1>1 DEF CaptureInit, Last, NewLedger
<1>3. LedgerTyped
  BY <1>1, <1>2 DEF CaptureInit, LedgerTyped, NoPin
<1>4. EngTyped
  BY <1>1 DEF CaptureInit, NoEngine, EngTyped, HandPcs, IdlePcs
<1>5. ScanTyped
  BY <1>1, <1>2 DEF CaptureInit, NoScan, ScanTyped, Scanners
<1>6. FillTyped
  BY <1>1 DEF CaptureInit, NoFill, FillTyped
<1>7. LedgerKeeps /\ PinKeeps /\ CopyKeeps
  BY <1>2 DEF LedgerKeeps, PinKeeps, CopyKeeps, CaptureInit, NoPin, NoCopy
<1>8. CopyTyped
  BY <1>1, <1>2 DEF CopyTyped, CaptureInit, NoCopy
<1> QED BY <1>3, <1>4, <1>5, <1>6, <1>7, <1>8 DEF IInv, Typed

LEMMA NextIInv ==
  ASSUME IInv, [CaptureNext]_captureVars
  PROVE  IInv'
<1>0. Typed /\ CopyTyped /\ LedgerKeeps /\ PinKeeps /\ CopyKeeps
  BY DEF IInv
<1>1. Typed'
  BY <1>0, NextTyped
<1>2. CASE UNCHANGED captureVars
  BY <1>0, <1>1, <1>2 DEF captureVars, IInv, LedgerKeeps, PinKeeps, CopyKeeps, CopyTyped, Answered,
                          AnsweredBy, Rests, Last
<1>3. CASE CaptureNext
  <2>1. Grows
    BY <1>0, <1>3, StepGrows
  <2>2. PinKeeps'
    BY <1>0, <2>1, PinnedKeeps
  <2>5. CopyTyped' /\ CopyKeeps'
    BY <1>0, <1>3, <2>1, StepCopies, CopiedKeeps
  <2>3. CASE ~Stirs
    BY <1>0, <1>1, <1>3, <2>1, <2>2, <2>3, <2>5, StepQuiet, QuietKeeps DEF IInv
  <2>4. CASE Stirs
    BY <1>0, <1>1, <2>1, <2>2, <2>4, <2>5, AdoptKeeps, MarkKeeps, RestoreKeeps, DeathKeeps DEF Stirs, IInv
  <2> QED BY <2>3, <2>4
<1> QED BY <1>2, <1>3

\* The inductive invariant is what the runs check, and more.
LEMMA IInvImplies ==
  ASSUME IInv
  PROVE  CaptureInv
<1>1. Last \in Nat /\ high \in Nat /\ high <= Last /\ pinned.high \in Nat /\ MaxMessages \in Nat
  BY LedgerAssumption DEF IInv, Typed, LedgerTyped, Last, Ids
<1>2. /\ IsFiniteSet({}) /\ Cardinality({}) = 0
      /\ \A k \in Reels : Cardinality({k}) = 1
  BY FS_EmptySet, FS_Singleton
<1>3. Cardinality(eng.reel) <= 1 /\ Cardinality(fill.reel) <= 1
  <2>1. eng.reel = {} \/ \E k \in Reels : eng.reel = {k}
    BY DEF IInv, Typed, EngTyped
  <2>2. fill.reel = {} \/ \E k \in Reels : fill.reel = {k}
    BY DEF IInv, Typed, FillTyped
  <2> QED BY <1>2, <2>1, <2>2
<1>4. CaptureTypeOK
  BY <1>1, <1>3 DEF IInv, CopyTyped, Typed, LedgerTyped, EngTyped, FillTyped, CaptureTypeOK, Ids
<1>5. \A i \in 1 .. high : channel[i].kind = "video" =>
        item[channel[i].reel].state = "uploaded" \/ channel[i].reel \in excused
  BY <1>1 DEF IInv, LedgerKeeps, Answered, Rests
<1>6. \A i \in 1 .. pinned.high : channel[i].kind = "video" =>
        pinned.item[channel[i].reel].state = "uploaded" \/ channel[i].reel \in excused
  BY DEF IInv, PinKeeps
<1>7. \A i \in 1 .. copy.high : channel[i].kind = "video" =>
        copy.item[channel[i].reel].state = "uploaded" \/ channel[i].reel \in excused
  BY DEF IInv, CopyKeeps
<1>8. KnownBelowMark
  BY <1>5, <1>6, <1>7 DEF KnownBelowMark
<1> QED BY <1>4, <1>8 DEF CaptureInv

\* A reel whose video lies at or below the scan mark is recorded as uploaded, in the
\* ledger, in its pinned copy and in what a restore has downloaded, whatever scans, runs, restores and deaths go by;
\* only a reel recorded under the engine's hand, or passed over by a scan that a
\* stop cut short, is not.
THEOREM MarkIsKept == CaptureSpec => []CaptureInv
<1>1. CaptureInit => IInv
  BY InitIInv
<1>2. IInv /\ [CaptureNext]_captureVars => IInv'
  BY NextIInv
<1>3. IInv => CaptureInv
  BY IInvImplies
<1> QED BY <1>1, <1>2, <1>3, PTL DEF CaptureSpec

\* So the engine never sends such a reel again: the one it has in hand is not at
\* rest, and what is answered for rests or is excused.
THEOREM NeverSentTwice == CaptureSpec => NeverTwice
<1> DEFINE Sends == \A k \in Reels :
                      (\E i \in Last + 1 .. Len(channel') : channel'[i] = [kind |-> "video", reel |-> k]) =>
                        Messages("video", k) \cap 1 .. high = {} \/ k \in excused
<1>1. ASSUME IInv, CaptureNext, NEW k \in Reels,
             NEW i \in Last + 1 .. Len(channel'), channel'[i] = [kind |-> "video", reel |-> k]
      PROVE  k \in eng.reel
  <2>0. LedgerTyped /\ EngTyped /\ Last \in Nat /\ eng.reel \subseteq Reels /\ fill.reel \subseteq Reels
    BY <1>1 DEF IInv, Typed, LedgerTyped, EngTyped, FillTyped, Last
  <2>1. channel' # channel
    BY <2>0, <1>1 DEF Last
  <2>2. ASSUME NEW n \in 0 .. 2, NEW j \in Reels, NEW kind \in {"video", "manifest"}, Room(n),
               Appended(n, kind, j)
        PROVE  kind = "video" /\ j = k
    <3>1. channel'[i] = Message(kind, j)
      BY <2>0, <2>2, <1>1, PostFacts DEF Last
    <3>2. Message(kind, j).kind = kind /\ Message(kind, j).reel = j
      BY DEF Message
    <3>3. [kind |-> "video", reel |-> k].kind = "video" /\ [kind |-> "video", reel |-> k].reel = k
      OBVIOUS
    <3> QED BY <1>1, <3>1, <3>2, <3>3
  <2>3. ASSUME NEW n \in 0 .. 2, NEW fails \in BOOLEAN, SendVideo(n, fails) PROVE k \in eng.reel
    <3>1. PICK j \in eng.reel : Appended(n, "video", j)
      BY <2>3 DEF SendVideo, Appended, Message
    <3>2. Room(n) /\ j \in Reels /\ "video" \in {"video", "manifest"}
      BY <2>0, <2>3 DEF SendVideo
    <3>3. j = k
      BY <2>2, <3>1, <3>2
    <3> QED BY <3>3
  <2>4. ASSUME NEW j \in Reels, Room(1), Post("manifest", j) PROVE FALSE
    <3>1. 1 \in 0 .. 2 /\ "manifest" \in {"video", "manifest"} /\ "manifest" # "video"
      OBVIOUS
    <3>2. \A kind \in {"video", "manifest"} : Appended(1, kind, j) => kind = "video"
      BY <2>2, <2>4, <3>1
    <3> QED BY <2>4, <3>1, <3>2, Senders
  <2>5. CASE EngineSteps
    <3>1. SendVideo(1, FALSE) \/ \E sent \in BOOLEAN : Assets(sent)
      BY <2>1, <2>5 DEF EngineSteps, Repair, Seeded, Top, ClaimNext, SendRecord, UploadFails, Mark,
                        RecordAssets, Broken, NothingDue, After
    <3>2. ASSUME NEW sent \in BOOLEAN, Assets(sent) PROVE FALSE
      <4>1. Room(1) /\ \E j \in eng.reel : Post("manifest", j)
        BY <2>1, <3>2 DEF Assets
      <4> QED BY <2>0, <2>4, <4>1
    <3>3. 1 \in 0 .. 2
      OBVIOUS
    <3> QED BY <2>3, <3>1, <3>2, <3>3
  <2>6. ~ScanSteps
    BY <2>1, Zenon DEF ScanSteps, ScanRead, ScanAdopt, ScanMark, ScanFails
  <2>7. CASE FillSteps
    <3>1. PICK sent \in BOOLEAN : FillBuild(sent)
      BY <2>1, <2>7 DEF FillSteps, FillStart, FillMark
    <3>2. Room(1) /\ \E j \in fill.reel : Post("manifest", j)
      BY <2>1, <3>1 DEF FillBuild
    <3> QED BY <2>0, <2>4, <3>2
  <2>8. CASE Setbacks
    <3>1. SendVideo(2, FALSE) \/ \E n \in 0 .. 2 : SendVideo(n, TRUE)
      BY <2>1, <2>8 DEF Setbacks, FetchFails, JournalFails, Die
    <3>2. 2 \in 0 .. 2
      OBVIOUS
    <3> QED BY <2>3, <3>1, <3>2
  <2>9. ~Operator
    BY <2>1 DEF Operator, Import, PasteCaptured, Pause, Stop, Rescan, RestoreAsk, SideScan, FillStop, SnapshotNow
  <2>10. ~Start /\ ~Resume /\ ~HalfHourPasses /\ \A j \in Reels : ~CoolsOff(j)
    BY <2>1 DEF Start, Resume, HalfHourPasses, CoolsOff
  <2>11. ~RestoreSteps
    BY <2>1 DEF RestoreSteps, RestoreGet, RestoreSwap
  <2> QED BY <1>1, <2>5, <2>6, <2>7, <2>8, <2>9, <2>10, <2>11 DEF CaptureNext
<1>2. ASSUME IInv, NEW k \in eng.reel
      PROVE  Messages("video", k) \cap 1 .. high = {} \/ k \in excused
  <2>1. SUFFICES ASSUME NEW i \in Messages("video", k), i \in 1 .. high PROVE k \in excused
    OBVIOUS
  <2>2. i \in 1 .. Last /\ channel[i].kind = "video" /\ channel[i].reel = k
    BY <2>1 DEF Messages
  <2>3. Answered(i)
    BY <2>1 DEF Answered
  <2> QED BY <1>2, <2>2, <2>3 DEF IInv, LedgerKeeps, Rests
<1>3. IInv /\ [CaptureNext]_captureVars => [Sends]_captureVars
  BY <1>1, <1>2
<1>4. CaptureInit => IInv
  BY InitIInv
<1>5. IInv /\ [CaptureNext]_captureVars => IInv'
  BY NextIInv
<1> QED BY <1>3, <1>4, <1>5, PTL DEF CaptureSpec, NeverTwice
=============================================================================
