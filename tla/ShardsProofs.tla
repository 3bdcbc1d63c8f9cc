---------------------------- MODULE ShardsProofs ----------------------------
(***************************************************************************)
(* Proofs about Shards, for any workers, rows, part sizes and faults: what *)
(* a watermark passed is in the channel, what a database has noted it      *)
(* holds, what stage_done names is there, and shards are not behind the    *)
(* bundles - each but for the case it names.                               *)
(*                                                                         *)
(* The argument.  A row is out once it can be read from the channel, or    *)
(* one of its documents shares its shard id with one of other contents     *)
(* (Out); the channel only grows, so it stays out.  A shard all of whose   *)
(* parts are up brings its rows out, whatever went up under its id before  *)
(* (UploadedIsOut), and a watermark moves only then.  The documents of a   *)
(* worker's present database hold rows of that database, and a whole shard *)
(* never changes its meaning: so a shard that is noted is held, by its     *)
(* publisher although it may yet become whole, and by who imported it, but *)
(* for the rows whose replay failed.                                       *)
(***************************************************************************)
EXTENDS Shards, FiniteSetTheorems, SequenceTheorems, WellFoundedInduction, TLAPS

States    == {"queued", "running", "done"}
Databases == [Workers -> [Tables -> Seq(Rows)]]
ShardIds  == [w: Workers, site: Nat, seq: Nat]
Entries   == [sid: ShardIds, skipped: SUBSET Rows]
Messages  == [sid: ShardIds, index: Nat, total: Nat, rows: Seq(Rows)]
Uploads   == [pc: {"send", "note", "refused", "commit"}, sid: ShardIds, parts: Seq(Seq(Rows)), sent: Nat,
              hi: [Tables -> Nat]]
Delta     == [pc |-> "delta"]
Snapshots == [pc: {"send", "record"}, rows: SUBSET Rows, behind: BOOLEAN, sent: Nat]
Filings   == [seq: Nat, done: [seq: Nat, rows: SUBSET Rows], sig: BOOLEAN, pending: BOOLEAN]
BundleDocs == [by: Workers, site: Nat, seq: Nat, index: Nat, total: Nat,
               rows: SUBSET Rows, behind: BOOLEAN]

Typed ==
  /\ work \in [Workers -> States]
  /\ db \in Databases
  /\ mark \in [Workers -> [Tables -> Nat]]
  /\ site \in [Workers -> Nat] /\ seq \in [Workers -> Nat]
  /\ known \in [Workers -> SUBSET Entries]
  /\ pub \in [Workers -> Uploads \cup {Idle}]
  /\ channel \in Seq(Messages)
  /\ stage \in [Workers -> Snapshots \cup {Idle, Delta}]
  /\ filed \in [Workers -> Filings]
  /\ bundles \in SUBSET BundleDocs
  /\ faults \in 0 .. MaxFaults

\* What a restore makes of a channel, with the channel as an argument: so that
\* what is shown of it holds for the channel before a step and after it.

SidsIn(ch) == {ch[i].sid : i \in 1 .. Len(ch)}

FirstIn(ch, sid) == CHOOSE i \in 1 .. Len(ch) :
  ch[i].sid = sid /\ \A j \in 1 .. i - 1 : ch[j].sid # sid

TotalIn(ch, sid) == ch[FirstIn(ch, sid)].total

DocsIn(ch, sid) == {i \in 1 .. Len(ch) : ch[i].sid = sid /\ ch[i].total = TotalIn(ch, sid)}

TakenIn(ch, sid, k) == CHOOSE i \in DocsIn(ch, sid) :
  /\ ch[i].index = k
  /\ \A j \in 1 .. i - 1 : \/ ch[j].sid # sid \/ ch[j].index # k \/ ch[j].total # ch[i].total

WholeIn(ch, sid) ==
  sid \in SidsIn(ch) /\ {ch[i].index : i \in DocsIn(ch, sid)} = 1 .. TotalIn(ch, sid)

RestoredIn(ch, sid) ==
  IF WholeIn(ch, sid)
  THEN UNION {ToSet(ch[TakenIn(ch, sid, k)].rows) : k \in 1 .. TotalIn(ch, sid)} ELSE {}

ReusedIn(ch, s) == \E i, j \in 1 .. Len(ch) :
  /\ ch[i].sid = s /\ ch[j].sid = s
  /\ \/ ch[i].total # ch[j].total
     \/ ch[i].index = ch[j].index /\ ch[i].rows # ch[j].rows

\* A row that can be read, or one of whose documents has a rival.
OutIn(ch, r) ==
  \/ \E s \in SidsIn(ch) : r \in RestoredIn(ch, s)
  \/ \E i \in 1 .. Len(ch) : r \in ToSet(ch[i].rows) /\ ReusedIn(ch, ch[i].sid)

Out(r) == OutIn(channel, r)

\* The first n of these parts are in the channel under this id.
Uploaded(ch, sid, parts, n) ==
  \A k \in 1 .. n : \E i \in 1 .. Len(ch) :
    ch[i] = [sid |-> sid, index |-> k, total |-> Len(parts), rows |-> parts[k]]

InParts(parts) == UNION {ToSet(parts[k]) : k \in 1 .. Len(parts)}

\* A watermark only passes rows that are out.
MarkInv(w) ==
  \A t \in Tables : /\ mark[w][t] <= Len(db[w][t])
                    /\ \A j \in 1 .. mark[w][t] : Out(db[w][t][j])

\* The shard on its way: everything above the watermarks when it was cut.
PubInv(w) ==
  pub[w] # Idle =>
    /\ pub[w].sid = NextSid(w)
    /\ Uploaded(channel, pub[w].sid, pub[w].parts, pub[w].sent)
    /\ pub[w].sent <= Len(pub[w].parts)
    /\ pub[w].pc = "send" => pub[w].sent < Len(pub[w].parts)
    /\ pub[w].pc \in {"note", "commit"} =>
         pub[w].sent = Len(pub[w].parts) /\ Len(pub[w].parts) > 0
    /\ pub[w].pc = "refused" => faults > 0
    /\ InParts(pub[w].parts) \subseteq Held(w)
    /\ \A t \in Tables :
         /\ pub[w].hi[t] <= Len(db[w][t])
         /\ \A j \in 1 .. pub[w].hi[t] : j <= mark[w][t] \/ db[w][t][j] \in InParts(pub[w].parts)

\* The documents a database sent are of its rows, and of no database to come.
ChannelInv ==
  \A i \in 1 .. Len(channel) :
    /\ channel[i].index \in 1 .. channel[i].total
    /\ \A u \in Workers : channel[i].sid.w = u =>
         /\ channel[i].sid.site <= site[u]
         /\ channel[i].sid.site = site[u] => ToSet(channel[i].rows) \subseteq Held(u)

KnownInv(w) ==
  \A k \in known[w] : \/ k.sid.w = w /\ k.sid.site = site[w]
                      \/ /\ WholeIn(channel, k.sid)
                         /\ RestoredIn(channel, k.sid) \ Held(w) \subseteq k.skipped

\* The parts of a stage bundle that are in the channel.
PartsThere(w, n, rows) ==
  {b.index : b \in {b \in bundles : b.by = w /\ b.site = site[w] /\ b.seq = n /\ b.rows = rows}}

StageInv(w) ==
  /\ stage[w] # Idle => work[w] = "done" /\ Held(w) # {}
  /\ stage[w] = Delta => \/ faults > 0
                         \/ \A r \in Held(w) : \/ Out(r)
                                               \/ pub[w] # Idle /\ r \in InParts(pub[w].parts)
  /\ stage[w].pc \in {"send", "record"} =>
       /\ BundleParts(stage[w].rows) \in Nat \ {0}
       /\ 1 .. stage[w].sent \subseteq PartsThere(w, filed[w].seq + 1, stage[w].rows)
       /\ stage[w].sent <= BundleParts(stage[w].rows)
       /\ stage[w].pc = "send" => stage[w].sent < BundleParts(stage[w].rows)
       /\ stage[w].pc = "record" => stage[w].sent = BundleParts(stage[w].rows)
       /\ \/ stage[w].behind /\ faults > 0
          \/ \A r \in stage[w].rows : Out(r)

FiledInv(w) ==
  LET done == filed[w].done IN
  done.seq # 0 => 1 .. BundleParts(done.rows) \subseteq PartsThere(w, done.seq, done.rows)

BundlesFit ==
  \A b \in bundles : /\ b.total = BundleParts(b.rows) /\ b.index \in 1 .. b.total
                     /\ \/ b.behind /\ faults > 0
                        \/ \A r \in b.rows : Out(r)

WorkInv(w) == work[w] # "queued" => Held(w) # {}

OfWorker(w) == MarkInv(w) /\ PubInv(w) /\ KnownInv(w) /\ StageInv(w) /\ FiledInv(w) /\ WorkInv(w)

IInv == Typed /\ ChannelInv /\ BundlesFit /\ \A w \in Workers : OfWorker(w)

-----------------------------------------------------------------------------
(* Sequences of rows                                                        *)

LEMMA HasLeast ==
  ASSUME NEW S \in SUBSET Nat, S # {}
  PROVE  \E m \in S : \A k \in S : m <= k
<1>1. PICK m \in S : \A k \in S : <<k, m>> \notin OpToRel(<, Nat)
  BY NatLessThanWellFounded, WFMin
<1>2. \A k \in S : ~(k < m)
  BY <1>1 DEF OpToRel
<1> QED BY <1>2

LEMMA RowsOf ==
  ASSUME NEW S, NEW s \in Seq(S)
  PROVE  /\ ToSet(s) = {s[i] : i \in 1 .. Len(s)}
         /\ ToSet(s) \subseteq S
         /\ IsFiniteSet(ToSet(s))
<1>1. DOMAIN s = 1 .. Len(s) /\ Len(s) \in Nat /\ \A i \in 1 .. Len(s) : s[i] \in S
  OBVIOUS
<1>2. ToSet(s) = {s[i] : i \in 1 .. Len(s)}
  BY <1>1 DEF ToSet
<1>3. IsFiniteSet(1 .. Len(s))
  BY <1>1, FS_Interval
<1>4. s \in Surjection(1 .. Len(s), ToSet(s))
  BY <1>1, <1>2 DEF Surjection
<1>5. IsFiniteSet(ToSet(s))
  BY <1>3, <1>4, FS_Surjection
<1> QED BY <1>1, <1>2, <1>5

LEMMA RowsOfConcat ==
  ASSUME NEW S, NEW s \in Seq(S), NEW t \in Seq(S)
  PROVE  /\ s \o t \in Seq(S) /\ Len(s \o t) = Len(s) + Len(t)
         /\ \A j \in 1 .. Len(s) : (s \o t)[j] = s[j]
         /\ ToSet(s \o t) = ToSet(s) \cup ToSet(t)
<1> DEFINE u == s \o t
<1>1. /\ u \in Seq(S) /\ Len(u) = Len(s) + Len(t)
      /\ \A j \in 1 .. Len(s) : u[j] = s[j]
      /\ \A j \in 1 .. Len(t) : u[Len(s) + j] = t[j]
      /\ Len(s) \in Nat /\ Len(t) \in Nat
  OBVIOUS
<1> HIDE DEF u
<1>2. /\ ToSet(u) = {u[j] : j \in 1 .. Len(u)}
      /\ ToSet(s) = {s[j] : j \in 1 .. Len(s)}
      /\ ToSet(t) = {t[j] : j \in 1 .. Len(t)}
  BY <1>1, RowsOf
<1>3. \A j \in 1 .. Len(u) : \/ j \in 1 .. Len(s)
                             \/ j - Len(s) \in 1 .. Len(t) /\ Len(s) + (j - Len(s)) = j
  BY <1>1
<1>4. \A j \in 1 .. Len(u) : u[j] \in ToSet(s) \cup ToSet(t)
  <2>1. TAKE j \in 1 .. Len(u)
  <2>2. CASE j \in 1 .. Len(s)
    BY <2>2, <1>1, <1>2
  <2>3. CASE j - Len(s) \in 1 .. Len(t) /\ Len(s) + (j - Len(s)) = j
    <3>1. u[j] = t[j - Len(s)]
      BY <2>3, <1>1
    <3> QED BY <3>1, <2>3, <1>2
  <2> QED BY <2>2, <2>3, <1>3
<1>5. /\ \A j \in 1 .. Len(s) : j \in 1 .. Len(u)
      /\ \A j \in 1 .. Len(t) : Len(s) + j \in 1 .. Len(u)
  BY <1>1
<1>6. \A j \in 1 .. Len(s) : s[j] \in ToSet(u)
  BY <1>1, <1>2, <1>5
<1>7. \A j \in 1 .. Len(t) : t[j] \in ToSet(u)
  BY <1>1, <1>2, <1>5
<1>8. ToSet(u) = ToSet(s) \cup ToSet(t)
  BY <1>2, <1>4, <1>6, <1>7
<1> QED BY <1>1, <1>8 DEF u

LEMMA RowsOfAppend ==
  ASSUME NEW S, NEW s \in Seq(S), NEW x \in S
  PROVE  /\ Append(s, x) \in Seq(S) /\ Len(Append(s, x)) = Len(s) + 1
         /\ \A j \in 1 .. Len(s) : Append(s, x)[j] = s[j]
         /\ Append(s, x)[Len(s) + 1] = x
         /\ ToSet(Append(s, x)) = ToSet(s) \cup {x}
<1>1. /\ Append(s, x) \in Seq(S) /\ Len(Append(s, x)) = Len(s) + 1
      /\ \A j \in 1 .. Len(s) : Append(s, x)[j] = s[j]
      /\ Append(s, x)[Len(s) + 1] = x
  OBVIOUS
<1>2. 1 .. Len(s) + 1 = (1 .. Len(s)) \cup {Len(s) + 1}
  OBVIOUS
<1>3. ToSet(Append(s, x)) = {Append(s, x)[j] : j \in 1 .. Len(s) + 1}
  BY <1>1, RowsOf
<1>4. ToSet(s) = {s[j] : j \in 1 .. Len(s)}
  BY RowsOf
<1>5. ToSet(Append(s, x)) = ToSet(s) \cup {x}
  BY <1>1, <1>2, <1>3, <1>4
<1> QED BY <1>1, <1>5

LEMMA RowsBetween ==
  ASSUME NEW S, NEW s \in Seq(S), NEW m \in 1 .. Len(s) + 1, NEW n \in m - 1 .. Len(s)
  PROVE  /\ SubSeq(s, m, n) \in Seq(S)
         /\ ToSet(SubSeq(s, m, n)) = {s[j] : j \in m .. n}
<1> DEFINE cut == SubSeq(s, m, n)
<1>1. cut \in Seq(S) /\ Len(cut) = n - m + 1 /\ Len(s) \in Nat
  OBVIOUS
<1>2. \A j \in 1 .. n - m + 1 : m + j - 1 \in m .. n /\ cut[j] = s[m + j - 1]
  OBVIOUS
<1> HIDE DEF cut
<1>3. \A j \in m .. n : j - m + 1 \in 1 .. n - m + 1 /\ m + (j - m + 1) - 1 = j
  BY <1>1
<1>4. \A j \in m .. n : j - m + 1 \in 1 .. n - m + 1 /\ cut[j - m + 1] = s[j]
  BY <1>2, <1>3
<1>5. ToSet(cut) = {cut[j] : j \in 1 .. n - m + 1}
  BY <1>1, RowsOf
<1>6. ToSet(cut) \subseteq {s[j] : j \in m .. n}
  BY <1>2, <1>5
<1>7. {s[j] : j \in m .. n} \subseteq ToSet(cut)
  BY <1>4, <1>5
<1> QED BY <1>1, <1>6, <1>7 DEF cut

\* An enumeration of a finite set lists every element of it.
LEMMA EnumerationIsWhole ==
  ASSUME NEW S, IsFiniteSet(S), NEW c \in SetToSeqs(S)
  PROVE  c \in Seq(S) /\ ToSet(c) = S
<1> DEFINE D == 1 .. Cardinality(S)
<1>1. Cardinality(S) \in Nat
  BY FS_CardinalityType
<1>2. c \in [D -> S] /\ \A i, j \in D : i # j => c[i] # c[j]
  BY DEF SetToSeqs
<1>3. c \in Injection(D, S)
  BY <1>2 DEF Injection, IsInjective
<1>4. Cardinality(D) = Cardinality(S)
  BY <1>1, FS_Interval
<1>5. c \in Surjection(D, S)
  BY <1>3, <1>4, FS_Injection
<1>6. \A r \in S : \E i \in D : c[i] = r
  BY <1>5 DEF Surjection
<1>7. c \in Seq(S) /\ DOMAIN c = D
  BY <1>1, <1>2
<1>8. ToSet(c) = {c[i] : i \in D}
  BY <1>7 DEF ToSet
<1> QED BY <1>2, <1>6, <1>7, <1>8

\* The part a row falls in, and where that part begins and ends.
LEMMA PartBounds ==
  ASSUME NEW n \in Nat \ {0}
  PROVE  LET P == PartRows  parts == (n + P - 1) \div P
         IN  /\ parts \in Nat \ {0}
             /\ \A i \in 1 .. parts : (i - 1) * P + 1 \in 1 .. n
             /\ \A j \in 1 .. n : \E i \in 1 .. parts : (i - 1) * P + 1 <= j /\ j <= i * P
<1> DEFINE P == PartRows
           parts == (n + P - 1) \div P
<1>1. P \in Nat \ {0}
  BY ShardsAssumption
<1> HIDE DEF P
<1>2. parts \in Nat \ {0} /\ parts * P <= n + P - 1
  BY <1>1
<1>3. ASSUME NEW i \in 1 .. parts PROVE (i - 1) * P + 1 \in 1 .. n
  <2>1. i * P <= parts * P /\ (i - 1) * P = i * P - P /\ (i - 1) * P >= 0
    BY <1>1, <1>2
  <2>2. (i - 1) * P \in Int /\ i * P \in Int /\ parts * P \in Int
    BY <1>1, <1>2
  <2> HIDE DEF parts
  <2> QED BY <2>1, <2>2, <1>1, <1>2
<1>4. ASSUME NEW j \in 1 .. n
      PROVE  \E i \in 1 .. parts : (i - 1) * P + 1 <= j /\ j <= i * P
  <2>1. LET i == (j - 1) \div P + 1 IN i \in 1 .. parts /\ (i - 1) * P + 1 <= j /\ j <= i * P
    BY <1>1
  <2> QED BY <2>1
<1> QED BY <1>2, <1>3, <1>4 DEF P

\* The parts of a shard hold its rows and no others.
LEMMA SplitParts ==
  ASSUME NEW rows \in Seq(Rows)
  PROVE  /\ Split(rows) \in Seq(Seq(Rows))
         /\ Len(Split(rows)) \in Nat \ {0}
         /\ InParts(Split(rows)) = ToSet(rows)
<1>1. CASE rows = <<>>
  <2>1. Split(rows) = <<rows>>
    BY <1>1 DEF Split
  <2>2. <<rows>> \in Seq(Seq(Rows)) /\ Len(<<rows>>) = 1 /\ <<rows>>[1] = rows
    OBVIOUS
  <2>3. InParts(<<rows>>) = ToSet(rows)
    BY <2>2 DEF InParts
  <2> QED BY <2>1, <2>2, <2>3
<1>2. CASE rows # <<>>
  <2> DEFINE P == PartRows
             n == Len(rows)
             parts == (n + P - 1) \div P
             hi(i) == IF i * P < n THEN i * P ELSE n
             split == [i \in 1 .. parts |-> SubSeq(rows, (i - 1) * P + 1, hi(i))]
  <2>1. n \in Nat \ {0} /\ P \in Nat \ {0}
    BY <1>2, ShardsAssumption
  <2>2. Split(rows) = split
    BY <1>2 DEF Split
  <2>3. /\ parts \in Nat \ {0}
        /\ \A i \in 1 .. parts : (i - 1) * P + 1 \in 1 .. n
        /\ \A j \in 1 .. n : \E i \in 1 .. parts : (i - 1) * P + 1 <= j /\ j <= i * P
    BY <2>1, PartBounds
  <2> HIDE DEF parts, P
  <2>4. ASSUME NEW i \in 1 .. parts
        PROVE  /\ split[i] \in Seq(Rows)
               /\ ToSet(split[i]) = {rows[j] : j \in (i - 1) * P + 1 .. hi(i)}
               /\ hi(i) \in Int /\ hi(i) <= n /\ hi(i) <= i * P
               /\ \A j \in 1 .. n : j <= i * P => j <= hi(i)
    <3>1. (i - 1) * P = i * P - P /\ i * P \in Int
      BY <2>1, <2>3
    <3>2. (i - 1) * P + 1 \in 1 .. n
      BY <2>3
    <3>3. hi(i) \in (i - 1) * P + 1 - 1 .. n
      BY <3>1, <3>2, <2>1
    <3>4. /\ SubSeq(rows, (i - 1) * P + 1, hi(i)) \in Seq(Rows)
          /\ ToSet(SubSeq(rows, (i - 1) * P + 1, hi(i)))
             = {rows[j] : j \in (i - 1) * P + 1 .. hi(i)}
      <4> HIDE DEF hi
      <4> QED BY <3>2, <3>3, <2>1, RowsBetween
    <3>5. hi(i) <= i * P /\ \A j \in 1 .. n : j <= i * P => j <= hi(i)
      BY <3>1, <2>1
    <3> QED BY <3>3, <3>4, <3>5, <3>2, <2>1
  <2>5. split \in Seq(Seq(Rows)) /\ Len(split) = parts
    <3> HIDE DEF hi
    <3>1. split \in [1 .. parts -> Seq(Rows)]
      BY <2>4
    <3> HIDE DEF split
    <3> QED BY <3>1, <2>3
  <2> HIDE DEF split, hi
  <2>6. InParts(split) \subseteq ToSet(rows)
    <3>1. ASSUME NEW i \in 1 .. parts, NEW r \in ToSet(split[i]) PROVE r \in ToSet(rows)
      <4>1. PICK j \in (i - 1) * P + 1 .. hi(i) : r = rows[j]
        BY <2>4
      <4>2. (i - 1) * P + 1 \in 1 .. n /\ hi(i) \in Int /\ hi(i) <= n
        BY <2>3, <2>4
      <4>3. j \in 1 .. n
        BY <4>2, <2>1
      <4> QED BY <4>1, <4>3, RowsOf
    <3> QED BY <3>1, <2>5 DEF InParts
  <2>7. ToSet(rows) \subseteq InParts(split)
    <3>1. ASSUME NEW r \in ToSet(rows) PROVE r \in InParts(split)
      <4>1. PICK j \in 1 .. n : r = rows[j]
        BY RowsOf
      <4>2. PICK i \in 1 .. parts : (i - 1) * P + 1 <= j /\ j <= i * P
        BY <2>3
      <4>3. j \in (i - 1) * P + 1 .. hi(i)
        BY <4>2, <2>4, <2>3, <2>1
      <4>4. r \in ToSet(split[i])
        BY <4>1, <4>3, <2>4
      <4> QED BY <4>4, <2>5 DEF InParts
    <3> QED BY <3>1
  <2> QED BY <2>2, <2>3, <2>5, <2>6, <2>7
<1> QED BY <1>1, <1>2

-----------------------------------------------------------------------------
(* What a restore makes of a channel                                        *)

LEMMA SameChannel ==
  /\ \A s : Whole(s) = WholeIn(channel, s) /\ Restored(s) = RestoredIn(channel, s)
            /\ Reused(s) = ReusedIn(channel, s)
  /\ Sids = SidsIn(channel)
  /\ \A r : r \in Readable <=> \E s \in SidsIn(channel) : r \in RestoredIn(channel, s)
<1>1. ASSUME NEW s
      PROVE  /\ Sids = SidsIn(channel) /\ Reused(s) = ReusedIn(channel, s)
  BY DEF Sids, SidsIn, Reused, ReusedIn
<1>2. ASSUME NEW s PROVE Whole(s) = WholeIn(channel, s)
  BY <1>1 DEF Whole, WholeIn, First, FirstIn, Total, TotalIn, Documents, DocsIn
<1>3. ASSUME NEW s, NEW k PROVE Part(s, k) = ToSet(channel[TakenIn(channel, s, k)].rows)
  BY DEF Part, TakenIn, First, FirstIn, Total, TotalIn, Documents, DocsIn
<1>4. ASSUME NEW s PROVE Restored(s) = RestoredIn(channel, s)
  BY <1>2, <1>3 DEF Restored, RestoredIn, First, FirstIn, Total, TotalIn, Documents, DocsIn
<1>5. Readable = UNION {RestoredIn(channel, s) : s \in SidsIn(channel)}
  BY <1>1, <1>4 DEF Readable, Sids, SidsIn
<1> QED BY <1>1, <1>2, <1>4, <1>5

\* The first document of a shard id.
LEMMA FirstDocument ==
  ASSUME NEW ch \in Seq(Messages), NEW s \in SidsIn(ch)
  PROVE  /\ FirstIn(ch, s) \in 1 .. Len(ch) /\ ch[FirstIn(ch, s)].sid = s
         /\ \A j \in 1 .. FirstIn(ch, s) - 1 : ch[j].sid # s
<1> DEFINE all == {i \in 1 .. Len(ch) : ch[i].sid = s}
<1>1. all \in SUBSET Nat /\ all # {}
  BY DEF SidsIn
<1>2. PICK m \in all : \A k \in all : m <= k
  BY <1>1, HasLeast
<1>3. \A j \in 1 .. m - 1 : ch[j].sid # s
  BY <1>2
<1>4. m \in 1 .. Len(ch) /\ ch[m].sid = s
  BY <1>2
<1> QED BY <1>3, <1>4 DEF FirstIn

\* The document taken for a part.
LEMMA TakenDocument ==
  ASSUME NEW ch \in Seq(Messages), NEW s, NEW k,
         NEW d \in DocsIn(ch, s), ch[d].index = k
  PROVE  LET f == TakenIn(ch, s, k)
         IN  /\ f \in DocsIn(ch, s) /\ ch[f].index = k
             /\ \A j \in 1 .. f - 1 :
                  \/ ch[j].sid # s \/ ch[j].index # k \/ ch[j].total # ch[f].total
<1> DEFINE all == {i \in DocsIn(ch, s) : ch[i].index = k}
<1>1. all \in SUBSET Nat /\ all # {}
  BY DEF DocsIn
<1>2. PICK m \in all : \A j \in all : m <= j
  BY <1>1, HasLeast
<1>3. m \in DocsIn(ch, s) /\ ch[m].index = k
  BY <1>2
<1>4. \A j \in 1 .. m - 1 : \/ ch[j].sid # s \/ ch[j].index # k \/ ch[j].total # ch[m].total
  <2>1. ASSUME NEW j \in 1 .. m - 1, ch[j].sid = s, ch[j].index = k, ch[j].total = ch[m].total
        PROVE  FALSE
    <3>1. j \in all
      BY <2>1, <1>3 DEF DocsIn
    <3>2. m <= j
      BY <3>1, <1>2
    <3> QED BY <3>2, <1>3 DEF DocsIn
  <2> QED BY <2>1
<1>5. \E f \in DocsIn(ch, s) :
        /\ ch[f].index = k
        /\ \A j \in 1 .. f - 1 : \/ ch[j].sid # s \/ ch[j].index # k \/ ch[j].total # ch[f].total
  BY <1>3, <1>4
<1> QED BY <1>5 DEF TakenIn

LEMMA Appended ==
  ASSUME NEW ch \in Seq(Messages), NEW m \in Messages
  PROVE  /\ Append(ch, m) \in Seq(Messages) /\ Len(Append(ch, m)) = Len(ch) + 1
         /\ Len(ch) \in Nat
         /\ \A i \in 1 .. Len(ch) : i \in 1 .. Len(Append(ch, m)) /\ Append(ch, m)[i] = ch[i]
         /\ \A i \in 1 .. Len(Append(ch, m)) : i \in 1 .. Len(ch) \/ i = Len(ch) + 1
         /\ Append(ch, m)[Len(ch) + 1] = m
  OBVIOUS

\* A shard that is whole stays whole, and means the same rows.
LEMMA WholeStays ==
  ASSUME NEW ch \in Seq(Messages), NEW m \in Messages, m.index \in 1 .. m.total,
         NEW s, WholeIn(ch, s)
  PROVE  /\ WholeIn(Append(ch, m), s)
         /\ RestoredIn(Append(ch, m), s) = RestoredIn(ch, s)
<1> DEFINE new == Append(ch, m)
<1>1. /\ new \in Seq(Messages) /\ Len(new) = Len(ch) + 1 /\ Len(ch) \in Nat
      /\ \A i \in 1 .. Len(ch) : i \in 1 .. Len(new) /\ new[i] = ch[i]
      /\ \A i \in 1 .. Len(new) : i \in 1 .. Len(ch) \/ i = Len(ch) + 1
      /\ new[Len(ch) + 1] = m
  BY Appended
<1> HIDE DEF new
<1>2. s \in SidsIn(ch) /\ s \in SidsIn(new)
  BY <1>1 DEF WholeIn, SidsIn
<1>3. FirstIn(new, s) = FirstIn(ch, s)
  <2> DEFINE f == FirstIn(ch, s)
             g == FirstIn(new, s)
  <2>1. f \in 1 .. Len(ch) /\ ch[f].sid = s /\ \A j \in 1 .. f - 1 : ch[j].sid # s
    BY <1>2, FirstDocument
  <2>2. g \in 1 .. Len(new) /\ new[g].sid = s /\ \A j \in 1 .. g - 1 : new[j].sid # s
    BY <1>1, <1>2, FirstDocument
  <2> HIDE DEF f, g
  <2>3. ~(f < g)
    BY <2>1, <2>2, <1>1
  <2>4. ~(g < f)
    BY <2>1, <2>2, <1>1
  <2> QED BY <2>1, <2>2, <2>3, <2>4 DEF f, g
<1>4. TotalIn(new, s) = TotalIn(ch, s)
  BY <1>1, <1>2, <1>3, FirstDocument DEF TotalIn
<1>5. DocsIn(ch, s) \subseteq DocsIn(new, s)
  BY <1>1, <1>4 DEF DocsIn
<1>6. {ch[i].index : i \in DocsIn(ch, s)} = 1 .. TotalIn(ch, s)
  BY DEF WholeIn
<1>7. ASSUME NEW i \in DocsIn(new, s) PROVE new[i].index \in 1 .. TotalIn(ch, s)
  <2>1. i \in 1 .. Len(new) /\ new[i].sid = s /\ new[i].total = TotalIn(ch, s)
    BY <1>4 DEF DocsIn
  <2>2. CASE i \in 1 .. Len(ch)
    <3>1. i \in DocsIn(ch, s) /\ new[i] = ch[i]
      BY <2>1, <2>2, <1>1 DEF DocsIn
    <3> QED BY <3>1, <1>6
  <2>3. CASE i = Len(ch) + 1
    BY <2>1, <2>3, <1>1
  <2> QED BY <2>1, <2>2, <2>3, <1>1
<1>8. ASSUME NEW k \in 1 .. TotalIn(ch, s)
      PROVE  /\ \E i \in DocsIn(new, s) : new[i].index = k
             /\ TakenIn(new, s, k) = TakenIn(ch, s, k)
             /\ new[TakenIn(new, s, k)] = ch[TakenIn(ch, s, k)]
  <2>1. PICK d \in DocsIn(ch, s) : ch[d].index = k
    BY <1>6
  <2>2. d \in 1 .. Len(ch) /\ d \in DocsIn(new, s) /\ new[d].index = k
    BY <2>1, <1>1, <1>5 DEF DocsIn
  <2> DEFINE f == TakenIn(ch, s, k)
             g == TakenIn(new, s, k)
  <2>3. /\ f \in DocsIn(ch, s) /\ ch[f].index = k
        /\ \A j \in 1 .. f - 1 :
             \/ ch[j].sid # s \/ ch[j].index # k \/ ch[j].total # ch[f].total
    BY <2>1, TakenDocument
  <2>4. /\ g \in DocsIn(new, s) /\ new[g].index = k
        /\ \A j \in 1 .. g - 1 :
             \/ new[j].sid # s \/ new[j].index # k \/ new[j].total # new[g].total
    <3>1. new \in Seq(Messages)
      BY <1>1
    <3>2. d \in DocsIn(new, s) /\ new[d].index = k
      BY <2>2
    <3> QED BY <3>1, <3>2, TakenDocument
  <2> HIDE DEF f, g
  <2>5. f \in 1 .. Len(ch) /\ ch[f].sid = s /\ ch[f].total = TotalIn(ch, s)
    BY <2>3 DEF DocsIn
  <2>6. g \in 1 .. Len(new) /\ new[g].sid = s /\ new[g].total = TotalIn(ch, s)
    BY <2>4, <1>4 DEF DocsIn
  <2>7. ~(f < g)
    BY <2>3, <2>4, <2>5, <2>6, <1>1
  <2>8. ~(g < f)
    BY <2>3, <2>4, <2>5, <2>6, <1>1
  <2>9. f = g
    BY <2>5, <2>6, <2>7, <2>8, <1>1
  <2> QED BY <2>2, <2>5, <2>9, <1>1 DEF f, g
<1>9. {new[i].index : i \in DocsIn(new, s)} = 1 .. TotalIn(new, s)
  BY <1>4, <1>7, <1>8
<1>10. WholeIn(new, s)
  BY <1>2, <1>9 DEF WholeIn
<1>11. RestoredIn(new, s) = RestoredIn(ch, s)
  BY <1>4, <1>8, <1>10 DEF RestoredIn
<1> QED BY <1>10, <1>11 DEF new

LEMMA OutStays ==
  ASSUME NEW ch \in Seq(Messages), NEW m \in Messages, m.index \in 1 .. m.total,
         NEW r, OutIn(ch, r)
  PROVE  OutIn(Append(ch, m), r)
<1> DEFINE new == Append(ch, m)
<1>1. \A i \in 1 .. Len(ch) : i \in 1 .. Len(new) /\ new[i] = ch[i]
  BY Appended
<1>2. CASE \E s \in SidsIn(ch) : r \in RestoredIn(ch, s)
  <2>1. PICK s \in SidsIn(ch) : r \in RestoredIn(ch, s)
    BY <1>2
  <2>2. WholeIn(ch, s)
    BY <2>1 DEF RestoredIn
  <2>3. r \in RestoredIn(new, s)
    BY <2>1, <2>2, WholeStays
  <2>4. s \in SidsIn(new)
    BY <2>1, <1>1 DEF SidsIn
  <2> QED BY <2>3, <2>4 DEF OutIn
<1>3. CASE \E i \in 1 .. Len(ch) : r \in ToSet(ch[i].rows) /\ ReusedIn(ch, ch[i].sid)
  <2>1. PICK i \in 1 .. Len(ch) : r \in ToSet(ch[i].rows) /\ ReusedIn(ch, ch[i].sid)
    BY <1>3
  <2> HIDE DEF new
  <2>2. ReusedIn(new, ch[i].sid)
    BY <2>1, <1>1 DEF ReusedIn
  <2> QED BY <2>1, <2>2, <1>1 DEF OutIn, new
<1> QED BY <1>2, <1>3 DEF OutIn

\* What can be restored is in the documents, rows of the databases all of it.
LEMMA RestoredRows ==
  ASSUME NEW ch \in Seq(Messages), NEW s
  PROVE  /\ \A r \in RestoredIn(ch, s) : \E i \in 1 .. Len(ch) :
              ch[i].sid = s /\ r \in ToSet(ch[i].rows)
         /\ RestoredIn(ch, s) \subseteq Rows
         /\ IsFiniteSet(RestoredIn(ch, s))
<1>1. CASE ~WholeIn(ch, s)
  <2>1. RestoredIn(ch, s) = {}
    BY <1>1 DEF RestoredIn
  <2> QED BY <2>1, FS_EmptySet
<1>2. CASE WholeIn(ch, s)
  <2> DEFINE n == TotalIn(ch, s)
             rows(k) == ToSet(ch[TakenIn(ch, s, k)].rows)
             parts == {rows(k) : k \in 1 .. n}
  <2>1. s \in SidsIn(ch) /\ {ch[i].index : i \in DocsIn(ch, s)} = 1 .. n
    BY <1>2 DEF WholeIn
  <2>2. n \in Nat
    <3>1. ch[FirstIn(ch, s)] \in Messages
      BY <2>1, FirstDocument
    <3> QED BY <3>1 DEF TotalIn, Messages
  <2>3. ASSUME NEW k \in 1 .. n
        PROVE  TakenIn(ch, s, k) \in DocsIn(ch, s)
    <3>1. PICK d \in DocsIn(ch, s) : ch[d].index = k
      BY <2>1
    <3> QED BY <3>1, TakenDocument
  <2>4. ASSUME NEW k \in 1 .. n
        PROVE  /\ TakenIn(ch, s, k) \in 1 .. Len(ch) /\ ch[TakenIn(ch, s, k)].sid = s
               /\ rows(k) \subseteq Rows /\ IsFiniteSet(rows(k))
    <3>1. TakenIn(ch, s, k) \in 1 .. Len(ch) /\ ch[TakenIn(ch, s, k)].sid = s
      BY <2>3 DEF DocsIn
    <3>2. ch[TakenIn(ch, s, k)] \in Messages
      BY <3>1
    <3>3. ch[TakenIn(ch, s, k)].rows \in Seq(Rows)
      BY <3>2 DEF Messages
    <3> QED BY <3>1, <3>3, RowsOf
  <2>5. RestoredIn(ch, s) = UNION parts
    BY <1>2 DEF RestoredIn
  <2> HIDE DEF n
  <2>6. IsFiniteSet(parts)
    <3> DEFINE f == [k \in 1 .. n |-> rows(k)]
    <3>1. f \in Surjection(1 .. n, parts)
      BY DEF Surjection
    <3>2. IsFiniteSet(1 .. n)
      BY <2>2, FS_Interval
    <3> QED BY <3>1, <3>2, FS_Surjection
  <2>7. IsFiniteSet(UNION parts)
    BY <2>4, <2>6, FS_UNION
  <2> QED BY <2>4, <2>5, <2>7
<1> QED BY <1>1, <1>2

\* All parts of a shard went up: its rows are out, whatever else has its id.
LEMMA UploadedIsOut ==
  ASSUME NEW ch \in Seq(Messages), \A i \in 1 .. Len(ch) : ch[i].index \in 1 .. ch[i].total,
         NEW s, NEW parts, Len(parts) \in Nat \ {0}, Uploaded(ch, s, parts, Len(parts)),
         NEW r \in InParts(parts)
  PROVE  OutIn(ch, r)
<1> DEFINE n == Len(parts)
<1>1. PICK k \in 1 .. n : r \in ToSet(parts[k])
  BY DEF InParts
<1>2. PICK d \in 1 .. Len(ch) : ch[d] = [sid |-> s, index |-> k, total |-> n, rows |-> parts[k]]
  BY DEF Uploaded
<1>3. CASE ReusedIn(ch, s)
  BY <1>1, <1>2, <1>3 DEF OutIn
<1>4. CASE ~ReusedIn(ch, s)
  <2>1. s \in SidsIn(ch)
    BY <1>2 DEF SidsIn
  <2>2. \A i \in 1 .. Len(ch) : ch[i].sid = s => ch[i].total = n
    BY <1>2, <1>4 DEF ReusedIn
  <2>3. \A i \in 1 .. Len(ch) : ch[i].sid = s /\ ch[i].index = k => ch[i].rows = parts[k]
    BY <1>2, <1>4 DEF ReusedIn
  <2>4. TotalIn(ch, s) = n
    BY <2>1, <2>2, FirstDocument DEF TotalIn
  <2>5. DocsIn(ch, s) = {i \in 1 .. Len(ch) : ch[i].sid = s}
    BY <2>2, <2>4 DEF DocsIn
  <2>6. \A j \in 1 .. n : \E i \in DocsIn(ch, s) : ch[i].index = j
    <3>1. TAKE j \in 1 .. n
    <3>2. PICK i \in 1 .. Len(ch) :
            ch[i] = [sid |-> s, index |-> j, total |-> n, rows |-> parts[j]]
      BY DEF Uploaded
    <3> QED BY <3>2, <2>5
  <2>7. \A i \in DocsIn(ch, s) : ch[i].index \in 1 .. n
    BY <2>2, <2>5
  <2>8. WholeIn(ch, s)
    BY <2>1, <2>4, <2>6, <2>7 DEF WholeIn
  <2>9. TakenIn(ch, s, k) \in DocsIn(ch, s) /\ ch[TakenIn(ch, s, k)].index = k
    BY <2>6, TakenDocument
  <2>10. ch[TakenIn(ch, s, k)].rows = parts[k]
    BY <2>3, <2>5, <2>9
  <2>11. r \in RestoredIn(ch, s)
    BY <1>1, <2>4, <2>8, <2>10 DEF RestoredIn
  <2> QED BY <2>1, <2>11 DEF OutIn
<1> QED BY <1>3, <1>4

-----------------------------------------------------------------------------
(* What no step takes away                                                  *)

\* A channel that only grows.
OnlyMore ==
  /\ \A r : OutIn(channel, r) => OutIn(channel', r)
  /\ \A s : WholeIn(channel, s) => /\ WholeIn(channel', s)
                                   /\ RestoredIn(channel', s) = RestoredIn(channel, s)
  /\ \A s, parts, n : Uploaded(channel, s, parts, n) => Uploaded(channel', s, parts, n)

LEMMA ChannelGrows ==
  ASSUME channel \in Seq(Messages),
         \/ channel' = channel
         \/ \E m \in Messages : m.index \in 1 .. m.total /\ channel' = Append(channel, m)
  PROVE  OnlyMore
<1>1. CASE channel' = channel
  BY <1>1 DEF OnlyMore
<1>2. CASE \E m \in Messages : m.index \in 1 .. m.total /\ channel' = Append(channel, m)
  <2>1. PICK m \in Messages : m.index \in 1 .. m.total /\ channel' = Append(channel, m)
    BY <1>2
  <2>2. \A r : OutIn(channel, r) => OutIn(channel', r)
    BY <2>1, OutStays
  <2>3. \A s : WholeIn(channel, s) => /\ WholeIn(channel', s)
                                      /\ RestoredIn(channel', s) = RestoredIn(channel, s)
    BY <2>1, WholeStays
  <2>4. ASSUME NEW s, NEW parts, NEW n, Uploaded(channel, s, parts, n)
        PROVE  Uploaded(channel', s, parts, n)
    <3>1. \A i \in 1 .. Len(channel) : i \in 1 .. Len(channel') /\ channel'[i] = channel[i]
      BY <2>1, Appended
    <3> QED BY <3>1, <2>4 DEF Uploaded
  <2> QED BY <2>2, <2>3, <2>4 DEF OnlyMore
<1> QED BY <1>1, <1>2

\* A database to which rows are added at the ends of its tables.
Grown(u) == \A t \in Tables :
  /\ Len(db[u][t]) <= Len(db'[u][t])
  /\ \A j \in 1 .. Len(db[u][t]) : db'[u][t][j] = db[u][t][j]

LEMMA RowsHeld ==
  ASSUME NEW d \in Databases, NEW u \in Workers
  PROVE  LET held == UNION {ToSet(d[u][t]) : t \in Tables} IN
         /\ held \subseteq Rows
         /\ \A t \in Tables : Len(d[u][t]) \in Nat /\ ToSet(d[u][t]) \subseteq held
         /\ \A t \in Tables : \A j \in 1 .. Len(d[u][t]) : d[u][t][j] \in held
         /\ \A r \in held : \E t \in Tables : \E j \in 1 .. Len(d[u][t]) : r = d[u][t][j]
<1> DEFINE held == UNION {ToSet(d[u][t]) : t \in Tables}
<1>1. ASSUME NEW t \in Tables
      PROVE  /\ Len(d[u][t]) \in Nat /\ ToSet(d[u][t]) \subseteq Rows
             /\ ToSet(d[u][t]) = {d[u][t][j] : j \in 1 .. Len(d[u][t])}
  <2>1. d[u][t] \in Seq(Rows)
    BY DEF Databases
  <2> QED BY <2>1, RowsOf
<1>2. \A t \in Tables : ToSet(d[u][t]) \subseteq held
  OBVIOUS
<1>3. held \subseteq Rows
  BY <1>1
<1>4. ASSUME NEW r \in held
      PROVE  \E t \in Tables : \E j \in 1 .. Len(d[u][t]) : r = d[u][t][j]
  <2>1. PICK t \in Tables : r \in ToSet(d[u][t])
    OBVIOUS
  <2> HIDE DEF held
  <2> QED BY <2>1, <1>1
<1> HIDE DEF held
<1>5. ASSUME NEW t \in Tables, NEW j \in 1 .. Len(d[u][t]) PROVE d[u][t][j] \in held
  <2>1. d[u][t][j] \in ToSet(d[u][t])
    BY <1>1
  <2> QED BY <2>1, <1>2
<1>6. \A t \in Tables : Len(d[u][t]) \in Nat /\ ToSet(d[u][t]) \subseteq held
  BY <1>1, <1>2
<1> QED BY <1>3, <1>4, <1>5, <1>6 DEF held

LEMMA HeldRows ==
  ASSUME db \in Databases, NEW u \in Workers
  PROVE  /\ Held(u) \subseteq Rows
         /\ \A t \in Tables : Len(db[u][t]) \in Nat /\ ToSet(db[u][t]) \subseteq Held(u)
         /\ \A t \in Tables : \A j \in 1 .. Len(db[u][t]) : db[u][t][j] \in Held(u)
         /\ \A r \in Held(u) : \E t \in Tables : \E j \in 1 .. Len(db[u][t]) : r = db[u][t][j]
BY RowsHeld DEF Held

LEMMA HeldRowsNext ==
  ASSUME db' \in Databases, NEW u \in Workers
  PROVE  /\ Held(u)' \subseteq Rows
         /\ \A t \in Tables : Len(db'[u][t]) \in Nat /\ ToSet(db'[u][t]) \subseteq Held(u)'
         /\ \A t \in Tables : \A j \in 1 .. Len(db'[u][t]) : db'[u][t][j] \in Held(u)'
         /\ \A r \in Held(u)' : \E t \in Tables : \E j \in 1 .. Len(db'[u][t]) : r = db'[u][t][j]
BY RowsHeld DEF Held

LEMMA HeldGrows ==
  ASSUME db \in Databases, db' \in Databases, NEW u \in Workers, Grown(u)
  PROVE  Held(u) \subseteq Held(u)'
<1>1. ASSUME NEW r \in Held(u) PROVE r \in Held(u)'
  <2>1. PICK t \in Tables : \E j \in 1 .. Len(db[u][t]) : r = db[u][t][j]
    BY HeldRows
  <2>2. PICK j \in 1 .. Len(db[u][t]) : r = db[u][t][j]
    BY <2>1
  <2>3. Len(db[u][t]) \in Nat /\ Len(db'[u][t]) \in Nat
    BY HeldRows, HeldRowsNext
  <2>4. j \in 1 .. Len(db'[u][t]) /\ r = db'[u][t][j]
    BY <2>2, <2>3 DEF Grown
  <2> QED BY <2>4, HeldRowsNext
<1> QED BY <1>1

LEMMA SameDatabase ==
  ASSUME db \in Databases, NEW u \in Workers, db'[u] = db[u]
  PROVE  Grown(u) /\ Held(u)' = Held(u)
<1>1. Grown(u)
  BY HeldRows DEF Grown
<1> QED BY <1>1 DEF Held

-----------------------------------------------------------------------------
(* What a step keeps for a worker it does not concern                       *)

LEMMA MarkKept ==
  ASSUME Typed, Typed', OnlyMore, NEW u \in Workers, MarkInv(u), Grown(u), mark'[u] = mark[u]
  PROVE  MarkInv(u)'
<1>1. ASSUME NEW t \in Tables
      PROVE  /\ mark'[u][t] <= Len(db'[u][t])
             /\ \A j \in 1 .. mark'[u][t] : OutIn(channel', db'[u][t][j])
  <2>1. Len(db[u][t]) \in Nat /\ Len(db'[u][t]) \in Nat /\ mark[u][t] \in Nat
    BY HeldRows, HeldRowsNext DEF Typed
  <2>2. mark[u][t] <= Len(db[u][t]) /\ \A j \in 1 .. mark[u][t] : OutIn(channel, db[u][t][j])
    BY DEF MarkInv, Out
  <2>3. /\ Len(db[u][t]) <= Len(db'[u][t])
        /\ \A j \in 1 .. Len(db[u][t]) : db'[u][t][j] = db[u][t][j]
    BY DEF Grown
  <2>4. ASSUME NEW j \in 1 .. mark[u][t] PROVE OutIn(channel', db'[u][t][j])
    BY <2>1, <2>2, <2>3 DEF OnlyMore
  <2> QED BY <2>1, <2>2, <2>3, <2>4
<1> QED BY <1>1 DEF MarkInv, Out

LEMMA PubKept ==
  ASSUME Typed, Typed', OnlyMore, NEW u \in Workers, PubInv(u), Grown(u), faults <= faults',
         mark'[u] = mark[u], pub'[u] = pub[u], site'[u] = site[u], seq'[u] = seq[u]
  PROVE  PubInv(u)'
<1> SUFFICES ASSUME pub[u] # Idle
             PROVE  PubInv(u)'
  BY DEF PubInv
<1>1. /\ pub[u].sid = NextSid(u)
      /\ Uploaded(channel, pub[u].sid, pub[u].parts, pub[u].sent)
      /\ pub[u].sent <= Len(pub[u].parts)
      /\ pub[u].pc = "send" => pub[u].sent < Len(pub[u].parts)
      /\ pub[u].pc \in {"note", "commit"} =>
           pub[u].sent = Len(pub[u].parts) /\ Len(pub[u].parts) > 0
      /\ pub[u].pc = "refused" => faults > 0
      /\ InParts(pub[u].parts) \subseteq Held(u)
      /\ \A t \in Tables :
           /\ pub[u].hi[t] <= Len(db[u][t])
           /\ \A j \in 1 .. pub[u].hi[t] : j <= mark[u][t] \/ db[u][t][j] \in InParts(pub[u].parts)
  BY DEF PubInv
<1>2. NextSid(u)' = NextSid(u)
  BY DEF NextSid
<1>3. Uploaded(channel', pub[u].sid, pub[u].parts, pub[u].sent)
  BY <1>1 DEF OnlyMore
<1>4. InParts(pub[u].parts) \subseteq Held(u)'
  BY <1>1, HeldGrows DEF Typed
<1>5. ASSUME NEW t \in Tables
      PROVE  /\ pub[u].hi[t] <= Len(db'[u][t])
             /\ \A j \in 1 .. pub[u].hi[t] :
                  j <= mark[u][t] \/ db'[u][t][j] \in InParts(pub[u].parts)
  <2>1. Len(db[u][t]) \in Nat /\ Len(db'[u][t]) \in Nat /\ pub[u].hi[t] \in Nat
    BY HeldRows, HeldRowsNext DEF Typed, Uploads
  <2>2. /\ Len(db[u][t]) <= Len(db'[u][t])
        /\ \A j \in 1 .. Len(db[u][t]) : db'[u][t][j] = db[u][t][j]
    BY DEF Grown
  <2> QED BY <1>1, <2>1, <2>2
<1>6. faults > 0 => faults' > 0
  BY ShardsAssumption DEF Typed
<1> QED BY <1>1, <1>2, <1>3, <1>4, <1>5, <1>6 DEF PubInv

LEMMA KnownKept ==
  ASSUME Typed, Typed', OnlyMore, NEW u \in Workers, KnownInv(u), Grown(u),
         known'[u] = known[u], site'[u] = site[u]
  PROVE  KnownInv(u)'
<1>1. Held(u) \subseteq Held(u)'
  BY HeldGrows DEF Typed
<1>2. ASSUME NEW k \in known[u], WholeIn(channel, k.sid),
             RestoredIn(channel, k.sid) \ Held(u) \subseteq k.skipped
      PROVE  /\ WholeIn(channel', k.sid)
             /\ RestoredIn(channel', k.sid) \ Held(u)' \subseteq k.skipped
  BY <1>1, <1>2 DEF OnlyMore
<1> QED BY <1>2 DEF KnownInv

\* A stage in progress, whatever happens to the shard ahead of it.
LEMMA StageGoesOn ==
  ASSUME Typed, Typed', OnlyMore, NEW u \in Workers, StageInv(u), Grown(u),
         stage'[u] = stage[u], work'[u] = work[u], filed'[u] = filed[u],
         site'[u] = site[u], bundles \subseteq bundles', faults <= faults',
         stage[u] = Delta =>
           \/ faults' > 0
           \/ \A r \in Held(u)' : \/ OutIn(channel', r)
                                  \/ pub'[u] # Idle /\ r \in InParts(pub'[u].parts)
  PROVE  StageInv(u)'
<1>1. Held(u) # {} => Held(u)' # {}
  BY HeldGrows DEF Typed
<1>2. faults \in Nat /\ faults' \in Nat /\ (faults > 0 => faults' > 0)
  BY ShardsAssumption DEF Typed
<1>3. \A r : OutIn(channel, r) => OutIn(channel', r)
  BY DEF OnlyMore
<1>4. stage'[u] # Idle => work'[u] = "done" /\ Held(u)' # {}
  BY <1>1 DEF StageInv
<1>5. ASSUME stage[u].pc \in {"send", "record"}
      PROVE  /\ BundleParts(stage[u].rows) \in Nat \ {0}
             /\ 1 .. stage[u].sent \subseteq PartsThere(u, filed[u].seq + 1, stage[u].rows)
             /\ stage[u].sent <= BundleParts(stage[u].rows)
             /\ stage[u].pc = "send" => stage[u].sent < BundleParts(stage[u].rows)
             /\ stage[u].pc = "record" => stage[u].sent = BundleParts(stage[u].rows)
             /\ \/ stage[u].behind /\ faults > 0
                \/ \A r \in stage[u].rows : OutIn(channel, r)
  BY <1>5 DEF StageInv, Out
<1>6. PartsThere(u, filed[u].seq + 1, stage[u].rows)
      \subseteq PartsThere(u, filed[u].seq + 1, stage[u].rows)'
  BY DEF PartsThere
<1> QED BY <1>2, <1>3, <1>4, <1>5, <1>6 DEF StageInv, Out

LEMMA StageKept ==
  ASSUME Typed, Typed', OnlyMore, NEW u \in Workers, StageInv(u), Grown(u),
         \A r \in Held(u)' : r \in Held(u) \/ OutIn(channel', r),
         stage'[u] = stage[u], work'[u] = work[u], pub'[u] = pub[u], filed'[u] = filed[u],
         site'[u] = site[u], bundles \subseteq bundles', faults <= faults'
  PROVE  StageInv(u)'
<1>1. faults \in Nat /\ faults' \in Nat /\ (faults > 0 => faults' > 0)
  BY ShardsAssumption DEF Typed
<1>2. stage[u] = Delta =>
        \/ faults' > 0
        \/ \A r \in Held(u)' : \/ OutIn(channel', r)
                               \/ pub'[u] # Idle /\ r \in InParts(pub'[u].parts)
  BY <1>1 DEF StageInv, Out, OnlyMore
<1> QED BY <1>2, StageGoesOn

LEMMA FiledKept ==
  ASSUME NEW u \in Workers, FiledInv(u),
         filed'[u] = filed[u], site'[u] = site[u], bundles \subseteq bundles'
  PROVE  FiledInv(u)'
BY DEF FiledInv, PartsThere

LEMMA WorkKept ==
  ASSUME Typed, Typed', NEW u \in Workers, WorkInv(u), Grown(u), work'[u] = work[u]
  PROVE  WorkInv(u)'
BY HeldGrows DEF WorkInv, Typed

LEMMA BundlesKept ==
  ASSUME Typed, Typed', OnlyMore, BundlesFit, bundles' = bundles, faults <= faults'
  PROVE  BundlesFit'
<1>1. faults \in Nat /\ faults' \in Nat /\ (faults > 0 => faults' > 0)
  BY ShardsAssumption DEF Typed
<1>2. ASSUME NEW b \in bundles
      PROVE  /\ b.total = BundleParts(b.rows) /\ b.index \in 1 .. b.total
             /\ \/ b.behind /\ faults' > 0
                \/ \A r \in b.rows : OutIn(channel', r)
  BY <1>1 DEF BundlesFit, Out, OnlyMore
<1> QED BY <1>2 DEF BundlesFit, Out

\* A document more, of rows its sender has, or none.
LEMMA ChannelKept ==
  ASSUME Typed, Typed', ChannelInv, site' = site, \A u \in Workers : Grown(u),
         \/ channel' = channel
         \/ \E m \in Messages, w \in Workers :
              /\ m.index \in 1 .. m.total /\ channel' = Append(channel, m)
              /\ m.sid.w = w /\ m.sid.site = site[w] /\ ToSet(m.rows) \subseteq Held(w)
  PROVE  ChannelInv'
<1>1. channel \in Seq(Messages) /\ channel' \in Seq(Messages) /\ site \in [Workers -> Nat]
  BY DEF Typed
<1>2. \A u \in Workers : Held(u) \subseteq Held(u)'
  BY HeldGrows DEF Typed
<1>3. ASSUME NEW i \in 1 .. Len(channel), NEW u \in Workers
      PROVE  /\ channel[i].index \in 1 .. channel[i].total
             /\ channel[i].sid.w = u =>
                  /\ channel[i].sid.site <= site[u]
                  /\ channel[i].sid.site = site[u] => ToSet(channel[i].rows) \subseteq Held(u)'
  BY <1>2 DEF ChannelInv
<1>4. CASE channel' = channel
  BY <1>3, <1>4 DEF ChannelInv
<1>5. CASE \E m \in Messages, w \in Workers :
             /\ m.index \in 1 .. m.total /\ channel' = Append(channel, m)
             /\ m.sid.w = w /\ m.sid.site = site[w] /\ ToSet(m.rows) \subseteq Held(w)
  <2>1. PICK m \in Messages, w \in Workers :
             /\ m.index \in 1 .. m.total /\ channel' = Append(channel, m)
             /\ m.sid.w = w /\ m.sid.site = site[w] /\ ToSet(m.rows) \subseteq Held(w)
    BY <1>5
  <2>2. ASSUME NEW i \in 1 .. Len(channel'), NEW u \in Workers
        PROVE  /\ channel'[i].index \in 1 .. channel'[i].total
               /\ channel'[i].sid.w = u =>
                    /\ channel'[i].sid.site <= site'[u]
                    /\ channel'[i].sid.site = site'[u] => ToSet(channel'[i].rows) \subseteq Held(u)'
    <3>1. CASE i \in 1 .. Len(channel)
      <4>1. channel'[i] = channel[i]
        BY <2>1, <3>1, <1>1, Appended
      <4> QED BY <4>1, <3>1, <1>3
    <3>2. CASE i = Len(channel) + 1
      <4>1. channel'[i] = m
        BY <2>1, <3>2, <1>1, Appended
      <4>2. site[w] \in Nat /\ Held(w) \subseteq Held(w)'
        BY <1>1, <1>2
      <4> QED BY <4>1, <4>2, <2>1
    <3> QED BY <3>1, <3>2, <2>1, <1>1, Appended
  <2> QED BY <2>2 DEF ChannelInv
<1> QED BY <1>4, <1>5

\* A step of one worker changes nothing of the others.
Apart(w) == \A u \in Workers \ {w} :
  /\ work'[u] = work[u] /\ db'[u] = db[u] /\ mark'[u] = mark[u] /\ site'[u] = site[u]
  /\ seq'[u] = seq[u] /\ known'[u] = known[u] /\ pub'[u] = pub[u]
  /\ stage'[u] = stage[u] /\ filed'[u] = filed[u]

LEMMA OthersKept ==
  ASSUME IInv, Typed', OnlyMore, NEW w \in Workers, Apart(w),
         bundles \subseteq bundles', faults <= faults', NEW u \in Workers \ {w}
  PROVE  OfWorker(u)'
<1>1. /\ work'[u] = work[u] /\ db'[u] = db[u] /\ mark'[u] = mark[u] /\ site'[u] = site[u]
      /\ seq'[u] = seq[u] /\ known'[u] = known[u] /\ pub'[u] = pub[u]
      /\ stage'[u] = stage[u] /\ filed'[u] = filed[u]
  BY DEF Apart
<1>2. Typed /\ MarkInv(u) /\ PubInv(u) /\ KnownInv(u) /\ StageInv(u) /\ FiledInv(u) /\ WorkInv(u)
  BY DEF IInv, OfWorker
<1>3. Grown(u) /\ Held(u)' = Held(u)
  BY <1>1, <1>2, SameDatabase DEF Typed
<1>4. MarkInv(u)'
  BY <1>1, <1>2, <1>3, MarkKept
<1>5. PubInv(u)'
  BY <1>1, <1>2, <1>3, PubKept
<1>6. KnownInv(u)'
  BY <1>1, <1>2, <1>3, KnownKept
<1>7. StageInv(u)'
  BY <1>1, <1>2, <1>3, StageKept
<1>8. FiledInv(u)'
  BY <1>1, <1>2, FiledKept
<1>9. WorkInv(u)'
  BY <1>1, <1>2, <1>3, WorkKept
<1> QED BY <1>4, <1>5, <1>6, <1>7, <1>8, <1>9 DEF OfWorker

LEMMA StepOf ==
  ASSUME IInv, Typed', OnlyMore, NEW w \in Workers, Apart(w),
         bundles \subseteq bundles', faults <= faults',
         ChannelInv', BundlesFit', OfWorker(w)'
  PROVE  IInv'
<1>1. \A u \in Workers : OfWorker(u)'
  BY OthersKept
<1> QED BY <1>1 DEF IInv

-----------------------------------------------------------------------------
(* Shards, and the commits that follow one                                  *)

\* What is exported are the rows above the watermarks.
LEMMA ShardFits ==
  ASSUME Typed, NEW w \in Workers, MarkInv(w)
  PROVE  /\ Shard(w) \in Uploads /\ Shard(w).pc = "send"
         /\ Len(Shard(w).parts) \in Nat \ {0}
         /\ InParts(Shard(w).parts)
            = UNION {{db[w][t][j] : j \in mark[w][t] + 1 .. Len(db[w][t])} : t \in Tables}
<1>1. ASSUME NEW t \in Tables
      PROVE  /\ db[w][t] \in Seq(Rows) /\ mark[w][t] \in 0 .. Len(db[w][t])
             /\ Len(db[w][t]) \in Nat
  BY DEF Typed, MarkInv, Databases
<1>2. ASSUME NEW t \in Tables
      PROVE  /\ Above(w, t) \in Seq(Rows)
             /\ ToSet(Above(w, t)) = {db[w][t][j] : j \in mark[w][t] + 1 .. Len(db[w][t])}
  <2>1. mark[w][t] + 1 \in 1 .. Len(db[w][t]) + 1
    BY <1>1
  <2>2. Len(db[w][t]) \in mark[w][t] + 1 - 1 .. Len(db[w][t])
    BY <1>1
  <2> DEFINE rows == db[w][t]
             lo == mark[w][t] + 1
  <2>3. rows \in Seq(Rows) /\ lo \in 1 .. Len(rows) + 1 /\ Len(rows) \in lo - 1 .. Len(rows)
    BY <1>1, <2>1, <2>2
  <2> HIDE DEF rows, lo
  <2>4. /\ SubSeq(rows, lo, Len(rows)) \in Seq(Rows)
        /\ ToSet(SubSeq(rows, lo, Len(rows))) = {rows[j] : j \in lo .. Len(rows)}
    BY <2>3, RowsBetween
  <2> QED BY <2>4 DEF Above, rows, lo
<1>3. /\ Exported(w) \in Seq(Rows)
      /\ ToSet(Exported(w)) = ToSet(Above(w, "claim")) \cup ToSet(Above(w, "vector"))
  BY <1>2, RowsOfConcat DEF Exported, Tables
<1>4. /\ Split(Exported(w)) \in Seq(Seq(Rows))
      /\ Len(Split(Exported(w))) \in Nat \ {0}
      /\ InParts(Split(Exported(w))) = ToSet(Exported(w))
  BY <1>3, SplitParts
<1>5. NextSid(w) \in ShardIds
  BY DEF Typed, NextSid, ShardIds
<1>6. [t \in Tables |-> Len(db[w][t])] \in [Tables -> Nat]
  BY <1>1
<1>7. Shard(w) \in Uploads /\ Shard(w).pc = "send" /\ Shard(w).parts = Split(Exported(w))
  BY <1>4, <1>5, <1>6 DEF Shard, Uploads
<1>8. UNION {{db[w][t][j] : j \in mark[w][t] + 1 .. Len(db[w][t])} : t \in Tables}
      = ToSet(Above(w, "claim")) \cup ToSet(Above(w, "vector"))
  BY <1>2 DEF Tables
<1> QED BY <1>3, <1>4, <1>7, <1>8

\* The shard that is about to be sent fits the database it was cut from.
LEMMA ShardStarts ==
  ASSUME Typed, Typed', NEW w \in Workers, MarkInv(w), pub'[w] = Shard(w),
         mark' = mark, db' = db, site' = site, seq' = seq
  PROVE  PubInv(w)'
<1>1. /\ Shard(w) \in Uploads /\ Shard(w).pc = "send"
      /\ Len(Shard(w).parts) \in Nat \ {0}
      /\ InParts(Shard(w).parts)
         = UNION {{db[w][t][j] : j \in mark[w][t] + 1 .. Len(db[w][t])} : t \in Tables}
  BY ShardFits
<1>2. /\ Shard(w).sid = NextSid(w) /\ Shard(w).sent = 0
      /\ \A t \in Tables : Shard(w).hi[t] = Len(db[w][t])
  BY DEF Shard
<1>3. NextSid(w)' = NextSid(w) /\ Held(w)' = Held(w)
  BY DEF NextSid, Held
<1>4. Uploaded(channel', Shard(w).sid, Shard(w).parts, 0)
  BY DEF Uploaded
<1>5. ASSUME NEW t \in Tables
      PROVE  /\ Len(db[w][t]) \in Nat /\ mark[w][t] \in Nat
             /\ \A j \in 1 .. Len(db[w][t]) : db[w][t][j] \in Held(w)
  BY HeldRows DEF Typed
<1>6. InParts(Shard(w).parts) \subseteq Held(w)
  <2>1. \A t \in Tables : \A j \in mark[w][t] + 1 .. Len(db[w][t]) : db[w][t][j] \in Held(w)
    BY <1>5
  <2> QED BY <2>1, <1>1
<1>7. \A t \in Tables : \A j \in 1 .. Len(db[w][t]) :
        j <= mark[w][t] \/ db[w][t][j] \in InParts(Shard(w).parts)
  <2>1. TAKE t \in Tables
  <2>2. TAKE j \in 1 .. Len(db[w][t])
  <2>3. j <= mark[w][t] \/ j \in mark[w][t] + 1 .. Len(db[w][t])
    BY <1>5
  <2> QED BY <2>3, <1>1
<1>8. \A t \in Tables : Len(db[w][t]) <= Len(db[w][t])
  BY <1>5
<1> HIDE DEF Shard
<1>9. /\ Uploaded(channel', Shard(w).sid, Shard(w).parts, Shard(w).sent)
      /\ Shard(w).sent < Len(Shard(w).parts) /\ Shard(w).sent <= Len(Shard(w).parts)
  BY <1>1, <1>2, <1>4
<1> QED BY <1>1, <1>2, <1>3, <1>6, <1>7, <1>8, <1>9 DEF PubInv

LEMMA Phases ==
  ASSUME Typed, NEW w \in Workers
  PROVE  /\ pub[w].pc \in {"send", "note", "refused", "commit"} => pub[w] \in Uploads /\ pub[w] # Idle
         /\ stage[w].pc \in {"send", "record"} =>
              stage[w] \in Snapshots /\ stage[w] # Idle /\ stage[w] # Delta
         /\ stage[w].pc = "delta" => stage[w] = Delta
         /\ Idle.pc = "idle" /\ Delta.pc = "delta" /\ Idle # Delta
<1>1. pub[w] \in Uploads \cup {Idle} /\ stage[w] \in Snapshots \cup {Idle, Delta}
  BY DEF Typed
<1>2. Idle.pc = "idle" /\ Delta.pc = "delta"
  BY DEF Idle, Delta
<1>3. \A s \in Snapshots : s.pc \in {"send", "record"}
  BY DEF Snapshots
<1> QED BY <1>1, <1>2, <1>3

\* Once its last part is up, the rows of a shard are out.
LEMMA SentIsOut ==
  ASSUME Typed, ChannelInv, NEW w \in Workers, PubInv(w), pub[w].pc = "commit"
  PROVE  \A r \in InParts(pub[w].parts) : OutIn(channel, r)
<1>1. pub[w] # Idle /\ channel \in Seq(Messages)
  BY Phases DEF Typed
<1>2. pub[w].parts \in Seq(Seq(Rows))
  BY Phases DEF Uploads
<1>3. /\ Uploaded(channel, pub[w].sid, pub[w].parts, Len(pub[w].parts))
      /\ Len(pub[w].parts) \in Nat \ {0}
  BY <1>1, <1>2 DEF PubInv
<1>4. \A i \in 1 .. Len(channel) : channel[i].index \in 1 .. channel[i].total
  BY DEF ChannelInv
<1> QED BY <1>1, <1>3, <1>4, UploadedIsOut

\* The watermarks after n of the commits.
LEMMA MarksCommitted ==
  ASSUME Typed, ChannelInv, NEW w \in Workers, MarkInv(w), PubInv(w),
         NEW n \in 0 .. Len(Commits), n > 0 => pub[w].pc = "commit", Committed(w, n),
         channel' = channel, db' = db
  PROVE  /\ mark' \in [Workers -> [Tables -> Nat]] /\ seq' \in [Workers -> Nat]
         /\ \A u \in Workers \ {w} : mark'[u] = mark[u] /\ seq'[u] = seq[u]
         /\ MarkInv(w)'
<1> DEFINE done == {Commits[i] : i \in 1 .. n}
<1>1. n = 0 => done = {}
  OBVIOUS
<1>2. /\ mark' = [mark EXCEPT ![w] = [t \in Tables |-> IF t \in done THEN pub[w].hi[t] ELSE @[t]]]
      /\ seq' = [seq EXCEPT ![w] = IF "seq" \in done THEN pub[w].sid.seq ELSE @]
  BY DEF Committed
<1> HIDE DEF done
<1>3. mark \in [Workers -> [Tables -> Nat]] /\ seq \in [Workers -> Nat]
  BY DEF Typed
<1>4. n > 0 => pub[w] # Idle /\ pub[w].hi \in [Tables -> Nat] /\ pub[w].sid.seq \in Nat
  BY Phases DEF Uploads, ShardIds
<1>5. \A t \in Tables : \/ mark'[w][t] = mark[w][t]
                        \/ n > 0 /\ mark'[w][t] = pub[w].hi[t]
  BY <1>1, <1>2, <1>3
<1>6. [t \in Tables |-> IF t \in done THEN pub[w].hi[t] ELSE mark[w][t]] \in [Tables -> Nat]
  BY <1>1, <1>3, <1>4
<1>7. mark' \in [Workers -> [Tables -> Nat]]
  BY <1>2, <1>3, <1>6
<1>8. seq' \in [Workers -> Nat]
  BY <1>1, <1>2, <1>3, <1>4
<1>9. \A u \in Workers \ {w} : mark'[u] = mark[u] /\ seq'[u] = seq[u]
  BY <1>2, <1>3
<1>10. ASSUME NEW t \in Tables
       PROVE  /\ mark'[w][t] <= Len(db[w][t])
              /\ \A j \in 1 .. mark'[w][t] : OutIn(channel, db[w][t][j])
  <2>1. mark[w][t] <= Len(db[w][t]) /\ \A j \in 1 .. mark[w][t] : OutIn(channel, db[w][t][j])
    BY DEF MarkInv, Out
  <2>2. CASE mark'[w][t] = mark[w][t]
    BY <2>1, <2>2
  <2>3. CASE n > 0 /\ mark'[w][t] = pub[w].hi[t]
    <3>1. /\ pub[w].hi[t] <= Len(db[w][t])
          /\ \A j \in 1 .. pub[w].hi[t] :
               j <= mark[w][t] \/ db[w][t][j] \in InParts(pub[w].parts)
      BY <2>3, <1>4 DEF PubInv
    <3>2. \A r \in InParts(pub[w].parts) : OutIn(channel, r)
      BY <2>3, SentIsOut
    <3>3. mark[w][t] \in Nat /\ pub[w].hi[t] \in Nat
      BY <2>3, <1>3, <1>4
    <3> QED BY <2>1, <2>3, <3>1, <3>2, <3>3
  <2> QED BY <2>2, <2>3, <1>5
<1>11. MarkInv(w)'
  BY <1>10 DEF MarkInv, Out
<1> QED BY <1>7, <1>8, <1>9, <1>11

\* What is filed after n of the commits that follow a stage bundle.
LEMMA FiledRecorded ==
  ASSUME Typed, NEW w \in Workers, StageInv(w), FiledInv(w),
         NEW n \in 0 .. Len(Records), n > 0 => stage[w].pc = "record", Recorded(w, n),
         bundles' = bundles, site' = site
  PROVE  /\ filed' \in [Workers -> Filings]
         /\ \A u \in Workers \ {w} : filed'[u] = filed[u]
         /\ FiledInv(w)'
<1> DEFINE done == {Records[i] : i \in 1 .. n}
           old == filed[w]
           new == [seq     |-> IF "seq" \in done THEN old.seq + 1 ELSE old.seq,
                   done    |-> IF "done" \in done
                               THEN [seq |-> old.seq + 1, rows |-> stage[w].rows] ELSE old.done,
                   sig     |-> old.sig \/ "sig" \in done,
                   pending |-> old.pending /\ "pending" \notin done]
<1>1. n = 0 => done = {}
  OBVIOUS
<1>2. filed' = [filed EXCEPT ![w] = new]
  BY DEF Recorded
<1> HIDE DEF done
<1>3. filed \in [Workers -> Filings] /\ old \in Filings
  BY DEF Typed
<1>4. /\ old.seq \in Nat /\ old.done \in [seq : Nat, rows : SUBSET Rows]
      /\ old.sig \in BOOLEAN /\ old.pending \in BOOLEAN
  BY <1>3 DEF Filings
<1>5. n > 0 => stage[w].rows \in SUBSET Rows
  BY Phases DEF Snapshots
<1>6. \/ new.done = old.done
      \/ n > 0 /\ new.done = [seq |-> old.seq + 1, rows |-> stage[w].rows]
  BY <1>1
<1>7. new.done \in [seq : Nat, rows : SUBSET Rows]
  BY <1>4, <1>5, <1>6
<1>8. new.seq \in Nat /\ new.sig \in BOOLEAN /\ new.pending \in BOOLEAN
  BY <1>4
<1>9. new \in Filings
  BY <1>7, <1>8 DEF Filings
<1> HIDE DEF new
<1>10. filed'[w] = new /\ filed' \in [Workers -> Filings]
       /\ \A u \in Workers \ {w} : filed'[u] = filed[u]
  BY <1>2, <1>3, <1>9
<1>11. ASSUME new.done.seq # 0
       PROVE  1 .. BundleParts(new.done.rows) \subseteq PartsThere(w, new.done.seq, new.done.rows)
  <2>1. CASE new.done = old.done
    BY <2>1, <1>11 DEF FiledInv
  <2>2. CASE n > 0 /\ new.done = [seq |-> old.seq + 1, rows |-> stage[w].rows]
    <3>1. /\ 1 .. stage[w].sent \subseteq PartsThere(w, old.seq + 1, stage[w].rows)
          /\ stage[w].sent = BundleParts(stage[w].rows)
      BY <2>2 DEF StageInv
    <3> QED BY <2>2, <3>1
  <2> QED BY <2>1, <2>2, <1>6
<1>12. FiledInv(w)'
  BY <1>10, <1>11 DEF FiledInv, PartsThere
<1> QED BY <1>10, <1>12

-----------------------------------------------------------------------------
(* The passes and the restore                                               *)

LEMMA NoStage ==
  ASSUME NEW w \in Workers, stage'[w] = Idle
  PROVE  StageInv(w)'
<1>1. Idle.pc \notin {"send", "record"} /\ Idle # Delta
  BY DEF Idle, Delta
<1> QED BY <1>1 DEF StageInv

\* A pass that is not done writes or is done, or is found done.
LEMMA PassMoves ==
  ASSUME IInv, NEW w \in Workers, work[w] # "done",
         work' \in [Workers -> States], \A u \in Workers \ {w} : work'[u] = work[u],
         db' \in Databases, Grown(w), \A u \in Workers \ {w} : db'[u] = db[u],
         Held(w)' # {},
         UNCHANGED <<mark, site, seq, known, pub, channel, staging, faults>>
  PROVE  IInv'
<1>1. Typed /\ ChannelInv /\ BundlesFit /\ MarkInv(w) /\ PubInv(w) /\ KnownInv(w)
      /\ StageInv(w) /\ FiledInv(w) /\ WorkInv(w)
  BY DEF IInv, OfWorker
<1>2. /\ mark' = mark /\ site' = site /\ seq' = seq /\ known' = known /\ pub' = pub
      /\ channel' = channel /\ stage' = stage /\ filed' = filed /\ bundles' = bundles
      /\ faults' = faults /\ faults <= faults'
  BY <1>1 DEF staging, Typed
<1>3. Typed'
  BY <1>1, <1>2 DEF Typed
<1>4. OnlyMore
  BY <1>1, <1>2, ChannelGrows DEF Typed
<1>5. \A u \in Workers : Grown(u)
  BY <1>1, SameDatabase DEF Typed
<1>6. ChannelInv'
  BY <1>1, <1>2, <1>3, <1>5, ChannelKept
<1>7. BundlesFit'
  BY <1>1, <1>2, <1>3, <1>4, BundlesKept
<1>8. MarkInv(w)' /\ PubInv(w)' /\ KnownInv(w)' /\ FiledInv(w)'
  BY <1>1, <1>2, <1>3, <1>4, MarkKept, PubKept, KnownKept, FiledKept
<1>9. StageInv(w)'
  BY <1>1, <1>2, NoStage DEF StageInv
<1>10. OfWorker(w)'
  BY <1>8, <1>9 DEF OfWorker, WorkInv
<1>11. Apart(w)
  BY <1>2 DEF Apart
<1> QED BY <1>2, <1>3, <1>4, <1>6, <1>7, <1>10, <1>11, StepOf

LEMMA WriteStep ==
  ASSUME IInv, NEW w \in Workers, NEW r \in Own(w), Write(w, r)
  PROVE  IInv'
<1>1. db \in Databases /\ work \in [Workers -> States]
  BY DEF IInv, Typed
<1>2. r \in Rows /\ r.t \in Tables
  BY ShardsAssumption DEF Own, Tables
<1>3. /\ work[w] # "done"
      /\ db' = [db EXCEPT ![w][r.t] = Append(@, r)]
      /\ work' \in [Workers -> States] /\ \A u \in Workers \ {w} : work'[u] = work[u]
      /\ UNCHANGED <<mark, site, seq, known, pub, channel, staging, faults>>
  BY <1>1 DEF Write, States
<1>4. db[w] \in [Tables -> Seq(Rows)] /\ db[w][r.t] \in Seq(Rows)
  BY <1>1, <1>2 DEF Databases
<1>5. /\ Append(db[w][r.t], r) \in Seq(Rows) /\ Len(Append(db[w][r.t], r)) = Len(db[w][r.t]) + 1
      /\ \A j \in 1 .. Len(db[w][r.t]) : Append(db[w][r.t], r)[j] = db[w][r.t][j]
      /\ ToSet(Append(db[w][r.t], r)) = ToSet(db[w][r.t]) \cup {r}
      /\ Len(db[w][r.t]) \in Nat
  BY <1>2, <1>4, RowsOfAppend
<1>6. db'[w] = [db[w] EXCEPT ![r.t] = Append(@, r)] /\ \A u \in Workers \ {w} : db'[u] = db[u]
  BY <1>1, <1>3 DEF Databases
<1>7. db' \in Databases
  BY <1>1, <1>2, <1>3, <1>4, <1>5 DEF Databases
<1>8. /\ db'[w][r.t] = Append(db[w][r.t], r)
      /\ \A t \in Tables \ {r.t} : db'[w][t] = db[w][t]
  BY <1>2, <1>4, <1>6
<1>9. Grown(w)
  <2>1. ASSUME NEW t \in Tables
        PROVE  /\ Len(db[w][t]) <= Len(db'[w][t])
               /\ \A j \in 1 .. Len(db[w][t]) : db'[w][t][j] = db[w][t][j]
    <3>1. Len(db[w][t]) \in Nat
      BY <1>1, HeldRows
    <3>2. CASE t = r.t
      BY <3>2, <1>5, <1>8
    <3>3. CASE t # r.t
      BY <3>1, <3>3, <1>8
    <3> QED BY <3>2, <3>3
  <2> QED BY <2>1 DEF Grown
<1>10. r \in Held(w)'
  BY <1>2, <1>5, <1>7, <1>8, HeldRowsNext
<1> QED BY <1>3, <1>6, <1>7, <1>9, <1>10, PassMoves

LEMMA PassStep ==
  ASSUME IInv, NEW w \in Workers, WriteAgain(w) \/ Reconcile(w)
  PROVE  IInv'
<1>1. db \in Databases /\ work \in [Workers -> States] /\ WorkInv(w)
  BY DEF IInv, Typed, OfWorker
<1>2. /\ work[w] # "done" /\ db' = db
      /\ work' \in [Workers -> States] /\ \A u \in Workers \ {w} : work'[u] = work[u]
      /\ UNCHANGED <<mark, site, seq, known, pub, channel, staging, faults>>
  BY <1>1 DEF WriteAgain, Reconcile, States
<1>3. Held(w) # {}
  BY <1>1 DEF WriteAgain, Reconcile, WorkInv
<1>4. Grown(w) /\ Held(w)' = Held(w) /\ \A u \in Workers \ {w} : db'[u] = db[u]
  BY <1>1, <1>2, SameDatabase
<1> QED BY <1>1, <1>2, <1>3, <1>4, PassMoves

LEMMA FaultCounted ==
  ASSUME Typed, NEW w \in Workers, Fault(w)
  PROVE  faults' \in 0 .. MaxFaults /\ faults <= faults' /\ faults' > 0
BY ShardsAssumption DEF Typed, Fault

\* The rows of a restored shard are added at the ends of the tables.
LEMMA ImportStep ==
  ASSUME IInv, NEW w \in Workers, Import(w)
  PROVE  IInv'
<1>1. Typed /\ ChannelInv /\ BundlesFit /\ MarkInv(w) /\ PubInv(w) /\ KnownInv(w)
      /\ StageInv(w) /\ FiledInv(w) /\ WorkInv(w)
  BY DEF IInv, OfWorker
<1>2. /\ work' = work /\ mark' = mark /\ site' = site /\ seq' = seq /\ pub' = pub
      /\ channel' = channel /\ stage' = stage /\ filed' = filed /\ bundles' = bundles
  BY <1>1 DEF Import, staging, Typed
<1>25. PICK s \in Oldest(w) : \E lost \in SUBSET (Restored(s) \ Held(w)) :
        /\ IF lost = {} THEN UNCHANGED faults ELSE Fault(w)
        /\ \E new \in {(Restored(s) \ Held(w)) \ lost} :
           \E c \in Listed(new, "claim"), v \in Listed(new, "vector") :
             db' = [db EXCEPT ![w]["claim"] = @ \o c, ![w]["vector"] = @ \o v]
        /\ known' = [known EXCEPT ![w] = @ \cup {Entry(s, lost)}]
  BY Zenon DEF Import
<1>3. PICK lost \in SUBSET (Restored(s) \ Held(w)) :
        /\ IF lost = {} THEN UNCHANGED faults ELSE Fault(w)
        /\ \E new \in {(Restored(s) \ Held(w)) \ lost} :
           \E c \in Listed(new, "claim"), v \in Listed(new, "vector") :
             db' = [db EXCEPT ![w]["claim"] = @ \o c, ![w]["vector"] = @ \o v]
        /\ known' = [known EXCEPT ![w] = @ \cup {Entry(s, lost)}]
  BY <1>25, Zenon
<1>26. faults' \in 0 .. MaxFaults /\ faults <= faults'
  <2>1. CASE lost = {}
    BY <2>1, <1>3, <1>1, ShardsAssumption DEF Typed
  <2>2. CASE lost # {}
    BY <2>2, <1>3, <1>1, FaultCounted
  <2> QED BY <2>1, <2>2
<1> DEFINE new == (Restored(s) \ Held(w)) \ lost
<1>4. PICK c \in Listed(new, "claim"), v \in Listed(new, "vector") :
        db' = [db EXCEPT ![w]["claim"] = @ \o c, ![w]["vector"] = @ \o v]
  BY <1>3
<1>5. s \in ShardIds /\ WholeIn(channel, s) /\ Restored(s) = RestoredIn(channel, s)
  <2>1. Wanted(w) # {} /\ s = channel[Min(Wanted(w))].sid
    BY DEF Oldest
  <2>2. \E m \in Wanted(w) : \A k \in Wanted(w) : m <= k
    <3>1. Wanted(w) \in SUBSET Nat
      BY DEF Wanted
    <3> QED BY <3>1, <2>1, HasLeast
  <2>3. Min(Wanted(w)) \in Wanted(w)
    BY <2>2 DEF Min
  <2>4. Min(Wanted(w)) \in 1 .. Len(channel) /\ Whole(s)
    BY <2>1, <2>3 DEF Wanted
  <2>5. channel[Min(Wanted(w))] \in Messages
    BY <2>4, <1>1 DEF Typed
  <2>6. s \in ShardIds
    BY <2>1, <2>5 DEF Messages
  <2> QED BY <2>4, <2>6, SameChannel
<1>6. new \subseteq Rows /\ IsFiniteSet(new) /\ lost \subseteq Rows
  <2>1. channel \in Seq(Messages)
    BY <1>1 DEF Typed
  <2>2. RestoredIn(channel, s) \subseteq Rows /\ IsFiniteSet(RestoredIn(channel, s))
    BY <2>1, RestoredRows
  <2>3. new \subseteq RestoredIn(channel, s) /\ lost \subseteq RestoredIn(channel, s)
    BY <1>3, <1>5
  <2> QED BY <2>2, <2>3, FS_Subset
<1> HIDE DEF new
<1>7. /\ c \in Seq(Rows) /\ ToSet(c) = {r \in new : r.t = "claim"}
      /\ v \in Seq(Rows) /\ ToSet(v) = {r \in new : r.t = "vector"}
  <2>1. ASSUME NEW t, NEW l \in Listed(new, t)
        PROVE  l \in Seq(Rows) /\ ToSet(l) = {r \in new : r.t = t}
    <3> DEFINE S == {r \in new : r.t = t}
    <3>1. IsFiniteSet(S) /\ S \subseteq Rows
      BY <1>6, FS_Subset
    <3>2. l \in SetToSeqs(S)
      BY DEF Listed
    <3> HIDE DEF S
    <3>3. l \in Seq(S) /\ ToSet(l) = S
      BY <3>1, <3>2, EnumerationIsWhole
    <3>4. l \in Seq(Rows)
      BY <3>1, <3>3
    <3> QED BY <3>3, <3>4 DEF S
  <2> QED BY <2>1
<1>8. db \in Databases /\ db[w] \in [Tables -> Seq(Rows)]
      /\ db[w]["claim"] \in Seq(Rows) /\ db[w]["vector"] \in Seq(Rows)
  BY <1>1 DEF Typed, Databases, Tables
<1>9. /\ db'[w]["claim"] = db[w]["claim"] \o c /\ db'[w]["vector"] = db[w]["vector"] \o v
      /\ \A u \in Workers \ {w} : db'[u] = db[u]
  BY <1>4, <1>8 DEF Databases, Tables
<1>10. /\ db[w]["claim"] \o c \in Seq(Rows) /\ db[w]["vector"] \o v \in Seq(Rows)
       /\ \A j \in 1 .. Len(db[w]["claim"]) : (db[w]["claim"] \o c)[j] = db[w]["claim"][j]
       /\ \A j \in 1 .. Len(db[w]["vector"]) : (db[w]["vector"] \o v)[j] = db[w]["vector"][j]
       /\ Len(db[w]["claim"] \o c) = Len(db[w]["claim"]) + Len(c)
       /\ Len(db[w]["vector"] \o v) = Len(db[w]["vector"]) + Len(v)
       /\ ToSet(db[w]["claim"] \o c) = ToSet(db[w]["claim"]) \cup ToSet(c)
       /\ ToSet(db[w]["vector"] \o v) = ToSet(db[w]["vector"]) \cup ToSet(v)
  BY <1>7, <1>8, RowsOfConcat
<1>11. db' \in Databases
  <2>1. db'[w] \in [Tables -> Seq(Rows)]
    BY <1>4, <1>8, <1>10 DEF Databases, Tables
  <2> QED BY <2>1, <1>4, <1>8, <1>9 DEF Databases
<1>12. Grown(w)
  <2>1. Len(db[w]["claim"]) \in Nat /\ Len(db[w]["vector"]) \in Nat /\ Len(c) \in Nat /\ Len(v) \in Nat
    BY <1>7, <1>8
  <2>2. /\ Len(db[w]["claim"]) <= Len(db'[w]["claim"])
        /\ Len(db[w]["vector"]) <= Len(db'[w]["vector"])
    BY <2>1, <1>9, <1>10
  <2> QED BY <2>2, <1>9, <1>10 DEF Grown, Tables
<1>13. Held(w)' = Held(w) \cup new
  <2>1. Held(w)' = ToSet(db'[w]["claim"]) \cup ToSet(db'[w]["vector"])
    BY DEF Held, Tables
  <2>2. Held(w) = ToSet(db[w]["claim"]) \cup ToSet(db[w]["vector"])
    BY DEF Held, Tables
  <2>3. \A r \in new : r.t \in {"claim", "vector"}
    BY <1>6, ShardsAssumption
  <2>4. ToSet(c) \cup ToSet(v) = new
    BY <2>3, <1>7
  <2> QED BY <2>1, <2>2, <2>4, <1>9, <1>10
<1> DEFINE entry == Entry(s, lost)
<1>27. entry \in Entries /\ entry.sid = s /\ entry.skipped = lost
  BY <1>5, <1>6 DEF Entry, Entries
<1>14. known' \in [Workers -> SUBSET Entries] /\ known'[w] = known[w] \cup {entry}
       /\ \A u \in Workers \ {w} : known'[u] = known[u]
  <2>1. known' = [known EXCEPT ![w] = @ \cup {entry}]
    BY <1>3
  <2> HIDE DEF entry
  <2> QED BY <2>1, <1>1, <1>27 DEF Typed
<1> HIDE DEF entry
<1>15. Typed'
  BY <1>1, <1>2, <1>11, <1>14, <1>26 DEF Typed
<1>16. OnlyMore
  BY <1>1, <1>2, ChannelGrows DEF Typed
<1>17. \A u \in Workers : Grown(u)
  BY <1>8, <1>9, <1>12, SameDatabase
<1>18. ChannelInv'
  BY <1>1, <1>2, <1>15, <1>17, ChannelKept
<1>19. BundlesFit'
  BY <1>1, <1>2, <1>15, <1>16, <1>26, BundlesKept
<1>20. MarkInv(w)' /\ PubInv(w)' /\ FiledInv(w)' /\ WorkInv(w)'
  BY <1>1, <1>2, <1>12, <1>15, <1>16, <1>26, MarkKept, PubKept, FiledKept, WorkKept
<1>21. KnownInv(w)'
  <2>1. RestoredIn(channel, s) \ Held(w)' \subseteq lost
    BY <1>5, <1>13 DEF new
  <2>2. ASSUME NEW k \in known'[w]
        PROVE  \/ k.sid.w = w /\ k.sid.site = site[w]
               \/ /\ WholeIn(channel, k.sid)
                  /\ RestoredIn(channel, k.sid) \ Held(w)' \subseteq k.skipped
    <3>1. CASE k \in known[w]
      BY <3>1, <1>1, <1>13 DEF KnownInv
    <3>2. CASE k = entry
      BY <3>2, <2>1, <1>5, <1>27
    <3> QED BY <3>1, <3>2, <1>14
  <2> QED BY <2>2, <1>2 DEF KnownInv
<1>22. StageInv(w)'
  <2>1. \A r \in new : OutIn(channel', r)
    <3>1. s \in SidsIn(channel)
      BY <1>5 DEF WholeIn
    <3> QED BY <3>1, <1>2, <1>5 DEF OutIn, new
  <2> QED BY <2>1, <1>1, <1>2, <1>12, <1>13, <1>15, <1>16, <1>26, StageKept
<1>23. OfWorker(w)'
  BY <1>20, <1>21, <1>22 DEF OfWorker
<1>24. Apart(w)
  BY <1>2, <1>9, <1>14 DEF Apart
<1> QED BY <1>2, <1>15, <1>16, <1>18, <1>19, <1>23, <1>24, <1>26, StepOf

-----------------------------------------------------------------------------
(* The upload of a shard                                                    *)

LEMMA PublishStarts ==
  ASSUME IInv, NEW w \in Workers, StartPublish(w)
  PROVE  IInv'
<1>1. Typed /\ ChannelInv /\ BundlesFit /\ MarkInv(w) /\ PubInv(w) /\ KnownInv(w)
      /\ StageInv(w) /\ FiledInv(w) /\ WorkInv(w)
  BY DEF IInv, OfWorker
<1>2. /\ work' = work /\ db' = db /\ mark' = mark /\ site' = site /\ seq' = seq
      /\ known' = known /\ channel' = channel /\ stage' = stage /\ filed' = filed
      /\ bundles' = bundles /\ faults' = faults /\ faults <= faults'
  BY <1>1 DEF StartPublish, staging, Typed
<1>3. stage[w] = Idle /\ pub' = [pub EXCEPT ![w] = Shard(w)]
  BY DEF StartPublish
<1>4. /\ pub' \in [Workers -> Uploads \cup {Idle}] /\ pub'[w] = Shard(w)
      /\ \A u \in Workers \ {w} : pub'[u] = pub[u]
  BY <1>1, <1>3, ShardFits DEF Typed
<1>5. Typed'
  BY <1>1, <1>2, <1>4 DEF Typed
<1>6. OnlyMore
  BY <1>1, <1>2, ChannelGrows DEF Typed
<1>7. \A u \in Workers : Grown(u) /\ Held(u)' = Held(u)
  BY <1>1, <1>2, SameDatabase DEF Typed
<1>8. ChannelInv'
  BY <1>1, <1>2, <1>5, <1>7, ChannelKept
<1>9. BundlesFit'
  BY <1>1, <1>2, <1>5, <1>6, BundlesKept
<1>10. MarkInv(w)' /\ KnownInv(w)' /\ FiledInv(w)' /\ WorkInv(w)'
  BY <1>1, <1>2, <1>5, <1>6, <1>7, MarkKept, KnownKept, FiledKept, WorkKept
<1>11. PubInv(w)'
  BY <1>1, <1>2, <1>4, <1>5, ShardStarts
<1>12. StageInv(w)'
  BY <1>2, <1>3, NoStage
<1>13. OfWorker(w)'
  BY <1>10, <1>11, <1>12 DEF OfWorker
<1>14. Apart(w)
  BY <1>2, <1>4 DEF Apart
<1> QED BY <1>2, <1>5, <1>6, <1>8, <1>9, <1>13, <1>14, StepOf

\* The next document is one of this database.
LEMMA DocumentFits ==
  ASSUME Typed, NEW w \in Workers, PubInv(w), pub[w].pc = "send"
  PROVE  LET m == Document(pub[w]) IN
         /\ m \in Messages /\ m.index \in 1 .. m.total
         /\ m.sid.w = w /\ m.sid.site = site[w] /\ ToSet(m.rows) \subseteq Held(w)
<1>1. pub[w] \in Uploads /\ pub[w] # Idle
  BY Phases
<1>2. /\ pub[w].parts \in Seq(Seq(Rows)) /\ pub[w].sent \in Nat /\ pub[w].sid \in ShardIds
      /\ Len(pub[w].parts) \in Nat
  BY <1>1 DEF Uploads
<1>3. /\ pub[w].sid = NextSid(w) /\ pub[w].sent < Len(pub[w].parts)
      /\ InParts(pub[w].parts) \subseteq Held(w)
  BY <1>1 DEF PubInv
<1>4. pub[w].sent + 1 \in 1 .. Len(pub[w].parts)
  BY <1>2, <1>3
<1>5. pub[w].parts[pub[w].sent + 1] \in Seq(Rows)
  BY <1>2, <1>4
<1>6. Document(pub[w]) \in Messages
  BY <1>2, <1>4, <1>5 DEF Document, Messages
<1>7. ToSet(pub[w].parts[pub[w].sent + 1]) \subseteq InParts(pub[w].parts)
  BY <1>4 DEF InParts
<1>8. pub[w].sid.w = w /\ pub[w].sid.site = site[w]
  BY <1>3 DEF NextSid
<1> QED BY <1>3, <1>4, <1>6, <1>7, <1>8 DEF Document

LEMMA UploadMoves ==
  ASSUME NEW p \in Uploads, NEW pc \in {"send", "note"}
  PROVE  [p EXCEPT !.sent = @ + 1, !.pc = pc] \in Uploads
<1> DEFINE n == p.sent + 1
<1>1. n \in Nat
  BY DEF Uploads
<1> HIDE DEF n
<1>2. [p EXCEPT !.sent = n, !.pc = pc] \in Uploads
  BY <1>1 DEF Uploads
<1> QED BY <1>2 DEF n

LEMMA SendStep ==
  ASSUME IInv, NEW w \in Workers, SendPart(w)
  PROVE  IInv'
<1>1. Typed /\ ChannelInv /\ BundlesFit /\ MarkInv(w) /\ PubInv(w) /\ KnownInv(w)
      /\ StageInv(w) /\ FiledInv(w) /\ WorkInv(w)
  BY DEF IInv, OfWorker
<1>2. /\ work' = work /\ db' = db /\ mark' = mark /\ site' = site /\ seq' = seq
      /\ known' = known /\ stage' = stage /\ filed' = filed /\ bundles' = bundles
      /\ faults' = faults /\ faults <= faults'
  BY <1>1 DEF SendPart, staging, Typed
<1> DEFINE p == pub[w]
           m == Document(p)
           last == p.sent + 1 = Len(p.parts)
<1>3. /\ p.pc = "send" /\ channel' = Append(channel, m)
      /\ pub' = [pub EXCEPT ![w].sent = @ + 1, ![w].pc = IF last THEN "note" ELSE "send"]
  BY DEF SendPart
<1>4. /\ m \in Messages /\ m.index \in 1 .. m.total
      /\ m.sid.w = w /\ m.sid.site = site[w] /\ ToSet(m.rows) \subseteq Held(w)
  BY <1>1, <1>3, DocumentFits
<1>5. /\ p \in Uploads /\ p # Idle /\ p.sid \in ShardIds /\ p.sent \in Nat
      /\ Len(p.parts) \in Nat
  BY <1>1, <1>3, Phases DEF Uploads
<1>6. /\ pub'[w] = [p EXCEPT !.sent = @ + 1, !.pc = IF last THEN "note" ELSE "send"]
      /\ \A u \in Workers \ {w} : pub'[u] = pub[u]
      /\ pub' \in [Workers -> Uploads \cup {Idle}]
  <2> DEFINE pc == IF last THEN "note" ELSE "send"
  <2>1. pub \in [Workers -> Uploads \cup {Idle}] /\ pc \in {"send", "note"}
    BY <1>1 DEF Typed
  <2> HIDE DEF pc
  <2>2. [p EXCEPT !.sent = @ + 1, !.pc = pc] \in Uploads
    BY <1>5, <2>1, UploadMoves
  <2>3. pub' = [pub EXCEPT ![w].sent = @ + 1, ![w].pc = pc]
    BY <1>3 DEF pc
  <2>4. /\ pub'[w] = [p EXCEPT !.sent = @ + 1, !.pc = pc]
        /\ \A u \in Workers \ {w} : pub'[u] = pub[u]
    BY <2>1, <2>3
  <2>5. pub' \in [Workers -> Uploads \cup {Idle}]
    <3>1. DOMAIN pub' = Workers /\ pub' = [u \in Workers |-> pub'[u]]
      BY <2>1, <2>3
    <3>2. \A u \in Workers : pub'[u] \in Uploads \cup {Idle}
      BY <2>1, <2>2, <2>4
    <3> QED BY <3>1, <3>2
  <2> QED BY <2>4, <2>5 DEF pc
<1>7. /\ pub'[w].sid = p.sid /\ pub'[w].parts = p.parts /\ pub'[w].sent = p.sent + 1
      /\ pub'[w].hi = p.hi /\ pub'[w].pc = (IF last THEN "note" ELSE "send")
      /\ pub'[w] # Idle
  BY <1>5, <1>6 DEF Uploads, Idle
<1>8. channel \in Seq(Messages) /\ channel' \in Seq(Messages)
  BY <1>1, <1>3, <1>4, Appended DEF Typed
<1>10. Typed'
  BY <1>1, <1>2, <1>6, <1>8 DEF Typed
<1>11. OnlyMore
  BY <1>3, <1>4, <1>8, ChannelGrows
<1>12. \A u \in Workers : Grown(u) /\ Held(u)' = Held(u)
  BY <1>1, <1>2, SameDatabase DEF Typed
<1>13. ChannelInv'
  <2>1. \E n \in Messages, u \in Workers :
          /\ n.index \in 1 .. n.total /\ channel' = Append(channel, n)
          /\ n.sid.w = u /\ n.sid.site = site[u] /\ ToSet(n.rows) \subseteq Held(u)
    BY <1>3, <1>4
  <2> QED BY <2>1, <1>1, <1>2, <1>10, <1>12, ChannelKept
<1>14. BundlesFit'
  BY <1>1, <1>2, <1>10, <1>11, BundlesKept
<1>15. MarkInv(w)' /\ KnownInv(w)' /\ FiledInv(w)' /\ WorkInv(w)'
  BY <1>1, <1>2, <1>10, <1>11, <1>12, MarkKept, KnownKept, FiledKept, WorkKept
<1>16. PubInv(w)'
  <2>1. /\ p.sid = NextSid(w) /\ Uploaded(channel, p.sid, p.parts, p.sent)
        /\ p.sent < Len(p.parts) /\ InParts(p.parts) \subseteq Held(w)
        /\ \A t \in Tables :
             /\ p.hi[t] <= Len(db[w][t])
             /\ \A j \in 1 .. p.hi[t] : j <= mark[w][t] \/ db[w][t][j] \in InParts(p.parts)
    BY <1>1, <1>3, <1>5 DEF PubInv
  <2>2. Uploaded(channel', p.sid, p.parts, p.sent)
    BY <2>1, <1>11 DEF OnlyMore
  <2>3. channel'[Len(channel) + 1] = m /\ Len(channel) + 1 \in 1 .. Len(channel')
    BY <1>3, <1>4, <1>8, Appended
  <2>4. m = [sid |-> p.sid, index |-> p.sent + 1, total |-> Len(p.parts),
             rows |-> p.parts[p.sent + 1]]
    BY DEF Document
  <2> HIDE DEF p, m
  <2>5. Uploaded(channel', p.sid, p.parts, p.sent + 1)
    <3>1. ASSUME NEW k \in 1 .. p.sent + 1
          PROVE  \E i \in 1 .. Len(channel') : channel'[i] =
                   [sid |-> p.sid, index |-> k, total |-> Len(p.parts), rows |-> p.parts[k]]
      <4>1. CASE k = p.sent + 1
        BY <4>1, <2>3, <2>4
      <4>2. CASE k \in 1 .. p.sent
        BY <4>2, <2>2 DEF Uploaded
      <4> QED BY <4>1, <4>2, <1>5
    <3> QED BY <3>1 DEF Uploaded
  <2>6. p.sent + 1 <= Len(p.parts) /\ Len(p.parts) > 0 /\ (~last => p.sent + 1 < Len(p.parts))
    BY <2>1, <1>5
  <2>7. NextSid(w)' = NextSid(w)
    BY <1>2 DEF NextSid
  <2> HIDE DEF last
  <2>8. last => p.sent + 1 = Len(p.parts)
    BY DEF last
  <2> QED BY <2>1, <2>5, <2>6, <2>7, <2>8, <1>2, <1>7, <1>12 DEF PubInv
<1>18. StageInv(w)'
  <2>1. stage[w] = Delta =>
          \/ faults' > 0
          \/ \A r \in Held(w)' : \/ OutIn(channel', r)
                                 \/ pub'[w] # Idle /\ r \in InParts(pub'[w].parts)
    BY <1>1, <1>2, <1>5, <1>7, <1>11, <1>12 DEF StageInv, Out, OnlyMore
  <2> QED BY <2>1, <1>1, <1>2, <1>10, <1>11, <1>12, StageGoesOn
<1>19. OfWorker(w)'
  BY <1>15, <1>16, <1>18 DEF OfWorker
<1>20. Apart(w)
  BY <1>2, <1>6 DEF Apart
<1> QED BY <1>2, <1>10, <1>11, <1>13, <1>14, <1>19, <1>20, StepOf

\* A refused upload: the parts that are up are up.
LEMMA UploadFailsStep ==
  ASSUME IInv, NEW w \in Workers, UploadFails(w)
  PROVE  IInv'
<1>1. Typed /\ ChannelInv /\ BundlesFit /\ MarkInv(w) /\ PubInv(w) /\ KnownInv(w)
      /\ StageInv(w) /\ FiledInv(w) /\ WorkInv(w)
  BY DEF IInv, OfWorker
<1>2. /\ work' = work /\ db' = db /\ mark' = mark /\ site' = site /\ seq' = seq
      /\ known' = known /\ stage' = stage /\ filed' = filed /\ bundles' = bundles
      /\ faults' \in 0 .. MaxFaults /\ faults <= faults' /\ faults' > 0
  BY <1>1, FaultCounted DEF UploadFails, staging
<1> DEFINE p == pub[w]
           m == Document(p)
<1>3. /\ p.pc = "send"
      /\ channel' = channel \/ channel' = Append(channel, m)
      /\ pub' = [pub EXCEPT ![w].pc = "refused"]
  BY DEF UploadFails
<1>4. /\ m \in Messages /\ m.index \in 1 .. m.total
      /\ m.sid.w = w /\ m.sid.site = site[w] /\ ToSet(m.rows) \subseteq Held(w)
  BY <1>1, <1>3, DocumentFits
<1>5. p \in Uploads /\ p # Idle
  BY <1>1, <1>3, Phases
<1>6. /\ pub'[w] = [p EXCEPT !.pc = "refused"] /\ \A u \in Workers \ {w} : pub'[u] = pub[u]
      /\ pub' \in [Workers -> Uploads \cup {Idle}]
  <2>1. pub \in [Workers -> Uploads \cup {Idle}]
    BY <1>1 DEF Typed
  <2>2. /\ pub'[w] = [p EXCEPT !.pc = "refused"] /\ \A u \in Workers \ {w} : pub'[u] = pub[u]
        /\ DOMAIN pub' = Workers /\ pub' = [u \in Workers |-> pub'[u]]
    BY <2>1, <1>3
  <2>3. [p EXCEPT !.pc = "refused"] \in Uploads
    BY <1>5 DEF Uploads
  <2>4. \A u \in Workers : pub'[u] \in Uploads \cup {Idle}
    BY <2>1, <2>2, <2>3
  <2> QED BY <2>2, <2>4
<1>7. /\ pub'[w].sid = p.sid /\ pub'[w].parts = p.parts /\ pub'[w].sent = p.sent
      /\ pub'[w].hi = p.hi /\ pub'[w].pc = "refused" /\ pub'[w] # Idle
  BY <1>5, <1>6 DEF Uploads, Idle
<1>8. channel \in Seq(Messages) /\ channel' \in Seq(Messages)
  <2>1. channel \in Seq(Messages)
    BY <1>1 DEF Typed
  <2> HIDE DEF m
  <2>2. Append(channel, m) \in Seq(Messages)
    BY <2>1, <1>4, Appended
  <2> QED BY <2>1, <2>2, <1>3
<1>9. Typed'
  BY <1>1, <1>2, <1>6, <1>8 DEF Typed
<1>10. OnlyMore
  BY <1>3, <1>4, <1>8, ChannelGrows
<1>11. \A u \in Workers : Grown(u) /\ Held(u)' = Held(u)
  BY <1>1, <1>2, SameDatabase DEF Typed
<1>12. ChannelInv'
  <2>1. \/ channel' = channel
        \/ \E n \in Messages, u \in Workers :
             /\ n.index \in 1 .. n.total /\ channel' = Append(channel, n)
             /\ n.sid.w = u /\ n.sid.site = site[u] /\ ToSet(n.rows) \subseteq Held(u)
    BY <1>3, <1>4
  <2> QED BY <2>1, <1>1, <1>2, <1>9, <1>11, ChannelKept
<1>13. BundlesFit'
  BY <1>1, <1>2, <1>9, <1>10, BundlesKept
<1>14. MarkInv(w)' /\ KnownInv(w)' /\ FiledInv(w)' /\ WorkInv(w)'
  BY <1>1, <1>2, <1>9, <1>10, <1>11, MarkKept, KnownKept, FiledKept, WorkKept
<1>15. PubInv(w)'
  <2>1. /\ p.sid = NextSid(w) /\ Uploaded(channel, p.sid, p.parts, p.sent)
        /\ p.sent <= Len(p.parts) /\ InParts(p.parts) \subseteq Held(w)
        /\ \A t \in Tables :
             /\ p.hi[t] <= Len(db[w][t])
             /\ \A j \in 1 .. p.hi[t] : j <= mark[w][t] \/ db[w][t][j] \in InParts(p.parts)
    BY <1>1, <1>5 DEF PubInv
  <2>2. Uploaded(channel', p.sid, p.parts, p.sent)
    BY <2>1, <1>10 DEF OnlyMore
  <2>3. NextSid(w)' = NextSid(w)
    BY <1>2 DEF NextSid
  <2> HIDE DEF p, m
  <2> QED BY <2>1, <2>2, <2>3, <1>2, <1>7, <1>11 DEF PubInv
<1>17. StageInv(w)'
  BY <1>1, <1>2, <1>9, <1>10, <1>11, StageGoesOn
<1>18. OfWorker(w)'
  BY <1>14, <1>15, <1>17 DEF OfWorker
<1>19. Apart(w)
  BY <1>2, <1>6 DEF Apart
<1> QED BY <1>2, <1>9, <1>10, <1>12, <1>13, <1>18, <1>19, StepOf

\* The shard is listed: after a refused part that is all, and something went wrong.
LEMMA NoteStep ==
  ASSUME IInv, NEW w \in Workers, Note(w)
  PROVE  IInv'
<1>1. Typed /\ ChannelInv /\ BundlesFit /\ MarkInv(w) /\ PubInv(w) /\ KnownInv(w)
      /\ StageInv(w) /\ FiledInv(w) /\ WorkInv(w)
  BY DEF IInv, OfWorker
<1>2. /\ work' = work /\ db' = db /\ mark' = mark /\ site' = site /\ seq' = seq
      /\ channel' = channel /\ stage' = stage /\ filed' = filed /\ bundles' = bundles
      /\ faults' = faults /\ faults <= faults'
  BY <1>1 DEF Note, staging, Typed
<1> DEFINE p == pub[w]
           entry == Entry(p.sid, {})
           after == AfterNote(p)
<1>3. /\ p.pc \in {"note", "refused"}
      /\ known' = [known EXCEPT ![w] = @ \cup {entry}]
      /\ pub' = [pub EXCEPT ![w] = after]
  BY DEF Note
<1>4. p \in Uploads /\ p # Idle /\ p.sid \in ShardIds
  BY <1>1, <1>3, Phases DEF Uploads
<1>5. entry \in Entries /\ entry.sid = p.sid
  BY <1>4 DEF Entry, Entries
<1>6. \/ p.pc = "refused" /\ after = Idle
      \/ /\ p.pc = "note" /\ after \in Uploads /\ after # Idle /\ after.pc = "commit"
         /\ after.sid = p.sid /\ after.parts = p.parts /\ after.sent = p.sent
         /\ after.hi = p.hi
  <2>1. CASE p.pc = "refused"
    BY <2>1 DEF AfterNote
  <2>2. CASE p.pc = "note"
    <3>1. after = [p EXCEPT !.pc = "commit"]
      BY <2>2 DEF AfterNote
    <3> HIDE DEF after, p
    <3> QED BY <3>1, <2>2, <1>4 DEF Uploads, Idle
  <2> QED BY <2>1, <2>2, <1>3
<1> HIDE DEF entry, after
<1>7. /\ pub'[w] = after /\ \A u \in Workers \ {w} : pub'[u] = pub[u]
      /\ pub' \in [Workers -> Uploads \cup {Idle}]
  BY <1>1, <1>3, <1>6 DEF Typed
<1>8. /\ known' \in [Workers -> SUBSET Entries] /\ known'[w] = known[w] \cup {entry}
      /\ \A u \in Workers \ {w} : known'[u] = known[u]
  BY <1>1, <1>3, <1>5 DEF Typed
<1>9. Typed'
  BY <1>1, <1>2, <1>7, <1>8 DEF Typed
<1>10. OnlyMore
  BY <1>1, <1>2, ChannelGrows DEF Typed
<1>11. \A u \in Workers : Grown(u) /\ Held(u)' = Held(u)
  BY <1>1, <1>2, SameDatabase DEF Typed
<1>12. ChannelInv'
  BY <1>1, <1>2, <1>9, <1>11, ChannelKept
<1>13. BundlesFit'
  BY <1>1, <1>2, <1>9, <1>10, BundlesKept
<1>14. MarkInv(w)' /\ FiledInv(w)' /\ WorkInv(w)'
  BY <1>1, <1>2, <1>9, <1>10, <1>11, MarkKept, FiledKept, WorkKept
<1>15. PubInv(w)'
  <2>1. CASE p.pc = "refused" /\ after = Idle
    BY <2>1, <1>7 DEF PubInv
  <2>2. CASE /\ p.pc = "note" /\ after \in Uploads /\ after # Idle /\ after.pc = "commit"
             /\ after.sid = p.sid /\ after.parts = p.parts /\ after.sent = p.sent
             /\ after.hi = p.hi
    <3>1. /\ p.sid = NextSid(w) /\ Uploaded(channel, p.sid, p.parts, p.sent)
          /\ p.sent <= Len(p.parts) /\ p.sent = Len(p.parts) /\ Len(p.parts) > 0
          /\ InParts(p.parts) \subseteq Held(w)
          /\ \A t \in Tables :
               /\ p.hi[t] <= Len(db[w][t])
               /\ \A j \in 1 .. p.hi[t] : j <= mark[w][t] \/ db[w][t][j] \in InParts(p.parts)
      BY <2>2, <1>1, <1>4 DEF PubInv
    <3>2. NextSid(w)' = NextSid(w)
      BY <1>2 DEF NextSid
    <3> HIDE DEF p
    <3> QED BY <3>1, <3>2, <2>2, <1>2, <1>7, <1>11 DEF PubInv
  <2> QED BY <2>1, <2>2, <1>6
<1>16. KnownInv(w)'
  <2>1. p.sid.w = w /\ p.sid.site = site[w]
    BY <1>1, <1>4 DEF PubInv, NextSid
  <2>2. ASSUME NEW k \in known'[w]
        PROVE  \/ k.sid.w = w /\ k.sid.site = site[w]
               \/ /\ WholeIn(channel, k.sid)
                  /\ RestoredIn(channel, k.sid) \ Held(w) \subseteq k.skipped
    <3>1. CASE k \in known[w]
      BY <3>1, <1>1 DEF KnownInv
    <3>2. CASE k = entry
      BY <3>2, <2>1, <1>5
    <3> QED BY <3>1, <3>2, <1>8
  <2> QED BY <2>2, <1>2, <1>11 DEF KnownInv
<1>17. StageInv(w)'
  <2>1. stage[w] = Delta => \/ faults > 0
                            \/ \A r \in Held(w) : OutIn(channel, r) \/ r \in InParts(p.parts)
    BY <1>1 DEF StageInv, Out
  <2>2. p.pc = "refused" => faults > 0
    BY <1>1, <1>4 DEF PubInv
  <2>3. stage[w] = Delta => \/ faults > 0
                            \/ \A r \in Held(w) : \/ OutIn(channel, r)
                                                  \/ after # Idle /\ r \in InParts(after.parts)
    BY <2>1, <2>2, <1>6
  <2> QED BY <2>3, <1>1, <1>2, <1>7, <1>9, <1>10, <1>11, StageGoesOn
<1>18. OfWorker(w)'
  BY <1>14, <1>15, <1>16, <1>17 DEF OfWorker
<1>19. Apart(w)
  BY <1>2, <1>7, <1>8 DEF Apart
<1> QED BY <1>2, <1>9, <1>10, <1>12, <1>13, <1>18, <1>19, StepOf

LEMMA MoveMarksStep ==
  ASSUME IInv, NEW w \in Workers, MoveMarks(w)
  PROVE  IInv'
<1>1. Typed /\ ChannelInv /\ BundlesFit /\ MarkInv(w) /\ PubInv(w) /\ KnownInv(w)
      /\ StageInv(w) /\ FiledInv(w) /\ WorkInv(w)
  BY DEF IInv, OfWorker
<1>2. /\ work' = work /\ db' = db /\ site' = site /\ known' = known /\ channel' = channel
      /\ stage' = stage /\ filed' = filed /\ bundles' = bundles
      /\ faults' = faults /\ faults <= faults'
  BY <1>1 DEF MoveMarks, staging, Typed
<1>3. /\ pub[w].pc = "commit" /\ pub' = [pub EXCEPT ![w] = Idle]
      /\ Committed(w, Len(Commits)) /\ Len(Commits) \in 0 .. Len(Commits)
  BY DEF MoveMarks, Commits
<1>4. /\ mark' \in [Workers -> [Tables -> Nat]] /\ seq' \in [Workers -> Nat]
      /\ \A u \in Workers \ {w} : mark'[u] = mark[u] /\ seq'[u] = seq[u]
      /\ MarkInv(w)'
  <2> HIDE DEF Commits
  <2> QED BY <1>1, <1>2, <1>3, MarksCommitted
<1>5. /\ pub'[w] = Idle /\ \A u \in Workers \ {w} : pub'[u] = pub[u]
      /\ pub' \in [Workers -> Uploads \cup {Idle}]
  BY <1>1, <1>3 DEF Typed
<1>6. Typed'
  BY <1>1, <1>2, <1>4, <1>5 DEF Typed
<1>7. OnlyMore
  BY <1>1, <1>2, ChannelGrows DEF Typed
<1>8. \A u \in Workers : Grown(u) /\ Held(u)' = Held(u)
  BY <1>1, <1>2, SameDatabase DEF Typed
<1>9. ChannelInv'
  BY <1>1, <1>2, <1>6, <1>8, ChannelKept
<1>10. BundlesFit'
  BY <1>1, <1>2, <1>6, <1>7, BundlesKept
<1>11. PubInv(w)' /\ KnownInv(w)' /\ FiledInv(w)' /\ WorkInv(w)'
  BY <1>1, <1>2, <1>5, <1>6, <1>7, <1>8, KnownKept, FiledKept, WorkKept DEF PubInv
<1>12. StageInv(w)'
  <2>1. \A r \in InParts(pub[w].parts) : OutIn(channel, r)
    BY <1>1, <1>3, SentIsOut
  <2>2. stage[w] = Delta => \/ faults > 0
                            \/ \A r \in Held(w) : OutIn(channel, r)
    BY <2>1, <1>1 DEF StageInv, Out
  <2> QED BY <2>2, <1>1, <1>2, <1>6, <1>7, <1>8, StageGoesOn
<1>13. OfWorker(w)'
  BY <1>4, <1>11, <1>12 DEF OfWorker
<1>14. Apart(w)
  BY <1>2, <1>4, <1>5 DEF Apart
<1> QED BY <1>2, <1>6, <1>7, <1>9, <1>10, <1>13, <1>14, StepOf

-----------------------------------------------------------------------------
(* Stage bundles                                                            *)

\* Nothing above the watermarks: all rows are out.
LEMMA NoNewsIsOut ==
  ASSUME Typed, NEW w \in Workers, MarkInv(w), ~News(w)
  PROVE  \A r \in Held(w) : OutIn(channel, r)
<1>1. ASSUME NEW r \in Held(w) PROVE OutIn(channel, r)
  <2>1. PICK t \in Tables : \E j \in 1 .. Len(db[w][t]) : r = db[w][t][j]
    BY HeldRows DEF Typed
  <2>2. PICK j \in 1 .. Len(db[w][t]) : r = db[w][t][j]
    BY <2>1
  <2>3. /\ db[w][t] \in Seq(Rows) /\ Len(db[w][t]) \in Nat /\ mark[w][t] \in Nat
        /\ mark[w][t] <= Len(db[w][t])
        /\ \A k \in 1 .. mark[w][t] : OutIn(channel, db[w][t][k])
    BY HeldRows DEF Typed, MarkInv, Out, Databases
  <2>4. ~(mark[w][t] < Len(db[w][t]))
    <3>1. SubSeq(db[w][t], mark[w][t] + 1, Len(db[w][t])) = <<>>
      BY DEF News, Above
    <3> DEFINE rows == db[w][t]
               n == Len(db[w][t])
               lo == mark[w][t]
    <3>2. rows \in Seq(Rows) /\ n = Len(rows) /\ n \in Nat /\ lo \in Nat
      BY <2>3
    <3> HIDE DEF rows, n, lo
    <3>3. lo < n => Len(SubSeq(rows, lo + 1, n)) = n - lo
      BY <3>2
    <3>4. SubSeq(rows, lo + 1, n) = <<>>
      BY <3>1 DEF rows, n, lo
    <3>5. Len(<<>>) = 0
      OBVIOUS
    <3>6. ~(lo < n)
      BY <3>2, <3>3, <3>4, <3>5
    <3> QED BY <3>6 DEF n, lo
  <2> QED BY <2>2, <2>3, <2>4
<1> QED BY <1>1

LEMMA StageBeginsStep ==
  ASSUME IInv, NEW w \in Workers, StageBegins(w)
  PROVE  IInv'
<1>1. Typed /\ ChannelInv /\ BundlesFit /\ MarkInv(w) /\ PubInv(w) /\ KnownInv(w)
      /\ StageInv(w) /\ FiledInv(w) /\ WorkInv(w)
  BY DEF IInv, OfWorker
<1>2. /\ work' = work /\ db' = db /\ mark' = mark /\ site' = site /\ seq' = seq
      /\ known' = known /\ channel' = channel /\ filed' = filed
      /\ bundles' = bundles /\ faults' = faults /\ faults <= faults'
  BY <1>1 DEF StageBegins, Typed
<1>3. /\ pub[w] = Idle /\ stage[w] = Idle /\ work[w] = "done"
      /\ stage' = [stage EXCEPT ![w] = Delta]
      /\ pub' = IF News(w) THEN [pub EXCEPT ![w] = Shard(w)] ELSE pub
  BY DEF StageBegins, StageDue, Delta
<1>4. /\ pub' \in [Workers -> Uploads \cup {Idle}]
      /\ pub'[w] = IF News(w) THEN Shard(w) ELSE Idle
      /\ \A u \in Workers \ {w} : pub'[u] = pub[u]
  BY <1>1, <1>3, ShardFits DEF Typed
<1>5. /\ stage' \in [Workers -> Snapshots \cup {Idle, Delta}] /\ stage'[w] = Delta
      /\ \A u \in Workers \ {w} : stage'[u] = stage[u]
  BY <1>1, <1>3 DEF Typed
<1>6. Typed'
  BY <1>1, <1>2, <1>4, <1>5 DEF Typed
<1>7. OnlyMore
  BY <1>1, <1>2, ChannelGrows DEF Typed
<1>8. \A u \in Workers : Grown(u) /\ Held(u)' = Held(u)
  BY <1>1, <1>2, SameDatabase DEF Typed
<1>9. ChannelInv'
  BY <1>1, <1>2, <1>6, <1>8, ChannelKept
<1>10. BundlesFit'
  BY <1>1, <1>2, <1>6, <1>7, BundlesKept
<1>11. MarkInv(w)' /\ KnownInv(w)' /\ FiledInv(w)' /\ WorkInv(w)'
  BY <1>1, <1>2, <1>6, <1>7, <1>8, MarkKept, KnownKept, FiledKept, WorkKept
<1>12. PubInv(w)'
  <2>1. CASE News(w)
    BY <2>1, <1>1, <1>2, <1>4, <1>6, ShardStarts
  <2>2. CASE ~News(w)
    BY <2>2, <1>4 DEF PubInv
  <2> QED BY <2>1, <2>2
<1>13. StageInv(w)'
  <2>1. Held(w) # {}
    BY <1>1, <1>3 DEF WorkInv
  <2>2. CASE ~News(w)
    <3>1. \A r \in Held(w) : OutIn(channel, r)
      BY <2>2, <1>1, NoNewsIsOut
    <3> QED BY <3>1, <2>1, <1>2, <1>3, <1>5, <1>8 DEF StageInv, Out, Delta
  <2>3. CASE News(w)
    <3>1. ASSUME NEW r \in Held(w)
          PROVE  OutIn(channel, r) \/ r \in InParts(Shard(w).parts)
      <4>1. PICK t \in Tables : \E j \in 1 .. Len(db[w][t]) : r = db[w][t][j]
        BY <1>1, HeldRows DEF Typed
      <4>2. PICK j \in 1 .. Len(db[w][t]) : r = db[w][t][j]
        BY <4>1
      <4>3. Len(db[w][t]) \in Nat /\ mark[w][t] \in Nat
            /\ \A k \in 1 .. mark[w][t] : OutIn(channel, db[w][t][k])
        BY <1>1, HeldRows DEF Typed, MarkInv, Out
      <4>4. j \in 1 .. mark[w][t] \/ j \in mark[w][t] + 1 .. Len(db[w][t])
        BY <4>3
      <4>5. InParts(Shard(w).parts)
            = UNION {{db[w][x][k] : k \in mark[w][x] + 1 .. Len(db[w][x])} : x \in Tables}
        BY <1>1, ShardFits
      <4> QED BY <4>2, <4>3, <4>4, <4>5
    <3>2. pub'[w] = Shard(w) /\ Shard(w) # Idle
      <4>1. Shard(w).pc = "send"
        BY <1>1, ShardFits
      <4> QED BY <4>1, <2>3, <1>4 DEF Idle
    <3> QED BY <3>1, <3>2, <2>1, <1>2, <1>3, <1>5, <1>8 DEF StageInv, Out, Delta
  <2> QED BY <2>2, <2>3
<1>14. OfWorker(w)'
  BY <1>11, <1>12, <1>13 DEF OfWorker
<1>15. Apart(w)
  BY <1>2, <1>4, <1>5 DEF Apart
<1> QED BY <1>2, <1>6, <1>7, <1>9, <1>10, <1>14, <1>15, StepOf

\* A snapshot that is not empty has a part at least.
LEMMA SnapshotHasParts ==
  ASSUME db \in Databases, NEW w \in Workers, Held(w) # {}
  PROVE  BundleParts(Held(w)) \in Nat \ {0}
<1>1. db[w]["claim"] \in Seq(Rows) /\ db[w]["vector"] \in Seq(Rows)
  BY DEF Databases, Tables
<1>2. IsFiniteSet(ToSet(db[w]["claim"])) /\ IsFiniteSet(ToSet(db[w]["vector"]))
  BY <1>1, RowsOf
<1>3. Held(w) = ToSet(db[w]["claim"]) \cup ToSet(db[w]["vector"])
  BY DEF Held, Tables
<1>4. IsFiniteSet(Held(w))
  BY <1>2, <1>3, FS_Union
<1>5. Cardinality(Held(w)) \in Nat /\ Cardinality(Held(w)) # 0
  BY <1>4, FS_CardinalityType, FS_EmptySet
<1> DEFINE n == Cardinality(Held(w))
<1>6. n \in Nat \ {0}
  BY <1>5
<1> HIDE DEF n
<1>7. (n + PartRows - 1) \div PartRows \in Nat \ {0}
  BY <1>6, PartBounds
<1> QED BY <1>7 DEF n, BundleParts

\* A step that only concerns the stage of a worker.
LEMMA StageMoves ==
  ASSUME IInv, Typed', NEW w \in Workers,
         UNCHANGED <<work, db, mark, site, seq, known, pub, channel>>,
         \A u \in Workers \ {w} : stage'[u] = stage[u] /\ filed'[u] = filed[u],
         bundles \subseteq bundles', faults <= faults',
         BundlesFit', StageInv(w)', FiledInv(w)'
  PROVE  IInv'
<1>1. Typed /\ ChannelInv /\ BundlesFit /\ MarkInv(w) /\ PubInv(w) /\ KnownInv(w) /\ WorkInv(w)
  BY DEF IInv, OfWorker
<1>2. OnlyMore
  BY <1>1, ChannelGrows DEF Typed
<1>3. \A u \in Workers : Grown(u) /\ Held(u)' = Held(u)
  BY <1>1, SameDatabase DEF Typed
<1>4. ChannelInv'
  BY <1>1, <1>3, ChannelKept
<1>5. MarkInv(w)' /\ PubInv(w)' /\ KnownInv(w)' /\ WorkInv(w)'
  BY <1>1, <1>2, <1>3, MarkKept, PubKept, KnownKept, WorkKept
<1>6. OfWorker(w)'
  BY <1>5 DEF OfWorker
<1>7. Apart(w)
  BY DEF Apart
<1> QED BY <1>2, <1>4, <1>6, <1>7, StepOf

LEMMA StageCutStep ==
  ASSUME IInv, NEW w \in Workers, StageCut(w)
  PROVE  IInv'
<1>1. Typed /\ BundlesFit /\ MarkInv(w) /\ StageInv(w) /\ FiledInv(w)
  BY DEF IInv, OfWorker
<1>2. /\ UNCHANGED <<work, db, mark, site, seq, known, pub, channel>>
      /\ filed' = filed /\ bundles' = bundles /\ faults' = faults /\ faults <= faults'
  BY <1>1 DEF StageCut, Typed
<1> DEFINE cut == [pc |-> "send", rows |-> Held(w), behind |-> News(w), sent |-> 0]
<1>3. stage[w] = Delta /\ pub[w] = Idle /\ stage' = [stage EXCEPT ![w] = cut]
  BY <1>1, Phases DEF StageCut
<1>4. Held(w) \subseteq Rows /\ News(w) \in BOOLEAN
  BY <1>1, HeldRows DEF Typed, News
<1>5. cut \in Snapshots
  BY <1>4 DEF Snapshots
<1>6. /\ stage' \in [Workers -> Snapshots \cup {Idle, Delta}] /\ stage'[w] = cut
      /\ \A u \in Workers \ {w} : stage'[u] = stage[u]
  <2> HIDE DEF cut
  <2> QED BY <1>1, <1>3, <1>5 DEF Typed
<1>7. Typed'
  BY <1>1, <1>2, <1>6 DEF Typed
<1>8. BundlesFit'
  BY <1>1, <1>2, <1>7, BundlesKept, ChannelGrows DEF Typed
<1>9. StageInv(w)'
  <2>1. work[w] = "done" /\ Held(w) # {} /\ Idle # Delta
    BY <1>1, <1>3, Phases DEF StageInv
  <2>2. BundleParts(Held(w)) \in Nat \ {0}
    BY <2>1, <1>1, SnapshotHasParts DEF Typed
  <2>3. \/ News(w) /\ faults > 0
        \/ \A r \in Held(w) : OutIn(channel, r)
    <3>1. CASE ~News(w)
      BY <3>1, <1>1, NoNewsIsOut
    <3>2. CASE News(w)
      BY <3>2, <1>1, <1>3 DEF StageInv, Out
    <3> QED BY <3>1, <3>2
  <2>4. Held(w)' = Held(w)
    BY <1>2 DEF Held
  <2>5. 1 .. 0 = {} /\ 0 <= BundleParts(Held(w)) /\ 0 < BundleParts(Held(w))
    BY <2>2
  <2>6. /\ cut.pc = "send" /\ cut.rows = Held(w) /\ cut.behind = News(w) /\ cut.sent = 0
        /\ cut # Delta
    BY DEF Delta
  <2> HIDE DEF cut
  <2> QED BY <2>1, <2>2, <2>3, <2>4, <2>5, <2>6, <1>2, <1>6 DEF StageInv, Out
<1>10. FiledInv(w)'
  BY <1>1, <1>2, FiledKept
<1> QED BY <1>2, <1>6, <1>7, <1>8, <1>9, <1>10, StageMoves

\* The next part of the bundle is of its snapshot.
LEMMA PartFits ==
  ASSUME Typed, NEW w \in Workers, StageInv(w), stage[w].pc = "send"
  PROVE  LET b == BundlePart(w) IN
         /\ b \in BundleDocs /\ b.total = BundleParts(b.rows) /\ b.index \in 1 .. b.total
         /\ \/ b.behind /\ faults > 0
            \/ \A r \in b.rows : OutIn(channel, r)
<1>1. stage[w] \in Snapshots
  BY Phases
<1>2. stage[w].rows \in SUBSET Rows /\ stage[w].behind \in BOOLEAN /\ stage[w].sent \in Nat
  BY <1>1 DEF Snapshots
<1>3. /\ BundleParts(stage[w].rows) \in Nat \ {0} /\ stage[w].sent < BundleParts(stage[w].rows)
      /\ \/ stage[w].behind /\ faults > 0
         \/ \A r \in stage[w].rows : OutIn(channel, r)
  BY DEF StageInv, Out
<1>4. site[w] \in Nat /\ filed[w].seq \in Nat
  BY DEF Typed, Filings
<1>5. stage[w].sent + 1 \in 1 .. BundleParts(stage[w].rows) /\ filed[w].seq + 1 \in Nat
  BY <1>2, <1>3, <1>4
<1>6. BundlePart(w) \in BundleDocs
  BY <1>2, <1>3, <1>4, <1>5 DEF BundlePart, BundleDocs
<1> QED BY <1>3, <1>5, <1>6 DEF BundlePart

\* A part more, of the bundle of the stage in hand.
LEMMA PartSent ==
  ASSUME Typed, Typed', OnlyMore, BundlesFit, NEW w \in Workers,
         StageInv(w), stage[w].pc = "send",
         bundles' \in {bundles, bundles \cup {BundlePart(w)}}, faults <= faults'
  PROVE  BundlesFit'
<1>1. faults \in Nat /\ faults' \in Nat /\ (faults > 0 => faults' > 0)
  BY ShardsAssumption DEF Typed
<1>2. \A b \in bundles : /\ b.total = BundleParts(b.rows) /\ b.index \in 1 .. b.total
                         /\ \/ b.behind /\ faults > 0
                            \/ \A r \in b.rows : OutIn(channel, r)
  BY DEF BundlesFit, Out
<1> DEFINE new == BundlePart(w)
<1>3. /\ new.total = BundleParts(new.rows) /\ new.index \in 1 .. new.total
      /\ \/ new.behind /\ faults > 0
         \/ \A r \in new.rows : OutIn(channel, r)
  BY PartFits
<1> HIDE DEF new
<1>4. \A b \in bundles' : b \in bundles \/ b = new
  BY DEF new
<1>5. ASSUME NEW b \in bundles'
      PROVE  /\ b.total = BundleParts(b.rows) /\ b.index \in 1 .. b.total
             /\ \/ b.behind /\ faults' > 0
                \/ \A r \in b.rows : OutIn(channel', r)
  BY <1>1, <1>2, <1>3, <1>4 DEF OnlyMore
<1> QED BY <1>5 DEF BundlesFit, Out

LEMMA SnapshotMoves ==
  ASSUME NEW s \in Snapshots, NEW pc \in {"send", "record"}
  PROVE  [s EXCEPT !.sent = @ + 1, !.pc = pc] \in Snapshots
<1> DEFINE n == s.sent + 1
<1>1. n \in Nat
  BY DEF Snapshots
<1> HIDE DEF n
<1>2. [s EXCEPT !.sent = n, !.pc = pc] \in Snapshots
  BY <1>1 DEF Snapshots
<1> QED BY <1>2 DEF n

LEMMA StageSendStep ==
  ASSUME IInv, NEW w \in Workers, StageSend(w)
  PROVE  IInv'
<1>1. Typed /\ BundlesFit /\ StageInv(w) /\ FiledInv(w)
  BY DEF IInv, OfWorker
<1>2. /\ UNCHANGED <<work, db, mark, site, seq, known, pub, channel>>
      /\ filed' = filed /\ faults' = faults /\ faults <= faults'
  BY <1>1 DEF StageSend, Typed
<1> DEFINE s == stage[w]
           b == BundlePart(w)
           pc == IF b.index = b.total THEN "record" ELSE "send"
<1>3. /\ s.pc = "send" /\ bundles' = bundles \cup {b}
      /\ stage' = [stage EXCEPT ![w].sent = @ + 1, ![w].pc = pc]
  BY DEF StageSend
<1>4. s \in Snapshots /\ s # Idle /\ s # Delta
  BY <1>1, <1>3, Phases
<1>5. pc \in {"send", "record"} /\ stage \in [Workers -> Snapshots \cup {Idle, Delta}]
  BY <1>1 DEF Typed
<1>6. b \in BundleDocs
  BY <1>1, <1>3, PartFits
<1>7. /\ b.by = w /\ b.site = site[w] /\ b.seq = filed[w].seq + 1 /\ b.rows = s.rows
      /\ b.index = s.sent + 1 /\ b.total = BundleParts(s.rows)
  BY DEF BundlePart
<1> HIDE DEF pc, b
<1>8. [s EXCEPT !.sent = @ + 1, !.pc = pc] \in Snapshots
  BY <1>4, <1>5, SnapshotMoves
<1>9. /\ stage'[w] = [s EXCEPT !.sent = @ + 1, !.pc = pc]
      /\ \A u \in Workers \ {w} : stage'[u] = stage[u]
  BY <1>3, <1>5
<1>10. stage' \in [Workers -> Snapshots \cup {Idle, Delta}]
  <2>1. stage' = [u \in Workers |-> stage'[u]]
    BY <1>3, <1>5
  <2>2. \A u \in Workers : stage'[u] \in Snapshots \cup {Idle, Delta}
    BY <1>5, <1>8, <1>9
  <2> QED BY <2>1, <2>2
<1>11. Typed'
  BY <1>1, <1>2, <1>3, <1>6, <1>10 DEF Typed
<1>12. BundlesFit'
  <2>1. bundles' \in {bundles, bundles \cup {BundlePart(w)}}
    BY <1>3 DEF b
  <2> QED BY <2>1, <1>1, <1>2, <1>3, <1>11, PartSent, ChannelGrows DEF Typed
<1>13. StageInv(w)'
  <2>1. /\ stage'[w].pc = pc /\ stage'[w].rows = s.rows /\ stage'[w].behind = s.behind
        /\ stage'[w].sent = s.sent + 1 /\ s.sent \in Nat /\ stage'[w] # Delta
    BY <1>4, <1>5, <1>8, <1>9 DEF Snapshots, Delta
  <2>2. /\ work[w] = "done" /\ Held(w) # {}
        /\ BundleParts(s.rows) \in Nat \ {0}
        /\ 1 .. s.sent \subseteq PartsThere(w, filed[w].seq + 1, s.rows)
        /\ s.sent < BundleParts(s.rows)
        /\ \/ s.behind /\ faults > 0
           \/ \A r \in s.rows : OutIn(channel, r)
    BY <1>1, <1>3, <1>4 DEF StageInv, Out
  <2> HIDE DEF s
  <2>3. s.sent + 1 \in {x.index : x \in {x \in bundles' :
          x.by = w /\ x.site = site[w] /\ x.seq = filed[w].seq + 1 /\ x.rows = s.rows}}
    BY <1>3, <1>7
  <2>4. 1 .. s.sent + 1 \subseteq {x.index : x \in {x \in bundles' :
          x.by = w /\ x.site = site[w] /\ x.seq = filed[w].seq + 1 /\ x.rows = s.rows}}
    <3>1. \A k \in 1 .. s.sent + 1 : k \in 1 .. s.sent \/ k = s.sent + 1
      BY <2>1
    <3>2. PartsThere(w, filed[w].seq + 1, s.rows) \subseteq {x.index : x \in {x \in bundles' :
            x.by = w /\ x.site = site[w] /\ x.seq = filed[w].seq + 1 /\ x.rows = s.rows}}
      BY <1>3 DEF PartsThere
    <3> QED BY <3>1, <3>2, <2>2, <2>3
  <2>5. 1 .. stage'[w].sent \subseteq PartsThere(w, filed[w].seq + 1, stage[w].rows)'
    BY <2>1, <2>4, <1>2 DEF PartsThere, s
  <2>6. Held(w)' = Held(w)
    BY <1>2 DEF Held
  <2>7. /\ s.sent + 1 <= BundleParts(s.rows)
        /\ pc = "send" => s.sent + 1 < BundleParts(s.rows)
        /\ pc = "record" => s.sent + 1 = BundleParts(s.rows)
    BY <2>1, <2>2, <1>7 DEF pc
  <2> QED BY <2>1, <2>2, <2>5, <2>6, <2>7, <1>2, <1>5 DEF StageInv, Out
<1>14. FiledInv(w)'
  BY <1>1, <1>2, <1>3, FiledKept
<1> QED BY <1>2, <1>3, <1>9, <1>11, <1>12, <1>13, <1>14, StageMoves

LEMMA StageFailsStep ==
  ASSUME IInv, NEW w \in Workers, StageFails(w)
  PROVE  IInv'
<1>1. Typed /\ BundlesFit /\ StageInv(w) /\ FiledInv(w)
  BY DEF IInv, OfWorker
<1>2. /\ UNCHANGED <<work, db, mark, site, seq, known, pub, channel>>
      /\ stage[w].pc = "send" /\ stage' = [stage EXCEPT ![w] = Idle]
      /\ filed' = [filed EXCEPT ![w].pending = TRUE]
      /\ bundles' \in {bundles, bundles \cup {BundlePart(w)}}
  BY DEF StageFails, MarkStagePending
<1>3. faults' \in 0 .. MaxFaults /\ faults <= faults'
  BY <1>1, FaultCounted DEF StageFails
<1>4. BundlePart(w) \in BundleDocs
  BY <1>1, <1>2, PartFits
<1>5. bundles \subseteq bundles' /\ bundles' \in SUBSET BundleDocs
  BY <1>1, <1>2, <1>4 DEF Typed
<1>6. /\ stage'[w] = Idle /\ \A u \in Workers \ {w} : stage'[u] = stage[u]
      /\ stage' \in [Workers -> Snapshots \cup {Idle, Delta}]
  BY <1>1, <1>2 DEF Typed
<1>7. /\ filed' \in [Workers -> Filings] /\ filed'[w].done = filed[w].done
      /\ \A u \in Workers \ {w} : filed'[u] = filed[u]
  <2>1. filed \in [Workers -> Filings] /\ filed[w] \in Filings
    BY <1>1 DEF Typed
  <2>2. [filed[w] EXCEPT !.pending = TRUE] \in Filings
        /\ [filed[w] EXCEPT !.pending = TRUE].done = filed[w].done
    BY <2>1 DEF Filings
  <2>3. filed' = [filed EXCEPT ![w] = [filed[w] EXCEPT !.pending = TRUE]]
    BY <2>1, <1>2
  <2> QED BY <2>1, <2>2, <2>3
<1>8. Typed'
  BY <1>1, <1>2, <1>3, <1>5, <1>6, <1>7 DEF Typed
<1>9. BundlesFit'
  BY <1>1, <1>2, <1>3, <1>8, PartSent, ChannelGrows DEF Typed
<1>10. StageInv(w)'
  BY <1>6, NoStage
<1>11. FiledInv(w)'
  BY <1>1, <1>2, <1>5, <1>7 DEF FiledInv, PartsThere
<1> QED BY <1>2, <1>3, <1>5, <1>6, <1>7, <1>8, <1>9, <1>10, <1>11, StageMoves

LEMMA StageRecordStep ==
  ASSUME IInv, NEW w \in Workers, StageRecord(w)
  PROVE  IInv'
<1>1. Typed /\ BundlesFit /\ StageInv(w) /\ FiledInv(w)
  BY DEF IInv, OfWorker
<1>2. /\ UNCHANGED <<work, db, mark, site, seq, known, pub, channel>>
      /\ stage[w].pc = "record" /\ stage' = [stage EXCEPT ![w] = Idle]
      /\ Recorded(w, Len(Records)) /\ Len(Records) \in 0 .. Len(Records)
      /\ bundles' = bundles /\ faults' = faults /\ faults <= faults'
  BY <1>1 DEF StageRecord, Typed, Records
<1>3. /\ stage'[w] = Idle /\ \A u \in Workers \ {w} : stage'[u] = stage[u]
      /\ stage' \in [Workers -> Snapshots \cup {Idle, Delta}]
  BY <1>1, <1>2 DEF Typed
<1>4. /\ filed' \in [Workers -> Filings] /\ \A u \in Workers \ {w} : filed'[u] = filed[u]
      /\ FiledInv(w)'
  BY <1>1, <1>2, FiledRecorded
<1>5. Typed'
  BY <1>1, <1>2, <1>3, <1>4 DEF Typed
<1>6. BundlesFit'
  BY <1>1, <1>2, <1>5, BundlesKept, ChannelGrows DEF Typed
<1>7. StageInv(w)'
  BY <1>3, NoStage
<1> QED BY <1>2, <1>3, <1>4, <1>5, <1>6, <1>7, StageMoves

-----------------------------------------------------------------------------
(* Deaths and lost disks                                                    *)

LEMMA DieStep ==
  ASSUME IInv, NEW w \in Workers, Die(w)
  PROVE  IInv'
<1>1. Typed /\ ChannelInv /\ BundlesFit /\ MarkInv(w) /\ PubInv(w) /\ KnownInv(w)
      /\ StageInv(w) /\ FiledInv(w) /\ WorkInv(w)
  BY DEF IInv, OfWorker
<1>2. /\ db' = db /\ site' = site /\ known' = known /\ channel' = channel /\ bundles' = bundles
      /\ pub' = [pub EXCEPT ![w] = Idle] /\ stage' = [stage EXCEPT ![w] = Idle]
      /\ work' = [work EXCEPT ![w] = IF @ = "running" THEN "queued" ELSE @]
  BY DEF Die
<1>3. faults' \in 0 .. MaxFaults /\ faults <= faults'
  BY <1>1, FaultCounted DEF Die
<1>4. /\ mark' \in [Workers -> [Tables -> Nat]] /\ seq' \in [Workers -> Nat]
      /\ \A u \in Workers \ {w} : mark'[u] = mark[u] /\ seq'[u] = seq[u]
      /\ MarkInv(w)'
  <2>1. PICK n \in 0 .. Len(Commits) - 1 : (n > 0 => pub[w].pc = "commit") /\ Committed(w, n)
    BY DEF Die
  <2>2. n \in 0 .. Len(Commits)
    BY <2>1 DEF Commits
  <2> QED BY <2>1, <2>2, <1>1, <1>2, MarksCommitted
<1>5. /\ filed' \in [Workers -> Filings] /\ \A u \in Workers \ {w} : filed'[u] = filed[u]
      /\ FiledInv(w)'
  <2>1. PICK n \in 0 .. Len(Records) - 1 : (n > 0 => stage[w].pc = "record") /\ Recorded(w, n)
    BY DEF Die
  <2>2. n \in 0 .. Len(Records)
    BY <2>1 DEF Records
  <2> QED BY <2>1, <2>2, <1>1, <1>2, FiledRecorded
<1>6. /\ pub'[w] = Idle /\ pub' \in [Workers -> Uploads \cup {Idle}]
      /\ stage'[w] = Idle /\ stage' \in [Workers -> Snapshots \cup {Idle, Delta}]
      /\ work' \in [Workers -> States] /\ (work'[w] # "queued" => work[w] # "queued")
      /\ \A u \in Workers \ {w} : pub'[u] = pub[u] /\ stage'[u] = stage[u] /\ work'[u] = work[u]
  BY <1>1, <1>2 DEF Typed, States
<1>7. Typed'
  BY <1>1, <1>2, <1>3, <1>4, <1>5, <1>6 DEF Typed
<1>8. OnlyMore
  BY <1>1, <1>2, ChannelGrows DEF Typed
<1>9. \A u \in Workers : Grown(u) /\ Held(u)' = Held(u)
  BY <1>1, <1>2, SameDatabase DEF Typed
<1>10. ChannelInv'
  BY <1>1, <1>2, <1>7, <1>9, ChannelKept
<1>11. BundlesFit'
  BY <1>1, <1>2, <1>3, <1>7, <1>8, BundlesKept
<1>12. PubInv(w)'
  BY <1>6 DEF PubInv
<1>13. KnownInv(w)'
  BY <1>1, <1>2, <1>7, <1>8, <1>9, KnownKept
<1>14. StageInv(w)'
  BY <1>6, NoStage
<1>15. WorkInv(w)'
  BY <1>1, <1>6, <1>9 DEF WorkInv
<1>16. OfWorker(w)'
  BY <1>4, <1>5, <1>12, <1>13, <1>14, <1>15 DEF OfWorker
<1>17. Apart(w)
  BY <1>2, <1>4, <1>5, <1>6 DEF Apart
<1> QED BY <1>2, <1>3, <1>7, <1>8, <1>10, <1>11, <1>16, <1>17, StepOf

LEMMA DiskGoneStep ==
  ASSUME IInv, NEW w \in Workers, DiskGone(w)
  PROVE  IInv'
<1>1. Typed /\ ChannelInv /\ BundlesFit
  BY DEF IInv
<1>2. /\ work' = [work EXCEPT ![w] = "queued"]
      /\ db' = [db EXCEPT ![w] = [t \in Tables |-> <<>>]]
      /\ mark' = [mark EXCEPT ![w] = [t \in Tables |-> 0]]
      /\ site' = [site EXCEPT ![w] = @ + 1] /\ seq' = [seq EXCEPT ![w] = 0]
      /\ known' = [known EXCEPT ![w] = {}] /\ pub' = [pub EXCEPT ![w] = Idle]
      /\ stage' = [stage EXCEPT ![w] = Idle] /\ filed' = [filed EXCEPT ![w] = NotFiled]
      /\ channel' = channel /\ bundles' = bundles
  BY DEF DiskGone
<1>3. faults' \in 0 .. MaxFaults /\ faults <= faults'
  BY <1>1, FaultCounted DEF DiskGone
<1>4. /\ [t \in Tables |-> <<>>] \in [Tables -> Seq(Rows)]
      /\ [t \in Tables |-> 0] \in [Tables -> Nat]
      /\ NotFiled \in Filings /\ NotFiled.done.seq = 0
  BY DEF NotFiled, Filings
<1>5. /\ work' \in [Workers -> States] /\ work'[w] = "queued"
      /\ seq' \in [Workers -> Nat]
      /\ known' \in [Workers -> SUBSET Entries] /\ known'[w] = {}
      /\ pub' \in [Workers -> Uploads \cup {Idle}] /\ pub'[w] = Idle
      /\ stage' \in [Workers -> Snapshots \cup {Idle, Delta}] /\ stage'[w] = Idle
      /\ \A u \in Workers \ {w} : /\ work'[u] = work[u] /\ seq'[u] = seq[u]
                                  /\ known'[u] = known[u] /\ pub'[u] = pub[u]
                                  /\ stage'[u] = stage[u]
  BY <1>1, <1>2 DEF Typed, States
<1>6. /\ db' \in Databases /\ db'[w] = [t \in Tables |-> <<>>]
      /\ mark' \in [Workers -> [Tables -> Nat]] /\ mark'[w] = [t \in Tables |-> 0]
      /\ site' \in [Workers -> Nat] /\ site'[w] = site[w] + 1 /\ site[w] \in Nat
      /\ filed' \in [Workers -> Filings] /\ filed'[w] = NotFiled
      /\ \A u \in Workers \ {w} : /\ db'[u] = db[u] /\ mark'[u] = mark[u]
                                  /\ site'[u] = site[u] /\ filed'[u] = filed[u]
  <2>1. /\ db \in [Workers -> [Tables -> Seq(Rows)]] /\ mark \in [Workers -> [Tables -> Nat]]
        /\ site \in [Workers -> Nat] /\ filed \in [Workers -> Filings]
    BY <1>1 DEF Typed, Databases
  <2>2. db' \in [Workers -> [Tables -> Seq(Rows)]]
    BY <2>1, <1>2, <1>4
  <2>3. mark' \in [Workers -> [Tables -> Nat]]
    BY <2>1, <1>2, <1>4
  <2> QED BY <2>1, <2>2, <2>3, <1>2, <1>4 DEF Databases
<1>7. Typed'
  BY <1>1, <1>2, <1>3, <1>5, <1>6 DEF Typed
<1>8. OnlyMore
  BY <1>1, <1>2, ChannelGrows DEF Typed
<1>9. ChannelInv'
  <2>1. ASSUME NEW i \in 1 .. Len(channel), NEW u \in Workers
        PROVE  /\ channel[i].index \in 1 .. channel[i].total
               /\ channel[i].sid.w = u =>
                    /\ channel[i].sid.site <= site'[u]
                    /\ channel[i].sid.site = site'[u] => ToSet(channel[i].rows) \subseteq Held(u)'
    <3>1. channel[i].sid.site \in Nat
      <4>1. channel[i] \in Messages
        BY <1>1 DEF Typed
      <4> QED BY <4>1 DEF Messages, ShardIds
    <3>2. CASE u = w
      <4>1. /\ channel[i].index \in 1 .. channel[i].total
            /\ channel[i].sid.w = w => channel[i].sid.site <= site[w]
        BY <1>1 DEF ChannelInv
      <4>2. site'[w] = site[w] + 1 /\ site[w] \in Nat
        BY <1>6
      <4> QED BY <3>1, <3>2, <4>1, <4>2
    <3>3. CASE u # w
      <4>1. site'[u] = site[u] /\ Held(u)' = Held(u)
        BY <3>3, <1>6 DEF Held
      <4> QED BY <4>1, <1>1 DEF ChannelInv
    <3> QED BY <3>2, <3>3
  <2> QED BY <2>1, <1>2 DEF ChannelInv
<1>10. BundlesFit'
  BY <1>1, <1>2, <1>3, <1>7, <1>8, BundlesKept
<1>11. MarkInv(w)'
  <2>1. \A t \in Tables : mark'[w][t] = 0 /\ Len(db'[w][t]) = 0
    BY <1>6
  <2> QED BY <2>1 DEF MarkInv
<1>12. PubInv(w)' /\ KnownInv(w)' /\ WorkInv(w)'
  BY <1>5 DEF PubInv, KnownInv, WorkInv
<1>13. StageInv(w)'
  BY <1>5, NoStage
<1>14. FiledInv(w)'
  BY <1>4, <1>6 DEF FiledInv
<1>15. OfWorker(w)'
  BY <1>11, <1>12, <1>13, <1>14 DEF OfWorker
<1>16. Apart(w)
  BY <1>5, <1>6 DEF Apart
<1> QED BY <1>2, <1>3, <1>7, <1>8, <1>9, <1>10, <1>15, <1>16, StepOf

-----------------------------------------------------------------------------
(* The invariant, and what it says                                          *)

LEMMA InitIInv == Init => IInv
<1> SUFFICES ASSUME Init PROVE IInv
  OBVIOUS
<1>1. /\ work = [w \in Workers |-> "queued"]
      /\ db = [w \in Workers |-> [t \in Tables |-> <<>>]]
      /\ mark = [w \in Workers |-> [t \in Tables |-> 0]]
      /\ site = [w \in Workers |-> 1] /\ seq = [w \in Workers |-> 0]
      /\ known = [w \in Workers |-> {}] /\ pub = [w \in Workers |-> Idle] /\ channel = <<>>
      /\ stage = [w \in Workers |-> Idle] /\ filed = [w \in Workers |-> NotFiled]
      /\ bundles = {} /\ faults = 0
  BY DEF Init
<1>2. NotFiled \in Filings /\ NotFiled.done.seq = 0
  BY DEF NotFiled, Filings
<1>3. db \in Databases /\ mark \in [Workers -> [Tables -> Nat]]
  BY <1>1 DEF Databases
<1>4. channel \in Seq(Messages) /\ Len(channel) = 0
  BY <1>1
<1>5. Typed
  BY <1>1, <1>2, <1>3, <1>4, ShardsAssumption DEF Typed, States
<1>6. ChannelInv /\ BundlesFit
  BY <1>1, <1>4 DEF ChannelInv, BundlesFit
<1>7. ASSUME NEW w \in Workers PROVE OfWorker(w)
  <2>1. MarkInv(w)
    <3>1. \A t \in Tables : mark[w][t] = 0 /\ Len(db[w][t]) = 0
      BY <1>1
    <3> QED BY <3>1 DEF MarkInv
  <2>2. PubInv(w) /\ KnownInv(w) /\ WorkInv(w)
    BY <1>1 DEF PubInv, KnownInv, WorkInv
  <2>3. StageInv(w)
    <3>1. Idle.pc \notin {"send", "record"} /\ Idle # Delta
      BY DEF Idle, Delta
    <3> QED BY <3>1, <1>1 DEF StageInv
  <2>4. FiledInv(w)
    BY <1>1, <1>2 DEF FiledInv
  <2> QED BY <2>1, <2>2, <2>3, <2>4 DEF OfWorker
<1> QED BY <1>5, <1>6, <1>7 DEF IInv

LEMMA StutterStep ==
  ASSUME IInv, UNCHANGED vars
  PROVE  IInv'
<1>1. /\ work' = work /\ db' = db /\ mark' = mark /\ site' = site /\ seq' = seq
      /\ known' = known /\ pub' = pub /\ channel' = channel /\ stage' = stage
      /\ filed' = filed /\ bundles' = bundles /\ faults' = faults /\ faults <= faults'
  BY DEF vars, staging, IInv, Typed
<1>2. Typed'
  BY <1>1 DEF IInv, Typed
<1>3. Typed /\ BundlesFit
  BY DEF IInv
<1>4. PICK w \in Workers : TRUE
  BY ShardsAssumption
<1>5. BundlesFit' /\ StageInv(w)' /\ FiledInv(w)'
  <2>1. StageInv(w) /\ FiledInv(w)
    BY DEF IInv, OfWorker
  <2>2. OnlyMore
    BY <1>1, <1>3, ChannelGrows DEF Typed
  <2>3. Grown(w) /\ Held(w)' = Held(w)
    BY <1>1, <1>3, SameDatabase DEF Typed
  <2>4. BundlesFit'
    BY <2>2, <1>1, <1>2, <1>3, BundlesKept
  <2>5. StageInv(w)'
    BY <2>1, <2>2, <2>3, <1>1, <1>2, <1>3, StageKept
  <2>6. FiledInv(w)'
    BY <2>1, <1>1, FiledKept
  <2> QED BY <2>4, <2>5, <2>6
<1> QED BY <1>1, <1>2, <1>5, StageMoves

LEMMA NextIInv == IInv /\ [Next]_vars => IInv'
<1> SUFFICES ASSUME IInv, [Next]_vars PROVE IInv'
  OBVIOUS
<1>1. CASE UNCHANGED vars
  BY <1>1, StutterStep
<1>2. CASE Next
  <2>1. PICK w \in Workers : \/ Work(w) \/ Publish(w) \/ UploadFails(w)
                             \/ Stage(w) \/ StageFails(w)
                             \/ Import(w)
                             \/ Die(w) \/ DiskGone(w)
    BY <1>2 DEF Next
  <2>2. CASE Work(w)
    <3>1. CASE Reconcile(w) \/ WriteAgain(w)
      BY <3>1, PassStep
    <3>2. CASE \E r \in Own(w) : Write(w, r)
      BY <3>2, WriteStep
    <3> QED BY <2>2, <3>1, <3>2 DEF Work
  <2>3. CASE Publish(w)
    BY <2>3, PublishStarts, SendStep, NoteStep, MoveMarksStep DEF Publish
  <2>4. CASE UploadFails(w)
    BY <2>4, UploadFailsStep
  <2>5. CASE Stage(w)
    BY <2>5, StageBeginsStep, StageCutStep, StageSendStep, StageRecordStep DEF Stage
  <2>6. CASE StageFails(w)
    BY <2>6, StageFailsStep
  <2>7. CASE Import(w)
    BY <2>7, ImportStep
  <2>8. CASE Die(w)
    BY <2>8, DieStep
  <2>9. CASE DiskGone(w)
    BY <2>9, DiskGoneStep
  <2> QED BY <2>1, <2>2, <2>3, <2>4, <2>5, <2>6, <2>7, <2>8, <2>9
<1> QED BY <1>1, <1>2

LEMMA IInvTyped == IInv => ShardsTypeOK
<1> SUFFICES ASSUME IInv PROVE ShardsTypeOK
  OBVIOUS
<1>1. Typed /\ BundlesFit /\ \A w \in Workers : MarkInv(w)
  BY DEF IInv, OfWorker
<1>2. \A w \in Workers, t \in Tables : mark[w][t] \in 0 .. Len(db[w][t])
  BY <1>1, HeldRows DEF Typed, MarkInv
<1>3. ASSUME NEW w \in Workers
      PROVE  /\ site[w] \in Nat /\ seq[w] \in Nat
             /\ pub[w].pc \in {"idle", "send", "note", "refused", "commit"}
             /\ stage[w].pc \in {"idle", "delta", "send", "record"}
  BY <1>1 DEF Typed, Uploads, Snapshots, Idle, Delta
<1>4. \A b \in bundles : b.by \in Workers /\ b.index \in 1 .. b.total
  BY <1>1 DEF Typed, BundlesFit, BundleDocs
<1> QED BY <1>1, <1>2, <1>3, <1>4 DEF ShardsTypeOK, Typed, States, Databases

\* Out is what the properties allow: readable, or sharing a reused shard id.
LEMMA OutMeans ==
  ASSUME NEW r, OutIn(channel, r), r \notin Readable
  PROVE  \E i \in 1 .. Len(channel) : r \in ToSet(channel[i].rows) /\ Reused(channel[i].sid)
BY SameChannel DEF OutIn

LEMMA IInvRestorable == IInv => WatermarkIsRestorable
<1> SUFFICES ASSUME IInv, NEW w \in Workers, NEW r \in Published(w) \ Readable
             PROVE  \E i \in 1 .. Len(channel) :
                      r \in ToSet(channel[i].rows) /\ Reused(channel[i].sid)
  BY DEF WatermarkIsRestorable
<1>1. Typed /\ MarkInv(w)
  BY DEF IInv, OfWorker
<1>2. PICK t \in Tables : r \in ToSet(SubSeq(db[w][t], 1, mark[w][t]))
  BY DEF Published
<1> DEFINE rows == db[w][t]
           n == mark[w][t]
<1>3. rows \in Seq(Rows) /\ n \in 1 - 1 .. Len(rows) /\ 1 \in 1 .. Len(rows) + 1
  BY <1>1, HeldRows DEF Typed, MarkInv, Databases
<1>4. ToSet(SubSeq(rows, 1, n)) = {rows[j] : j \in 1 .. n}
  <2> HIDE DEF rows, n
  <2> QED BY <1>3, RowsBetween
<1>5. PICK j \in 1 .. n : r = rows[j]
  BY <1>2, <1>4
<1>6. OutIn(channel, r)
  BY <1>1, <1>5 DEF MarkInv, Out
<1> QED BY <1>6, OutMeans

LEMMA IInvKnown == IInv => KnownIsHeld
<1> SUFFICES ASSUME IInv, NEW w \in Workers, NEW k \in known[w]
             PROVE  Restored(k.sid) \ Held(w) \subseteq k.skipped
  BY DEF KnownIsHeld
<1> DEFINE s == k.sid
<1>1. Typed /\ ChannelInv /\ KnownInv(w)
  BY DEF IInv, OfWorker
<1>2. Restored(s) = RestoredIn(channel, s)
  BY SameChannel
<1>3. CASE s.w = w /\ s.site = site[w]
  <2>1. ASSUME NEW r \in RestoredIn(channel, s) PROVE r \in Held(w)
    <3>1. PICK i \in 1 .. Len(channel) : channel[i].sid = s /\ r \in ToSet(channel[i].rows)
      BY <1>1, RestoredRows DEF Typed
    <3> QED BY <3>1, <1>1, <1>3 DEF ChannelInv
  <2> QED BY <2>1, <1>2
<1>4. CASE WholeIn(channel, s) /\ RestoredIn(channel, s) \ Held(w) \subseteq k.skipped
  BY <1>2, <1>4
<1> QED BY <1>1, <1>3, <1>4 DEF KnownInv

LEMMA IInvRecorded == IInv => RecordedIsThere
<1> SUFFICES ASSUME IInv, NEW w \in Workers, filed[w].done.seq # 0
             PROVE  PartsThere(w, filed[w].done.seq, filed[w].done.rows)
                    = 1 .. BundleParts(filed[w].done.rows)
  BY DEF RecordedIsThere, PartsThere
<1>1. BundlesFit /\ FiledInv(w)
  BY DEF IInv, OfWorker
<1>2. PartsThere(w, filed[w].done.seq, filed[w].done.rows)
      \subseteq 1 .. BundleParts(filed[w].done.rows)
  BY <1>1 DEF BundlesFit, PartsThere
<1> QED BY <1>1, <1>2 DEF FiledInv

LEMMA IInvAhead == IInv => ShardsGoAhead
<1> SUFFICES ASSUME IInv, NEW b \in bundles, NEW r \in b.rows \ Readable
             PROVE  \/ b.behind /\ faults > 0
                    \/ \E i \in 1 .. Len(channel) :
                         r \in ToSet(channel[i].rows) /\ Reused(channel[i].sid)
  BY DEF ShardsGoAhead
<1>1. (b.behind /\ faults > 0) \/ OutIn(channel, r)
  BY DEF IInv, BundlesFit, Out
<1> QED BY <1>1, OutMeans

\* Whatever is refused, cut off or lost with a disk, and in whatever order the
\* workers publish and restore: what lies below a watermark is in the channel and
\* can be read from it unless its shard id was reused (_publish moves the
\* watermarks after the upload), the rows of a shard a database has noted are in
\* it but for those whose replay failed (restore_shards skips such a shard), every part of the snapshot that
\* stage_done names is there (_publish_stage), and the shards are not behind a
\* bundle but for a refused one or a reused id.
THEOREM WhatIsPublishedIsThere == Spec => []ShardsInv
<1>1. Init => IInv
  BY InitIInv
<1>2. IInv /\ [Next]_vars => IInv'
  BY NextIInv
<1>3. IInv => ShardsInv
  BY IInvTyped, IInvRestorable, IInvKnown, IInvRecorded, IInvAhead DEF ShardsInv
<1> QED BY <1>1, <1>2, <1>3, PTL DEF Spec

=============================================================================
