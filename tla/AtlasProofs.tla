---------------------------- MODULE AtlasProofs ----------------------------
(***************************************************************************)
(* Proofs about Atlas.  The first part is about module Atlas, the reader   *)
(* of the channel, for any number of messages and any choice of what may   *)
(* go wrong: it passes over no id of which it has not the rows of a        *)
(* message, it leaves no row out of the index but where a rebuild was      *)
(* refused, failed, not asked for or cut off, and a boot loads only the    *)
(* vectors of the index that index_build_id names.                         *)
(*                                                                         *)
(* The second part is about module Media, the playback of one video; the   *)
(* two modules share no state.  For every number of chunks, every set of   *)
(* viewers and any number of failures, evictions, wipes and restarts, what *)
(* becomes the cached file and what is served from the sparse one is       *)
(* whole.  The argument: an index object tells the truth about the sparse  *)
(* file only while it is the video's own (current) and nobody is between a *)
(* file's going and the forgetting of its index (BetweenTheTwo).  That     *)
(* window always closes with no current object at all, and an object once  *)
(* let go is never made current again while some transfer keeps it         *)
(* (LookupKeeps): so IndexedIsWritten can only be broken by a transfer     *)
(* that records a chunk it has not written (AddedIsWritten), and a         *)
(* promotion under the current index renames a file that has every chunk   *)
(* (FullAtReplace).  Who was told that its range is held finds it there,   *)
(* or a file went meanwhile (ReadIsThere).                                 *)
(***************************************************************************)
EXTENDS Atlas, Media, FiniteSetTheorems, SequenceTheorems, WellFoundedInduction, TLAPS

BuildPcs == {"off", "begin", "collect", "commit", "stamp"}
Callers  == {"none", "boot", "request", "refresh"}
EmbedPcs == {"off", "read", "check", "write", "label", "load"}
ScanPcs  == {"off", "pinned", "walk", "merge", "status", "index", "building"}

Messages  == [kind: Kinds, id: Nat]
AllRows   == Ids \X {1, 2}
ScanType  == [pc: ScanPcs, by: Callers, full: BOOLEAN, at: Ids \cup {0},
              msg: Ids \cup {0}, added: BOOLEAN, found: SUBSET Ids]
BuildType == [pc: BuildPcs, rows: SUBSET AllRows, gen: Nat]

Typed ==
  /\ channel \in Seq(Messages) /\ Len(channel) <= MaxMessages
  /\ pin \in Ids \cup {0} /\ mtproto \in BOOLEAN
  /\ rows \in SUBSET AllRows /\ tables \in SUBSET Kinds
  /\ clips \in SUBSET Ids /\ ok \in SUBSET Nat
  /\ moments \in [gen: Nat, rows: SUBSET AllRows] /\ stamp \in Nat /\ shape \in SUBSET Kinds
  /\ build \in [Builders -> BuildType] /\ running \in BOOLEAN
  /\ embed \in [pc: EmbedPcs, label: Nat, gen: Nat]
  /\ file \in [gen: Nat, label: Nat] /\ memory \in Nat
  /\ encoding \in BOOLEAN /\ graph \in BOOLEAN /\ map \in BOOLEAN
  /\ phase \in {"starting", "scanning", "indexing", "ready"}
  /\ boot \in {"start", "announce", "scan", "scanning", "index", "building", "load", "done"}
  /\ scan \in ScanType
  /\ missed \in BOOLEAN

\* The message the scan is at, and the one it merges, are there; what it is about
\* to record as imported has its rows.
ScanInv ==
  /\ scan.pc = "walk" => scan.at \in Ids
  /\ scan.pc \in {"merge", "status"} => scan.msg \in Ids
  /\ scan.pc = "status" => Rows(scan.msg) \subseteq rows
  /\ OkIsHeld

\* A rebuild that is about to read all rows, or has read them.
Reads(by) ==
  \/ build[by].pc \in {"begin", "collect"}
  \/ build[by].pc = "commit" /\ rows \subseteq build[by].rows

\* Rows that cannot be searched are on their way into the index: the scan has
\* still to ask for the rebuild that takes them in, or one is about to read them
\* or has read them.  (A rebuild that has read less takes rows out again that
\* another brought in: these are missed.)
IndexInv ==
  \/ missed
  \/ scan.pc \in {"status", "index"} /\ scan.added
  \/ \E by \in Builders : Reads(by)
  \/ rows \subseteq moments.rows

\* The generations only follow each other: what names an index was written after
\* it, and the label of a vector file after its vectors.
DenseInv ==
  /\ stamp <= moments.gen
  /\ \A by \in Builders : build[by].gen <= moments.gen
  /\ file.label <= file.gen /\ file.gen <= moments.gen /\ memory <= moments.gen
  /\ embed.label <= moments.gen /\ embed.gen <= moments.gen
  /\ embed.pc \in {"check", "write", "label"} => embed.label <= embed.gen
  /\ embed.pc \in {"check", "write"} => file.gen <= embed.gen
  /\ embed.pc = "label" => file.gen = embed.gen

IInv == Typed /\ ScanInv /\ IndexInv /\ DenseInv
-----------------------------------------------------------------------------
(* The parts of a step *)

\* Where each thread can be.
LEMMA Names ==
  /\ {"off", "begin", "collect", "commit", "stamp"} \subseteq BuildPcs
  /\ {"off", "read", "check", "write", "label", "load"} \subseteq EmbedPcs
  /\ {"off", "pinned", "walk", "merge", "status", "index", "building"} \subseteq ScanPcs
  /\ {"none", "boot", "request", "refresh"} \subseteq Callers
  BY DEF BuildPcs, EmbedPcs, ScanPcs, Callers

\* A message that was published stays where it is.
LEMMA PublishFacts ==
  ASSUME Typed, NEW kind \in Kinds, Publish(kind)
  PROVE  /\ channel' \in Seq(Messages) /\ Len(channel') = Len(channel) + 1
         /\ Ids \subseteq Ids' /\ Len(channel') <= MaxMessages /\ pin' \in Ids' \cup {0}
         /\ \A m \in Ids : channel'[m] = channel[m]
<1>1. Len(channel) \in Nat /\ channel \in Seq(Messages) /\ MaxMessages \in Nat
      /\ Len(channel) < MaxMessages /\ pin \in Ids \cup {0}
  BY AtlasAssumption DEF Typed, Publish
<1>0. \A m \in Ids : channel[m] \in Messages
  BY <1>1 DEF Ids
<1>2. \A m \in Ids : channel[m].id \in Nat
  BY <1>0 DEF Messages
<1>3. PICK id \in IdsOf(kind) : channel' = Append(channel, [kind |-> kind, id |-> id])
  BY DEF Publish
<1>4. id \in Nat
  BY <1>1, <1>2 DEF IdsOf, Fresh
<1>5. [kind |-> kind, id |-> id] \in Messages
  BY <1>4 DEF Messages
<1>6. channel' \in Seq(Messages) /\ Len(channel') = Len(channel) + 1
      /\ \A m \in 1..Len(channel) : channel'[m] = channel[m]
  BY <1>1, <1>3, <1>5, AppendProperties
<1>7. pin' \in {pin, Len(channel) + 1}
  BY DEF Publish, Fresh
<1>8. Ids = 1..Len(channel) /\ Ids' = 1..(Len(channel) + 1)
  BY <1>6 DEF Ids
<1> QED BY <1>1, <1>6, <1>7, <1>8

\* What a message brings is of the channel, and has the message's own rows.
LEMMA ContentFacts ==
  ASSUME Typed, NEW m \in Ids
  PROVE  Content(m) \in SUBSET AllRows /\ Rows(m) \subseteq Content(m)
<1>1. m <= m
  BY DEF Typed, Ids
<1> QED BY <1>1 DEF Content, Rows, AllRows, Bundles

\* The scan walks on within the channel, or it is over.
LEMMA OnwardFacts ==
  ASSUME Typed, NEW s \in ScanType
  PROVE  /\ Onward(s) \in ScanType /\ Onward(s).pc \in {"walk", "off"}
         /\ Onward(s).pc = "walk" => Onward(s).at \in Ids
<1>1. Len(channel) \in Nat /\ channel \in Seq(Messages)
  BY DEF Typed
<1>2. NoScan \in ScanType /\ NoScan.pc = "off"
  BY Names DEF NoScan, ScanType
<1>3. ASSUME s.at = 0, s.full, mtproto, channel # <<>>
      PROVE  Len(channel) \in Ids /\ Onward(s) = [s EXCEPT !.pc = "walk", !.at = Len(channel)]
  BY <1>1, <1>3, EmptySeq DEF Onward, Ids
<1>4. ASSUME s.at > 1 PROVE s.at - 1 \in Ids /\ Onward(s) = [s EXCEPT !.pc = "walk", !.at = s.at - 1]
  <2>1. s.at \in Ids \cup {0}
    BY DEF ScanType
  <2> QED BY <1>1, <1>4, <2>1 DEF Onward, Ids
<1>5. ASSUME ~(s.at = 0 /\ s.full /\ mtproto /\ channel # <<>>), ~(s.at > 1) PROVE Onward(s) = NoScan
  BY <1>5 DEF Onward
<1>6. ASSUME NEW n \in Ids
      PROVE  LET r == [s EXCEPT !.pc = "walk", !.at = n]
             IN r \in ScanType /\ r.pc = "walk" /\ r.at = n
  BY Names DEF ScanType
<1> QED BY <1>2, <1>3, <1>4, <1>5, <1>6

\* A rebuild is started, or refused and missed.
LEMMA StartBuildFacts ==
  ASSUME Typed, NEW by \in Builders, StartBuild(by)
  PROVE  /\ build' \in [Builders -> BuildType] /\ missed' \in BOOLEAN
         /\ \A b \in Builders : build'[b].gen = build[b].gen
         /\ \/ build' = build /\ missed'
            \/ build'[by].pc = "begin" /\ missed' = missed
<1>0. build \in [Builders -> BuildType] /\ missed \in BOOLEAN
  BY DEF Typed
<1>1. CASE build' = build /\ missed' = TRUE
  BY <1>0, <1>1
<1>2. CASE build' = [build EXCEPT ![by].pc = "begin"] /\ missed' = missed
  <2>1. build' \in [Builders -> BuildType]
    BY <1>0, <1>2, Names DEF BuildType
  <2>2. build'[by].pc = "begin" /\ \A b \in Builders : build'[b].gen = build[b].gen
    BY <1>0, <1>2 DEF BuildType
  <2> QED BY <1>0, <1>2, <2>1, <2>2
<1> QED BY <1>1, <1>2 DEF StartBuild

-----------------------------------------------------------------------------
(* Types *)

\* Every step leaves every variable in its type.
LEMMA NextTyped ==
  ASSUME Typed, ScanInv, [Next]_vars
  PROVE  Typed'
<1>0. /\ Len(channel) \in Nat /\ scan \in ScanType /\ build \in [Builders -> BuildType] /\ embed.pc \in EmbedPcs
      /\ embed \in [pc: EmbedPcs, label: Nat, gen: Nat] /\ moments.rows \in SUBSET AllRows
      /\ NoScan \in ScanType /\ NoBuild \in BuildType
      /\ NoEmbed \in [pc: EmbedPcs, label: Nat, gen: Nat]
  BY Names DEF Typed, NoScan, ScanType, NoBuild, BuildType, NoEmbed
<1>c. UNCHANGED channel
      => Ids' = Ids /\ AllRows' = AllRows /\ ScanType' = ScanType /\ BuildType' = BuildType
  BY DEF Ids, AllRows, ScanType, BuildType
<1>s. ASSUME NEW p \in ScanPcs PROVE [scan EXCEPT !.pc = p] \in ScanType
  BY <1>0, <1>s DEF ScanType
<1>f. ASSUME NEW m \in Ids, Fetch(m) PROVE scan' \in ScanType
  BY <1>0, <1>f, Names DEF Fetch, ScanType
<1>b. ASSUME NEW by \in Callers, NEW full \in BOOLEAN, Begin(by, full) PROVE scan' \in ScanType
  BY <1>0, <1>b, Names DEF Begin, NoScan, ScanType, Typed
<1>d. ASSUME Derive PROVE graph' \in BOOLEAN
  BY <1>d DEF Derive, Typed
<1>e. ASSUME scan.msg \in Ids, Leaves
      PROVE  rows' \in SUBSET AllRows /\ tables' \in SUBSET Kinds /\ missed' \in BOOLEAN
  <2>1. channel[scan.msg] \in Messages /\ Content(scan.msg) \in SUBSET AllRows
    BY <1>e, ContentFacts DEF Typed, Ids
  <2> QED BY <1>e, <2>1 DEF Leaves, Typed, Messages
<1>1. ASSUME NEW kind \in Kinds, Publish(kind) PROVE Typed'
  <2>1. /\ channel' \in Seq(Messages) /\ Len(channel') <= MaxMessages /\ Ids \subseteq Ids'
        /\ pin' \in Ids' \cup {0}
    BY <1>1, PublishFacts
  <2>2. AllRows \subseteq AllRows'
    BY <2>1 DEF AllRows
  <2>3. ScanType \subseteq ScanType' /\ BuildType \subseteq BuildType'
    BY <2>1, <2>2 DEF ScanType, BuildType
  <2> QED BY <1>1, <2>1, <2>2, <2>3 DEF Publish, Typed, data, index, dense, views
<1>2. CASE Boot
  <2>1. CASE BootOpens
    BY <2>1, <1>c DEF BootOpens, Loads, Typed, world, data, index, views
  <2>2. CASE BootAnnounces \/ BootScanned
    BY <2>2, <1>c DEF BootAnnounces, BootScanned, Typed, world, data, index, dense, views
  <2>3. CASE BootScans
    BY <2>3, <1>c, <1>b, Names DEF BootScans, Typed, world, data, index, dense, views
  <2>4. CASE BootIndexes
    <3>1. build' \in [Builders -> BuildType] /\ missed' \in BOOLEAN
      BY <2>4, StartBuildFacts DEF BootIndexes, Builders, Typed
    <3> QED BY <2>4, <3>1, <1>c DEF BootIndexes, Typed, world, data, dense, views
  <2>5. CASE BootIndexed
    BY <2>5, <1>c, <1>d DEF BootIndexed, Typed, world, data, index, dense
  <2>6. CASE BootReady
    <3>1. graph' \in BOOLEAN
      BY <2>6, <1>d DEF BootReady, Typed
    <3> QED BY <2>6, <3>1, <1>c DEF BootReady, Loads, Typed, world, data, index
  <2> QED BY <1>2, <2>1, <2>2, <2>3, <2>4, <2>5, <2>6 DEF Boot
<1>3. CASE Scan
  <2>1. CASE Pinned
    <3>1. scan' \in ScanType
      BY <2>1, <1>0, <1>f, OnwardFacts DEF Pinned, Bundles
    <3> QED BY <2>1, <3>1, <1>c DEF Pinned, Typed, world, data, index, dense, views
  <2>2. CASE ReadAsset
    <3>1. scan.at \in Ids /\ scan' \in ScanType
      BY <2>2, <1>0, OnwardFacts DEF ReadAsset, ScanInv
    <3> QED BY <2>2, <3>1, <1>c DEF ReadAsset, RecordParts, Typed, world, index, dense, views
  <2>3. CASE Walk
    <3>1. scan' \in ScanType
      BY <2>3, <1>0, <1>f, OnwardFacts DEF Walk, ScanInv
    <3> QED BY <2>3, <3>1, <1>c DEF Walk, Typed, world, data, index, dense, views
  <2>4. CASE Merge
    <3>1. scan.msg \in Ids /\ channel[scan.msg] \in Messages /\ Content(scan.msg) \in SUBSET AllRows
      BY <2>4, ContentFacts DEF Merge, ScanInv, Typed, Ids
    <3>2. (rows' # rows) \in BOOLEAN /\ rows' \in SUBSET AllRows /\ tables' \in SUBSET Kinds
      BY <2>4, <3>1 DEF Merge, Typed, Messages
    <3>3. scan' \in ScanType
      BY <2>4, <3>2, <1>0, Names DEF Merge, ScanType
    <3> QED BY <2>4, <3>2, <3>3, <1>c DEF Merge, Typed, world, index, dense, views
  <2>6. CASE Status
    <3>1. scan.msg \in Ids /\ scan' \in ScanType
      BY <2>6, <1>s, Names DEF Status, ScanInv
    <3>0. channel[scan.msg] \in Messages
      BY <3>1 DEF Typed, Ids
    <3>2. channel[scan.msg].id \in Nat
      BY <3>0 DEF Messages
    <3> QED BY <2>6, <3>1, <3>2, <1>c DEF Status, Typed, world, index, dense, views
  <2>7. CASE ReindexAfter
    <3>1. scan' \in ScanType
      BY <2>7, <1>0, <1>s, OnwardFacts, Names DEF ReindexAfter
    <3>2. build' \in [Builders -> BuildType] /\ missed' \in BOOLEAN
      BY <2>7, <1>0, StartBuildFacts DEF ReindexAfter, Builders, Typed
    <3> QED BY <2>7, <3>1, <3>2, <1>c DEF ReindexAfter, Typed, world, data, dense, views
  <2>8. CASE Indexed
    <3>1. scan' \in ScanType
      BY <2>8, <1>0, OnwardFacts DEF Indexed
    <3> QED BY <2>8, <3>1, <1>c, <1>d DEF Indexed, Typed, world, data, index, dense
  <2> QED BY <1>3, <2>1, <2>2, <2>3, <2>4, <2>6, <2>7, <2>8 DEF Scan
<1>4. ASSUME NEW by \in Builders, BeginBuild(by) \/ Collect(by) \/ Commit(by) \/ Stamp(by)
      PROVE  Typed'
  <2>0. build[by] \in BuildType
    BY <1>0
  <2>1. CASE BeginBuild(by)
    <3>1. build' \in [Builders -> BuildType]
      BY <2>1, <2>0, <1>0, Names DEF BeginBuild, BuildType
    <3> QED BY <2>1, <3>1, <1>c DEF BeginBuild, Typed, world, data, dense
  <2>2. CASE Collect(by)
    <3>1. build' \in [Builders -> BuildType]
      BY <2>2, <2>0, <1>0, Names DEF Collect, BuildType, Typed
    <3> QED BY <2>2, <3>1, <1>c DEF Collect, Typed, world, data, dense
  <2>3. CASE Commit(by)
    <3>0. build[by].rows \in SUBSET AllRows
      BY <2>0 DEF BuildType
    <3>1. moments' \in [gen: Nat, rows: SUBSET AllRows] /\ moments'.gen \in Nat /\ encoding' = FALSE
      BY <2>3, <3>0 DEF Commit, Typed
    <3>2. build' \in [Builders -> BuildType]
      BY <2>3, <2>0, <3>1, <1>0, Names DEF Commit, BuildType
    <3>3. missed' \in BOOLEAN
      BY <2>3 DEF Commit
    <3>4. UNCHANGED <<world, data, stamp, shape, running, dense, graph, map, phase, boot, scan>>
      BY <2>3 DEF Commit
    <3> QED BY <3>1, <3>2, <3>3, <3>4, <1>c DEF Typed, world, data, dense
  <2>4. CASE Stamp(by)
    <3>0. build[by].gen \in Nat
      BY <2>0 DEF BuildType
    <3>1. embed' \in [pc: EmbedPcs, label: Nat, gen: Nat]
      BY <2>4, <3>0, <1>0, Names DEF Stamp, StartEmbedding, NoEmbed, Typed
    <3>2. build' \in [Builders -> BuildType]
      BY <2>4, <1>0 DEF Stamp
    <3> QED BY <2>4, <3>0, <3>1, <3>2, <1>c DEF Stamp, Typed, world, data
  <2> QED BY <1>4, <2>1, <2>2, <2>3, <2>4
<1>5. CASE Embed \/ EmbedFails
  <2>1. embed' \in [pc: EmbedPcs, label: Nat, gen: Nat]
    <3>1. CASE EmbedRead
      BY <3>1, <1>0, Names DEF EmbedRead, Typed
    <3>2. CASE EmbedCheck
      BY <3>2, <1>0, Names DEF EmbedCheck, Typed
    <3>3. CASE EmbedWrite
      BY <3>3, <1>0, Names DEF EmbedWrite, Typed
    <3>4. CASE EmbedLabel
      BY <3>4, <1>0, Names DEF EmbedLabel, Typed
    <3>5. CASE EmbedLoad
      BY <3>5, <1>0, Names DEF EmbedLoad, Typed
    <3>6. CASE EmbedFails
      BY <3>6, <1>0, Names DEF EmbedFails, Typed
    <3> QED BY <1>5, <3>1, <3>2, <3>3, <3>4, <3>5, <3>6 DEF Embed
  <2>2. file' \in [gen: Nat, label: Nat] /\ memory' \in Nat
    BY <1>5, <1>0 DEF Embed, EmbedRead, EmbedCheck, EmbedWrite, EmbedLabel, EmbedLoad, EmbedFails,
                      Typed
  <2>4. encoding' \in BOOLEAN /\ map' \in BOOLEAN
    <3>1. encoding \in BOOLEAN /\ map \in BOOLEAN
      BY DEF Typed
    <3>2. encoding' \in {encoding, TRUE, FALSE} /\ map' \in {map, TRUE}
      BY <1>5 DEF Embed, EmbedRead, EmbedCheck, EmbedWrite, EmbedLabel, EmbedLoad, EmbedFails, views
    <3> QED BY <3>1, <3>2
  <2>3. UNCHANGED <<world, data, index, graph, phase, boot, scan, missed>>
    BY <1>5 DEF Embed, EmbedRead, EmbedCheck, EmbedWrite, EmbedLabel, EmbedLoad, EmbedFails, views
  <2> QED BY <2>1, <2>2, <2>3, <2>4, <1>c DEF Typed, world, data, index
<1>6. CASE ReadFails \/ BatchFails \/ FetchFails \/ ScanAborts
  <2>1. scan' \in ScanType
    <3>1. CASE BatchFails
      <4>1. PICK n \in 0..(scan.at - 1) : scan' = IF n = 0 THEN NoScan ELSE [scan EXCEPT !.at = n]
        BY <3>1 DEF BatchFails
      <4>2. n \in Ids \cup {0}
        BY <3>1, <1>0 DEF BatchFails, ScanInv, Ids
      <4> QED BY <4>1, <4>2, <1>0 DEF ScanType
    <3>2. CASE ReadFails \/ FetchFails \/ ScanAborts
      BY <3>2, <1>0, OnwardFacts DEF ReadFails, FetchFails, ScanAborts
    <3> QED BY <1>6, <3>1, <3>2
  <2>2. rows' \in SUBSET AllRows /\ tables' \in SUBSET Kinds /\ missed' \in BOOLEAN
    <3>1. CASE FetchFails \/ ScanAborts
      <4>1. scan.pc = "merge" => scan.msg \in Ids
        BY DEF ScanInv
      <4> QED BY <3>1, <4>1, <1>e DEF FetchFails, ScanAborts, Typed
    <3>2. CASE ReadFails \/ BatchFails
      BY <3>2 DEF ReadFails, BatchFails, Typed, data
    <3> QED BY <1>6, <3>1, <3>2
  <2>3. UNCHANGED <<world, clips, ok, index, dense, views, phase, boot>>
    BY <1>6 DEF ReadFails, BatchFails, FetchFails, ScanAborts, data
  <2> QED BY <2>1, <2>2, <2>3, <1>c DEF Typed, world, index, dense, views
<1>7. ASSUME NEW by \in Builders, BuildFails(by) PROVE Typed'
  <2>1. moments' \in [gen: Nat, rows: SUBSET AllRows]
    BY <1>7, <1>0 DEF BuildFails, Typed
  <2>2. build' \in [Builders -> BuildType]
    BY <1>7, <1>0 DEF BuildFails
  <2> QED BY <1>7, <2>1, <2>2, <1>c DEF BuildFails, Typed, world, data, dense
<1>8. CASE Refresh \/ Rescan
  <2>1. scan' \in ScanType
    BY <1>8, <1>b, Names DEF Refresh, Rescan
  <2>2. UNCHANGED <<world, data, index, dense, views, phase, boot, missed>>
    BY <1>8 DEF Refresh, Rescan
  <2> QED BY <2>1, <2>2, <1>c DEF Typed, world, data, index, dense, views
<1>9. CASE Reindex
  <2>1. build' \in [Builders -> BuildType] /\ missed' \in BOOLEAN
    BY <1>9, StartBuildFacts DEF Reindex, Builders
  <2> QED BY <1>9, <2>1, <1>c DEF Reindex, Typed, world, data, dense, views
<1>10. CASE Reconcile \/ MapDrawn
  <2>1. map' \in BOOLEAN /\ phase' \in {phase, "ready"}
    <3>1. CASE Reconcile
      BY <3>1 DEF Reconcile, Typed, views
    <3>2. CASE MapDrawn
      BY <3>2 DEF MapDrawn
    <3> QED BY <1>10, <3>1, <3>2
  <2>2. UNCHANGED <<world, data, index, dense, encoding, graph, boot, scan, missed>>
    BY <1>10 DEF Reconcile, MapDrawn, views
  <2> QED BY <2>1, <2>2, <1>c DEF Typed, world, data, index, dense
<1>11. CASE Restart
  <2>1. build' \in [Builders -> BuildType]
    BY <1>11, <1>0 DEF Restart
  <2>2. embed' \in [pc: EmbedPcs, label: Nat, gen: Nat] /\ scan' \in ScanType
    BY <1>11, <1>0, Names DEF Restart
  <2> QED BY <1>11, <2>1, <2>2, <1>0, <1>c DEF Restart, Typed, data
<1>12. CASE UNCHANGED vars
  BY <1>12, <1>c DEF vars, Typed, world, data, index, dense, views
<1> QED BY <1>1, <1>2, <1>3, <1>4, <1>5, <1>6, <1>7, <1>8, <1>9, <1>10, <1>11, <1>12 DEF Next, Build

-----------------------------------------------------------------------------
(* What is recorded as imported *)

\* A scan that has moved on owes nothing.
LEMMA AfterOnward ==
  ASSUME Typed, NEW s \in ScanType, scan' = Onward(s), OkIsHeld, channel' = channel,
         rows \subseteq rows', ok' = ok
  PROVE  ScanInv'
<1>1. Onward(s).pc \in {"walk", "off"} /\ (Onward(s).pc = "walk" => Onward(s).at \in Ids)
  BY OnwardFacts
<1>2. Ids' = Ids
  BY DEF Ids
<1>3. OkIsHeld'
  BY <1>2 DEF OkIsHeld
<1> QED BY <1>1, <1>2, <1>3 DEF ScanInv

\* An import that ends early takes nothing away.
LEMMA LeavesKeeps ==
  ASSUME Leaves
  PROVE  rows \subseteq rows'
BY DEF Leaves

\* A message is recorded as imported after its rows were committed.
LEMMA NextScanInv ==
  ASSUME Typed, ScanInv, [Next]_vars
  PROVE  ScanInv'
<1>0. scan \in ScanType /\ OkIsHeld /\ NoScan.pc = "off" /\ Typed
  BY DEF Typed, ScanInv, NoScan
<1>c. UNCHANGED channel => Ids' = Ids
  BY DEF Ids
<1>o. ASSUME UNCHANGED <<channel, ok>>, rows \subseteq rows' PROVE OkIsHeld'
  BY <1>o, <1>0, <1>c DEF OkIsHeld
<1>1. ASSUME UNCHANGED <<channel, ok>>, rows \subseteq rows', scan' = scan \/ scan'.pc \in {"off", "pinned"}
      PROVE  ScanInv'
  BY <1>1, <1>c, <1>o DEF ScanInv
<1>f. ASSUME NEW m \in Ids, Fetch(m), UNCHANGED <<channel, rows, ok>> PROVE ScanInv'
  <2>1. scan'.pc = "merge" /\ scan'.msg = m
    BY <1>f, <1>0 DEF Fetch, ScanType
  <2> QED BY <2>1, <1>f, <1>c, <1>o DEF ScanInv
<1>2. ASSUME NEW kind \in Kinds, Publish(kind) PROVE ScanInv'
  <2>1. Ids \subseteq Ids' /\ (\A m \in Ids : channel'[m] = channel[m]) /\ UNCHANGED <<rows, ok, scan>>
    BY <1>2, PublishFacts DEF Publish, data
  <2>2. OkIsHeld'
    BY <2>1, <1>0 DEF OkIsHeld
  <2> QED BY <2>1, <2>2 DEF ScanInv
<1>3. CASE Boot
  <2>1. UNCHANGED <<channel, rows, ok>>
    BY <1>3 DEF Boot, BootOpens, BootAnnounces, BootScans, BootScanned, BootIndexes,
                BootIndexed, BootReady, world, data
  <2>2. scan' = scan \/ scan'.pc \in {"off", "pinned"}
    BY <1>3 DEF Boot, BootOpens, BootAnnounces, BootScans, Begin, BootScanned, BootIndexes,
                BootIndexed, BootReady, NoScan
  <2> QED BY <2>1, <2>2, <1>1
<1>4. CASE Scan
  <2>1. CASE Pinned
    BY <2>1, <1>0, <1>f, AfterOnward DEF Pinned, Bundles, world, data
  <2>2. CASE ReadAsset
    BY <2>2, <1>0, AfterOnward DEF ReadAsset, world
  <2>3. CASE Walk
    BY <2>3, <1>0, <1>f, AfterOnward DEF Walk, world, data, ScanInv
  <2>4. CASE Merge
    <3>1. scan'.pc = "status" /\ scan'.msg = scan.msg /\ scan.msg \in Ids
      BY <2>4, <1>0 DEF Merge, ScanType, ScanInv
    <3>2. Rows(scan.msg) \subseteq rows' /\ rows \subseteq rows' /\ UNCHANGED <<channel, ok>>
      BY <2>4, <3>1, ContentFacts DEF Merge, world
    <3> QED BY <3>1, <3>2, <1>c, <1>o DEF ScanInv
  <2>6. CASE Status
    <3>1. scan'.pc = "index" /\ scan.msg \in Ids /\ Rows(scan.msg) \subseteq rows
      BY <2>6, <1>0 DEF Status, ScanType, ScanInv
    <3>2. UNCHANGED <<channel, rows>> /\ ok' = ok \cup {channel[scan.msg].id}
      BY <2>6 DEF Status, world
    <3>3. OkIsHeld'
      BY <3>1, <3>2, <1>0, <1>c DEF OkIsHeld
    <3> QED BY <3>1, <3>3 DEF ScanInv
  <2>7. CASE ReindexAfter
    <3>1. CASE scan' = Onward(scan)
      BY <2>7, <3>1, <1>0, AfterOnward DEF ReindexAfter, world, data
    <3>2. CASE scan' = [scan EXCEPT !.pc = "building"]
      <4>1. scan'.pc = "building"
        BY <3>2, <1>0 DEF ScanType
      <4> QED BY <2>7, <4>1, <1>o DEF ReindexAfter, world, data, ScanInv
    <3> QED BY <2>7, <3>1, <3>2 DEF ReindexAfter
  <2>8. CASE Indexed
    BY <2>8, <1>0, AfterOnward DEF Indexed, world, data
  <2> QED BY <1>4, <2>1, <2>2, <2>3, <2>4, <2>6, <2>7, <2>8 DEF Scan
<1>5. CASE Build \/ Embed \/ (\E by \in Builders : BuildFails(by)) \/ EmbedFails \/ MapDrawn
  BY <1>1, <1>5 DEF Build, BeginBuild, Collect, Commit, Stamp, Embed, EmbedRead, EmbedCheck, EmbedWrite,
                    EmbedLabel, EmbedLoad, BuildFails, EmbedFails, MapDrawn, world, data
<1>6. CASE BatchFails
  <2>1. PICK n \in 0..(scan.at - 1) : scan' = IF n = 0 THEN NoScan ELSE [scan EXCEPT !.at = n]
    BY <1>6 DEF BatchFails
  <2>2. UNCHANGED <<channel, rows, ok>> /\ scan.pc = "walk" /\ scan.at \in Ids
    BY <1>6 DEF BatchFails, world, data, ScanInv
  <2>3. CASE n = 0
    BY <2>1, <2>2, <2>3, <1>0, <1>1
  <2>4. CASE n # 0
    <3>1. scan'.pc = "walk" /\ scan'.at = n /\ n \in Ids
      BY <2>1, <2>2, <2>4, <1>0 DEF ScanType, Ids, Typed
    <3> QED BY <2>2, <3>1, <1>c, <1>o DEF ScanInv
  <2> QED BY <2>3, <2>4
<1>7. CASE FetchFails \/ ReadFails
  <2>1. rows \subseteq rows'
    BY <1>7, LeavesKeeps DEF FetchFails, ReadFails, data
  <2> QED BY <1>7, <2>1, <1>0, AfterOnward DEF FetchFails, ReadFails, world, data
<1>a. CASE ScanAborts
  <2>1. rows \subseteq rows' /\ scan'.pc = "off" /\ UNCHANGED <<channel, ok>>
    BY <1>a, <1>0, LeavesKeeps DEF ScanAborts, world
  <2> QED BY <2>1, <1>1
<1>8. CASE Refresh \/ Rescan \/ Reindex \/ Reconcile \/ Restart
  BY <1>1, <1>8, <1>0 DEF Refresh, Rescan, Begin, NoScan, Reindex, Reconcile, Restart, world, data
<1>9. CASE UNCHANGED vars
  BY <1>1, <1>9 DEF vars, world, data
<1> QED BY <1>2, <1>3, <1>4, <1>5, <1>6, <1>7, <1>a, <1>8, <1>9 DEF Next

-----------------------------------------------------------------------------
(* What can be searched *)

\* Rows come in only through a merge, which asks for a rebuild; the rebuild reads
\* them all, or it is missed.
LEMMA NextIndexInv ==
  ASSUME Typed, IndexInv, [Next]_vars
  PROVE  IndexInv'
<1>0. /\ scan \in ScanType /\ build \in [Builders -> BuildType] /\ NoScan.pc = "off"
      /\ NoBuild \in BuildType /\ NoBuild.pc = "off"
  BY Names DEF Typed, NoScan, NoBuild, BuildType
<1>1. ASSUME UNCHANGED <<rows, moments, build>>, missed => missed',
             scan' = scan \/ scan.pc \notin {"status", "index"} \/ ~scan.added
      PROVE  IndexInv'
  BY <1>1 DEF IndexInv, Reads
<1>b. ASSUME NEW by \in Builders, StartBuild(by), UNCHANGED <<rows, moments>>
      PROVE  IndexInv' \/ (build' = build /\ missed')
  <2>1. \/ build' = build /\ missed'
        \/ build'[by].pc = "begin"
    BY <1>b, StartBuildFacts
  <2> QED BY <2>1 DEF IndexInv, Reads
<1>2. ASSUME NEW kind \in Kinds, Publish(kind) PROVE IndexInv'
  BY <1>1, <1>2 DEF Publish, data, index
<1>3. CASE Boot
  <2>1. CASE BootIndexes
    <3>1. CASE Stale
      BY <2>1, <3>1, <1>b DEF BootIndexes, Builders, data, IndexInv
    <3>2. CASE ~Stale
      BY <2>1, <3>2, <1>1 DEF BootIndexes, data
    <3> QED BY <3>1, <3>2
  <2>2. CASE BootOpens \/ BootAnnounces \/ BootScanned \/ BootIndexed \/ BootReady
    BY <2>2, <1>1 DEF BootOpens, BootAnnounces, BootScanned, BootIndexed, BootReady, data, index
  <2>3. CASE BootScans
    BY <2>3, <1>1 DEF BootScans, data, index
  <2> QED BY <1>3, <2>1, <2>2, <2>3 DEF Boot
<1>4. CASE Scan
  <2>1. CASE Pinned \/ ReadAsset \/ Walk \/ Indexed
    BY <2>1, <1>1 DEF Pinned, ReadAsset, Walk, Indexed, data, index
  <2>2. CASE Merge
    <3>1. scan'.pc = "status" /\ scan'.added = (rows' # rows)
      BY <2>2, <1>0 DEF Merge, ScanType
    <3>2. CASE rows' = rows
      BY <2>2, <3>1, <3>2 DEF Merge, IndexInv, Reads, index
    <3>3. CASE rows' # rows
      BY <3>1, <3>3 DEF IndexInv
    <3> QED BY <3>2, <3>3
  <2>4. CASE Status
    <3>1. scan'.pc = "index" /\ scan'.added = scan.added
      BY <2>4, <1>0 DEF Status, ScanType
    <3> QED BY <2>4, <3>1 DEF Status, index, IndexInv, Reads
  <2>5. CASE ReindexAfter
    <3>1. CASE scan.added \/ Stale
      BY <2>5, <3>1, <1>b DEF ReindexAfter, Builders, data, IndexInv
    <3>2. CASE ~(scan.added \/ Stale)
      BY <2>5, <3>2, <1>1 DEF ReindexAfter, data
    <3> QED BY <3>1, <3>2
  <2> QED BY <1>4, <2>1, <2>2, <2>4, <2>5 DEF Scan
<1>5. ASSUME NEW by \in Builders, BeginBuild(by) \/ Collect(by) \/ Commit(by) \/ Stamp(by)
      PROVE  IndexInv'
  <2>0. build[by] \in BuildType /\ \A b \in Builders : build[b] \in BuildType
    BY <1>0
  <2>1. CASE BeginBuild(by)
    <3>1. build'[by].pc = "collect"
      BY <2>1, <2>0, <1>0 DEF BeginBuild, BuildType
    <3> QED BY <3>1 DEF IndexInv, Reads
  <2>2. CASE Collect(by)
    <3>1. build'[by].pc = "commit" /\ build'[by].rows = rows /\ rows' = rows
      BY <2>2, <2>0, <1>0 DEF Collect, BuildType, data
    <3> QED BY <3>1 DEF IndexInv, Reads
  <2>3. CASE Commit(by)
    <3>1. /\ moments'.rows = build[by].rows /\ UNCHANGED <<rows, scan>> /\ build[by].pc = "commit"
          /\ \A b \in Builders \ {by} : build'[b] = build[b]
      BY <2>3, <1>0 DEF Commit, data
    <3>2. CASE rows \subseteq build[by].rows
      BY <3>1, <3>2 DEF IndexInv
    <3>3. CASE ~ rows \subseteq build[by].rows
      <4>1. missed' <=> missed \/ ~ moments.rows \subseteq build[by].rows
        BY <2>3, <3>3 DEF Commit
      <4>2. CASE missed'
        BY <4>2 DEF IndexInv
      <4>3. CASE ~missed'
        <5>1. ~missed /\ ~ rows \subseteq moments.rows
          BY <3>3, <4>1, <4>3
        <5>2. CASE scan.pc \in {"status", "index"} /\ scan.added
          BY <3>1, <5>2 DEF IndexInv
        <5>3. CASE \E b \in Builders : Reads(b)
          <6>1. PICK b \in Builders : Reads(b)
            BY <5>3
          <6>2. b # by
            BY <3>1, <3>3, <6>1 DEF Reads
          <6>3. build'[b] = build[b]
            BY <3>1, <6>2
          <6>4. Reads(b)'
            BY <3>1, <6>1, <6>3 DEF Reads
          <6> QED BY <6>4 DEF IndexInv
        <5> QED BY <5>1, <5>2, <5>3 DEF IndexInv
      <4> QED BY <4>2, <4>3
    <3> QED BY <3>2, <3>3
  <2>4. CASE Stamp(by)
    <3>1. /\ UNCHANGED <<rows, moments, scan, missed>> /\ build[by].pc = "stamp"
          /\ \A b \in Builders \ {by} : build'[b] = build[b]
      BY <2>4, <1>0 DEF Stamp, data
    <3>2. \A b \in Builders : Reads(b) => Reads(b)'
      <4>1. TAKE b \in Builders
      <4>2. HAVE Reads(b)
      <4>3. b # by
        BY <3>1, <4>2 DEF Reads
      <4>4. build'[b] = build[b]
        BY <3>1, <4>3
      <4> QED BY <3>1, <4>2, <4>4 DEF Reads
    <3> QED BY <3>1, <3>2 DEF IndexInv
  <2> QED BY <1>5, <2>1, <2>2, <2>3, <2>4
<1>6. CASE Embed \/ EmbedFails \/ MapDrawn
  BY <1>1, <1>6 DEF Embed, EmbedRead, EmbedCheck, EmbedWrite, EmbedLabel, EmbedLoad, EmbedFails,
                    MapDrawn, data, index
<1>7. CASE ReadFails \/ BatchFails
  BY <1>1, <1>7 DEF ReadFails, BatchFails, data, index
<1>e. CASE FetchFails \/ ScanAborts
  <2>1. UNCHANGED <<moments, build>>
    BY <1>e DEF FetchFails, ScanAborts, index
  <2>2. CASE rows' # rows
    <3>1. missed'
      BY <1>e, <2>2 DEF FetchFails, ScanAborts, Leaves
    <3> QED BY <3>1 DEF IndexInv
  <2>3. CASE rows' = rows /\ scan.pc = "status" /\ scan.added
    <3>1. missed'
      BY <1>e, <2>3 DEF FetchFails, ScanAborts
    <3> QED BY <3>1 DEF IndexInv
  <2>4. CASE rows' = rows /\ ~(scan.pc = "status" /\ scan.added)
    <3>1. missed => missed'
      BY <1>e DEF FetchFails, ScanAborts, Leaves
    <3> QED BY <1>e, <1>1, <2>1, <2>4, <3>1 DEF FetchFails, ScanAborts
  <2> QED BY <2>2, <2>3, <2>4
<1>8. ASSUME NEW by \in Builders, BuildFails(by) PROVE IndexInv'
  BY <1>8 DEF BuildFails, IndexInv
<1>9. CASE Refresh \/ Rescan \/ Reconcile
  BY <1>1, <1>9 DEF Refresh, Rescan, Reconcile, data, index
<1>10. CASE Reindex
  BY <1>10, <1>b DEF Reindex, Builders, data, IndexInv
<1>11. CASE Restart
  BY <1>11, <1>0 DEF Restart, data, IndexInv
<1>12. CASE UNCHANGED vars
  BY <1>1, <1>12 DEF vars, data, index
<1> QED BY <1>2, <1>3, <1>4, <1>5, <1>6, <1>7, <1>e, <1>8, <1>9, <1>10, <1>11, <1>12 DEF Next, Build

-----------------------------------------------------------------------------
(* Which vectors belong to which index *)

\* The generations that a step writes were read before and are not overtaken.
LEMMA NextDenseInv ==
  ASSUME Typed, DenseInv, [Next]_vars
  PROVE  DenseInv'
<1>0. /\ moments.gen \in Nat /\ stamp \in Nat /\ memory \in Nat
      /\ file \in [gen: Nat, label: Nat] /\ embed \in [pc: EmbedPcs, label: Nat, gen: Nat]
      /\ NoEmbed = [pc |-> "off", label |-> 0, gen |-> 0]
      /\ build \in [Builders -> BuildType] /\ \A by \in Builders : build[by].gen \in Nat
      /\ NoBuild.gen = 0
  BY DEF Typed, NoEmbed, NoBuild, BuildType
<1>1. ASSUME UNCHANGED <<moments, stamp, embed, file>>, memory' \in {memory, 0, file.gen},
             \A by \in Builders : build'[by].gen \in {build[by].gen, 0}
      PROVE  DenseInv'
  BY <1>1, <1>0 DEF DenseInv
<1>s. ASSUME NEW by \in Builders, StartBuild(by)
      PROVE  \A b \in Builders : build'[b].gen = build[b].gen
  BY <1>s, StartBuildFacts
<1>2. ASSUME NEW kind \in Kinds, Publish(kind) PROVE DenseInv'
  BY <1>1, <1>2 DEF Publish, index, dense
<1>3. CASE Boot
  <2>1. \A by \in Builders : build'[by].gen = build[by].gen
    BY <1>3, <1>s DEF Boot, BootOpens, BootAnnounces, BootScans, BootScanned, BootIndexes,
                      BootIndexed, BootReady, index, Builders
  <2> QED BY <1>1, <1>3, <2>1 DEF Boot, BootOpens, BootAnnounces, BootScans, BootScanned, BootIndexes,
                    BootIndexed, BootReady, Loads, index, dense
<1>4. CASE Scan
  <2>1. \A by \in Builders : build'[by].gen = build[by].gen
    BY <1>4, <1>s DEF Scan, Pinned, ReadAsset, Walk, Merge, Status, ReindexAfter, Indexed, index, Builders
  <2> QED BY <1>1, <1>4, <2>1 DEF Scan, Pinned, ReadAsset, Walk, Merge, Status,
                    ReindexAfter, Indexed, index, dense
<1>5. ASSUME NEW by \in Builders, BeginBuild(by) \/ Collect(by) \/ Commit(by) \/ Stamp(by)
      PROVE  DenseInv'
  <2>0. build[by] \in BuildType /\ build[by].gen <= moments.gen
    BY <1>0 DEF DenseInv
  <2>1. CASE BeginBuild(by) \/ Collect(by)
    <3>1. \A b \in Builders : build'[b].gen = build[b].gen
      BY <2>1, <2>0, <1>0 DEF BeginBuild, Collect, BuildType
    <3> QED BY <2>1, <3>1, <1>1 DEF BeginBuild, Collect, dense
  <2>2. CASE Commit(by)
    <3>1. moments'.gen = moments.gen + 1 /\ UNCHANGED <<stamp, embed, file, memory>>
      BY <2>2 DEF Commit, dense
    <3>2. \A b \in Builders : build'[b].gen \in {build[b].gen, moments'.gen}
      BY <2>2, <2>0, <1>0 DEF Commit, BuildType
    <3>3. \A b \in Builders : build'[b].gen <= moments'.gen
      BY <3>1, <3>2, <1>0 DEF DenseInv
    <3> QED BY <3>1, <3>3, <1>0 DEF DenseInv
  <2>3. CASE Stamp(by)
    <3>1. /\ stamp' = build[by].gen /\ UNCHANGED <<moments, file, memory>>
          /\ \/ embed' = embed
             \/ embed' = [pc |-> "read", label |-> build[by].gen, gen |-> 0]
      BY <2>3, <1>0 DEF Stamp, StartEmbedding
    <3>2. \A b \in Builders : build'[b].gen \in {build[b].gen, 0}
      BY <2>3, <1>0 DEF Stamp
    <3>3. \A b \in Builders : build'[b].gen <= moments.gen
      BY <3>2, <1>0 DEF DenseInv
    <3> QED BY <3>1, <3>3, <2>0, <1>0 DEF DenseInv
  <2> QED BY <1>5, <2>1, <2>2, <2>3
<1>6. CASE Embed
  <2>0. UNCHANGED <<moments, stamp, build>>
    BY <1>6 DEF Embed, EmbedRead, EmbedCheck, EmbedWrite, EmbedLabel, EmbedLoad, index
  <2>1. CASE EmbedRead
    <3>1. UNCHANGED <<file, memory>> /\ embed' \in {NoEmbed, [embed EXCEPT !.pc = "check", !.gen = moments.gen]}
      BY <2>1 DEF EmbedRead
    <3>2. CASE embed' = NoEmbed
      BY <2>0, <3>1, <3>2, <1>0 DEF DenseInv
    <3>3. CASE embed' = [embed EXCEPT !.pc = "check", !.gen = moments.gen]
      <4>1. embed'.pc = "check" /\ embed'.gen = moments.gen /\ embed'.label = embed.label
        BY <3>3, <1>0
      <4> QED BY <2>0, <3>1, <4>1, <1>0 DEF DenseInv
    <3> QED BY <3>1, <3>2, <3>3
  <2>2. CASE EmbedCheck
    BY <2>0, <2>2, <1>0 DEF EmbedCheck, DenseInv
  <2>3. CASE EmbedWrite
    BY <2>0, <2>3, <1>0 DEF EmbedWrite, DenseInv
  <2>4. CASE EmbedLabel
    BY <2>0, <2>4, <1>0 DEF EmbedLabel, DenseInv
  <2>5. CASE EmbedLoad
    BY <2>0, <2>5, <1>0 DEF EmbedLoad, DenseInv
  <2> QED BY <1>6, <2>1, <2>2, <2>3, <2>4, <2>5 DEF Embed
<1>e. CASE EmbedFails
  <2>0. UNCHANGED <<moments, stamp, memory, build>>
    BY <1>e DEF EmbedFails, index
  <2> QED BY <1>e, <2>0, <1>0 DEF EmbedFails, DenseInv
<1>7. CASE ReadFails \/ BatchFails \/ FetchFails \/ ScanAborts \/ MapDrawn
  BY <1>1, <1>7 DEF ReadFails, BatchFails, FetchFails, ScanAborts, MapDrawn, index, dense
<1>f. ASSUME NEW by \in Builders, BuildFails(by) PROVE DenseInv'
  <2>1. moments'.gen \in {moments.gen, moments.gen + 1} /\ UNCHANGED <<stamp, embed, file, memory>>
    BY <1>f, <1>0 DEF BuildFails, dense
  <2>2. \A b \in Builders : build'[b].gen \in {build[b].gen, 0}
    BY <1>f, <1>0 DEF BuildFails
  <2>3. \A b \in Builders : build'[b].gen <= moments'.gen
    BY <2>1, <2>2, <1>0 DEF DenseInv
  <2> QED BY <2>1, <2>3, <1>0 DEF DenseInv
<1>8. CASE Refresh \/ Rescan \/ Reconcile
  BY <1>1, <1>8 DEF Refresh, Rescan, Reconcile, index, dense
<1>r. CASE Reindex
  BY <1>1, <1>r, <1>s DEF Reindex, Builders, dense
<1>9. CASE Restart
  BY <1>9, <1>0 DEF Restart, DenseInv
<1>10. CASE UNCHANGED vars
  BY <1>1, <1>10 DEF vars, index, dense
<1> QED BY <1>2, <1>3, <1>4, <1>5, <1>6, <1>e, <1>7, <1>f, <1>8, <1>r, <1>9, <1>10 DEF Next, Build

-----------------------------------------------------------------------------
(* Theorems *)

\* What the reachable states of the reader have in common.
LEMMA IInvHolds == Spec => []IInv
<1>1. ASSUME Init PROVE IInv
  <2>0. channel = <<>> /\ Len(channel) = 0 /\ channel \in Seq(Messages) /\ MaxMessages \in Nat
    BY <1>1, AtlasAssumption, EmptySeq DEF Init
  <2>1. scan \in ScanType /\ build \in [Builders -> BuildType] /\ embed \in [pc: EmbedPcs, label: Nat, gen: Nat]
    BY <1>1, Names DEF Init, NoScan, NoBuild, NoEmbed, ScanType, BuildType
  <2>2. Typed
    <3>1. channel \in Seq(Messages) /\ Len(channel) <= MaxMessages
      BY <2>0
    <3>2. /\ moments \in [gen: Nat, rows: SUBSET AllRows] /\ file \in [gen: Nat, label: Nat]
          /\ rows \in SUBSET AllRows /\ clips \in SUBSET Ids /\ ok \in SUBSET Nat
          /\ stamp \in Nat /\ shape \in SUBSET Kinds /\ tables \in SUBSET Kinds /\ memory \in Nat
          /\ missed \in BOOLEAN /\ mtproto \in BOOLEAN /\ encoding \in BOOLEAN /\ graph \in BOOLEAN
          /\ map \in BOOLEAN /\ running \in BOOLEAN /\ pin \in Ids \cup {0}
      BY <1>1 DEF Init
    <3> QED BY <1>1, <3>1, <3>2, <2>1 DEF Init, Typed
  <2>3. ScanInv /\ IndexInv /\ DenseInv
    BY <1>1 DEF Init, NoScan, NoBuild, NoEmbed, ScanInv, OkIsHeld, IndexInv, DenseInv
  <2> QED BY <2>2, <2>3 DEF IInv
<1>2. IInv /\ [Next]_vars => IInv'
  BY NextTyped, NextScanInv, NextIndexInv, NextDenseInv DEF IInv
<1> QED BY <1>1, <1>2, PTL DEF Spec

\* Whatever is published, asked for, refused or cut off in between: an id is passed
\* over only when all the rows of a message that has it are here (of another one that
\* was given the same id they need not be), and with nothing running every row that
\* is here can be searched, but for those whose rebuild was missed.
THEOREM ReaderIsComplete == Spec => []AtlasInv
<1>1. ASSUME IInv PROVE AtlasInv
  <2>1. AtlasTypeOK
    BY <1>1 DEF IInv, Typed, DenseInv, AtlasTypeOK, ScanType, BuildType, BuildPcs, EmbedPcs,
                ScanPcs, Callers, Messages, AllRows
  <2>2. OkIsHeld /\ HeldIsIndexed
    BY <1>1 DEF IInv, ScanInv, IndexInv, Reads, HeldIsIndexed
  <2> QED BY <2>1, <2>2 DEF AtlasInv
<1> QED BY <1>1, IInvHolds, PTL

\* Where index_build_id names the moments there are, a boot loads their vectors or
\* none, whatever rebuild or embedding was under way or failed before.  Nothing is said
\* of a boot that finds newer moments than index_build_id names (BootLoadsCurrent), nor
\* of what the embedding thread loads.
THEOREM BootLoadsItsOwn == Spec => BootLoadsCurrent
<1>1. ASSUME IInv, BootOpens \/ BootReady
      PROVE  memory' \in {memory, moments.gen} \/ stamp # moments.gen
  <2>1. CASE UNCHANGED memory
    BY <2>1
  <2>2. CASE Loads /\ Accepts(stamp) /\ stamp = moments.gen
    <3>1. /\ moments.gen \in Nat /\ file.gen \in Nat /\ file.label \in Nat
          /\ file.label <= file.gen /\ file.gen <= moments.gen
      BY <1>1 DEF IInv, Typed, DenseInv
    <3>2. memory' = file.gen /\ (moments.gen = 0 \/ file.label = moments.gen)
      BY <2>2 DEF Loads, Accepts
    <3> QED BY <3>1, <3>2
  <2> QED BY <1>1, <2>1, <2>2 DEF BootOpens, BootReady, Loads
<1>2. IInv => [BootOpens \/ BootReady
               => memory' \in {memory, moments.gen} \/ stamp # moments.gen]_vars
  BY <1>1
<1> QED BY <1>2, IInvHolds, PTL DEF BootLoadsCurrent

-----------------------------------------------------------------------------
(***************************************************************************)
(* Playback: module Media.                                                 *)
(***************************************************************************)
Pcs == {"off", "hit", "size", "open", "start", "pull", "write", "add", "replace", "pop"}

\* A transfer keeps its index object from its start to its end.
Working(a) == act[a].pc \in {"pull", "write", "add", "replace", "pop"}

InFile == IF part = NoFile THEN {} ELSE part

FilesTyped == {mp4, part} \subseteq (SUBSET Chunks) \cup {NoFile}

IndexTyped == marks \in [Indexes -> SUBSET Chunks] /\ current \in Indexes \cup {None}

ActTyped ==
    /\ act \in [Actors -> [pc: Pcs, obj: Indexes \cup {None},
                           todo: SUBSET Chunks, range: SUBSET Chunks]]
    /\ \A a \in Actors: Working(a) => act[a].obj \in Indexes
    /\ \A a \in Actors: act[a].pc \in {"write", "add"} => act[a].todo # {}

FlagsTyped ==
    /\ loader \in {"off", "queued", "get", "done"}
    /\ cleaner \in {"off", "evict", "clear"}
    /\ warmed \in BOOLEAN /\ inflight \in BOOLEAN /\ underfoot \in BOOLEAN

MediaTyped == FilesTyped /\ IndexTyped /\ ActTyped /\ FlagsTyped

\* A transfer that is about to promote has an index of every chunk.
FullAtReplace == \A a \in Actors: act[a].pc = "replace" => marks[act[a].obj] = Chunks

\* What a transfer under the video's own index is about to record is written.
AddedIsWritten ==
    underfoot \/ BetweenTheTwo
    \/ \A a \in Actors: act[a].pc = "add" /\ act[a].obj = current => Min(act[a].todo) \in InFile

\* Whoever was told that its range is held has not been passed by a file's going.
ReadIsThere == underfoot \/ \A a \in Actors: Reading(a) => act[a].range \subseteq InFile

IndexTrue == underfoot \/ BetweenTheTwo \/ current = None \/ marks[current] \subseteq InFile

Keeps == CachedIsWhole /\ IndexTrue /\ FullAtReplace /\ AddedIsWritten /\ ReadIsThere

MediaIInv == MediaTyped /\ Keeps

-----------------------------------------------------------------------------
(***************************************************************************)
(* Lemmas about the operators.                                             *)
(***************************************************************************)
\* There are N chunks.
LEMMA ChunksCounted == IsFiniteSet(Chunks) /\ Cardinality(Chunks) = N
<1>1. 0 \in Int /\ N - 1 \in Int /\ ~(0 > N - 1) /\ (N - 1) - 0 + 1 = N
  BY MediaAssumption
<1>2. /\ IsFiniteSet(0 .. (N - 1))
      /\ Cardinality(0 .. (N - 1)) = IF 0 > N - 1 THEN 0 ELSE (N - 1) - 0 + 1
  BY <1>1, FS_Interval
<1> QED BY <1>1, <1>2 DEF Chunks

\* The marks of the files and of the index objects are none of their values.
LEMMA Marks == N \notin Chunks /\ {} \in SUBSET Chunks /\ None \notin Indexes
  BY MediaAssumption DEF Chunks, None

\* A set of chunks that is not empty has a first one.
LEMMA FirstChunk ==
  ASSUME NEW S, S \subseteq Chunks, S # {}
  PROVE  Min(S) \in S
<1>1. S \subseteq Nat BY MediaAssumption DEF Chunks
<1>2. PICK x \in S: \A y \in S: ~(<<y, x>> \in OpToRel(<, Nat))
  BY <1>1, NatLessThanWellFounded, WFMin
<1>3. ASSUME NEW y \in S PROVE x =< y
  <2>1. ~(<<y, x>> \in {ss \in Nat \X Nat: ss[1] < ss[2]}) BY <1>2 DEF OpToRel
  <2>2. <<y, x>> \in Nat \X Nat /\ <<y, x>>[1] = y /\ <<y, x>>[2] = x BY <1>1
  <2>3. ~(y < x) BY <2>1, <2>2
  <2> QED BY <1>1, <2>3
<1> QED BY <1>3 DEF Min

\* There is an index object nobody keeps.
LEMMA SomeIndexIsFree ==
  ASSUME current = None
  PROVE  \E i \in Indexes: i \notin InUse
<1> DEFINE objs == {act[a].obj : a \in Actors}
<1>1. IsFiniteSet(Actors) /\ Cardinality(Actors) = Cardinality(Viewers) + 2
  <2>1. IsFiniteSet(Viewers \cup {"warm"})
        /\ Cardinality(Viewers \cup {"warm"}) = Cardinality(Viewers) + 1
    BY MediaAssumption, FS_AddElement
  <2>2. Actors = (Viewers \cup {"warm"}) \cup {"fill"} BY DEF Actors
  <2>3. "fill" \notin Viewers \cup {"warm"} BY MediaAssumption
  <2>4. Cardinality(Viewers) \in Nat BY MediaAssumption, FS_CardinalityType
  <2>5. Cardinality(Actors) = Cardinality(Viewers \cup {"warm"}) + 1
        /\ IsFiniteSet(Actors)
    BY <2>1, <2>2, <2>3, FS_AddElement
  <2> QED BY <2>1, <2>4, <2>5
<1>2. IsFiniteSet(objs) /\ Cardinality(objs) <= Cardinality(Actors)
  <2> DEFINE f == [a \in Actors |-> act[a].obj]
  <2>1. f \in Surjection(Actors, objs) BY DEF Surjection
  <2> QED BY <1>1, <2>1, FS_Surjection
<1>3. Cardinality(Viewers) \in Nat /\ Cardinality(Indexes) \in Nat
  BY MediaAssumption, FS_CardinalityType
<1>4. Cardinality(objs) \in Nat BY <1>2, FS_CardinalityType
<1>5. ~(Indexes \subseteq objs)
  <2> HIDE DEF objs
  <2> SUFFICES ASSUME Indexes \in SUBSET objs PROVE FALSE OBVIOUS
  <2>1. Cardinality(Indexes) <= Cardinality(objs) BY <1>2, FS_Subset
  <2> QED BY <1>1, <1>2, <1>3, <1>4, <2>1, MediaAssumption
<1>6. InUse = objs \cup {None} BY DEF InUse
<1>7. None \notin Indexes BY Marks
<1> QED BY <1>5, <1>6, <1>7

\* Looking the index up makes it current, and disturbs no object in use.
LEMMA LookupKeeps ==
  ASSUME IndexTyped, NEW o \in Indexes, Lookup(o)
  PROVE  /\ IndexTyped'
         /\ current' = o
         /\ \A i \in Indexes: i \in InUse => marks'[i] = marks[i]
         /\ current # None => current = o /\ marks' = marks
         /\ current = None => o \notin InUse /\ marks'[o] = {}
<1>1. CASE current # None BY <1>1 DEF IndexTyped, Lookup, maps
<1>2. CASE current = None
  <2>1. o = (CHOOSE i \in Indexes: i \notin InUse) /\ current' = o
        /\ marks' = [marks EXCEPT ![o] = {}]
    BY <1>2 DEF Lookup
  <2>2. o \notin InUse BY <1>2, <2>1, SomeIndexIsFree
  <2>3. marks'[o] = {} /\ \A i \in Indexes: i # o => marks'[i] = marks[i]
    BY <2>1 DEF IndexTyped
  <2>4. marks' \in [Indexes -> SUBSET Chunks] BY <2>1 DEF IndexTyped
  <2>5. current' \in Indexes \cup {None} BY <2>1
  <2> QED BY <1>2, <2>1, <2>2, <2>3, <2>4, <2>5 DEF IndexTyped
<1> QED BY <1>1, <1>2

\* What is forgotten is what nobody keeps.
LEMMA CollectedKeeps ==
  ASSUME IndexTyped, Collected, current' \in Indexes \cup {None}
  PROVE  /\ IndexTyped'
         /\ \A i \in Indexes: i \in InUse' => marks'[i] = marks[i]
  BY DEF IndexTyped, Collected

-----------------------------------------------------------------------------
(***************************************************************************)
(* Types.                                                                  *)
(***************************************************************************)
ActorStates == [pc: Pcs, obj: Indexes \cup {None}, todo: SUBSET Chunks, range: SUBSET Chunks]

\* What an actor may become: at work with an object, or without a need of one.
Fit(r) == /\ r \in ActorStates
          /\ r.pc \in {"pull", "write", "add", "replace", "pop"} => r.obj \in Indexes
          /\ r.pc \in {"write", "add"} => r.todo # {}

LEMMA OffIsFit == Fit(Off)
  BY Marks DEF Fit, Off, ActorStates, Pcs

\* Actors one by one.
LEMMA ActorsFit == ActTyped <=> (act = [a \in Actors |-> act[a]] /\ \A a \in Actors: Fit(act[a]))
  BY DEF ActTyped, Fit, Working, ActorStates

LEMMA OneMoves ==
  ASSUME ActTyped, NEW a \in Actors, NEW r, Fit(r), act' = [act EXCEPT ![a] = r]
  PROVE  ActTyped' /\ act'[a] = r /\ \A b \in Actors \ {a}: act'[b] = act[b]
<1>1. act \in [Actors -> ActorStates] BY DEF ActTyped, ActorStates
<1>2. r \in ActorStates BY DEF Fit
<1>3. act' \in [Actors -> ActorStates] BY <1>1, <1>2
<1>4. act'[a] = r /\ \A b \in Actors \ {a}: act'[b] = act[b] BY <1>1
<1>5. ASSUME NEW b \in Actors
      PROVE  /\ Working(b)' => act'[b].obj \in Indexes
             /\ act'[b].pc \in {"write", "add"} => act'[b].todo # {}
  <2>1. CASE b = a BY <1>4, <2>1 DEF Working, Fit
  <2>2. CASE b # a BY <1>4, <2>2 DEF Working, ActTyped
  <2> QED BY <2>1, <2>2
<1> QED BY <1>3, <1>4, <1>5 DEF ActTyped, ActorStates

\* The fill is started beside whatever else happens, or is left as it is.
LEMMA FillStarts ==
  ASSUME NEW next \in [Actors -> ActorStates]
  PROVE  LET now == FillUnlessRunning(next) IN
         /\ now \in [Actors -> ActorStates]
         /\ \A b \in Actors \ {"fill"}: now[b] = next[b]
         /\ \/ now["fill"] = next["fill"]
            \/ /\ next["fill"].pc = "off"
               /\ now["fill"] = [next["fill"] EXCEPT !.pc = "start"]
<1>1. "fill" \in Actors BY DEF Actors
<1>2. "start" \in Pcs BY DEF Pcs
<1>3. [next["fill"] EXCEPT !.pc = "start"] \in ActorStates BY <1>1, <1>2 DEF ActorStates
<1>4. CASE next["fill"].pc = "off" /\ mp4 = NoFile
  <2>1. FillUnlessRunning(next) = [next EXCEPT !["fill"] = [next["fill"] EXCEPT !.pc = "start"]]
    BY <1>4 DEF FillUnlessRunning
  <2> QED BY <1>1, <1>3, <1>4, <2>1
<1>5. CASE ~(next["fill"].pc = "off" /\ mp4 = NoFile)
  <2>1. FillUnlessRunning(next) = next BY <1>5 DEF FillUnlessRunning
  <2> QED BY <2>1
<1> QED BY <1>4, <1>5

-----------------------------------------------------------------------------
(***************************************************************************)
(* What every step does to the promises, actor by actor and file by file.  *)
(***************************************************************************)
AddSound(b) ==
    act'[b].pc = "add" /\ act'[b].obj = current' =>
        \/ underfoot' \/ BetweenTheTwo' \/ Min(act'[b].todo) \in InFile'
        \/ /\ act[b].pc = "add" /\ act[b].obj = current /\ act'[b].todo = act[b].todo
           /\ InFile \subseteq InFile'

FullSound(b) ==
    act'[b].pc = "replace" =>
        \/ marks'[act'[b].obj] = Chunks
        \/ /\ act[b].pc = "replace" /\ act'[b].obj = act[b].obj
           /\ marks'[act[b].obj] = marks[act[b].obj]

ReadSound(b) ==
    act'[b].pc \in {"size", "open"} =>
        \/ underfoot' \/ act'[b].range \subseteq InFile'
        \/ /\ Reading(b) /\ act'[b].range = act[b].range
           /\ InFile \subseteq InFile'

IndexSound ==
    \/ underfoot' \/ BetweenTheTwo' \/ current' = None \/ marks'[current'] \subseteq InFile'
    \/ /\ current' = current /\ marks'[current'] \subseteq marks[current] \cup InFile'
       /\ InFile \subseteq InFile'

WindowSound ==
    /\ underfoot => underfoot'
    /\ BetweenTheTwo => BetweenTheTwo' \/ current' = None

CachedSound == underfoot' \/ mp4' \in {mp4, NoFile, Chunks}

Sound == /\ WindowSound /\ CachedSound /\ IndexSound
         /\ \A b \in Actors: AddSound(b) /\ FullSound(b) /\ ReadSound(b)

\* A sound step keeps every promise.
LEMMA SoundKeeps == MediaTyped /\ MediaTyped' /\ Keeps /\ Sound => Keeps'
<1> SUFFICES ASSUME MediaTyped, MediaTyped', Keeps, Sound PROVE Keeps' OBVIOUS
<1>w. WindowSound BY DEF Sound
<1>1. CachedIsWhole' BY DEF Keeps, Sound, CachedSound, WindowSound, CachedIsWhole
<1>2. IndexTrue'
  BY <1>w DEF Keeps, Sound, IndexSound, WindowSound, IndexTrue
<1>3. FullAtReplace'
  BY DEF Keeps, Sound, FullSound, FullAtReplace
<1>4. AddedIsWritten'
  <2> SUFFICES ASSUME ~underfoot', ~BetweenTheTwo', NEW a \in Actors,
                      act'[a].pc = "add", act'[a].obj = current'
               PROVE  Min(act'[a].todo) \in InFile'
    BY DEF AddedIsWritten
  <2>1. AddSound(a) BY DEF Sound
  <2>2. current' # None
    <3>1. act'[a].obj \in Indexes BY DEF MediaTyped, ActTyped, Working
    <3> QED BY <3>1, Marks
  <2>3. ~underfoot /\ ~BetweenTheTwo BY <1>w, <2>2 DEF WindowSound
  <2>4. act[a].pc = "add" /\ act[a].obj = current => Min(act[a].todo) \in InFile
    BY <2>3 DEF Keeps, AddedIsWritten
  <2> QED BY <2>1, <2>4 DEF AddSound
<1>5. ReadIsThere'
  BY <1>w DEF Keeps, Sound, ReadSound, ReadIsThere, WindowSound, Reading
<1> QED BY <1>1, <1>2, <1>3, <1>4, <1>5 DEF Keeps

\* An actor that is none of those that promised something.
Careless(r) == r.pc \notin {"add", "replace", "size", "open"}

\* One actor moves, and perhaps the fill is started: the others' promises stand.
LEMMA OneActorIsSound ==
  ASSUME MediaTyped, MediaTyped', Keeps, NEW a \in Actors,
         act[a].pc # "pop", cleaner' = cleaner,
         \A b \in Actors \ {a}: \/ act'[b] = act[b]
                                \/ act[b].pc = "off" /\ act'[b].pc = "start",
         underfoot => underfoot', CachedSound, IndexSound,
         InFile \subseteq InFile',
         \A b \in Actors \ {a}: act[b].pc = "replace" => marks'[act[b].obj] = marks[act[b].obj]
                                                          \/ marks'[act[b].obj] = Chunks,
         \A b \in Actors \ {a}: act[b].pc = "add" /\ act[b].obj = current' => current' = current,
         AddSound(a), FullSound(a), ReadSound(a)
  PROVE  Sound
<1>1. WindowSound
  <2>1. \A b \in Actors: act[b].pc = "pop" => b # a /\ act'[b].pc = "pop" OBVIOUS
  <2> QED BY <2>1 DEF WindowSound, BetweenTheTwo
<1>2. ASSUME NEW b \in Actors, b # a PROVE AddSound(b) /\ FullSound(b) /\ ReadSound(b)
  <2>1. CASE act'[b] = act[b]
    <3>1. AddSound(b) BY <1>2, <2>1 DEF AddSound
    <3>2. FullSound(b) BY <1>2, <2>1 DEF FullSound
    <3>3. ReadSound(b) BY <1>2, <2>1 DEF ReadSound, Reading
    <3> QED BY <3>1, <3>2, <3>3
  <2>2. CASE act'[b].pc = "start"
    BY <2>2 DEF AddSound, FullSound, ReadSound
  <2> QED BY <1>2, <2>1, <2>2
<1> QED BY <1>1, <1>2 DEF Sound

\* It promises nothing and touches neither file nor index.
LEMMA CarelessIsSound ==
  ASSUME MediaTyped, MediaTyped', Keeps, NEW a \in Actors, NEW r,
         act' = [act EXCEPT ![a] = r], Careless(r), act[a].pc # "pop",
         UNCHANGED <<mp4, part, current, cleaner, underfoot>>,
         marks' = marks \/ Collected
  PROVE  Sound
<1>1. act'[a] = r /\ \A b \in Actors \ {a}: act'[b] = act[b] BY DEF MediaTyped, ActTyped
<1>2. AddSound(a) /\ FullSound(a) /\ ReadSound(a)
  BY <1>1 DEF Careless, AddSound, FullSound, ReadSound
<1>3. \A i \in Indexes: i \in InUse' => marks'[i] = marks[i]
  BY CollectedKeeps DEF MediaTyped, IndexTyped
<1>4. \A b \in Actors: act'[b].obj \in InUse' BY DEF InUse
<1>5. IndexSound
  <2>1. current' \in InUse' BY DEF InUse
  <2>2. current' # None => marks'[current'] = marks[current]
    BY <1>3, <2>1 DEF MediaTyped, IndexTyped
  <2> QED BY <2>2 DEF IndexSound, InFile
<1>6. ASSUME NEW b \in Actors \ {a}, act[b].pc = "replace"
      PROVE  marks'[act[b].obj] = marks[act[b].obj]
  <2>1. act[b].obj \in Indexes BY <1>6 DEF MediaTyped, ActTyped, Working
  <2>2. act'[b].obj = act[b].obj BY <1>1
  <2> QED BY <1>3, <1>4, <2>1, <2>2
<1>7. CachedSound BY DEF CachedSound
<1>8. InFile \subseteq InFile' BY DEF InFile
<1>9. cleaner' = cleaner /\ current' = current /\ underfoot' = underfoot OBVIOUS
<1> QED BY <1>1, <1>2, <1>5, <1>6, <1>7, <1>8, <1>9, OneActorIsSound

\* It looks its index up, and perhaps the fill is started.
LEMMA LookupIsSound ==
  ASSUME MediaTyped, MediaTyped', Keeps, NEW a \in Actors, NEW o \in Indexes, Lookup(o),
         act[a].pc # "pop",
         \A b \in Actors \ {a}: \/ act'[b] = act[b]
                                \/ act[b].pc = "off" /\ act'[b].pc = "start",
         UNCHANGED <<mp4, part, cleaner>>, underfoot => underfoot',
         AddSound(a), FullSound(a), ReadSound(a)
  PROVE  Sound
<1>1. /\ current' = o
      /\ \A i \in Indexes: i \in InUse => marks'[i] = marks[i]
      /\ current # None => current = o /\ marks' = marks
      /\ current = None => o \notin InUse /\ marks'[o] = {}
  BY LookupKeeps DEF MediaTyped
<1>2. IndexSound BY <1>1 DEF IndexSound, InFile
<1>3. ASSUME NEW b \in Actors \ {a}
      PROVE  /\ act[b].pc = "replace" => marks'[act[b].obj] = marks[act[b].obj]
             /\ act[b].pc = "add" /\ act[b].obj = current' => current' = current
  <2>1. act[b].obj \in InUse BY DEF InUse
  <2>2. act[b].pc = "replace" => act[b].obj \in Indexes BY DEF MediaTyped, ActTyped, Working
  <2> QED BY <1>1, <2>1, <2>2
<1>4. CachedSound BY DEF CachedSound
<1>5. InFile \subseteq InFile' BY DEF InFile
<1>6. cleaner' = cleaner OBVIOUS
<1> QED BY <1>2, <1>3, <1>4, <1>5, <1>6, OneActorIsSound

-----------------------------------------------------------------------------
(***************************************************************************)
(* The steps of the viewers.                                               *)
(***************************************************************************)
LEMMA RequestStep ==
  ASSUME MediaTyped, Keeps, NEW v \in Viewers, NEW first \in Chunks, NEW last \in Chunks,
         Request(v, first, last)
  PROVE  MediaTyped' /\ Sound
<1> DEFINE r == [Off EXCEPT !.pc = "hit", !.range = first..last]
<1>1. v \in Actors BY DEF Actors
<1>2. first..last \subseteq Chunks BY MediaAssumption DEF Chunks
<1>3. Fit(r) BY <1>2, OffIsFit DEF Fit, ActorStates, Off, Pcs
<1>4. Careless(r) BY DEF Careless, Off
<1> HIDE DEF r
<1>5. act' = [act EXCEPT ![v] = r] /\ act[v].pc # "pop" BY DEF Request, r
<1>6. UNCHANGED <<mp4, part, marks, current, cleaner, underfoot, warmed, inflight, loader>>
  BY DEF Request, maps, loads
<1>7. ActTyped' BY <1>1, <1>3, <1>5, OneMoves DEF MediaTyped
<1>8. MediaTyped' BY <1>6, <1>7 DEF MediaTyped, FilesTyped, IndexTyped, FlagsTyped
<1> QED BY <1>1, <1>4, <1>5, <1>6, <1>8, CarelessIsSound

LEMMA OpenStep ==
  ASSUME MediaTyped, Keeps, NEW v \in Viewers, Open(v)
  PROVE  MediaTyped' /\ Sound
<1>1. v \in Actors BY DEF Actors
<1>2. Careless(Off) BY DEF Careless, Off
<1>3. act' = [act EXCEPT ![v] = Off] /\ act[v].pc # "pop" BY DEF Open, Gone
<1>4. UNCHANGED <<mp4, part, marks, current, cleaner, underfoot, warmed, inflight, loader>>
  BY DEF Open, maps, loads
<1>5. ActTyped' BY <1>1, <1>3, OffIsFit, OneMoves DEF MediaTyped
<1>6. MediaTyped' BY <1>4, <1>5 DEF MediaTyped, FilesTyped, IndexTyped, FlagsTyped
<1> QED BY <1>1, <1>2, <1>3, <1>4, <1>6, CarelessIsSound

\* A transfer goes, and with it what only it kept of the index.
LEMMA LeaveKeeps ==
  ASSUME MediaTyped, Keeps, NEW a \in Actors, Leave(a), act[a].pc # "pop",
         UNCHANGED <<mp4, part, cleaner, underfoot, warmed, inflight, loader>>
  PROVE  MediaTyped' /\ Sound
<1>1. Careless(Off) BY DEF Careless, Off
<1>2. act' = [act EXCEPT ![a] = Off] /\ current' = current /\ Collected
  BY DEF Leave, Gone
<1>3. ActTyped' BY <1>2, OffIsFit, OneMoves DEF MediaTyped
<1>4. IndexTyped' BY <1>2, CollectedKeeps DEF MediaTyped, IndexTyped
<1>5. MediaTyped' BY <1>3, <1>4 DEF MediaTyped, FilesTyped, FlagsTyped
<1> QED BY <1>1, <1>2, <1>5, CarelessIsSound

LEMMA DisconnectStep ==
  ASSUME MediaTyped, Keeps, NEW v \in Viewers, Disconnect(v)
  PROVE  MediaTyped' /\ Sound
  BY LeaveKeeps DEF Disconnect, Actors, loads

\* The fill is started by an actor that turns to fetching.
LEMMA TurnsToFetching ==
  ASSUME MediaTyped, NEW a \in Actors,
         act' = FillUnlessRunning([act EXCEPT ![a].pc = "start"])
  PROVE  /\ ActTyped' /\ act'[a].pc = "start"
         /\ \A b \in Actors \ {a}: \/ act'[b] = act[b]
                                   \/ act[b].pc = "off" /\ act'[b].pc = "start"
<1> DEFINE r == [act[a] EXCEPT !.pc = "start"]
           next == [act EXCEPT ![a] = r]
<1>1. act \in [Actors -> ActorStates] BY DEF MediaTyped, ActTyped, ActorStates
<1>2. "fill" \in Actors BY DEF Actors
<1>3. Fit(r) /\ r.pc = "start" BY <1>1 DEF Fit, ActorStates, Pcs
<1>4. [act EXCEPT ![a].pc = "start"] = next OBVIOUS
<1> HIDE DEF r
<1>5. next \in [Actors -> ActorStates] BY <1>1, <1>3 DEF Fit
<1>6. next[a] = r /\ \A b \in Actors \ {a}: next[b] = act[b] BY <1>1
<1>7. act' = FillUnlessRunning(next) BY <1>4
<1> HIDE DEF next
<1>8. /\ act' \in [Actors -> ActorStates]
      /\ \A b \in Actors \ {"fill"}: act'[b] = next[b]
      /\ \/ act'["fill"] = next["fill"]
         \/ /\ next["fill"].pc = "off"
            /\ act'["fill"] = [next["fill"] EXCEPT !.pc = "start"]
  BY <1>5, <1>7, FillStarts
<1>9. \/ act'["fill"] = next["fill"]
      \/ next["fill"].pc = "off" /\ act'["fill"].pc = "start"
  BY <1>2, <1>5, <1>8 DEF ActorStates
<1>10. act'[a].pc = "start" BY <1>2, <1>3, <1>6, <1>8, <1>9
<1>11. \A b \in Actors \ {a}: \/ act'[b] = act[b]
                              \/ act[b].pc = "off" /\ act'[b].pc = "start"
  BY <1>2, <1>6, <1>8, <1>9
<1>12. ASSUME NEW b \in Actors
       PROVE  /\ Working(b)' => act'[b].obj \in Indexes
              /\ act'[b].pc \in {"write", "add"} => act'[b].todo # {}
  <2>1. CASE act'[b].pc = "start" BY <2>1 DEF Working
  <2>2. CASE act'[b] = act[b] BY <2>2 DEF Working, MediaTyped, ActTyped
  <2> QED BY <1>10, <1>11, <2>1, <2>2
<1> QED BY <1>8, <1>10, <1>11, <1>12 DEF ActTyped, ActorStates

LEMMA HitStep ==
  ASSUME MediaTyped, Keeps, NEW v \in Viewers, Hit(v)
  PROVE  MediaTyped' /\ Sound
<1>1. v \in Actors /\ act[v].pc = "hit" BY DEF Actors, Hit
<1>2. /\ UNCHANGED <<mp4, part, warmed, cleaner, inflight, loader>>
      /\ underfoot' = (underfoot \/ BetweenTheTwo)
  BY DEF Hit, loads
<1>3. PICK o \in Indexes:
        /\ Lookup(o)
        /\ IF Held(act[v].range, marks'[o]) THEN Enter(v, "size")
           ELSE act' = FillUnlessRunning([act EXCEPT ![v].pc = "start"])
  BY DEF Hit
<1>4. IndexTyped' /\ current' = o BY <1>3, LookupKeeps DEF MediaTyped
<1>5. FilesTyped' /\ FlagsTyped'
  BY <1>2 DEF MediaTyped, FilesTyped, FlagsTyped, BetweenTheTwo
<1>6. CASE Held(act[v].range, marks'[o])
  <2> DEFINE r == [act[v] EXCEPT !.pc = "size"]
  <2>1. act' = [act EXCEPT ![v] = r] BY <1>3, <1>6 DEF Enter
  <2>2. act[v] \in ActorStates BY <1>1 DEF MediaTyped, ActTyped, ActorStates
  <2>3. Fit(r) /\ r.pc = "size" /\ r.range = act[v].range
    BY <2>2 DEF Fit, ActorStates, Pcs
  <2> HIDE DEF r
  <2>4. ActTyped' /\ act'[v] = r /\ \A b \in Actors \ {v}: act'[b] = act[b]
    BY <1>1, <2>1, <2>3, OneMoves DEF MediaTyped
  <2>5. MediaTyped' BY <1>4, <1>5, <2>4 DEF MediaTyped
  <2>6. underfoot' \/ r.range \subseteq InFile'
    <3> SUFFICES ASSUME ~underfoot' PROVE r.range \subseteq InFile' OBVIOUS
    <3>1. ~underfoot /\ ~BetweenTheTwo BY <1>2
    <3>2. current = None \/ marks[current] \subseteq InFile
      BY <3>1 DEF Keeps, IndexTrue
    <3>3. InFile' = InFile BY <1>2 DEF InFile
    <3>4. marks'[o] \subseteq InFile BY <1>3, <3>2, LookupKeeps DEF MediaTyped
    <3> QED BY <1>6, <2>3, <3>3, <3>4 DEF Held
  <2>7. AddSound(v) /\ FullSound(v) /\ ReadSound(v)
    BY <2>3, <2>4, <2>6 DEF AddSound, FullSound, ReadSound
  <2>8. (underfoot => underfoot') /\ act[v].pc # "pop" /\ UNCHANGED <<mp4, part, cleaner>>
    BY <1>1, <1>2
  <2> QED BY <1>1, <1>3, <2>4, <2>5, <2>7, <2>8, LookupIsSound
<1>7. CASE ~Held(act[v].range, marks'[o])
  <2>1. act' = FillUnlessRunning([act EXCEPT ![v].pc = "start"]) BY <1>3, <1>7
  <2>2. /\ ActTyped' /\ act'[v].pc = "start"
        /\ \A b \in Actors \ {v}: \/ act'[b] = act[b]
                                  \/ act[b].pc = "off" /\ act'[b].pc = "start"
    BY <1>1, <2>1, TurnsToFetching
  <2>3. MediaTyped' BY <1>4, <1>5, <2>2 DEF MediaTyped
  <2>4. AddSound(v) /\ FullSound(v) /\ ReadSound(v)
    BY <2>2 DEF AddSound, FullSound, ReadSound
  <2>5. (underfoot => underfoot') /\ act[v].pc # "pop" /\ UNCHANGED <<mp4, part, cleaner>>
    BY <1>1, <1>2
  <2> QED BY <1>1, <1>3, <2>2, <2>3, <2>4, <2>5, LookupIsSound
<1> QED BY <1>6, <1>7

LEMMA SizeStep ==
  ASSUME MediaTyped, Keeps, NEW v \in Viewers, Size(v)
  PROVE  MediaTyped' /\ Sound
<1>1. v \in Actors /\ act[v].pc = "size" BY DEF Actors, Size
<1>2. UNCHANGED <<mp4, part, marks, current, warmed, cleaner, inflight, loader, underfoot>>
  BY DEF Size, loads, maps
<1>3. FilesTyped' /\ FlagsTyped' /\ IndexTyped'
  BY <1>2 DEF MediaTyped, FilesTyped, FlagsTyped, IndexTyped
<1>4. InFile' = InFile BY <1>2 DEF InFile
<1>5. /\ act[v].pc # "pop" /\ cleaner' = cleaner /\ (underfoot => underfoot')
      /\ InFile \subseteq InFile' /\ current' = current
      /\ \A b \in Actors \ {v}: act[b].pc = "replace" => marks'[act[b].obj] = marks[act[b].obj]
  BY <1>1, <1>2, <1>4
<1>6. CachedSound /\ IndexSound BY <1>2, <1>4 DEF CachedSound, IndexSound
<1>7. CASE LongEnough(act[v].range)
  <2> DEFINE r == [act[v] EXCEPT !.pc = "open"]
  <2>1. act' = [act EXCEPT ![v] = r] BY <1>7 DEF Enter, Size
  <2>2. act[v] \in ActorStates BY <1>1 DEF MediaTyped, ActTyped, ActorStates
  <2>3. Fit(r) /\ r.pc = "open" /\ r.range = act[v].range
    BY <2>2 DEF Fit, ActorStates, Pcs
  <2> HIDE DEF r
  <2>4. ActTyped' /\ act'[v] = r /\ \A b \in Actors \ {v}: act'[b] = act[b]
    BY <1>1, <2>1, <2>3, OneMoves DEF MediaTyped
  <2>5. MediaTyped' BY <1>3, <2>4 DEF MediaTyped
  <2>6. AddSound(v) /\ FullSound(v) /\ ReadSound(v)
    BY <1>1, <1>4, <2>3, <2>4 DEF AddSound, FullSound, ReadSound, Reading
  <2> QED BY <1>1, <1>5, <1>6, <2>4, <2>5, <2>6, OneActorIsSound
<1>8. CASE ~LongEnough(act[v].range)
  <2>1. act' = FillUnlessRunning([act EXCEPT ![v].pc = "start"]) BY <1>8 DEF Size
  <2>2. /\ ActTyped' /\ act'[v].pc = "start"
        /\ \A b \in Actors \ {v}: \/ act'[b] = act[b]
                                  \/ act[b].pc = "off" /\ act'[b].pc = "start"
    BY <1>1, <2>1, TurnsToFetching
  <2>3. MediaTyped' BY <1>3, <2>2 DEF MediaTyped
  <2>4. AddSound(v) /\ FullSound(v) /\ ReadSound(v)
    BY <2>2 DEF AddSound, FullSound, ReadSound
  <2> QED BY <1>1, <1>5, <1>6, <2>2, <2>3, <2>4, OneActorIsSound
<1> QED BY <1>7, <1>8

-----------------------------------------------------------------------------
(***************************************************************************)
(* The steps of the transfers.                                             *)
(***************************************************************************)
LEMMA PrefetchStep ==
  ASSUME MediaTyped, Keeps, Prefetch
  PROVE  MediaTyped' /\ Sound
<1> DEFINE r == [act["warm"] EXCEPT !.pc = "start"]
<1>1. "warm" \in Actors BY DEF Actors
<1>2. act["warm"] \in ActorStates BY <1>1 DEF MediaTyped, ActTyped, ActorStates
<1>3. Fit(r) /\ Careless(r) BY <1>2 DEF Fit, ActorStates, Pcs, Careless
<1>4. act' = [act EXCEPT !["warm"] = r] /\ act["warm"].pc # "pop" BY DEF Prefetch, Enter
<1> HIDE DEF r
<1>5. UNCHANGED <<mp4, part, marks, current, cleaner, underfoot, inflight, loader>> /\ warmed' = TRUE
  BY DEF Prefetch, maps, loads
<1>6. ActTyped' BY <1>1, <1>3, <1>4, OneMoves DEF MediaTyped
<1>7. MediaTyped' BY <1>5, <1>6 DEF MediaTyped, FilesTyped, IndexTyped, FlagsTyped
<1> QED BY <1>1, <1>3, <1>4, <1>5, <1>7, CarelessIsSound

\* A transfer wants chunks of the video.
LEMMA WantedAreChunks ==
  ASSUME MediaTyped, NEW a \in Actors, NEW held
  PROVE  Wanted(a, held) \subseteq Chunks
<1>1. act[a].range \subseteq Chunks BY DEF MediaTyped, ActTyped
<1>2. {0, N - 1} \subseteq Chunks BY MediaAssumption DEF Chunks
<1> QED BY <1>1, <1>2 DEF Wanted

LEMMA StartStep ==
  ASSUME MediaTyped, Keeps, NEW a \in Actors, Start(a)
  PROVE  MediaTyped' /\ Sound
<1>1. act[a].pc = "start" BY DEF Start
<1>2. UNCHANGED <<mp4, part, warmed, cleaner, inflight, loader, underfoot>>
  BY DEF Start, loads
<1>3. FilesTyped' /\ FlagsTyped' BY <1>2 DEF MediaTyped, FilesTyped, FlagsTyped
<1>4. CASE a = "fill" /\ mp4 # NoFile
  <2>1. act' = [act EXCEPT ![a] = Off] /\ UNCHANGED <<marks, current>>
    BY <1>4 DEF Start, Gone, maps
  <2>2. ActTyped' BY <2>1, OffIsFit, OneMoves DEF MediaTyped
  <2>3. MediaTyped' BY <1>3, <2>1, <2>2 DEF MediaTyped, IndexTyped
  <2>4. Careless(Off) /\ act[a].pc # "pop" BY <1>1 DEF Careless, Off
  <2>5. UNCHANGED <<mp4, part, current, cleaner, underfoot>> /\ marks' = marks
    BY <1>2, <2>1
  <2> QED BY <2>1, <2>3, <2>4, <2>5, CarelessIsSound
<1>5. CASE ~(a = "fill" /\ mp4 # NoFile)
  <2>1. PICK o \in Indexes:
          /\ Lookup(o)
          /\ act' = [act EXCEPT ![a].pc = "pull", ![a].obj = o,
                                ![a].todo = Wanted(a, marks'[o]), ![a].range = {}]
    BY <1>5 DEF Start
  <2> DEFINE r == [act[a] EXCEPT !.pc = "pull", !.obj = o,
                                 !.todo = Wanted(a, marks'[o]), !.range = {}]
  <2>2. act' = [act EXCEPT ![a] = r] BY <2>1 DEF MediaTyped, ActTyped
  <2>3. act[a] \in ActorStates BY DEF MediaTyped, ActTyped, ActorStates
  <2>4. Wanted(a, marks'[o]) \in SUBSET Chunks BY WantedAreChunks
  <2>5. Fit(r) /\ r.pc = "pull" BY <2>3, <2>4 DEF Fit, ActorStates, Pcs
  <2> HIDE DEF r
  <2>6. ActTyped' /\ act'[a] = r /\ \A b \in Actors \ {a}: act'[b] = act[b]
    BY <2>2, <2>5, OneMoves DEF MediaTyped
  <2>7. IndexTyped' BY <2>1, LookupKeeps DEF MediaTyped
  <2>8. MediaTyped' BY <1>3, <2>6, <2>7 DEF MediaTyped
  <2>9. AddSound(a) /\ FullSound(a) /\ ReadSound(a)
    BY <2>5, <2>6 DEF AddSound, FullSound, ReadSound
  <2>10. (underfoot => underfoot') /\ act[a].pc # "pop" /\ UNCHANGED <<mp4, part, cleaner>>
    BY <1>1, <1>2
  <2> QED BY <2>1, <2>6, <2>8, <2>9, <2>10, LookupIsSound
<1> QED BY <1>4, <1>5

\* A transfer goes on: to the next chunk or to the writing of this one.
LEMMA GoesOn ==
  ASSUME MediaTyped, Keeps, NEW a \in Actors, NEW r, Fit(r), Careless(r), act[a].pc # "pop",
         act' = [act EXCEPT ![a] = r],
         UNCHANGED <<mp4, part, marks, current, warmed, cleaner, inflight, loader, underfoot>>
  PROVE  MediaTyped' /\ Sound
<1>1. ActTyped' BY OneMoves DEF MediaTyped
<1>2. MediaTyped' BY <1>1 DEF MediaTyped, FilesTyped, IndexTyped, FlagsTyped
<1>3. UNCHANGED <<mp4, part, current, cleaner, underfoot>> /\ marks' = marks OBVIOUS
<1> QED BY <1>2, <1>3, CarelessIsSound

LEMMA ArrivesStep ==
  ASSUME MediaTyped, Keeps, NEW a \in Actors, Arrives(a)
  PROVE  MediaTyped' /\ Sound
<1> DEFINE c == Min(act[a].todo)
           had == [act[a] EXCEPT !.todo = @ \ {c}]
           new == [act[a] EXCEPT !.pc = "write"]
<1>1. act[a].pc = "pull" /\ act[a].todo # {}
      /\ UNCHANGED <<mp4, part, marks, current, warmed, cleaner, inflight, loader, underfoot>>
  BY DEF Arrives, maps, loads
<1>2. act[a] \in ActorStates /\ act[a].obj \in Indexes
  BY <1>1 DEF MediaTyped, ActTyped, ActorStates, Working
<1>3. Fit(had) /\ Careless(had) BY <1>1, <1>2 DEF Fit, ActorStates, Careless
<1>4. Fit(new) /\ Careless(new) BY <1>1, <1>2 DEF Fit, ActorStates, Careless, Pcs
<1>5. \/ act' = [act EXCEPT ![a] = had]
      \/ act' = [act EXCEPT ![a] = new]
  BY DEF Arrives, Enter
<1> HIDE DEF had, new
<1>6. act[a].pc # "pop" BY <1>1
<1>7. CASE act' = [act EXCEPT ![a] = had] BY <1>1, <1>3, <1>6, <1>7, GoesOn
<1>8. CASE act' = [act EXCEPT ![a] = new] BY <1>1, <1>4, <1>6, <1>8, GoesOn
<1> QED BY <1>5, <1>7, <1>8

LEMMA WriteFailsStep ==
  ASSUME MediaTyped, Keeps, NEW a \in Actors, WriteFails(a)
  PROVE  MediaTyped' /\ Sound
<1> DEFINE r == [act[a] EXCEPT !.pc = "pull", !.todo = @ \ {Min(@)}]
<1>1. act[a].pc = "write"
      /\ UNCHANGED <<mp4, part, marks, current, warmed, cleaner, inflight, loader, underfoot>>
  BY DEF WriteFails, maps, loads
<1>2. act[a] \in ActorStates /\ act[a].obj \in Indexes
  BY <1>1 DEF MediaTyped, ActTyped, ActorStates, Working
<1>3. Fit(r) /\ Careless(r) BY <1>1, <1>2 DEF Fit, ActorStates, Careless, Pcs
<1>4. act' = [act EXCEPT ![a] = r] BY DEF WriteFails
<1> HIDE DEF r
<1>5. act[a].pc # "pop" BY <1>1
<1> QED BY <1>1, <1>3, <1>4, <1>5, GoesOn

LEMMA BreaksStep ==
  ASSUME MediaTyped, Keeps, NEW a \in Actors, Breaks(a)
  PROVE  MediaTyped' /\ Sound
<1>1. act[a].pc = "pull" /\ act[a].pc # "pop"
      /\ UNCHANGED <<mp4, part, warmed, cleaner, inflight, loader, underfoot>>
  BY DEF Breaks, loads
<1>2. CASE Leave(a) BY <1>1, <1>2, LeaveKeeps
<1>3. CASE act' = [act EXCEPT ![a].todo = {}] /\ UNCHANGED maps
  <2> DEFINE r == [act[a] EXCEPT !.todo = {}]
  <2>1. act[a] \in ActorStates /\ act[a].obj \in Indexes
    BY <1>1 DEF MediaTyped, ActTyped, ActorStates, Working
  <2>2. Fit(r) /\ Careless(r) BY <1>1, <2>1 DEF Fit, ActorStates, Careless
  <2>3. act' = [act EXCEPT ![a] = r] /\ UNCHANGED <<marks, current>> BY <1>3 DEF maps
  <2> HIDE DEF r
  <2> QED BY <1>1, <2>2, <2>3, GoesOn
<1> QED BY <1>2, <1>3 DEF Breaks

\* The chunk is in the file before anything says so.
LEMMA WriteStep ==
  ASSUME MediaTyped, Keeps, NEW a \in Actors, Write(a)
  PROVE  MediaTyped' /\ Sound
<1> DEFINE c == Min(act[a].todo)
           r == [act[a] EXCEPT !.pc = "add"]
<1>1. /\ act[a].pc = "write" /\ part' = InFile \cup {c}
      /\ UNCHANGED <<mp4, marks, current, warmed, cleaner, inflight, loader, underfoot>>
  BY DEF Write, maps, loads, InFile
<1>2. act[a] \in ActorStates /\ act[a].obj \in Indexes /\ act[a].todo # {}
      /\ act[a].todo \subseteq Chunks
  BY <1>1 DEF MediaTyped, ActTyped, ActorStates, Working
<1>3. c \in act[a].todo /\ c \in Chunks BY <1>2, FirstChunk
<1>4. Fit(r) /\ r.pc = "add" /\ r.todo = act[a].todo BY <1>2 DEF Fit, ActorStates, Pcs
<1>5. act' = [act EXCEPT ![a] = r] BY DEF Write, Enter
<1> HIDE DEF c, r
<1>6. ActTyped' /\ act'[a] = r /\ \A b \in Actors \ {a}: act'[b] = act[b]
  BY <1>4, <1>5, OneMoves DEF MediaTyped
<1>7. part' \in SUBSET Chunks /\ InFile' = InFile \cup {c}
  <2>1. InFile \subseteq Chunks BY Marks DEF InFile, MediaTyped, FilesTyped, NoFile
  <2>2. part' \in SUBSET Chunks BY <1>1, <1>3, <2>1
  <2>3. part' # NoFile BY <2>2, Marks DEF NoFile
  <2> QED BY <1>1, <2>2, <2>3 DEF InFile
<1>8. MediaTyped' BY <1>1, <1>6, <1>7 DEF MediaTyped, FilesTyped, IndexTyped, FlagsTyped
<1>9. AddSound(a) /\ FullSound(a) /\ ReadSound(a)
  BY <1>4, <1>6, <1>7 DEF AddSound, FullSound, ReadSound, c
<1>10. /\ act[a].pc # "pop" /\ cleaner' = cleaner /\ (underfoot => underfoot')
       /\ InFile \subseteq InFile' /\ current' = current
       /\ \A b \in Actors \ {a}: act[b].pc = "replace" => marks'[act[b].obj] = marks[act[b].obj]
  BY <1>1, <1>7
<1>11. CachedSound /\ IndexSound BY <1>1, <1>7 DEF CachedSound, IndexSound
<1> QED BY <1>6, <1>8, <1>9, <1>10, <1>11, OneActorIsSound

\* Only what is written is recorded, as long as the object is the video's own.
LEMMA AddStep ==
  ASSUME MediaTyped, Keeps, NEW a \in Actors, Add(a)
  PROVE  MediaTyped' /\ Sound
<1> DEFINE c == Min(act[a].todo)
           o == act[a].obj
           r == [act[a] EXCEPT !.pc = "pull", !.todo = @ \ {c}]
<1>1. /\ act[a].pc = "add" /\ marks' = [marks EXCEPT ![o] = @ \cup {c}]
      /\ UNCHANGED <<mp4, part, current, warmed, cleaner, inflight, loader, underfoot>>
  BY DEF Add, loads
<1>2. act[a] \in ActorStates /\ o \in Indexes /\ act[a].todo # {}
      /\ act[a].todo \subseteq Chunks
  BY <1>1 DEF MediaTyped, ActTyped, ActorStates, Working
<1>3. c \in Chunks BY <1>2, FirstChunk
<1>4. Fit(r) /\ r.pc = "pull" BY <1>2 DEF Fit, ActorStates, Pcs
<1>5. act' = [act EXCEPT ![a] = r] BY DEF Add
<1>6. underfoot \/ BetweenTheTwo \/ (o = current => c \in InFile)
  BY <1>1 DEF Keeps, AddedIsWritten
<1> HIDE DEF c, r, o
<1>7. ActTyped' /\ act'[a] = r /\ \A b \in Actors \ {a}: act'[b] = act[b]
  BY <1>4, <1>5, OneMoves DEF MediaTyped
<1>8. /\ marks' \in [Indexes -> SUBSET Chunks]
      /\ marks'[o] = marks[o] \cup {c}
      /\ \A i \in Indexes: i # o => marks'[i] = marks[i]
  BY <1>1, <1>2, <1>3 DEF MediaTyped, IndexTyped
<1>9. MediaTyped' BY <1>1, <1>7, <1>8 DEF MediaTyped, FilesTyped, IndexTyped, FlagsTyped
<1>10. InFile' = InFile BY <1>1 DEF InFile
<1>11. BetweenTheTwo => BetweenTheTwo'
  BY <1>1, <1>7 DEF BetweenTheTwo
<1>12. IndexSound
  <2>1. CASE current = None BY <1>1, <2>1 DEF IndexSound
  <2>2. CASE current # None /\ current # o
    <3>1. marks'[current] = marks[current] BY <1>8, <2>2 DEF MediaTyped, IndexTyped
    <3> QED BY <1>1, <1>10, <3>1 DEF IndexSound
  <2>3. CASE current = o
    <3>1. underfoot' \/ BetweenTheTwo' \/ c \in InFile'
      BY <1>1, <1>6, <1>10, <1>11, <2>3
    <3> QED BY <1>1, <1>8, <1>10, <2>3, <3>1 DEF IndexSound
  <2> QED BY <2>1, <2>2, <2>3
<1>13. ASSUME NEW b \in Actors \ {a}, act[b].pc = "replace"
       PROVE  marks'[act[b].obj] = marks[act[b].obj] \/ marks'[act[b].obj] = Chunks
  <2>1. act[b].obj \in Indexes /\ marks[act[b].obj] = Chunks
    BY <1>13 DEF MediaTyped, ActTyped, Working, Keeps, FullAtReplace
  <2> QED BY <1>3, <1>8, <2>1
<1>14. AddSound(a) /\ FullSound(a) /\ ReadSound(a)
  BY <1>4, <1>7 DEF AddSound, FullSound, ReadSound
<1>15. CachedSound /\ InFile \subseteq InFile' BY <1>1, <1>10 DEF CachedSound
<1>16. act[a].pc # "pop" /\ cleaner' = cleaner /\ current' = current /\ (underfoot => underfoot')
  BY <1>1
<1> QED BY <1>7, <1>9, <1>12, <1>13, <1>14, <1>15, <1>16, OneActorIsSound

\* As many chunks as the video has are all its chunks.
LEMMA PromoteStep ==
  ASSUME MediaTyped, Keeps, NEW a \in Actors, Promote(a)
  PROVE  MediaTyped' /\ Sound
<1>1. act[a].pc = "pull" /\ act[a].pc # "pop"
      /\ UNCHANGED <<mp4, part, warmed, cleaner, inflight, loader, underfoot>>
  BY DEF Promote, loads
<1>2. CASE Cardinality(marks[act[a].obj]) < N
  <2>1. Leave(a) BY <1>2 DEF Promote
  <2> QED BY <1>1, <2>1, LeaveKeeps
<1>3. CASE ~(Cardinality(marks[act[a].obj]) < N)
  <2> DEFINE r == [act[a] EXCEPT !.pc = "replace"]
  <2>1. act' = [act EXCEPT ![a] = r] /\ UNCHANGED <<marks, current>>
    BY <1>3 DEF Promote, Enter, maps
  <2>2. act[a] \in ActorStates /\ act[a].obj \in Indexes
    BY <1>1 DEF MediaTyped, ActTyped, ActorStates, Working
  <2>3. Fit(r) /\ r.pc = "replace" /\ r.obj = act[a].obj
    BY <2>2 DEF Fit, ActorStates, Pcs
  <2> HIDE DEF r
  <2>4. ActTyped' /\ act'[a] = r /\ \A b \in Actors \ {a}: act'[b] = act[b]
    BY <2>1, <2>3, OneMoves DEF MediaTyped
  <2>5. MediaTyped' BY <1>1, <2>1, <2>4 DEF MediaTyped, FilesTyped, IndexTyped, FlagsTyped
  <2>6. marks[act[a].obj] = Chunks
    <3> DEFINE held == marks[act[a].obj]
    <3>1. held \in SUBSET Chunks BY <2>2 DEF MediaTyped, IndexTyped
    <3> HIDE DEF held
    <3>2. IsFiniteSet(held) /\ Cardinality(held) <= N
          /\ (N = Cardinality(held) => Chunks = held)
      BY <3>1, ChunksCounted, FS_Subset
    <3>3. Cardinality(held) \in Nat BY <3>2, FS_CardinalityType
    <3>4. ~(Cardinality(held) < N) BY <1>3 DEF held
    <3>5. Chunks = held BY <3>2, <3>3, <3>4, MediaAssumption
    <3> QED BY <3>5 DEF held
  <2>7. AddSound(a) /\ FullSound(a) /\ ReadSound(a)
    BY <2>1, <2>3, <2>4, <2>6 DEF AddSound, FullSound, ReadSound
  <2>8. InFile' = InFile BY <1>1 DEF InFile
  <2>9. CachedSound /\ IndexSound BY <1>1, <2>1, <2>8 DEF CachedSound, IndexSound
  <2>10. /\ cleaner' = cleaner /\ (underfoot => underfoot')
         /\ InFile \subseteq InFile' /\ current' = current
         /\ \A b \in Actors \ {a}: act[b].pc = "replace" => marks'[act[b].obj] = marks[act[b].obj]
    BY <1>1, <2>1, <2>8
  <2> QED BY <1>1, <2>4, <2>5, <2>7, <2>9, <2>10, OneActorIsSound
<1> QED BY <1>2, <1>3

\* Under the video's own index the file that takes the cached one's place is
\* whole; whoever was reading the old one has been passed.
LEMMA ReplaceStep ==
  ASSUME MediaTyped, Keeps, NEW a \in Actors, Replace(a)
  PROVE  MediaTyped' /\ Sound
<1>1. act[a].pc = "replace" /\ act[a].pc # "pop"
      /\ UNCHANGED <<warmed, cleaner, inflight, loader>>
  BY DEF Replace, loads
<1>2. CASE part = NoFile
  <2>1. Leave(a) /\ UNCHANGED <<mp4, part, underfoot>> BY <1>2 DEF Replace
  <2> QED BY <1>1, <2>1, LeaveKeeps
<1>3. CASE part # NoFile
  <2> DEFINE r == [act[a] EXCEPT !.pc = "pop"]
  <2>1. /\ mp4' = part /\ part' = NoFile
        /\ act' = [act EXCEPT ![a] = r] /\ UNCHANGED <<marks, current>>
        /\ underfoot' = \/ underfoot \/ act[a].obj # current \/ BetweenTheTwo
                        \/ \E b \in Actors: Reading(b)
    BY <1>3 DEF Replace, Enter, maps
  <2>2. act[a] \in ActorStates /\ act[a].obj \in Indexes
    BY <1>1 DEF MediaTyped, ActTyped, ActorStates, Working
  <2>3. Fit(r) /\ r.pc = "pop" BY <2>2 DEF Fit, ActorStates, Pcs
  <2> HIDE DEF r
  <2>4. ActTyped' /\ act'[a] = r /\ \A b \in Actors \ {a}: act'[b] = act[b]
    BY <2>1, <2>3, OneMoves DEF MediaTyped
  <2>5. part \in SUBSET Chunks BY <1>3 DEF MediaTyped, FilesTyped
  <2>6. underfoot' \in BOOLEAN
    BY <2>1 DEF MediaTyped, FlagsTyped, BetweenTheTwo
  <2>7. MediaTyped' BY <1>1, <2>1, <2>4, <2>5, <2>6 DEF MediaTyped, FilesTyped, IndexTyped, FlagsTyped
  <2>8. BetweenTheTwo' BY <2>3, <2>4 DEF BetweenTheTwo
  <2>9. CachedSound
    <3> SUFFICES ASSUME ~underfoot' PROVE mp4' = Chunks BY DEF CachedSound
    <3>1. ~underfoot /\ act[a].obj = current /\ ~BetweenTheTwo BY <2>1
    <3>2. marks[current] = Chunks BY <1>1, <3>1 DEF Keeps, FullAtReplace
    <3>3. current # None BY <2>2, <3>1, Marks
    <3>4. Chunks \subseteq InFile BY <3>1, <3>2, <3>3 DEF Keeps, IndexTrue
    <3> QED BY <1>3, <2>1, <2>5, <3>4 DEF InFile
  <2>10. WindowSound /\ IndexSound BY <2>1, <2>8 DEF WindowSound, IndexSound
  <2>11. ASSUME NEW b \in Actors PROVE AddSound(b) /\ FullSound(b) /\ ReadSound(b)
    <3>1. AddSound(b) BY <2>8 DEF AddSound
    <3>2. FullSound(b) BY <2>1, <2>3, <2>4 DEF FullSound
    <3>3. ReadSound(b)
      <4> SUFFICES ASSUME act'[b].pc \in {"size", "open"} PROVE underfoot' BY DEF ReadSound
      <4>1. b # a /\ act'[b] = act[b] BY <2>3, <2>4
      <4> QED BY <2>1, <4>1 DEF Reading
    <3> QED BY <3>1, <3>2, <3>3
  <2> QED BY <2>7, <2>9, <2>10, <2>11 DEF Sound
<1> QED BY <1>2, <1>3

\* The index is forgotten: every object left is some transfer's own.
LEMMA ForgettingIsSound ==
  ASSUME MediaTyped, MediaTyped', Keeps, current' = None, Collected,
         \A b \in Actors: act'[b] = act[b] \/ act'[b] = Off,
         mp4' = mp4, underfoot' = underfoot,
         part' = part \/ \A b \in Actors: act'[b] = Off
  PROVE  Sound
<1>1. WindowSound /\ IndexSound /\ CachedSound
  BY DEF WindowSound, IndexSound, CachedSound
<1>2. ASSUME NEW b \in Actors PROVE AddSound(b) /\ FullSound(b) /\ ReadSound(b)
  <2>1. CASE act'[b] = Off
    BY <2>1 DEF AddSound, FullSound, ReadSound, Off
  <2>2. CASE act'[b] = act[b] /\ act'[b] # Off
    <3>1. part' = part BY <2>2
    <3>2. ReadSound(b) BY <2>2, <3>1 DEF ReadSound, Reading, InFile
    <3>3. ASSUME act'[b].pc \in {"add", "replace"} PROVE act'[b].obj \in Indexes
      BY <3>3 DEF MediaTyped, ActTyped, Working
    <3>4. AddSound(b) BY <3>3, Marks DEF AddSound
    <3>5. FullSound(b)
      <4> SUFFICES ASSUME act'[b].pc = "replace" PROVE marks'[act[b].obj] = marks[act[b].obj]
        BY <2>2 DEF FullSound
      <4>1. act[b].obj \in Indexes BY <2>2, <3>3
      <4>2. act[b].obj \in InUse' BY <2>2 DEF InUse
      <4>3. current' \in Indexes \cup {None} OBVIOUS
      <4> QED BY <4>1, <4>2, <4>3, CollectedKeeps DEF MediaTyped
    <3> QED BY <3>2, <3>4, <3>5
  <2> QED BY <2>1, <2>2
<1> QED BY <1>1, <1>2 DEF Sound

LEMMA PopStep ==
  ASSUME MediaTyped, Keeps, NEW a \in Actors, Pop(a)
  PROVE  MediaTyped' /\ Sound
<1>1. /\ current' = None /\ Collected /\ act' = [act EXCEPT ![a] = Off]
      /\ UNCHANGED <<mp4, part, warmed, cleaner, inflight, loader, underfoot>>
  BY DEF Pop, Gone, loads
<1>2. ActTyped' /\ act'[a] = Off /\ \A b \in Actors \ {a}: act'[b] = act[b]
  BY <1>1, OffIsFit, OneMoves DEF MediaTyped
<1>3. IndexTyped' BY <1>1, CollectedKeeps DEF MediaTyped
<1>4. MediaTyped' BY <1>1, <1>2, <1>3 DEF MediaTyped, FilesTyped, FlagsTyped
<1> QED BY <1>1, <1>2, <1>4, ForgettingIsSound

LEMMA ForgetStep ==
  ASSUME MediaTyped, Keeps, Forget
  PROVE  MediaTyped' /\ Sound
<1>1. /\ current' = None /\ Collected /\ act' = act /\ cleaner' = "off"
      /\ warmed' = (warmed /\ cleaner = "evict")
      /\ UNCHANGED <<mp4, part, inflight, loader, underfoot>>
  BY DEF Forget, loads
<1>2. IndexTyped' BY <1>1, CollectedKeeps DEF MediaTyped
<1>3. ActTyped' BY <1>1 DEF MediaTyped, ActTyped, Working
<1>4. MediaTyped' BY <1>1, <1>2, <1>3 DEF MediaTyped, FilesTyped, FlagsTyped
<1> QED BY <1>1, <1>4, ForgettingIsSound

LEMMA RestartStep ==
  ASSUME MediaTyped, Keeps, NewProcess
  PROVE  MediaTyped' /\ Sound
<1>1. /\ current' = None /\ Collected /\ act' = [a \in Actors |-> Off] /\ part' = NoFile
      /\ cleaner' = "off" /\ warmed' = FALSE /\ inflight' = FALSE /\ loader' = "off"
      /\ UNCHANGED <<mp4, underfoot>>
  BY DEF NewProcess
<1>2. \A b \in Actors: act'[b] = Off BY <1>1
<1>3. IndexTyped' BY <1>1, CollectedKeeps DEF MediaTyped
<1>4. ActTyped' BY <1>1, OffIsFit DEF ActTyped, Working, Fit, ActorStates
<1>5. MediaTyped' BY <1>1, <1>3, <1>4 DEF MediaTyped, FilesTyped, FlagsTyped
<1> QED BY <1>1, <1>2, <1>5, ForgettingIsSound

-----------------------------------------------------------------------------
(***************************************************************************)
(* Whole files: downloads, evictions and wipes.                            *)
(***************************************************************************)
\* No actor moves, no object changes; the sparse file stays, or goes with the
\* window open and everybody who was reading it excused.
LEMMA FilesAreSound ==
  ASSUME MediaTyped, MediaTyped', Keeps, UNCHANGED <<marks, current, act>>, CachedSound,
         underfoot => underfoot', BetweenTheTwo => BetweenTheTwo',
         \/ part' = part
         \/ BetweenTheTwo' /\ (underfoot' \/ \A b \in Actors: ~Reading(b))
  PROVE  Sound
<1>1. CASE part' = part
  <2>1. InFile' = InFile BY <1>1 DEF InFile
  <2>2. WindowSound /\ IndexSound BY <2>1 DEF WindowSound, IndexSound
  <2>3. \A b \in Actors: AddSound(b) /\ FullSound(b) /\ ReadSound(b)
    BY <2>1 DEF AddSound, FullSound, ReadSound, Reading
  <2> QED BY <2>2, <2>3 DEF Sound
<1>2. CASE BetweenTheTwo' /\ (underfoot' \/ \A b \in Actors: ~Reading(b))
  <2>1. WindowSound /\ IndexSound BY <1>2 DEF WindowSound, IndexSound
  <2>2. \A b \in Actors: AddSound(b) /\ FullSound(b) /\ ReadSound(b)
    BY <1>2 DEF AddSound, FullSound, ReadSound, Reading
  <2> QED BY <2>1, <2>2 DEF Sound
<1> QED BY <1>1, <1>2

LEMMA LoaderSteps ==
  ASSUME MediaTyped, Keeps, Ensure \/ Slot \/ Loaded \/ LoadEnds
  PROVE  MediaTyped' /\ Sound
<1>1. UNCHANGED <<part, marks, current, act, warmed, cleaner, underfoot>>
  BY DEF Ensure, Slot, Loaded, LoadEnds, maps
<1>2. mp4' \in {mp4, Chunks} BY DEF Ensure, Slot, Loaded, LoadEnds
<1>3. loader' \in {"off", "queued", "get", "done"} /\ inflight' \in BOOLEAN
  BY DEF Ensure, Slot, Loaded, LoadEnds, MediaTyped, FlagsTyped
<1>4. FilesTyped' BY <1>1, <1>2 DEF MediaTyped, FilesTyped
<1>5. ActTyped' BY <1>1 DEF MediaTyped, ActTyped, Working
<1>6. MediaTyped' BY <1>1, <1>3, <1>4, <1>5 DEF MediaTyped, IndexTyped, FlagsTyped
<1>7. CachedSound BY <1>2 DEF CachedSound
<1>8. BetweenTheTwo => BetweenTheTwo' BY <1>1 DEF BetweenTheTwo
<1> QED BY <1>1, <1>6, <1>7, <1>8, FilesAreSound

LEMMA EvictCachedStep ==
  ASSUME MediaTyped, Keeps, EvictCached
  PROVE  MediaTyped' /\ Sound
<1>1. /\ UNCHANGED <<part, marks, current, act, warmed, cleaner, inflight, loader, underfoot>>
      /\ mp4' = NoFile
  BY DEF EvictCached, maps, loads
<1>2. ActTyped' BY <1>1 DEF MediaTyped, ActTyped, Working
<1>3. MediaTyped' BY <1>1, <1>2 DEF MediaTyped, IndexTyped, FlagsTyped, FilesTyped
<1>4. CachedSound BY <1>1 DEF CachedSound
<1>5. BetweenTheTwo => BetweenTheTwo' BY <1>1 DEF BetweenTheTwo
<1> QED BY <1>1, <1>3, <1>4, <1>5, FilesAreSound

LEMMA RemovalSteps ==
  ASSUME MediaTyped, Keeps, EvictSparse \/ ClearCache
  PROVE  MediaTyped' /\ Sound
<1>1. /\ UNCHANGED <<marks, current, act, warmed, inflight, loader>>
      /\ part' = NoFile /\ mp4' \in {mp4, NoFile} /\ cleaner' \in {"evict", "clear"}
      /\ Removed
  BY DEF EvictSparse, ClearCache, maps, loads
<1>2. /\ underfoot => underfoot'
      /\ underfoot' \/ \A b \in Actors: ~Reading(b)
      /\ underfoot' \in BOOLEAN
  BY <1>1 DEF Removed, MediaTyped, FlagsTyped
<1>3. ActTyped' BY <1>1 DEF MediaTyped, ActTyped, Working
<1>4. MediaTyped' BY <1>1, <1>2, <1>3 DEF MediaTyped, IndexTyped, FlagsTyped, FilesTyped
<1>5. CachedSound BY <1>1 DEF CachedSound
<1>6. BetweenTheTwo' BY <1>1 DEF BetweenTheTwo
<1> QED BY <1>1, <1>2, <1>4, <1>5, <1>6, FilesAreSound

-----------------------------------------------------------------------------
(***************************************************************************)
(* The invariant.                                                          *)
(***************************************************************************)
LEMMA InitKeeps == MediaInit => MediaIInv
<1> SUFFICES ASSUME MediaInit PROVE MediaIInv OBVIOUS
<1>1. ActTyped BY OffIsFit DEF MediaInit, ActTyped, Working, Fit, ActorStates
<1>2. FilesTyped /\ IndexTyped /\ FlagsTyped
  BY Marks DEF MediaInit, FilesTyped, IndexTyped, FlagsTyped
<1>3. \A a \in Actors: act[a].pc = "off" BY DEF MediaInit, Off
<1>4. CachedIsWhole /\ IndexTrue BY DEF MediaInit, CachedIsWhole, IndexTrue
<1>5. FullAtReplace /\ AddedIsWritten /\ ReadIsThere
  BY <1>3 DEF FullAtReplace, AddedIsWritten, ReadIsThere, Reading
<1> QED BY <1>1, <1>2, <1>4, <1>5 DEF MediaIInv, MediaTyped, Keeps

LEMMA StepKeeps == MediaIInv /\ [MediaNext]_mediaVars => MediaIInv'
<1> SUFFICES ASSUME MediaTyped, Keeps, [MediaNext]_mediaVars PROVE MediaTyped' /\ Keeps' BY DEF MediaIInv
<1>1. ASSUME MediaNext PROVE MediaTyped' /\ Sound
  <2>1. ASSUME NEW v \in Viewers,
               \/ \E first, last \in Chunks: first <= last /\ Request(v, first, last)
               \/ Hit(v) \/ Size(v) \/ Open(v) \/ Disconnect(v)
        PROVE  MediaTyped' /\ Sound
    BY <2>1, RequestStep, HitStep, SizeStep, OpenStep, DisconnectStep
  <2>2. ASSUME NEW a \in Actors, Transfer(a) \/ WriteFails(a) \/ Breaks(a)
        PROVE  MediaTyped' /\ Sound
    BY <2>2, StartStep, ArrivesStep, WriteStep, AddStep, PromoteStep, ReplaceStep,
       PopStep, WriteFailsStep, BreaksStep DEF Transfer
  <2>3. Prefetch => MediaTyped' /\ Sound BY PrefetchStep
  <2>4. Ensure \/ Slot \/ Loaded \/ LoadEnds => MediaTyped' /\ Sound BY LoaderSteps
  <2>5. EvictCached \/ EvictSparse \/ ClearCache => MediaTyped' /\ Sound
    BY EvictCachedStep, RemovalSteps
  <2>6. Forget \/ NewProcess => MediaTyped' /\ Sound BY ForgetStep, RestartStep
  <2> QED BY <1>1, <2>1, <2>2, <2>3, <2>4, <2>5, <2>6, Zenon DEF MediaNext
<1>2. ASSUME UNCHANGED mediaVars PROVE MediaTyped' /\ Sound
  <2>1. UNCHANGED <<mp4, part, marks, current, act, warmed, cleaner, inflight, loader, underfoot>>
    BY <1>2 DEF mediaVars, maps, loads
  <2>2. ActTyped' BY <2>1 DEF MediaTyped, ActTyped, Working
  <2>3. MediaTyped' BY <2>1, <2>2 DEF MediaTyped, IndexTyped, FlagsTyped, FilesTyped
  <2>4. CachedSound BY <2>1 DEF CachedSound
  <2>5. BetweenTheTwo => BetweenTheTwo' BY <2>1 DEF BetweenTheTwo
  <2> QED BY <2>1, <2>3, <2>4, <2>5, FilesAreSound
<1> QED BY <1>1, <1>2, SoundKeeps

\* In every state, for any number of chunks, viewers and failures: the cached
\* video is whole and what the index says is held is in the sparse file, but for
\* a transfer that works under an index another has let go (media.py:487-532,
\* 905-960).
THEOREM CacheIsWhole == MediaSpec => []MediaInv
<1>1. MediaIInv => MediaInv
  <2> SUFFICES ASSUME MediaTyped, Keeps PROVE MediaInv BY DEF MediaIInv
  <2>1. MediaTypeOK
    BY DEF MediaTyped, FilesTyped, IndexTyped, ActTyped, FlagsTyped, MediaTypeOK, Pcs
  <2>2. CachedIsWhole /\ IndexedIsWritten
    BY DEF Keeps, IndexTrue, IndexedIsWritten, InFile
  <2> QED BY <2>1, <2>2 DEF MediaInv
<1> QED BY <1>1, InitKeeps, StepKeeps, PTL DEF MediaSpec

\* A range that was answered from the sparse file has every chunk of it, or the
\* file went between the look at its index and the read (media.py:963-988).
THEOREM WhatIsServedIsWhole == MediaSpec => ServedIsWhole
<1>1. MediaIInv /\ [MediaNext]_mediaVars =>
        [\A v \in Viewers:
           act[v].pc = "open" /\ act'[v].pc = "off" /\ part # NoFile
           => underfoot \/ act[v].range \subseteq part]_mediaVars
  <2> SUFFICES ASSUME MediaIInv, NEW v \in Viewers, act[v].pc = "open", part # NoFile
               PROVE  underfoot \/ act[v].range \subseteq part
    OBVIOUS
  <2>1. v \in Actors BY DEF Actors
  <2> QED BY <2>1 DEF MediaIInv, Keeps, ReadIsThere, Reading, InFile
<1> QED BY <1>1, InitKeeps, StepKeeps, PTL DEF MediaSpec, ServedIsWhole
=============================================================================
