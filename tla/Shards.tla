------------------------------- MODULE Shards -------------------------------
(***************************************************************************)
(* How evidence survives a session.  Every worker keeps its own            *)
(* evidence.db (vios/process/store.py); its engine exports the rows above  *)
(* four watermarks as one shard, uploads it to the channel in parts and    *)
(* moves the watermarks (engine._publish); a new session reads the channel *)
(* and replays every shard its database has not noted                      *)
(* (intake.restore_shards).  A stage whose passes are settled also goes up *)
(* as a bundle: the whole database beside the stage's report               *)
(* (_publish_stage).  The disk of a worker may go with its session.        *)
(*                                                                         *)
(* The four row tables (claim, vector, frame_vector, frame_metric) are     *)
(* handled alike, each by its own ids and its own watermark: two stand for *)
(* the four, and one pass for all the work of a partition.  A row is named *)
(* by the worker whose pass writes it: its name is its uid, so the same    *)
(* work done again writes the same row.  The pass is its worker's stage.   *)
(***************************************************************************)
EXTENDS Integers, FiniteSets, SequencesExt

CONSTANTS
    Workers,    \* the accounts that process a partition each
    Rows,       \* what the passes write: records of worker and table
    PartRows,   \* rows that fit one document (SHARD_PART_BYTES)
    Faulty,     \* the workers something goes wrong for
    MaxFaults   \* how many times in all

ASSUME ShardsAssumption ==
    /\ Workers # {}
    /\ Rows \subseteq [by: Workers, t: {"claim", "vector"}]
    /\ PartRows \in Nat \ {0}
    /\ MaxFaults \in Nat
    /\ Faulty \subseteq Workers

Tables == {"claim", "vector"}

VARIABLES
    work,       \* worker -> its coverage row: queued, running or done
    db,         \* worker -> table -> its rows in id order
    mark,       \* worker -> table -> meta.shard_lo_*: the last id published
    site,       \* worker -> how many databases it had (meta.site_id)
    seq,        \* worker -> meta.shard_seq
    known,      \* worker -> what its shard table lists: shard ids, each with a
                \* history of the rows whose replay failed
    pub,        \* worker -> the shard being published, or Idle
    channel,    \* the shard documents of the channel, oldest first
    stage,      \* worker -> the stage bundle being published, or Idle
    filed,      \* worker -> meta: stage_seq, stage_done, stage_sig, stage_pending
    bundles,    \* the parts of stage bundles in the channel
    faults

staging == <<stage, filed, bundles>>
vars == <<work, db, mark, site, seq, known, pub, channel, staging, faults>>

Idle == [pc |-> "idle"]

NotFiled == [seq |-> 0, done |-> [seq |-> 0, rows |-> {}], sig |-> FALSE, pending |-> FALSE]

Fault(w) == w \in Faulty /\ faults < MaxFaults /\ faults' = faults + 1

Own(w) == {r \in Rows: r.by = w}

Held(w) == UNION {ToSet(db[w][t]) : t \in Tables}

(***************************************************************************)
(* What a restore makes of the documents of one shard id: the first one    *)
(* seen says how many parts there are, documents with another count are    *)
(* dropped, and of each part the first one seen is taken.                  *)
(***************************************************************************)
Sids == {channel[i].sid : i \in 1..Len(channel)}

First(sid) == CHOOSE i \in 1..Len(channel):
    channel[i].sid = sid /\ \A j \in 1..i - 1: channel[j].sid # sid

Total(sid) == channel[First(sid)].total

Documents(sid) ==
    LET total == Total(sid)
    IN  {i \in 1..Len(channel): channel[i].sid = sid /\ channel[i].total = total}

Part(sid, k) ==
    LET first == CHOOSE i \in Documents(sid):
            /\ channel[i].index = k
            /\ \A j \in 1..i - 1: \/ channel[j].sid # sid \/ channel[j].index # k
                                 \/ channel[j].total # channel[i].total
    IN  ToSet(channel[first].rows)

Whole(sid) == sid \in Sids /\ {channel[i].index : i \in Documents(sid)} = 1..Total(sid)

\* The rows of a whole shard; nothing for a shard that is not whole.
Restored(sid) == IF Whole(sid) THEN UNION {Part(sid, k) : k \in 1..Total(sid)} ELSE {}

\* Everything a database that starts empty gets from the channel.
Readable == UNION {Restored(s) : s \in Sids}

-----------------------------------------------------------------------------
(***************************************************************************)
(* Publishing: Store.export_shard and ProcessEngine._publish.              *)
(***************************************************************************)
Above(w, t) == SubSeq(db[w][t], mark[w][t] + 1, Len(db[w][t]))

\* A mutant: every table is cut at the watermark of the claims.
ExportedByClaimId(w) ==
    LET lo == mark[w]["claim"]
    IN  Above(w, "claim")
        \o SubSeq(db[w]["vector"], lo + 1, Len(db[w]["vector"]))

\* The rows of the shard in file order, each table from its own watermark.
Exported(w) == Above(w, "claim") \o Above(w, "vector")

\* _split_shard: whole rows, as many as fit a document; one part at least.
Split(rows) ==
    IF rows = <<>> THEN <<rows>> ELSE
    [i \in 1..((Len(rows) + PartRows - 1) \div PartRows) |->
        SubSeq(rows, (i - 1) * PartRows + 1,
                     IF i * PartRows < Len(rows) THEN i * PartRows ELSE Len(rows))]

\* The id of the next shard: site_id(store) and shard_seq + 1.
NextSid(w) == [w |-> w, site |-> site[w], seq |-> seq[w] + 1]

\* A pass commits what it found table by table, the claims first
\* (_run_pass): INSERT OR IGNORE by uid, with the next id of the table.  After
\* the last one it is done.
Write(w, r) ==
    /\ work[w] # "done"
    /\ r \notin Held(w)
    /\ r.t = "vector" => \A c \in Own(w): c.t = "claim" => c \in Held(w)
    /\ db' = [db EXCEPT ![w][r.t] = Append(@, r)]
    /\ work' = [work EXCEPT ![w] =
                    IF Own(w) \subseteq Held(w) \cup {r} THEN "done" ELSE "running"]
    /\ UNCHANGED <<mark, site, seq, known, pub, channel, staging, faults>>

\* What the pass has still to write came from the channel meanwhile: INSERT OR
\* IGNORE, and the pass is done.
WriteAgain(w) ==
    /\ work[w] = "running" /\ Own(w) \subseteq Held(w)
    /\ work' = [work EXCEPT ![w] = "done"]
    /\ UNCHANGED <<db, mark, site, seq, known, pub, channel, staging, faults>>

\* The top of a sweep marks done what a restore brought back
\* (reconcile_now): a queued pass any row of whose observer is here.
Reconcile(w) ==
    /\ work[w] = "queued"
    /\ Own(w) \cap Held(w) # {}
    /\ work' = [work EXCEPT ![w] = "done"]
    /\ UNCHANGED <<db, mark, site, seq, known, pub, channel, staging, faults>>

News(w) == \E t \in Tables: Above(w, t) # <<>>

Shard(w) ==
    [pc    |-> "send",
     sid   |-> NextSid(w),
     parts |-> Split(Exported(w)),
     sent  |-> 0,
     hi    |-> [t \in Tables |-> Len(db[w][t])]]

StartPublish(w) ==
    /\ pub[w] = Idle /\ stage[w] = Idle
    /\ News(w)
    /\ pub' = [pub EXCEPT ![w] = Shard(w)]
    /\ UNCHANGED <<work, db, mark, site, seq, known, channel, staging, faults>>

Document(p) == [sid   |-> p.sid,
                index |-> p.sent + 1,
                total |-> Len(p.parts),
                rows  |-> p.parts[p.sent + 1]]

\* The parts go up one by one.
SendPart(w) ==
    /\ pub[w].pc = "send"
    /\ channel' = Append(channel, Document(pub[w]))
    /\ LET last == pub[w].sent + 1 = Len(pub[w].parts)
       IN  pub' = [pub EXCEPT ![w].sent = @ + 1,
                              ![w].pc = IF last THEN "note" ELSE "send"]
    /\ UNCHANGED <<work, db, mark, site, seq, known, staging, faults>>

\* A mutant: the watermarks pass an upload that failed.
UploadFailsAndMoves(w) ==
    /\ pub[w].pc = "send"
    /\ Fault(w)
    /\ pub' = [pub EXCEPT ![w].pc = "note"]
    /\ UNCHANGED <<work, db, mark, site, seq, known, channel, staging>>

\* A part is refused, or went up although the client saw an error: the parts
\* after it are not tried.
UploadFails(w) ==
    /\ pub[w].pc = "send"
    /\ Fault(w)
    /\ channel' \in {channel, Append(channel, Document(pub[w]))}
    /\ pub' = [pub EXCEPT ![w].pc = "refused"]
    /\ UNCHANGED <<work, db, mark, site, seq, known, staging>>

\* What its shard table says of a shard: of one it wrote, no row is missing.
Entry(sid, skipped) == [sid |-> sid, skipped |-> skipped]

AfterNote(p) == IF p.pc = "note" THEN [p EXCEPT !.pc = "commit"] ELSE Idle

\* note_shard, a commit of its own: the shard is listed, after a refused upload
\* as well, without a message - but then the watermarks stay.
Note(w) ==
    /\ pub[w].pc \in {"note", "refused"}
    /\ known' = [known EXCEPT ![w] = @ \cup {Entry(pub[w].sid, {})}]
    /\ pub' = [pub EXCEPT ![w] = AfterNote(pub[w])]
    /\ UNCHANGED <<work, db, mark, site, seq, channel, staging, faults>>

\* The commits that follow the note, in their order.
Commits == <<"claim", "vector", "seq">>

\* The state of the meta table after the first n of them.
Committed(w, n) ==
    LET done == {Commits[i] : i \in 1..n}
    IN  /\ mark' = [mark EXCEPT ![w] =
                       [t \in Tables |-> IF t \in done THEN pub[w].hi[t] ELSE @[t]]]
        /\ seq' = [seq EXCEPT ![w] = IF "seq" \in done THEN pub[w].sid.seq ELSE @]

MoveMarks(w) ==
    /\ pub[w].pc = "commit"
    /\ Committed(w, Len(Commits))
    /\ pub' = [pub EXCEPT ![w] = Idle]
    /\ UNCHANGED <<work, db, site, known, channel, staging, faults>>

-----------------------------------------------------------------------------
(***************************************************************************)
(* Stage bundles: ProcessEngine._publish_stage and _retry_pending_stages.  *)
(***************************************************************************)
\* The stage's standing has the signature that was recorded with its last bundle.
AsFiled(w) == filed[w].sig

\* A stage with rows, all settled; and its standing is not the one recorded, or
\* an upload of it was refused.
StageDue(w) ==
    /\ Own(w) # {} /\ work[w] = "done"
    /\ ~AsFiled(w) \/ filed[w].pending

\* The shard first; its outcome is not looked at.
StageBegins(w) ==
    /\ pub[w] = Idle /\ stage[w] = Idle
    /\ StageDue(w)
    /\ stage' = [stage EXCEPT ![w] = [pc |-> "delta"]]
    /\ pub' = IF News(w) THEN [pub EXCEPT ![w] = Shard(w)] ELSE pub
    /\ UNCHANGED <<work, db, mark, site, seq, known, channel, filed, bundles, faults>>

\* The snapshot of the database; behind: rows of it are in no shard of this one.
StageCut(w) ==
    /\ stage[w].pc = "delta" /\ pub[w] = Idle
    /\ stage' = [stage EXCEPT ![w] =
                    [pc |-> "send", rows |-> Held(w), behind |-> News(w), sent |-> 0]]
    /\ UNCHANGED <<work, db, mark, site, seq, known, pub, channel, filed, bundles, faults>>

BundleParts(rows) == (Cardinality(rows) + PartRows - 1) \div PartRows

BundlePart(w) ==
    [by     |-> w, site |-> site[w], seq |-> filed[w].seq + 1,
     index  |-> stage[w].sent + 1, total |-> BundleParts(stage[w].rows),
     rows   |-> stage[w].rows, behind |-> stage[w].behind]

StageSend(w) ==
    /\ stage[w].pc = "send"
    /\ bundles' = bundles \cup {BundlePart(w)}
    /\ stage' = [stage EXCEPT ![w].sent = @ + 1,
                              ![w].pc = IF BundlePart(w).index = BundlePart(w).total
                                        THEN "record" ELSE "send"]
    /\ UNCHANGED <<work, db, mark, site, seq, known, pub, channel, filed, faults>>

\* _mark_stage_pending: remembered until a later tick has sent it.
MarkStagePending(w) == filed' = [filed EXCEPT ![w].pending = TRUE]

\* The build or a part is refused, or a part went up although the client saw an
\* error: the stage is pending, and the next tick builds and sends it anew.
StageFails(w) ==
    /\ stage[w].pc = "send"
    /\ Fault(w)
    /\ bundles' \in {bundles, bundles \cup {BundlePart(w)}}
    /\ MarkStagePending(w)
    /\ stage' = [stage EXCEPT ![w] = Idle]
    /\ UNCHANGED <<work, db, mark, site, seq, known, pub, channel>>

\* The commits that follow the last part, in their order.
Records == <<"seq", "done", "sig", "pending">>

Recorded(w, n) ==
    LET done == {Records[i] : i \in 1..n}
        old  == filed[w]
    IN  filed' = [filed EXCEPT ![w] =
           [seq     |-> IF "seq" \in done THEN old.seq + 1 ELSE old.seq,
            done    |-> IF "done" \in done
                        THEN [seq |-> old.seq + 1, rows |-> stage[w].rows] ELSE old.done,
            sig     |-> old.sig \/ "sig" \in done,
            pending |-> old.pending /\ "pending" \notin done]]

StageRecord(w) ==
    /\ stage[w].pc = "record"
    /\ Recorded(w, Len(Records))
    /\ stage' = [stage EXCEPT ![w] = Idle]
    /\ UNCHANGED <<work, db, mark, site, seq, known, pub, channel, bundles, faults>>

-----------------------------------------------------------------------------
(***************************************************************************)
(* Restoring: intake.restore_shards, Store.import_shard and _replay.       *)
(***************************************************************************)

\* The shards the table lists.
Noted(w) == {k.sid : k \in known[w]}

\* The documents left to import: of shards this database has not noted and all
\* of whose parts are there.
Wanted(w) ==
    {i \in 1..Len(channel): channel[i].sid \notin Noted(w) /\ Whole(channel[i].sid)}

\* The one of the oldest of them, if there are any.
Oldest(w) == {channel[Min(all)].sid : all \in {Wanted(w)} \ {{}}}

\* The rows of one table, in any order.
Listed(rows, t) == SetToSeqs({r \in rows: r.t = t})

\* The next shard of a restore comes down, what is new here is put at the end of
\* the tables - but for the rows whose replay fails - and the shard is noted,
\* whatever was skipped.  What a shard id stands for never changes once it is
\* whole, so that a restore that goes on with the next shard of its scan and one
\* that starts again do the same; and a death between the replay and the note
\* leaves rows that the next replay finds there.
Import(w) ==
    /\ \E s \in Oldest(w): \E lost \in SUBSET (Restored(s) \ Held(w)):
       /\ IF lost = {} THEN UNCHANGED faults ELSE Fault(w)
       /\ \E new \in {(Restored(s) \ Held(w)) \ lost}:
          \E c \in Listed(new, "claim"), v \in Listed(new, "vector"):
            db' = [db EXCEPT ![w]["claim"] = @ \o c, ![w]["vector"] = @ \o v]
       /\ known' = [known EXCEPT ![w] = @ \cup {Entry(s, lost)}]
    /\ UNCHANGED <<work, mark, site, seq, pub, channel, staging>>

-----------------------------------------------------------------------------
\* The process dies; what it had committed stays - between the upload and the
\* last commit any number of them - and the next sweeps reclaim the pass.
Die(w) ==
    /\ pub[w] # Idle \/ stage[w] # Idle \/ work[w] = "running"
    /\ Fault(w)
    /\ \E n \in 0..(Len(Commits) - 1):
          /\ n > 0 => pub[w].pc = "commit"
          /\ Committed(w, n)
    /\ \E n \in 0..(Len(Records) - 1):
          /\ n > 0 => stage[w].pc = "record"
          /\ Recorded(w, n)
    /\ pub' = [pub EXCEPT ![w] = Idle]
    /\ stage' = [stage EXCEPT ![w] = Idle]
    /\ work' = [work EXCEPT ![w] = IF @ = "running" THEN "queued" ELSE @]
    /\ UNCHANGED <<db, site, known, channel, bundles>>

\* The session ends and its disk with it: the next one has a new database,
\* and site_id draws a new id for it.
DiskGone(w) ==
    /\ Fault(w)
    /\ work' = [work EXCEPT ![w] = "queued"]
    /\ db' = [db EXCEPT ![w] = [t \in Tables |-> <<>>]]
    /\ mark' = [mark EXCEPT ![w] = [t \in Tables |-> 0]]
    /\ site' = [site EXCEPT ![w] = @ + 1]
    /\ seq' = [seq EXCEPT ![w] = 0]
    /\ known' = [known EXCEPT ![w] = {}]
    /\ pub' = [pub EXCEPT ![w] = Idle]
    /\ stage' = [stage EXCEPT ![w] = Idle]
    /\ filed' = [filed EXCEPT ![w] = NotFiled]
    /\ UNCHANGED <<channel, bundles>>

-----------------------------------------------------------------------------
Init ==
    /\ work = [w \in Workers |-> "queued"]
    /\ db = [w \in Workers |-> [t \in Tables |-> <<>>]]
    /\ mark = [w \in Workers |-> [t \in Tables |-> 0]]
    /\ site = [w \in Workers |-> 1]
    /\ seq = [w \in Workers |-> 0]
    /\ known = [w \in Workers |-> {}]
    /\ pub = [w \in Workers |-> Idle]
    /\ channel = <<>>
    /\ stage = [w \in Workers |-> Idle]
    /\ filed = [w \in Workers |-> NotFiled]
    /\ bundles = {}
    /\ faults = 0

Publish(w) == StartPublish(w) \/ SendPart(w) \/ Note(w) \/ MoveMarks(w)
Stage(w) == StageBegins(w) \/ StageCut(w) \/ StageSend(w) \/ StageRecord(w)
Work(w) == Reconcile(w) \/ WriteAgain(w) \/ \E r \in Own(w): Write(w, r)

Next == \E w \in Workers:
    \/ Work(w) \/ Publish(w) \/ UploadFails(w)
    \/ Stage(w) \/ StageFails(w)
    \/ Import(w)
    \/ Die(w) \/ DiskGone(w)

\* A sweep that runs keeps processing and publishing (_publish and
\* _publish_stage after every cohort, whatever the last one returned), and every
\* session starts with a restore.
Fairness == \A w \in Workers: WF_vars(Work(w)) /\ WF_vars(Publish(w))
                              /\ WF_vars(Stage(w)) /\ WF_vars(Import(w))

Spec == Init /\ [][Next]_vars /\ Fairness

-----------------------------------------------------------------------------
ShardsTypeOK ==
    /\ work \in [Workers -> {"queued", "running", "done"}]
    /\ db \in [Workers -> [Tables -> Seq(Rows)]]
    /\ \A w \in Workers, t \in Tables: mark[w][t] \in 0..Len(db[w][t])
    /\ \A w \in Workers: site[w] \in Nat /\ seq[w] \in Nat
    /\ \A w \in Workers: pub[w].pc \in {"idle", "send", "note", "refused", "commit"}
    /\ \A w \in Workers: stage[w].pc \in {"idle", "delta", "send", "record"}
    /\ \A b \in bundles: b.by \in Workers /\ b.index \in 1..b.total
    /\ faults \in 0..MaxFaults

Published(w) == UNION {ToSet(SubSeq(db[w][t], 1, mark[w][t])) : t \in Tables}

\* A shard id under which documents of different contents went up.
Reused(s) == \E i, j \in 1..Len(channel):
    /\ channel[i].sid = s /\ channel[j].sid = s
    /\ \/ channel[i].total # channel[j].total
       \/ channel[i].index = channel[j].index /\ channel[i].rows # channel[j].rows

\* "The watermark must not pass an unverified upload failure": whatever lies
\* at or below a watermark is in the channel - and a database that starts
\* empty reads it from there, unless the document that carries it shares its
\* shard id with one of other contents.  No death between an upload and the
\* five commits after it, no refused part and no lost disk makes an exception.
WatermarkIsRestorable ==
    LET readable == Readable
    IN  \A w \in Workers: \A r \in Published(w) \ readable:
            \E i \in 1..Len(channel):
                r \in ToSet(channel[i].rows) /\ Reused(channel[i].sid)

\* "Any one of them can pull all of them and end up with the union": what a
\* watermark has passed can be restored.  The code breaks it: the id of a
\* shard is reused after a failure that left documents behind.
PublishedIsReadable == \A w \in Workers: Published(w) \subseteq Readable

\* restore_shards skips a shard its table lists.  The rows of a listed shard, as
\* a restore would read it, are in this database, whoever published it, however
\* often it was interrupted and whatever disk was lost - but for the rows whose
\* replay failed when it was imported: import_shard counts them and goes on, the
\* shard is noted, and they are not tried again.
KnownIsHeld == \A w \in Workers: \A k \in known[w]:
    Restored(k.sid) \ Held(w) \subseteq k.skipped

\* "Nothing is recorded as published that is not in the channel": every part of
\* the snapshot that stage_done names is there, whatever was refused, sent twice
\* or cut short under the same number before.
RecordedIsThere == \A w \in Workers: LET done == filed[w].done IN
    done.seq # 0 =>
        {b.index : b \in {b \in bundles: /\ b.by = w /\ b.site = site[w]
                                        /\ b.seq = done.seq /\ b.rows = done.rows}}
        = 1..BundleParts(done.rows)

\* "A reader that only follows shards is never behind the bundle": every row of a
\* snapshot can be read from shards - unless the shard that went ahead of it was
\* refused, which the code does not look at, or its id was reused.
ShardsGoAhead ==
    LET readable == Readable
    IN  \A b \in bundles: \A r \in b.rows \ readable:
            \/ b.behind /\ faults > 0
            \/ \E i \in 1..Len(channel):
                   r \in ToSet(channel[i].rows) /\ Reused(channel[i].sid)

\* What every state of the channel and its readers satisfies.
ShardsInv ==
    ShardsTypeOK /\ WatermarkIsRestorable /\ KnownIsHeld /\ RecordedIsThere /\ ShardsGoAhead

\* A coverage row that says done has all its evidence here - and the pass is
\* not run again.  The code breaks it: reconcile_now asks for any row, and the
\* commits of a pass are several.
DoneIsComplete == \A w \in Workers: work[w] = "done" => Own(w) \subseteq Held(w)

\* Ten workers converge: every row ends up in every database and every stage's
\* bundle is recorded, whatever is refused, cut off or lost with a disk, unless a
\* shard id was reused or a pass with half its rows was taken for done - and but
\* for a row whose replay failed in the database that still misses it.
Converges == <>(\/ \E s \in Sids: Reused(s)
                \/ ~DoneIsComplete
                \/ \A w \in Workers:
                       /\ Rows \ Held(w) \subseteq UNION {k.skipped : k \in known[w]}
                       /\ Own(w) = {} \/ filed[w].sig)
=============================================================================
