------------------------------ MODULE Bundles ------------------------------
(* The database bundles: db_export seals the harvest database (the lake) and *)
(* the Omniscient Postgres into parts, posts them and then a manifest to the *)
(* channel; db_restore finds a manifest, fetches its parts and replaces both *)
(* databases.  The channel is the only storage that outlives the container.  *)
(* An export thread and a restore thread run beside the harvester; the boot  *)
(* sequence starts a restore of its own (vios/process/routes.py).            *)
EXTENDS Integers, Sequences, FiniteSets, SequencesExt

CONSTANTS
  LakeParts,    \* parts the compressed lake is split into
  MaxPosts,     \* posts the harvester can find
  MaxBundles,   \* bundles built (bound)
  MaxMessages,  \* messages the channel takes (bound)
  MaxFaults,    \* deaths, lost replies, failed saves, cut downloads, stray
                \* messages (bound)
  Window        \* db_restore.HISTORY_SCAN: messages the history scan reads

ASSUME BundlesAssumption ==
  /\ {LakeParts, MaxBundles, Window} \subseteq Nat \ {0}
  /\ {MaxPosts, MaxMessages, MaxFaults} \subseteq Nat

Posts   == 1 .. MaxPosts
Seqs    == 1 .. MaxBundles
Parts   == 1 .. LakeParts + 1      \* the last is the Postgres dump
NoLake  == {0}                     \* bytes that are no database
Whole   == "whole"
Torn    == "torn"
Absent  == [seq |-> 0]             \* no such bundle directory
Corrupt == MaxBundles + 1          \* bytes whose hash is nobody's
Latest  == MaxBundles + 1          \* RESTORE_DIR/latest, beside one per seq

VARIABLES
  lake,     \* posts in lake.db
  pg,       \* Postgres is Whole, or Torn: dropped and not wholly replayed
  channel,  \* the channel's messages, oldest first
  pinned,   \* index of the pinned message, 0 when none
  disk,     \* EXPORT_DIR: for each bundle its _local.json, Unsaved or Absent
  cancel,   \* db_export._cancel
  exp,      \* db_export._job and its thread
  res,      \* db_restore._job and its thread
  pending,  \* db_restore._pending: seq of the manifest last inspected, 0 none
  work,     \* RESTORE_DIR: for each directory, whose bytes each part holds
  boot,     \* routes._restore_lake still to come: TRUE until it has looked
  built,    \* bundles begun
  faults,   \* what has gone wrong so far
  unsure    \* of these, replies lost, records not saved and sessions ended

counts == <<faults, unsure>>
vars == <<lake, pg, channel, pinned, disk, cancel, exp, res, pending, work,
          boot, built, counts>>

Unsaved == [seq |-> -1]            \* parts on disk, no _local.json beside them

NoMan == [seq |-> 0, lake |-> {}, pg |-> Whole, sent |-> [p \in Parts |-> 0],
          committed |-> FALSE]

Part(seq, p)  == [kind |-> "part", seq |-> seq, part |-> p]
Manifest(man) == [kind |-> "manifest", man |-> man]
Other         == [kind |-> "other"]
Manifests     == {i \in 1 .. Len(channel) : channel[i].kind = "manifest"}

Post(m) == /\ Len(channel) < MaxMessages
           /\ channel' = Append(channel, m)

Fault == faults < MaxFaults /\ faults' = faults + 1
PostOther == Post(Other) /\ Fault

ExpIdle == [running |-> FALSE, pc |-> "none", man |-> NoMan]
ResIdle == [running |-> FALSE, pc |-> "none", mode |-> "inspect", seq |-> 0,
            man |-> NoMan, got |-> <<>>, auto |-> FALSE, shown |-> 0]

Init ==
  /\ lake = {} /\ pg = Whole /\ channel = <<>> /\ pinned = 0
  /\ disk = [s \in Seqs |-> Absent] /\ cancel = FALSE
  /\ exp = ExpIdle /\ res = ResIdle /\ pending = 0
  /\ work = [d \in 1 .. Latest |-> [p \in Parts |-> 0]]
  /\ boot = TRUE
  /\ built = 0 /\ faults = 0 /\ unsure = 0

-----------------------------------------------------------------------------
(* The rest of the machine: the harvester and the channel's other posters.   *)

\* ui_server's downloader commits the next reel it finds.
Harvest ==
  /\ Posts \ lake # {} /\ lake' = lake \cup {Min(Posts \ lake)}
  /\ UNCHANGED <<pg, channel, pinned, disk, cancel, exp, res, pending, work,
                 boot, built, counts>>

\* The processing engine posts a stage bundle and pins it over the manifest.
PinStage ==
  /\ PostOther /\ pinned' = Len(channel')
  /\ UNCHANGED <<lake, pg, disk, cancel, exp, res, pending, work,
                 boot, built, unsure>>

-----------------------------------------------------------------------------
(* Export                                                                    *)

\* An unfinished bundle whose _local.json can be read and is not committed.
Resumable == {s \in Seqs : disk[s] \notin {Absent, Unsaved}
                           /\ ~disk[s].committed}

\* Neither start_export nor start_restore holds a lock over its two checks, and
\* only the started thread says "running": a start in that instant is a fault.
Unless(spawned) == IF spawned THEN Fault ELSE UNCHANGED faults

StartExport ==
  /\ exp.pc = "none" /\ ~res.running /\ Unless(res.pc = "spawned")
  /\ Resumable = {} => built < MaxBundles
  /\ cancel' = FALSE
  /\ exp' = [exp EXCEPT !.pc = "spawned",
               !.man.seq = IF Resumable = {} THEN 0 ELSE Max(Resumable)]
  /\ UNCHANGED <<lake, pg, channel, pinned, disk, res, pending, work,
                 boot, built, unsure>>

\* cancel_export
CancelExport ==
  /\ exp.running /\ ~cancel /\ cancel' = TRUE
  /\ UNCHANGED <<lake, pg, channel, pinned, disk, exp, res, pending, work,
                 boot, built, counts>>

ExportFrame == <<lake, pg, res, pending, work, boot>>

\* The thread ends, done, cancelled or in error; the cancel flag is cleared.
EndExport == exp' = ExpIdle /\ cancel' = FALSE

ToExport(pc) == exp' = [exp EXCEPT !.pc = pc] /\ UNCHANGED cancel

\* The manifest an interrupted bundle's directory holds.
ReadBackFresh(seq) == [disk[seq] EXCEPT !.sent = [p \in Parts |-> 0]]
ReadBack(seq) == disk[seq]

\* _run begins: the interrupted bundle is read back, or a new one begun.
RunExport ==
  /\ exp.pc = "spawned"
  /\ IF exp.man.seq # 0
     THEN /\ exp' = [exp EXCEPT !.running = TRUE, !.pc = "probe",
                                !.man = ReadBack(exp.man.seq)]
          /\ UNCHANGED <<disk, built>>
     ELSE /\ built' = built + 1
          /\ exp' = [exp EXCEPT !.running = TRUE, !.pc = "build",
                                !.man.seq = built']
          /\ disk' = [disk EXCEPT ![built'] = Unsaved]
  /\ UNCHANGED <<channel, pinned, cancel, counts, ExportFrame>>

\* A build that is cancelled leaves its directory; one that fails removes it.
AbandonBuild ==
  /\ exp.pc = "build"
  /\ \/ /\ cancel /\ EndExport /\ UNCHANGED disk
     \/ /\ EndExport
        /\ disk' = [disk EXCEPT ![exp.man.seq] = Absent]
  /\ UNCHANGED <<channel, pinned, built, counts, ExportFrame>>

\* _build_bundle: VACUUM INTO, pg_dump, compress, split into hashed parts.
Build ==
  /\ exp.pc = "build" /\ ~cancel
  /\ exp' = [exp EXCEPT !.pc = "probe", !.man.lake = lake, !.man.pg = pg]
  /\ UNCHANGED <<channel, pinned, disk, cancel, built, counts, ExportFrame>>

\* _save_local opens the record for writing and swallows an OSError: the old
\* record may be there still, or a torn one that nothing can read.
SaveLocal(man) ==
  \/ disk' = [disk EXCEPT ![man.seq] = man] /\ UNCHANGED counts
  \/ /\ Fault /\ unsure' = unsure + 1
     /\ disk' \in {disk, [disk EXCEPT ![man.seq] = Unsaved]}

\* No secrets: kept on disk and done.  tg.probe fails: error, and nothing says
\* the bundle can be resumed.  Otherwise the manifest is saved before a byte.
Probe ==
  /\ exp.pc = "probe"
  /\ \/ SaveLocal(exp.man) /\ EndExport
     \/ EndExport /\ UNCHANGED <<disk, counts>>
     \/ SaveLocal(exp.man) /\ ToExport("upload")
  /\ UNCHANGED <<channel, pinned, built, ExportFrame>>

Unsent(man) == {p \in Parts : man.sent[p] = 0}

NextPostEarly(man) == IF Cardinality(Unsent(man)) <= 1 THEN Manifest(man)
                      ELSE Part(man.seq, Min(Unsent(man)))

\* What the upload posts next: each part without a message id, then the
\* manifest.
NextPost(man) == IF Unsent(man) = {} THEN Manifest(man)
                 ELSE Part(man.seq, Min(Unsent(man)))

\* _upload_bundle: send_document returned the message's id.
Send ==
  /\ exp.pc = "upload" /\ ~cancel
  /\ LET m == NextPost(exp.man) IN
     /\ Post(m)
     /\ IF m.kind = "part"
        THEN exp' = [exp EXCEPT !.pc = "save",
                                !.man.sent[m.part] = Len(channel')]
        ELSE exp' = [exp EXCEPT !.pc = "pin", !.man.committed = TRUE]
  /\ UNCHANGED <<pinned, disk, cancel, built, counts, ExportFrame>>

\* _save_local after each part, so that a crash does not send it again; the
\* upload goes on whether or not the record was written.
Save ==
  /\ exp.pc = "save" /\ SaveLocal(exp.man) /\ ToExport("upload")
  /\ UNCHANGED <<channel, pinned, built, ExportFrame>>

\* _post's retry: the server took the message and the answer did not come.
LoseReply ==
  /\ exp.pc = "upload" /\ ~cancel /\ Post(NextPost(exp.man))
  /\ Fault /\ unsure' = unsure + 1
  /\ UNCHANGED <<pinned, disk, cancel, exp, built, ExportFrame>>

\* Between two parts the flag is _Cancelled; inside one it is the transport's
\* Cancelled, which _run reports as an error, like a send that failed.
StopUpload ==
  /\ exp.pc = "upload"
  /\ \/ cancel /\ EndExport
     \/ EndExport
  /\ UNCHANGED <<channel, pinned, disk, built, counts, ExportFrame>>

\* pin_message may be refused; the export goes on.
Pin ==
  /\ exp.pc = "pin" /\ ToExport("finish")
  /\ pinned' \in {pinned, Max(Manifests)}
  /\ UNCHANGED <<channel, disk, built, counts, ExportFrame>>

\* The directory is removed, or kept with the manifest's id in it.
FinishExport ==
  /\ exp.pc = "finish" /\ EndExport
  /\ \/ SaveLocal(exp.man)              \* keep_local
     \/ disk' = [disk EXCEPT ![exp.man.seq] = Absent] /\ UNCHANGED counts
  /\ UNCHANGED <<channel, pinned, built, ExportFrame>>

-----------------------------------------------------------------------------
(* Restore                                                                   *)

\* The bundle an apply without a sequence asks for: the one last inspected.
AskedNewest(mode, seq) == seq
Asked(mode, seq) == IF mode = "apply" /\ seq = 0 THEN pending ELSE seq

\* start_restore; `shown` is what the operator saw, if the request names none.
SpawnRestore(mode, seq, auto) ==
  /\ res.pc = "none" /\ ~exp.running /\ Unless(exp.pc = "spawned")
  /\ res' = [ResIdle EXCEPT !.pc = "spawned",
                !.mode = mode, !.seq = Asked(mode, seq), !.auto = auto,
                !.shown = IF seq = 0 /\ mode = "apply" THEN pending ELSE 0]

\* start_restore from the admin panel.
StartRestore ==
  /\ \E mode \in {"inspect", "apply"}, seq \in 0 .. built :
       SpawnRestore(mode, seq, FALSE)
  /\ UNCHANGED <<lake, pg, channel, pinned, disk, cancel, exp, pending, work,
                 boot, built, unsure>>

\* routes._restore_lake: once per start, and only into an empty lake.
BootRestore ==
  /\ boot /\ boot' = FALSE
  /\ IF lake = {} /\ res.pc = "none" /\ ~exp.running
     THEN SpawnRestore("apply", 0, TRUE)
     ELSE UNCHANGED <<res, faults>>
  /\ UNCHANGED <<lake, pg, channel, pinned, disk, cancel, exp, pending, work,
                 built, unsure>>

RestoreFrame == <<disk, cancel, exp, boot, built, unsure>>

EndRestore == res' = ResIdle            \* ready, done or in error

RunRestore ==
  /\ res.pc = "spawned"
  /\ \/ res' = [res EXCEPT !.running = TRUE, !.pc = "find"]
     \/ EndRestore                       \* no Telegram secrets
  /\ UNCHANGED <<lake, pg, channel, pinned, pending, work, faults,
                 RestoreFrame>>

Names(i) == {0, channel[i].man.seq}

\* The pinned message, over HTTP or MTProto, when it is the manifest asked for.
FromPinAny == {pinned} \cap Manifests
FromPin == {i \in {pinned} \cap Manifests : res.seq \in Names(i)}

\* _scan_for_manifest: the newest match in the last HISTORY_SCAN messages.
FromScan ==
  LET hits == {i \in Manifests : res.seq \in Names(i)
                                 /\ i > Len(channel) - Window}
  IN IF hits = {} THEN {} ELSE {Max(hits)}

\* The manifest is in hand: an inspect remembers it and ends, an apply goes on.
Take(man) ==
  IF res.mode = "inspect"
  THEN pending' = man.seq /\ EndRestore
  ELSE UNCHANGED pending /\ res' = [res EXCEPT !.pc = "fetch", !.man = man]

\* _fetch finds the manifest: the pin, else the scan (also when the reads of
\* the pin fail), which leaves a deleted message behind; or nothing.
Find ==
  /\ res.pc = "find"
  /\ \/ /\ \E i \in FromPin : Take(channel[i].man)
        /\ UNCHANGED <<channel, faults>>
     \/ (\E i \in FromScan : Take(channel[i].man)) /\ PostOther
     \/ EndRestore /\ UNCHANGED <<channel, pending, faults>>
  /\ UNCHANGED <<lake, pg, pinned, work, RestoreFrame>>

Dir == IF res.seq = 0 THEN Latest ELSE res.seq

\* A part already there with the right hash is not fetched again.
ReuseAny(p) == work[Dir][p] # 0
Reuse(p) == work[Dir][p] = res.man.seq

\* One part of _http_download_parts / _download_parts: reused, fetched and
\* verified, fetched wrong and refused, or not to be had.
Fetch ==
  /\ res.pc = "fetch"
  /\ LET p == Len(res.got) + 1
         got(c) == res' = [res EXCEPT !.got = Append(@, c),
                             !.pc = IF p = Cardinality(Parts)
                                    THEN "join" ELSE "fetch"]
         file(c) == work' = [work EXCEPT ![Dir][p] = c]
         cut == Fault /\ EndRestore
     IN \/ Reuse(p) /\ got(work[Dir][p]) /\ UNCHANGED <<work, faults>>
        \/ /\ ~Reuse(p) /\ got(res.man.seq) /\ file(res.man.seq)
           /\ UNCHANGED faults
        \/ ~Reuse(p) /\ cut /\ file(Corrupt)
        \/ ~Reuse(p) /\ cut /\ UNCHANGED work
  /\ UNCHANGED <<lake, pg, channel, pinned, pending, RestoreFrame>>

\* _join and _decompress consume the parts; _safety_copy may fail
\* and the restore goes on (the copy, on scratch, is not modelled).
Join ==
  /\ res.pc = "join" /\ res' = [res EXCEPT !.pc = "lake"]
  /\ work' = [work EXCEPT ![Dir] = [p \in Parts |-> 0]]
  /\ UNCHANGED <<lake, pg, channel, pinned, pending, faults,
                 RestoreFrame>>

\* The database the joined parts hold; parts of two bundles are no database.
Joined == IF \A p \in 1 .. LakeParts : res.got[p] = res.man.seq
          THEN res.man.lake ELSE NoLake

Loaded == EndRestore /\ pending' = 0

\* _load_sqlite: backup() replaces the lake in one transaction.
LoadLake ==
  /\ res.pc = "lake" /\ lake' = Joined
  /\ res' = [res EXCEPT !.pc = "pg"]
  /\ UNCHANGED <<pg, pending, channel, pinned, work, faults,
                 RestoreFrame>>

\* _load_postgres: skipped before the drop (no psql, the schema will not drop)
\* or by the timeout of the replay after it, replayed, or failed partway.
LoadPostgres ==
  /\ res.pc = "pg"
  /\ \/ pg' \in {pg, Torn, res.man.pg} /\ Loaded
     \/ pg' = Torn /\ EndRestore /\ UNCHANGED pending
  /\ UNCHANGED <<lake, channel, pinned, work, faults,
                 RestoreFrame>>

-----------------------------------------------------------------------------
\* The session ends: a restart on the same disk, or a new container that
\* holds nothing.  Only the channel outlives the second.
Die ==
  /\ Fault /\ unsure' = unsure + 1
  /\ exp' = ExpIdle /\ res' = ResIdle /\ cancel' = FALSE /\ pending' = 0
  /\ boot' = TRUE
  /\ \/ UNCHANGED <<lake, pg, disk, work>>
     \/ /\ lake' = {} /\ pg' = Whole /\ disk' = [s \in Seqs |-> Absent]
        /\ work' = [d \in 1 .. Latest |-> [p \in Parts |-> 0]]
  /\ UNCHANGED <<channel, pinned, built>>

Next ==
  \/ Harvest \/ PinStage
  \/ StartExport \/ CancelExport \/ RunExport \/ AbandonBuild \/ Build
  \/ Probe \/ Send \/ Save \/ LoseReply \/ StopUpload \/ Pin \/ FinishExport
  \/ StartRestore \/ BootRestore \/ RunRestore \/ Find \/ Fetch \/ Join
  \/ LoadLake \/ LoadPostgres
  \/ Die

Spec == Init /\ [][Next]_vars

-----------------------------------------------------------------------------
(* Properties                                                                *)

\* Every variable keeps its shape: a thread that is not there holds nothing,
\* and what _local.json says is posted is in the channel.
BundlesTypeOK ==
  /\ lake \subseteq Posts /\ pg \in {Whole, Torn}
  /\ pinned \in 0 .. Len(channel) /\ pending \in 0 .. MaxBundles
  /\ exp.pc = "none" => exp = ExpIdle
  /\ res.pc = "none" => res = ResIdle
  /\ exp.running => exp.pc # "spawned" /\ exp.man.seq \in Seqs
  /\ res.running => res.pc # "spawned"
  /\ \A s \in Seqs : disk[s] \notin {Absent, Unsaved} =>
       /\ disk[s].seq = s
       /\ \A p \in Parts :
            disk[s].sent[p] # 0 => channel[disk[s].sent[p]] = Part(s, p)

\* A bundle exists if and only if its manifest is posted: whatever was
\* resumed, cancelled, resent or killed, each part a posted manifest names is
\* in the channel under the message id it names (db_export.py:17).
BundleIsWhole ==
  \A i \in Manifests : LET man == channel[i].man IN
    \A p \in Parts : /\ man.sent[p] \in 1 .. i - 1
                            /\ channel[man.sent[p]] = Part(man.seq, p)

\* What every state of export and restore satisfies.
BundlesInv == BundlesTypeOK /\ BundleIsWhole

\* A part is in the channel twice only because an answer was lost, the session
\* ended before _save_local, or a _save_local failed: each of these costs one
\* copy at most, and a resume sends again nothing that its record lists.
ExtraCopiesHaveACause ==
  LET posted == {i \in 1 .. Len(channel) : channel[i].kind = "part"}
      distinct == {channel[i] : i \in posted}
  IN Cardinality(posted) - Cardinality(distinct) <= unsure

\* Rows leave the lake only when the whole lake becomes the snapshot of one
\* bundle that is posted, or the container is gone: never a mixture, whatever
\* an interrupted restore left in the work directory.
ReplacedByOneBundle ==
  [][ ~(lake \subseteq lake') =>
        \/ unsure' > unsure
        \/ \E i \in Manifests : lake' = channel[i].man.lake ]_vars

\* What an apply loads after an inspect is the bundle that inspect showed,
\* though a newer one may have been posted and pinned in between.
AppliesWhatWasShown ==
  [][ res.pc = "lake" /\ res'.pc # "lake" /\ res.shown # 0 /\ unsure' = unsure
        => res.man.seq = res.shown ]_vars
=============================================================================
