------------------------------- MODULE Atlas -------------------------------
(***************************************************************************)
(* Atlas as a reader of the channel (atlas/ingest.py, index.py, search.py, *)
(* server.py): the scan that merges bundles, evidence shards and asset     *)
(* manifests into atlas.db, the rebuild of the moment index that follows   *)
(* an import, the dense vectors made of it, and the boot and live-refresh  *)
(* threads that start it all.                                              *)
(*                                                                         *)
(* A message is its position in the channel; its id is what the table      *)
(* bundles knows it by.  A bundle is a snapshot: it has all that older     *)
(* bundles had.  A message has two rows, for an import may end between two *)
(* files of a bundle.                                                      *)
(*                                                                         *)
(* Of a session without credentials or with --no-scan nothing is here, nor *)
(* of a boot whose reads of atlas.db are refused.  Taken as one step,      *)
(* where the code has two: that a scan finds none running and is marked as *)
(* running (ingest.py:882-885), the two getChat of the pinned message, and *)
(* the looks of _reconcile_boot at five stores.                            *)
(***************************************************************************)
EXTENDS Naturals, Sequences, FiniteSets

CONSTANTS
    MaxMessages,    \* messages the other planes publish
    Events,         \* what may go wrong or be asked for, each kind once
    MaxEvents       \* and so many kinds in one behaviour

ASSUME AtlasAssumption == MaxMessages \in Nat /\ MaxEvents \in Nat

VARIABLES
    channel,    \* the messages: what each is, and its id
    pin,        \* the message that is pinned, 0 for none
    mtproto,    \* the history of the channel can be read in this session
    rows,       \* the rows of the messages that are in atlas.db
    tables,     \* the kinds of messages there are tables of
    clips,      \* asset manifests whose rows are in parts
    ok,         \* ids with status ok in the table bundles
    moments,    \* the moment table: its generation, the rows it was made of
    stamp,      \* index_build_id: the generation it names
    shape,      \* index_fingerprint: the kinds of tables there were
    build,      \* each builder's rebuild: where it is, the rows it read, its generation
    running,    \* the index is marked as being built
    embed,      \* the embedding thread: where it is, its build_id, its generation
    file,       \* the vector file: generation of the vectors, build_id beside it
    memory,     \* generation of the vectors in memory
    encoding,   \* the phase that the index shows is "embedding"
    graph,      \* the graph has nodes
    map,        \* the map is being drawn
    phase,      \* the phase of _BOOT
    boot,       \* where the boot thread is
    scan,       \* the scan: where it is and who asked, its extent, its place in
                \* the walk, its message, whether that added rows, and those found
    missed,     \* rows came in and no rebuild that would read them is going to run
    happened    \* the kinds of events so far

world == <<channel, pin, mtproto>>
data  == <<rows, tables, clips, ok>>
dense == <<embed, file, memory>>
index == <<moments, stamp, shape, build, running>>
views == <<encoding, graph, map>>
vars  == <<world, data, index, dense, views, phase, boot, scan, missed, happened>>

Ids     == 1..Len(channel)
Kinds   == {"bundle", "shard", "asset", "other"}
Bundles == {m \in Ids: channel[m].kind = "bundle"}

Rows(m) == {m} \X {1, 2}

\* A bundle has the rows of the older ones.
Content(m) == IF channel[m].kind = "bundle" THEN {b \in Bundles: b <= m} \X {1, 2} ELSE Rows(m)

Event(e) ==
    /\ e \in Events \ happened
    /\ Cardinality(happened) < MaxEvents
    /\ happened' = happened \cup {e}

\* Who may rebuild the index: the boot thread, the thread of a scan, a request.
Builders == {"boot", "scan", "request"}

NoBuild == [pc |-> "off", rows |-> {}, gen |-> 0]
NoEmbed == [pc |-> "off", label |-> 0, gen |-> 0]
NoScan  == [pc |-> "off", by |-> "none", full |-> FALSE, at |-> 0, msg |-> 0,
            added |-> FALSE, found |-> {}]

AtlasTypeOK ==
    /\ channel \in Seq([kind: Kinds, id: Nat]) /\ Len(channel) <= MaxMessages
    /\ pin \in Ids \cup {0} /\ clips \subseteq Ids /\ ok \subseteq Nat
    /\ rows \cup moments.rows \subseteq Ids \X {1, 2}
    /\ stamp <= moments.gen /\ shape \cup tables \subseteq Kinds
    /\ {build[by].pc: by \in Builders} \subseteq {"off", "begin", "collect", "commit", "stamp"}
    /\ embed.pc \in {"off", "read", "check", "write", "label", "load"}
    /\ {embed.label, embed.gen, file.gen, file.label, memory} \subseteq 0..moments.gen
    /\ {mtproto, running, encoding, graph, map, missed} \subseteq BOOLEAN
    /\ phase \in {"starting", "scanning", "indexing", "ready"}
    /\ boot \in {"start", "announce", "scan", "scanning", "index", "building", "load", "done"}
    /\ scan.pc \in {"off", "pinned", "walk", "merge", "status", "index", "building"}
    /\ scan.at \in Ids \cup {0} /\ scan.found \subseteq Ids

Init ==
    /\ channel = <<>> /\ pin = 0 /\ mtproto \in BOOLEAN
    /\ rows = {} /\ tables = {} /\ clips = {} /\ ok = {}
    /\ moments = [gen |-> 0, rows |-> {}] /\ stamp = 0 /\ shape = {}
    /\ build = [by \in Builders |-> NoBuild] /\ running = FALSE /\ embed = NoEmbed
    /\ file = [gen |-> 0, label |-> 0] /\ memory = 0
    /\ encoding = FALSE /\ graph = FALSE /\ map = FALSE
    /\ phase = "starting" /\ boot = "start" /\ scan = NoScan
    /\ missed = FALSE /\ happened = {}

\* The ids a new message may have: a shard is numbered by its site, which may have
\* given the number to another one.
Fresh       == Len(channel) + 1
IdsOf(kind) == {Fresh} \cup (IF kind # "shard" THEN {}
                             ELSE {channel[m].id: m \in {n \in Ids: channel[n].kind = "shard"}})

\* The exporter publishes a bundle, the capture plane a video's set, the GPU plane a
\* shard.  An export pins its manifest, if that succeeds; so does a stage of the GPU
\* plane with its bundle, and the capture plane with its checkpoint: "other", which
\* Atlas does not read.
Publish(kind) ==
    /\ Len(channel) < MaxMessages
    /\ \E id \in IdsOf(kind): channel' = Append(channel, [kind |-> kind, id |-> id])
    /\ pin' \in {pin} \cup {m \in {Fresh}: kind \in {"bundle", "other"}}
    /\ UNCHANGED <<mtproto, data, index, dense, views, phase, boot, scan, missed, happened>>

-----------------------------------------------------------------------------
(***************************************************************************)
(* Rebuilding the moment index, and embedding it.                          *)
(***************************************************************************)
\* One rebuild at a time: another is refused, and nobody asks for it again.
StartBuild(by) ==
    IF running THEN missed' = TRUE /\ UNCHANGED build
    ELSE build' = [build EXCEPT ![by].pc = "begin"] /\ UNCHANGED missed

\* It is marked as running after that look, without a lock: another may have passed it.
BeginBuild(by) ==
    /\ build[by].pc = "begin"
    /\ build' = [build EXCEPT ![by].pc = "collect"]
    /\ running' = TRUE /\ encoding' = FALSE
    /\ UNCHANGED <<world, data, moments, stamp, shape, dense, graph, map, phase, boot, scan, missed, happened>>

\* _index_if_stale without force: an index there is, of the tables there are.
Stale == moments.rows = {} \/ shape # tables

Collect(by) ==
    /\ build[by].pc = "collect"
    /\ build' = [build EXCEPT ![by].pc = "commit", ![by].rows = rows]
    /\ encoding' = FALSE
    /\ UNCHANGED <<world, data, moments, stamp, shape, running, dense, graph, map, phase, boot, scan, missed, happened>>

\* The old moments go and the new ones are committed, with new ids.  If these are of
\* every row there is, nothing is missed any more; if another rebuild has brought in
\* more rows meanwhile, those are.
Commit(by) ==
    /\ build[by].pc = "commit"
    /\ moments' = [gen |-> moments.gen + 1, rows |-> build[by].rows]
    /\ build' = [build EXCEPT ![by].pc = "stamp", ![by].gen = moments'.gen]
    /\ encoding' = FALSE
    /\ missed' = (/\ missed \/ ~ moments.rows \subseteq build[by].rows
                  /\ ~ rows \subseteq build[by].rows)
    /\ UNCHANGED <<world, data, stamp, shape, running, dense, graph, map, phase, boot, scan, happened>>

\* start_embedding: not while one is still running.
StartEmbedding(gen) ==
    embed' = IF embed.pc = "off" THEN [NoEmbed EXCEPT !.pc = "read", !.label = gen] ELSE embed

\* Fingerprint and build_id are written last, then the embedding is started.
Stamp(by) ==
    /\ build[by].pc = "stamp"
    /\ stamp' = build[by].gen /\ shape' = tables
    /\ build' = [build EXCEPT ![by] = NoBuild] /\ running' = FALSE /\ encoding' = FALSE
    /\ StartEmbedding(build[by].gen)
    /\ UNCHANGED <<world, data, moments, file, memory, graph, map, phase, boot, scan, missed, happened>>

\* A full disk or a locked database ends the rebuild, before or after its commit.
\* Nothing is rolled back: the next commit of the connection, that of the graph or
\* of the next import, may be the one of the old moments' deletion.
BuildFails(by) ==
    /\ build[by].pc \in {"collect", "commit", "stamp"}
    /\ Event("build")
    /\ build' = [build EXCEPT ![by] = NoBuild] /\ running' = FALSE
    /\ missed' = TRUE /\ encoding' = FALSE
    /\ \/ UNCHANGED moments
       \/ build[by].pc = "commit" /\ moments' = [gen |-> moments.gen + 1, rows |-> {}]
    /\ UNCHANGED <<world, data, stamp, shape, dense, graph, map, phase, boot, scan>>

EmbedRead ==
    /\ embed.pc = "read"
    /\ IF moments.rows = {}
       THEN embed' = NoEmbed /\ UNCHANGED encoding
       ELSE embed' = [embed EXCEPT !.pc = "check", !.gen = moments.gen] /\ encoding' = TRUE
    /\ UNCHANGED <<world, data, index, file, memory, graph, map, phase, boot, scan, missed, happened>>

\* A rebuild that ended meanwhile: the vectors are dropped.
EmbedCheck ==
    /\ embed.pc = "check"
    /\ IF stamp = embed.label
       THEN embed' = [embed EXCEPT !.pc = "write"] /\ UNCHANGED encoding
       ELSE embed' = NoEmbed /\ encoding' = FALSE
    /\ UNCHANGED <<world, data, index, file, memory, graph, map, phase, boot, scan, missed, happened>>

EmbedWrite ==
    /\ embed.pc = "write"
    /\ file' = [file EXCEPT !.gen = embed.gen]
    /\ embed' = [embed EXCEPT !.pc = "label"]
    /\ UNCHANGED <<world, data, index, memory, views, phase, boot, scan, missed, happened>>

EmbedLabel ==
    /\ embed.pc = "label"
    /\ file' = [file EXCEPT !.label = embed.label]
    /\ embed' = [embed EXCEPT !.pc = "load"]
    /\ encoding' = FALSE
    /\ UNCHANGED <<world, data, index, memory, graph, map, phase, boot, scan, missed, happened>>

\* No encoder, no numpy, no vectors, a full disk: the thread is over, and nothing
\* takes back the phase it has set.  A build_id that cannot be read is taken for the
\* right one; a label that is cut off in its writing is none.
EmbedFails ==
    /\ embed.pc \in {"read", "check", "write", "label"}
    /\ Event("embed")
    /\ \/ embed' = NoEmbed /\ UNCHANGED file
       \/ embed.pc = "check" /\ embed' = [embed EXCEPT !.pc = "write"] /\ UNCHANGED file
       \/ embed.pc = "label" /\ embed' = NoEmbed /\ file' = [file EXCEPT !.label = 0]
    /\ UNCHANGED <<world, data, index, memory, views, phase, boot, scan, missed>>

\* A mutant: the file is loaded whatever index it was made for.
AcceptsAny(expect) == file.label # 0

\* reload_vectors: a file made for another index is refused.
Accepts(expect) == file.label # 0 /\ (expect = 0 \/ file.label = expect)

EmbedLoad ==
    /\ embed.pc = "load"
    /\ memory' = IF Accepts(embed.label) THEN file.gen ELSE memory
    /\ embed' = NoEmbed /\ map' = TRUE
    /\ UNCHANGED <<world, data, index, file, encoding, graph, phase, boot, scan, missed, happened>>

\* The map is drawn of the vectors, in a thread of its own.
MapDrawn ==
    /\ map /\ map' = FALSE
    /\ UNCHANGED <<world, data, index, dense, encoding, graph, phase, boot, scan, missed, happened>>

Embed == EmbedRead \/ EmbedCheck \/ EmbedWrite \/ EmbedLabel \/ EmbedLoad

\* api_reindex
Reindex ==
    /\ build["request"].pc = "off" /\ ~running
    /\ Event("reindex")
    /\ StartBuild("request")
    /\ UNCHANGED <<world, data, moments, stamp, shape, running, dense, views, phase, boot, scan>>

-----------------------------------------------------------------------------
(***************************************************************************)
(* The scan: the pinned manifest, then every message from the newest down. *)
(***************************************************************************)
Begin(by, full) ==
    scan' = [NoScan EXCEPT !.pc = "pinned", !.by = by, !.full = full]

\* The pinned part (at = 0) is over, or one message of the walk is.  Without MTProto
\* the walk is left out: a bot cannot list the history.
Onward(s) ==
    CASE s.at = 0 /\ s.full /\ mtproto /\ channel # <<>> -> [s EXCEPT !.pc = "walk", !.at = Len(channel)]
      [] s.at > 1 -> [s EXCEPT !.pc = "walk", !.at = @ - 1]
      [] OTHER    -> NoScan

\* What is passed over is known by its id: it was imported in an earlier scan or in
\* this one, or a message of the same id was.
Known(m) == channel[m].id \in ok

Fetch(m) == scan' = [scan EXCEPT !.pc = "merge", !.msg = m, !.found = @ \cup {m}]

Pinned ==
    /\ scan.pc = "pinned"
    /\ IF pin \notin Bundles \/ Known(pin) THEN scan' = Onward(scan) ELSE Fetch(pin)
    /\ UNCHANGED <<world, data, index, dense, views, phase, boot, missed, happened>>

\* The manifest's video, clips and other assets take the place of what parts had
\* of that video.
RecordParts(m) == clips' = clips \cup {m}

\* An asset manifest is read in every walk: where the clips of a video are.
ReadAsset ==
    /\ scan.pc = "walk" /\ channel[scan.at].kind = "asset"
    /\ RecordParts(scan.at)
    /\ scan' = Onward(scan)
    /\ UNCHANGED <<world, rows, tables, ok, index, dense, views, phase, boot, missed, happened>>

\* The readers each other message is offered to.
Walk ==
    /\ scan.pc = "walk" /\ channel[scan.at].kind # "asset"
    /\ IF channel[scan.at].kind = "other" \/ Known(scan.at) \/ scan.at \in scan.found
       THEN scan' = Onward(scan) ELSE Fetch(scan.at)
    /\ UNCHANGED <<world, data, index, dense, views, phase, boot, missed, happened>>

\* A manifest that will not load or parse is passed over without a word.
ReadFails ==
    /\ \/ scan.pc = "pinned" /\ pin \in Bundles
       \/ scan.pc = "walk" /\ channel[scan.at].kind \in {"asset", "bundle"}
    /\ Event("fetch")
    /\ scan' = Onward(scan)
    /\ UNCHANGED <<world, data, index, dense, views, phase, boot, missed>>

\* A batch of messages that will not load is passed over.
BatchFails ==
    /\ scan.pc = "walk"
    /\ Event("batch")
    /\ \E n \in 0..(scan.at - 1):
           scan' = IF n = 0 THEN NoScan ELSE [scan EXCEPT !.at = n]
    /\ UNCHANGED <<world, data, index, dense, views, phase, boot, missed>>

Merge ==
    /\ scan.pc = "merge"
    /\ rows' = rows \cup Content(scan.msg)
    /\ tables' = tables \cup {channel[scan.msg].kind}
    /\ scan' = [scan EXCEPT !.pc = "status", !.added = rows' # rows]
    /\ UNCHANGED <<world, clips, ok, index, dense, views, phase, boot, missed, happened>>

\* What an import that ends early may leave: tables, and the rows of a bundle's
\* first file.  The rows are committed, with the failure if not before, and nobody
\* asks for a rebuild.
Leaves ==
    /\ \/ UNCHANGED <<rows, tables>>
       \/ /\ rows' \in {rows, rows \cup {r \in Content(scan.msg): r[2] = 1 /\ scan.msg \in Bundles}}
          /\ tables' = tables \cup {channel[scan.msg].kind}
    /\ missed' = (missed \/ rows' # rows)

\* A part that will not load or is not what the manifest says, a file that will not
\* merge: status failed, and the scan goes on.
FetchFails ==
    /\ scan.pc = "merge"
    /\ Event("fetch")
    /\ scan' = Onward(scan)
    /\ IF scan.msg \in Bundles THEN Leaves ELSE UNCHANGED <<rows, tables, missed>>
    /\ UNCHANGED <<world, clips, ok, index, dense, views, phase, boot>>

\* No answer from the channel, or a disk or a database that refuses: the scan is
\* over.  A message that was merged is not recorded as imported.
ScanAborts ==
    /\ scan.pc \in {"pinned", "walk", "merge", "status"}
    /\ Event("abort")
    /\ scan' = NoScan
    /\ IF scan.pc = "merge" THEN Leaves
       ELSE missed' = (missed \/ (scan.pc = "status" /\ scan.added)) /\ UNCHANGED <<rows, tables>>
    /\ UNCHANGED <<world, clips, ok, index, dense, views, phase, boot>>

Status ==
    /\ scan.pc = "status"
    /\ ok' = ok \cup {channel[scan.msg].id}
    /\ scan' = [scan EXCEPT !.pc = "index"]
    /\ UNCHANGED <<world, rows, tables, clips, index, dense, views, phase, boot, missed, happened>>

\* A mutant: the index is brought up to date when a table has changed.
ReindexIfTables ==
    /\ scan.pc = "index"
    /\ IF Stale
       THEN phase' = "indexing" /\ StartBuild("scan") /\ scan' = [scan EXCEPT !.pc = "building"]
       ELSE scan' = Onward(scan) /\ UNCHANGED <<phase, build, missed>>
    /\ UNCHANGED <<world, data, moments, stamp, shape, running, dense, views, boot, happened>>

\* after_bundle, in the boot's scan and in any other.
ReindexAfter ==
    /\ scan.pc = "index"
    /\ IF scan.added \/ Stale
       THEN phase' = "indexing" /\ StartBuild("scan") /\ scan' = [scan EXCEPT !.pc = "building"]
       ELSE scan' = Onward(scan) /\ UNCHANGED <<phase, build, missed>>
    /\ UNCHANGED <<world, data, moments, stamp, shape, running, dense, views, boot, happened>>

\* The graph is derived of the videos there are.  Never fatal: one that fails leaves
\* the old one, or none.
Derive ==
    \/ graph' = (graph \/ moments.rows # {}) /\ UNCHANGED happened
    \/ Event("graph") /\ graph' \in {graph, FALSE}

\* The rebuild is over, the graph is derived, the scan goes on.
Indexed ==
    /\ scan.pc = "building" /\ build["scan"].pc = "off"
    /\ Derive
    /\ phase' = "indexing"
    /\ scan' = Onward(scan)
    /\ UNCHANGED <<world, data, index, dense, encoding, map, boot, missed>>

Scan == Pinned \/ ReadAsset \/ Walk \/ Merge \/ Status \/ ReindexAfter \/ Indexed

-----------------------------------------------------------------------------
(***************************************************************************)
(* Who starts it: the boot thread, the live refresh, a request.            *)
(***************************************************************************)
Loads == memory' = IF Accepts(stamp) THEN file.gen ELSE memory

\* What an earlier session indexed can be searched before the scan.
BootOpens ==
    /\ boot = "start"
    /\ boot' = "announce"
    /\ IF moments.rows # {} THEN Loads /\ phase' = "ready" ELSE UNCHANGED <<memory, phase>>
    /\ UNCHANGED <<world, data, index, embed, file, views, scan, missed, happened>>

BootAnnounces ==
    /\ boot = "announce"
    /\ phase' = "scanning" /\ boot' = "scan"
    /\ UNCHANGED <<world, data, index, dense, views, scan, missed, happened>>

\* Another scan that has begun since is not waited for.
BootScans ==
    /\ boot = "scan"
    /\ IF scan.pc = "off" THEN Begin("boot", TRUE) /\ boot' = "scanning"
       ELSE boot' = "index" /\ UNCHANGED scan
    /\ UNCHANGED <<world, data, index, dense, views, phase, missed, happened>>

BootScanned ==
    /\ boot = "scanning" /\ scan.by # "boot"
    /\ boot' = "index"
    /\ UNCHANGED <<world, data, index, dense, views, phase, scan, missed, happened>>

BootIndexes ==
    /\ boot = "index"
    /\ IF Stale THEN phase' = "indexing" /\ StartBuild("boot") /\ boot' = "building"
       ELSE boot' = "load" /\ UNCHANGED <<phase, build, missed>>
    /\ UNCHANGED <<world, data, moments, stamp, shape, running, dense, views, scan, happened>>

BootIndexed ==
    /\ boot = "building" /\ build["boot"].pc = "off"
    /\ Derive
    /\ phase' = "indexing" /\ boot' = "load"
    /\ UNCHANGED <<world, data, index, dense, encoding, map, scan, missed>>

\* A graph that has no nodes is derived first.
BootReady ==
    /\ boot = "load"
    /\ IF graph THEN UNCHANGED <<graph, happened>> ELSE Derive
    /\ Loads
    /\ phase' = "ready" /\ boot' = "done"
    /\ UNCHANGED <<world, data, index, embed, file, encoding, map, scan, missed>>

Boot == \/ BootOpens \/ BootAnnounces \/ BootScans \/ BootScanned \/ BootIndexes
        \/ BootIndexed \/ BootReady

\* start_live_refresh: every two minutes, and only the pinned manifest.
Refresh ==
    /\ boot = "done" /\ phase = "ready" /\ scan.pc = "off"
    /\ Begin("refresh", FALSE)
    /\ UNCHANGED <<world, data, index, dense, views, phase, boot, missed, happened>>

\* api_scan, or the capture plane after it has published clips.
Rescan ==
    /\ phase # "starting" /\ scan.pc = "off"
    /\ Event("rescan")
    /\ Begin("request", TRUE)
    /\ UNCHANGED <<world, data, index, dense, views, phase, boot, missed>>

\* Nothing runs that would set the phase again, and there is something to search.
Settled ==
    /\ scan.pc = "off" /\ ~map /\ ~encoding
    /\ graph /\ moments.rows # {}

\* A mutant: only a boot that scans is brought to an end.
ReconcileScanning ==
    /\ phase = "scanning" /\ Settled
    /\ phase' = "ready"
    /\ UNCHANGED <<world, data, index, dense, views, boot, scan, missed, happened>>

\* _reconcile_boot, when the page asks for the status.
Reconcile ==
    /\ phase # "ready" /\ Settled
    /\ phase' = "ready"
    /\ UNCHANGED <<world, data, index, dense, views, boot, scan, missed, happened>>

\* The session ends and the next one finds the disk as it is.
Restart ==
    /\ Event("restart")
    /\ mtproto' \in BOOLEAN
    /\ missed' = (missed \/ moments.rows # rows)
    /\ build' = [by \in Builders |-> NoBuild] /\ running' = FALSE
    /\ embed' = NoEmbed /\ memory' = 0
    /\ encoding' = FALSE /\ map' = FALSE
    /\ phase' = "starting" /\ boot' = "start" /\ scan' = NoScan
    /\ UNCHANGED <<channel, pin, data, moments, stamp, shape, file, graph>>

-----------------------------------------------------------------------------
Build == \E by \in Builders: BeginBuild(by) \/ Collect(by) \/ Commit(by) \/ Stamp(by)

Next ==
    \/ \E kind \in Kinds: Publish(kind)
    \/ Boot \/ Scan \/ Build \/ Embed \/ MapDrawn
    \/ ReadFails \/ BatchFails \/ FetchFails \/ ScanAborts \/ EmbedFails
    \/ \E by \in Builders: BuildFails(by)
    \/ Refresh \/ Rescan \/ Reindex \/ Reconcile \/ Restart

\* The threads go on, the refresh comes round, and somebody has the page open.
Fairness ==
    /\ WF_vars(Boot) /\ WF_vars(Scan) /\ WF_vars(Build) /\ WF_vars(Embed)
    /\ WF_vars(MapDrawn) /\ WF_vars(Refresh) /\ WF_vars(Reconcile)

Spec == Init /\ [][Next]_vars /\ Fairness

-----------------------------------------------------------------------------
(***************************************************************************)
(* Properties.                                                             *)
(***************************************************************************)
\* An id that is recorded as imported, so that every message of it is passed over
\* from then on, has the rows of a message in atlas.db, all of them: of the one that
\* was read, and of no other that has the same id (ingest.py:456-464, 717-731,
\* 990-994, 1020-1024).
OkIsHeld == \A id \in ok: \E m \in Ids: channel[m].id = id /\ Rows(m) \subseteq rows

\* With nothing running, every row there is can be searched, whatever was
\* published and asked for in between.  Excepted are rows that came in and whose
\* rebuild was refused because another one ran, failed, was never asked for because
\* the import or the scan failed, or was cut off by the end of the session, and rows
\* that a rebuild took out again which had begun beside another and read less; until
\* a rebuild has read every row there is: nothing asks for one
\* (server.py:75-96, index.py:678-681, ingest.py:426-446, 1050-1053).
HeldIsIndexed ==
    boot = "done" /\ scan.pc = "off" /\ (\A by \in Builders: build[by].pc = "off")
    => missed \/ rows \subseteq moments.rows

\* What every state of the reader satisfies, with the exceptions named: an id is
\* passed over only when the rows of a message of it are here, and rows that are
\* here can be searched.
AtlasInv == AtlasTypeOK /\ OkIsHeld /\ HeldIsIndexed

\* Vectors that a boot loads are those of the moments in the table, if the
\* table is the one index_build_id names: ids are given out anew by every
\* rebuild (search.py:75-103, index.py:737-745).  It does not name it where the
\* last session ended, or a rebuild failed, after the commit of the moments and
\* before that of the id (index.py:714-746): then a boot may load vectors of moments
\* that are gone; nor where two rebuilds ran beside each other and the id of the one
\* that committed first was written last.  What the embedding thread loads is not
\* spoken of.
BootLoadsCurrent ==
    [][BootOpens \/ BootReady
       => memory' \in {memory, moments.gen} \/ stamp # moments.gen]_vars

\* The boot is over and the phase stays where a rebuild left it, whoever has the page
\* open: the graph or the index is empty, or an embedding has failed.  The refresh
\* waits for it for ever.
NeverReady ==
    /\ boot = "done" /\ scan.pc = "off" /\ phase = "indexing"
    /\ \A by \in Builders: build[by].pc = "off"
    /\ ~graph \/ moments.rows = {} \/ (encoding /\ embed.pc = "off")

\* A bundle whose manifest is pinned, and a set of clips that a full scan with MTProto
\* has to pass.
Due(m) ==
    \/ pin = m /\ m \in Bundles
    \/ scan.pc = "pinned" /\ scan.full /\ mtproto /\ m \in Ids /\ channel[m].kind = "asset"

Served(m) ==
    IF m \in Bundles THEN Rows(m) \subseteq moments.rows \/ pin # m \/ missed \/ NeverReady
    ELSE m \in clips \/ {"fetch", "batch", "abort", "restart"} \cap happened # {}

\* A bundle whose manifest is pinned while Atlas is up can be searched some time
\* later, unless another message is pinned in its place, a rebuild is missed (see
\* HeldIsIndexed) or the refresh has stopped (NeverReady).  A failed fetch or scan
\* and the end of the session are made good.  And a full scan brings the clips
\* that were there when it began, whether the capture plane asked for it or the boot,
\* if MTProto is there and no fetch, batch or scan has ever failed nor a session
\* ended (server.py:285-321, 461-492, 541-575).
PublishedIsServed == \A m \in 1..MaxMessages: Due(m) ~> Served(m)
=============================================================================
