------------------------------ MODULE Harvest ------------------------------
(***************************************************************************)
(* The harvester of ui_server.py (background_downloader, the Ghost         *)
(* Worker): it scans the channel for posts, downloads their videos and     *)
(* queues them for the CV engine (frame_worker.py), while an administrator *)
(* pauses, prioritises, cleans up and resets, and processes die.           *)
(*                                                                         *)
(* Messages are numbered as in the channel and only those with a video are *)
(* modelled.  The queue itself is JobQueue's matter: here it only holds    *)
(* how many jobs of a video wait.  Priority lanes, the disk guard and the  *)
(* same hand-off to the Omniscient queues are left out.                    *)
(***************************************************************************)
EXTENDS SystemControl, FiniteSets, FiniteSetsExt

CONSTANTS
    Videos,         \* message ids that carry a video
    Old,            \* those in the channel from the start
    Categories,
    Category,       \* video -> category its caption names
    AdminChoices,   \* category queues the panel or a scan request may set
    ShortTries,     \* failed attempts whose back-off the worker sleeps out (5)
    MaxTries,       \* how often a download may fail in a behaviour
    Events,         \* what may happen to the system, each kind once
    MaxEvents       \* and so many kinds in one behaviour

ASSUME HarvestAssumption ==
    /\ Videos \subseteq Nat \ {0} /\ Videos # {} /\ IsFiniteSet(Videos)
    /\ Old \subseteq Videos
    /\ Category \in [Videos -> Categories]
    /\ AdminChoices \subseteq Seq(Categories)
    /\ {ShortTries, MaxTries, MaxEvents} \subseteq Nat
    /\ {"harvest", "cv"} \subseteq Components

VARIABLES
    channel,    \* the videos posted so far
    scanned,    \* lake.db scanned_ids
    post,       \* lake.db posts: video -> none, metadata or harvested
    retry,      \* lake.db capture_retries: attempts, and due | wait | terminal
    schema,     \* lake.db has its tables
    file,       \* video files on the disk
    trigger,    \* SCAN_TRIGGER is set
    local,      \* CATEGORY_QUEUE of the process
    admin,      \* ADMIN_ACTIVE_CATEGORIES in Redis
    stamp,      \* ADMIN_CATEGORIES_UPDATED moved since the worker looked
    ghost,      \* the Ghost Worker: where it is and what it works on
    dedup,      \* PROCESSED_VIDEOS_SET
    queue,      \* video -> its jobs waiting in QUEUE_VISION
    panel,      \* requests of the panel that are not through yet
    cv,         \* the video the CV engine works on and how far it is
    held,       \* jobs a dead CV engine left in QUEUE_VISION_PROCESSING
    framed,     \* lake.db videos: frames extracted
    analyze,    \* jobs handed to QUEUE_ANALYZE
    dead,       \* dead letters of QUEUE_VISION
    happened    \* the kinds of events so far

lake  == <<scanned, post, retry, schema>>
cats  == <<local, admin, stamp>>
jobs  == <<dedup, queue, held, dead>>
cvs   == <<cv, framed, analyze>>
vars  == <<control, channel, lake, file, trigger, cats, ghost, panel, jobs, cvs,
          happened>>

NoVideo == 0
At(pc)     == [pc |-> pc, v |-> NoVideo, missing |-> {}]
On(pc, v)  == [pc |-> pc, v |-> v, missing |-> {}]
Request(do, F, V) == [do |-> do, frames |-> F, videos |-> V]
Resting    == [pc |-> "idle", v |-> NoVideo]
NoRetry    == [n |-> 0, s |-> "due"]

Event(e) ==
    /\ e \in Events \ happened
    /\ Cardinality(happened) < MaxEvents
    /\ happened' = happened \cup {e}

HarvestTypeOK ==
    /\ ControlTypeOK
    /\ channel \subseteq Videos /\ scanned \subseteq channel
    /\ \A v \in Videos \ scanned: post[v] = "none"
    /\ post \in [Videos -> {"none", "meta", "harvested"}]
    /\ retry \in [Videos -> [n: Nat, s: {"due", "wait", "terminal"}]]
    /\ file \subseteq channel
    /\ local \in Seq(Categories) /\ admin \in Seq(Categories)
    /\ ghost.pc \in {"down", "top", "ready", "scan", "batch", "select", "get", "save",
                     "add", "push", "sleep"}
    /\ ghost.v \in Videos \cup {NoVideo} /\ ghost.missing \subseteq channel
    /\ queue \in [Videos -> Nat]
    /\ cv.pc \in {"down", "idle", "work", "done"}
    /\ dedup \cup framed \cup analyze \cup dead \cup held \subseteq channel
    /\ panel \subseteq [do: {"push", "rows", "dedup"}, frames: SUBSET channel,
                       videos: SUBSET channel]
    /\ {schema, trigger, stamp} \subseteq BOOLEAN

Init ==
    /\ InitControl
    /\ channel = Old /\ scanned = {} /\ file = {}
    /\ post = [v \in Videos |-> "none"]
    /\ retry = [v \in Videos |-> NoRetry]
    /\ schema = TRUE /\ trigger = TRUE
    /\ local = <<>> /\ admin = <<>> /\ stamp = FALSE
    /\ ghost = At("top") /\ panel = {}
    /\ dedup = {} /\ queue = [v \in Videos |-> 0] /\ held = {} /\ dead = {}
    /\ cv = Resting /\ framed = {} /\ analyze = {}
    /\ happened = {}

-----------------------------------------------------------------------------
(***************************************************************************)
(* The category queue, in the process and in Redis.                        *)
(***************************************************************************)
\* sync_category_queue: take the panel's queue if its stamp moved.  A new
\* queue sets the trigger.
Sync(force) ==
    LET new == force \/ stamp
    IN  /\ local' = IF new THEN admin ELSE local
        /\ stamp' = IF new THEN FALSE ELSE stamp
        /\ trigger' = IF new /\ admin # local THEN TRUE ELSE trigger
        /\ admin' = admin

\* persist_category_queue: the worker's queue q is written over the panel's.
Persist(q) == local' = q /\ admin' = q /\ stamp' = FALSE

\* activate_categories: the panel writes Redis only.
AdminSets(q) ==
    /\ Event("admin")
    /\ admin' = q /\ stamp' = TRUE
    /\ UNCHANGED <<control, channel, panel, lake, file, trigger, local, ghost, jobs, cvs>>

\* list.remove: the first of it goes, if it is there.
Without(q, c) ==
    LET there == {i \in 1..Len(q): q[i] = c}
    IN  IF there = {} THEN q
        ELSE [i \in 1..(Len(q) - 1) |-> IF i < Min(there) THEN q[i] ELSE q[i + 1]]

\* trigger_scan: the category moves to the front, and the worker wakes.
Scan(q) ==
    /\ Event("scan")
    /\ trigger' = TRUE
    /\ IF q = <<>> THEN UNCHANGED cats
       ELSE Persist(<<q[1]>> \o Without(local, q[1]))
    /\ UNCHANGED <<control, channel, panel, lake, file, ghost, jobs, cvs>>

-----------------------------------------------------------------------------
(***************************************************************************)
(* Scanning.                                                               *)
(***************************************************************************)
\* The newest id cannot be read, or the lake has no tables: the cycle ends, the
\* trigger is armed again and the next cycle starts.
CycleFails ==
    /\ \/ Event("probe") /\ ghost.pc = "scan"
       \/ /\ ~schema /\ ghost.pc \in {"scan", "select", "save"}
          /\ UNCHANGED happened
    /\ trigger' = TRUE
    /\ ghost' = At("top")
    /\ UNCHANGED <<control, channel, panel, lake, file, cats, jobs, cvs>>

\* The pause is looked at, and not again until the trigger is set.
Top ==
    /\ ghost.pc = "top" /\ ~Paused("harvest")
    /\ ghost' = At("ready")
    /\ UNCHANGED <<control, channel, panel, lake, file, trigger, cats, jobs, cvs, happened>>

\* The trigger is cleared; the sync that follows may set it again.
Wake ==
    /\ ghost.pc = "ready" /\ trigger
    /\ ghost' = At("scan")
    /\ trigger' = (admin # local)
    /\ local' = admin /\ stamp' = FALSE /\ admin' = admin
    /\ UNCHANGED <<control, channel, panel, lake, file, jobs, cvs, happened>>

\* The newest id is probed and the ids neither scanned nor posted are listed.
Probe ==
    /\ ghost.pc = "scan" /\ schema
    /\ ghost' = [pc |-> "batch", v |-> NoVideo,
                 missing |-> {v \in channel \ scanned: post[v] = "none"}]
    /\ UNCHANGED <<control, channel, panel, lake, file, trigger, cats, jobs, cvs, happened>>

\* A batch (BATCH_SIZE 200 is one here), newest first: its posts are inserted
\* and its ids marked in one commit.
Batch ==
    /\ ghost.pc = "batch" /\ schema /\ ghost.missing # {}
    /\ LET v == Max(ghost.missing)
       IN  /\ ghost' = [ghost EXCEPT !.missing = @ \ {v}]
           /\ scanned' = scanned \cup {v}
           /\ post' = [post EXCEPT ![v] = IF @ = "none" THEN "meta" ELSE @]
    /\ UNCHANGED <<control, channel, panel, retry, schema, file, trigger, cats, jobs, cvs,
                   happened>>

\* Telegram refuses a batch, or the lake does: the scan goes on with the next.
BatchFails ==
    /\ Event("batch") \/ (~schema /\ UNCHANGED happened)
    /\ ghost.pc = "batch" /\ ghost.missing # {}
    /\ ghost' = [ghost EXCEPT !.missing = @ \ {Max(@)}]
    /\ UNCHANGED <<control, channel, panel, lake, file, trigger, cats, jobs, cvs>>

Scanned ==
    /\ ghost.pc = "batch" /\ ghost.missing = {}
    /\ ghost' = At("select")
    /\ UNCHANGED <<control, channel, panel, lake, file, trigger, cats, jobs, cvs, happened>>

-----------------------------------------------------------------------------
(***************************************************************************)
(* Choosing and downloading.                                               *)
(***************************************************************************)
Pending == {v \in Videos: post[v] = "meta" /\ retry[v].s = "due"}

Of(c) == {v \in Pending: Category[v] = c}

\* With a queue q of categories: the newest pending video of the first one
\* that has any, otherwise the newest of all.
Chosen(q) ==
    LET first == {i \in 1..Len(q): Of(q[i]) # {} /\ \A j \in 1..(i - 1): Of(q[j]) = {}}
    IN  IF first = {} THEN Max(Pending) ELSE Max(Of(q[CHOOSE i \in first: TRUE]))

Select ==
    /\ ghost.pc = "select" /\ schema /\ ~Paused("harvest")
    /\ Sync(FALSE)
    /\ Pending # {}
    /\ local' # <<>> => \E i \in 1..Len(local'): Of(local'[i]) # {}
    /\ ghost' = On("get", Chosen(local'))
    /\ UNCHANGED <<control, channel, panel, lake, file, jobs, cvs, happened>>

\* No queued category has anything: they leave the queue and it is persisted.
Exhausted ==
    /\ ghost.pc = "select" /\ schema /\ ~Paused("harvest")
    /\ Pending # {}
    /\ LET q == IF stamp THEN admin ELSE local
       IN  /\ q # <<>> /\ \A i \in 1..Len(q): Of(q[i]) = {}
           /\ trigger' = (trigger \/ q # local)
    /\ Persist(<<>>)
    /\ UNCHANGED <<control, channel, panel, lake, file, ghost, jobs, cvs, happened>>

\* Nothing is due: the queue is cleared, and the worker waits for a trigger.
Complete ==
    /\ ghost.pc = "select" /\ schema /\ ~Paused("harvest")
    /\ Pending = {}
    /\ trigger' = (trigger \/ (stamp /\ admin # local))
    /\ Persist(<<>>)
    /\ ghost' = At("top")
    /\ UNCHANGED <<control, channel, panel, lake, file, jobs, cvs, happened>>

Download ==
    /\ ghost.pc = "get"
    /\ file' = file \cup {ghost.v}
    /\ ghost' = [ghost EXCEPT !.pc = "save"]
    /\ UNCHANGED <<control, channel, panel, lake, trigger, cats, jobs, cvs, happened>>

Tries == LET n[S \in SUBSET Videos] ==
                 IF S = {} THEN 0 ELSE LET v == Max(S) IN retry[v].n + n[S \ {v}]
         IN  n[Videos]

\* The row of capture_retries: not before the back-off is over.
Deferred(v) == retry' = [retry EXCEPT ![v] = [n |-> @.n + 1, s |-> "wait"]]

Fails ==
    /\ ghost.pc \in {"get", "save"} /\ schema
    /\ Tries < MaxTries
    /\ Deferred(ghost.v)
    /\ ghost' = [ghost EXCEPT !.pc = "sleep"]
    /\ UNCHANGED <<control, channel, panel, scanned, post, schema, file, trigger, cats, jobs,
                   cvs, happened>>

\* The bot has lost its rights: never again.
Refused ==
    /\ Event("refused")
    /\ ghost.pc = "get" /\ schema
    /\ retry' = [retry EXCEPT ![ghost.v] = [n |-> @.n + 1, s |-> "terminal"]]
    /\ ghost' = [ghost EXCEPT !.pc = "sleep"]
    /\ UNCHANGED <<control, channel, panel, scanned, post, schema, file, trigger, cats, jobs, cvs>>

\* A short back-off is over when the worker has slept; a long one is not.
Slept ==
    /\ ghost.pc = "sleep"
    /\ retry' = [retry EXCEPT ![ghost.v] =
                    IF @.s = "wait" /\ @.n <= ShortTries THEN [@ EXCEPT !.s = "due"] ELSE @]
    /\ ghost' = At("select")
    /\ UNCHANGED <<control, channel, panel, scanned, post, schema, file, trigger, cats, jobs,
                   cvs, happened>>

\* Time passes: a back-off ends.
Elapse(v) ==
    /\ retry[v].s = "wait"
    /\ retry' = [retry EXCEPT ![v].s = "due"]
    /\ UNCHANGED <<control, channel, panel, scanned, post, schema, file, trigger, cats, ghost,
                   jobs, cvs, happened>>

\* UPDATE posts and DELETE FROM capture_retries, in one commit.
Save ==
    /\ ghost.pc = "save" /\ schema
    /\ post' = [post EXCEPT ![ghost.v] = IF @ = "none" THEN @ ELSE "harvested"]
    /\ retry' = [retry EXCEPT ![ghost.v] = NoRetry]
    /\ ghost' = [ghost EXCEPT !.pc = "add"]
    /\ UNCHANGED <<control, channel, panel, scanned, schema, file, trigger, cats, jobs, cvs,
                   happened>>

\* SADD: only what was not in the set is pushed.
Add ==
    /\ ghost.pc = "add"
    /\ dedup' = dedup \cup {ghost.v}
    /\ ghost' = IF ghost.v \in dedup THEN At("select") ELSE [ghost EXCEPT !.pc = "push"]
    /\ UNCHANGED <<control, channel, panel, lake, file, trigger, cats, queue, held, dead, cvs,
                   happened>>

Push ==
    /\ ghost.pc = "push"
    /\ queue' = [queue EXCEPT ![ghost.v] = @ + 1]
    /\ ghost' = At("select")
    /\ UNCHANGED <<control, channel, panel, lake, file, trigger, cats, dedup, held, dead, cvs,
                   happened>>

\* Redis refuses the SADD or the job: the failure is recorded like one of the
\* download.
PushFails ==
    /\ Event("push")
    /\ ghost.pc \in {"add", "push"} /\ schema
    /\ Deferred(ghost.v)
    /\ ghost' = [ghost EXCEPT !.pc = "sleep"]
    /\ UNCHANGED <<control, channel, panel, scanned, post, schema, file, trigger, cats, jobs, cvs>>

Ghost ==
    \/ (~schema /\ CycleFails) \/ Top \/ Wake \/ Probe \/ Batch \/ Scanned
    \/ (~schema /\ BatchFails)
    \/ Select \/ Exhausted \/ Complete
    \/ Download \/ Slept \/ Save \/ Add \/ Push

-----------------------------------------------------------------------------
(***************************************************************************)
(* The CV engine: claim, extract and record, acknowledge, hand on.  The    *)
(* retries of a failed job are JobQueue's: here it ends in the dead        *)
(* letters at once.                                                        *)
(***************************************************************************)
Claim(v) ==
    /\ cv.pc = "idle" /\ ~Paused("cv")
    /\ queue[v] > 0
    /\ queue' = [queue EXCEPT ![v] = @ - 1]
    /\ cv' = [pc |-> "work", v |-> v]
    /\ UNCHANGED <<control, channel, panel, lake, file, trigger, cats, ghost, dedup, held, dead,
                   framed, analyze, happened>>

Extract ==
    /\ cv.pc = "work" /\ cv.v \in file
    /\ framed' = framed \cup {cv.v}
    /\ cv' = [cv EXCEPT !.pc = "done"]
    /\ UNCHANGED <<control, channel, panel, lake, file, trigger, cats, ghost, jobs, analyze,
                   happened>>

HandOn ==
    /\ cv.pc = "done"
    /\ analyze' = analyze \cup {cv.v}
    /\ cv' = Resting
    /\ UNCHANGED <<control, channel, panel, lake, file, trigger, cats, ghost, jobs, framed,
                   happened>>

ExtractFails ==
    /\ Event("ffmpeg") \/ (cv.v \notin file /\ UNCHANGED happened)
    /\ cv.pc = "work"
    /\ dead' = dead \cup {cv.v}
    /\ cv' = Resting
    /\ UNCHANGED <<control, channel, panel, lake, file, trigger, cats, ghost, dedup, queue, held,
                   framed, analyze>>

Cv == (\E v \in Videos: Claim(v)) \/ Extract \/ HandOn
      \/ (cv.v \notin file /\ ExtractFails)

-----------------------------------------------------------------------------
(***************************************************************************)
(* The administrator.                                                      *)
(***************************************************************************)
NewPost(v) ==
    /\ Event("post") /\ v \notin channel
    /\ channel' = channel \cup {v}
    /\ UNCHANGED <<control, panel, lake, file, trigger, cats, ghost, jobs, cvs>>

Flags ==
    /\ \/ Event("pause") /\ (PauseAll \/ SetComponent("harvest", TRUE))
       \/ Event("resume") /\ (ResumeAll \/ SetComponent("harvest", FALSE))
    /\ UNCHANGED <<reset, channel, panel, lake, file, trigger, cats, ghost, jobs, cvs>>

\* prioritize_video: once more, whether or not its first job is still there.
\* First it leaves the dedup set,
Prioritize(v) ==
    /\ Event("prioritize") /\ v \in file
    /\ dedup' = dedup \ {v}
    /\ panel' = panel \cup {Request("push", {}, {v})}
    /\ UNCHANGED <<control, channel, lake, file, trigger, cats, ghost, queue, held, dead,
                   cvs>>

\* then its job is pushed.
PushPriority ==
    /\ \E r \in panel:
        /\ r.do = "push"
        /\ queue' = [v \in Videos |-> queue[v] + IF v \in r.videos THEN 1 ELSE 0]
        /\ panel' = panel \ {r}
    /\ UNCHANGED <<control, channel, lake, file, trigger, cats, ghost, dedup, held, dead,
                   cvs, happened>>

ReplayDead ==
    /\ Event("replay") /\ dead # {}
    /\ queue' = [v \in Videos |-> queue[v] + IF v \in dead THEN 1 ELSE 0]
    /\ dead' = {}
    /\ UNCHANGED <<control, channel, panel, lake, file, trigger, cats, ghost, dedup, held, cvs>>

\* storage_cleanup of a category, on the web server's thread: its frames, its
\* videos, or both are removed from the disk (a video may stay, with a warning),
Cleanup(c, frames, videos) ==
    LET In == {v \in Videos: Category[v] = c}
        F  == IF frames THEN In \cap framed ELSE {}
    IN  /\ Event("cleanup") /\ schema
        /\ \E V \in SUBSET (IF videos THEN In \cap file ELSE {}):
            /\ file' = file \ V
            /\ panel' = panel \cup {Request("rows", F, V)}
        /\ UNCHANGED <<control, channel, lake, trigger, cats, ghost, jobs, cvs>>

\* then their rows go in one commit, or the lake has no tables and that is all,
CleanupRows ==
    /\ \E r \in panel:
        /\ r.do = "rows"
        /\ \/ /\ schema
              /\ framed' = framed \ r.frames
              /\ post' = [v \in Videos |-> IF v \in r.videos /\ post[v] # "none"
                                          THEN "meta" ELSE post[v]]
              /\ panel' = (panel \ {r}) \cup {Request("dedup", r.frames, r.videos)}
           \/ /\ ~schema
              /\ panel' = panel \ {r} /\ UNCHANGED <<framed, post>>
    /\ UNCHANGED <<control, channel, scanned, retry, schema, file, trigger, cats, ghost, jobs,
                   cv, analyze, happened>>

\* then their places in the dedup set, unless Redis refuses: that is passed over.
CleanupDedup ==
    /\ \E r \in panel:
        /\ r.do = "dedup"
        /\ dedup' \in {dedup, dedup \ (r.frames \cup r.videos)}
        /\ panel' = panel \ {r}
    /\ UNCHANGED <<control, channel, lake, file, trigger, cats, ghost, queue, held, dead,
                   cvs, happened>>

Panel == PushPriority \/ CleanupRows \/ CleanupDedup

-----------------------------------------------------------------------------
(***************************************************************************)
(* Deaths and restarts.                                                    *)
(***************************************************************************)
\* A mutant: a claim takes the job out of the queue and keeps it nowhere.
CvGoneDrops == /\ cv' = [pc |-> "down", v |-> NoVideo]
               /\ UNCHANGED <<held, framed>>

\* What the CV engine had claimed stays in PROCESSING.  Its rows may be
\* committed without the acknowledgement.
CvGone == /\ cv' = [pc |-> "down", v |-> NoVideo]
          /\ held' = IF cv.pc = "work" THEN held \cup {cv.v} ELSE held
          /\ \/ framed' = framed
             \/ cv.pc = "work" /\ cv.v \in file /\ framed' = framed \cup {cv.v}

CvDies ==
    /\ Event("cv") /\ cv.pc # "down"
    /\ CvGone
    /\ UNCHANGED <<control, channel, panel, lake, file, trigger, cats, ghost, dedup, queue, dead,
                   analyze>>

CvStarts ==
    /\ cv.pc = "down"
    /\ cv' = Resting
    /\ UNCHANGED <<control, channel, panel, lake, file, trigger, cats, ghost, jobs, framed,
                   analyze, happened>>


\* ui_server dies, and with it the worker, a reset and the panel's requests.
UiGone == /\ ghost' = At("down")
          /\ local' = <<>> /\ stamp' = FALSE /\ trigger' = TRUE
          /\ reset' = [pc |-> "idle", left |-> <<>>]
          /\ panel' = {}
          /\ UNCHANGED <<flags, admin>>

UiDies ==
    /\ Event("ui") /\ ghost.pc # "down"
    /\ UiGone
    /\ UNCHANGED <<channel, lake, file, jobs, cvs>>

\* Tables that are missing are made, and those that are there kept.
EnsureLakeSchema == schema' = TRUE

\* init_db, before the worker starts.
UiStarts ==
    /\ ghost.pc = "down"
    /\ ghost' = At("top")
    /\ EnsureLakeSchema
    /\ UNCHANGED <<control, channel, panel, scanned, post, retry, file, trigger, cats, jobs, cvs,
                   happened>>

\* A mutant: orphaned jobs are copied to the queue.
BootCopies ==
    /\ Event("boot")
    /\ UiGone
    /\ cv' = [pc |-> "down", v |-> NoVideo]
    /\ LET orphans == held \cup (IF cv.pc = "work" THEN {cv.v} ELSE {})
       IN  /\ queue' = [v \in Videos |-> queue[v] + IF v \in orphans THEN 1 ELSE 0]
           /\ held' = orphans
    /\ UNCHANGED <<channel, lake, file, dedup, dead, framed, analyze>>

\* recover_processing_jobs: what PROCESSING holds goes back to the queue.
RecoverProcessing(orphans) ==
    /\ queue' = [v \in Videos |-> queue[v] + IF v \in orphans THEN 1 ELSE 0]
    /\ held' = {}

\* boot.py starts again in the same session: orphaned jobs are queued again.
Boot ==
    /\ Event("boot")
    /\ UiGone
    /\ cv' = [pc |-> "down", v |-> NoVideo]
    /\ RecoverProcessing(held \cup (IF cv.pc = "work" THEN {cv.v} ELSE {}))
    /\ UNCHANGED <<channel, lake, file, dedup, dead, framed, analyze>>

\* All that Redis held.
RedisGone == /\ flags' = {} /\ admin' = <<>> /\ stamp' = TRUE
             /\ dedup' = {} /\ queue' = [v \in Videos |-> 0] /\ held' = {} /\ dead' = {}
             /\ analyze' = {}
             /\ UNCHANGED local

RedisDies ==
    /\ Event("redis")
    /\ RedisGone
    /\ UNCHANGED <<reset, channel, panel, lake, file, trigger, ghost, cv, framed>>

-----------------------------------------------------------------------------
(***************************************************************************)
(* The factory reset, as it clears what this module has.                   *)
(***************************************************************************)
BeginReset ==
    /\ Event("reset") /\ ghost.pc # "down"
    /\ StartReset
    /\ UNCHANGED <<channel, panel, lake, file, trigger, cats, ghost, jobs, cvs>>

ClearMedia ==
    /\ Clears("media", "clear")
    /\ file' = {}
    /\ UNCHANGED <<flags, channel, panel, lake, trigger, cats, ghost, jobs, cvs, happened>>

ClearQueues ==
    /\ Clears("queues", "pause")
    /\ RedisGone
    /\ UNCHANGED <<channel, panel, lake, file, trigger, ghost, cv, framed, happened>>

\* Redis is unavailable or refuses the flush: nothing is cleared, and noted.
QueuesKept ==
    /\ Event("deaf")
    /\ Clears("queues", "clear")
    /\ UNCHANGED <<flags, channel, panel, lake, file, trigger, cats, ghost, jobs, cvs>>

ClearLake ==
    /\ Clears("sqlite", "schema")
    /\ post' = [v \in Videos |-> "none"] /\ scanned' = {}
    /\ retry' = [v \in Videos |-> NoRetry] /\ framed' = {} /\ schema' = FALSE
    /\ UNCHANGED <<flags, channel, panel, file, trigger, cats, ghost, jobs, cv, analyze, happened>>

\* A mutant: nobody makes the tables again.
LakeStaysGone ==
    /\ reset.pc = "schema"
    /\ reset' = [reset EXCEPT !.pc = "clear"]
    /\ UNCHANGED <<flags, channel, panel, lake, file, trigger, cats, ghost, jobs, cvs, happened>>

\* ensure_lake_schema: the harvester is not restarted, so the tables are made.
MakeSchema ==
    /\ reset.pc = "schema"
    /\ EnsureLakeSchema
    /\ reset' = [reset EXCEPT !.pc = "clear"]
    /\ UNCHANGED <<flags, channel, panel, scanned, post, retry, file, trigger, cats, ghost, jobs,
                   cvs, happened>>

\* They are not, or the clearing failed half way and they are not even tried:
\* a note in the results, and the reset goes on.
SchemaNotMade ==
    /\ Event("schema")
    /\ reset.pc = "schema"
    /\ reset' = [reset EXCEPT !.pc = "clear"]
    /\ UNCHANGED <<flags, channel, panel, lake, file, trigger, cats, ghost, jobs, cvs>>

RestartWorkers ==
    /\ reset.pc = "restart"
    /\ CvGone
    /\ reset' = [reset EXCEPT !.pc = "resume"]
    /\ UNCHANGED <<flags, channel, panel, lake, file, trigger, cats, ghost, dedup, queue, dead,
                   analyze, happened>>

Reset ==
    \/ ClearMedia \/ ClearQueues \/ ClearLake \/ MakeSchema \/ RestartWorkers
    \/ /\ Pause \/ (Cleared /\ UNCHANGED flags) \/ FinishReset
       /\ UNCHANGED <<channel, panel, lake, file, trigger, cats, ghost, jobs, cvs, happened>>

\* Redis does not do what the thread of the reset asks of it.
RefusedReset ==
    /\ \/ Event("deaf") /\ PauseRefused
       \/ Event("stuck") /\ ResumeRefused
    /\ UNCHANGED <<channel, panel, lake, file, trigger, cats, ghost, jobs, cvs>>

-----------------------------------------------------------------------------
Happens ==
    \/ \E q \in AdminChoices: AdminSets(q) \/ Scan(q)
    \/ CycleFails \/ BatchFails \/ Fails \/ Refused \/ PushFails \/ ExtractFails
    \/ \E v \in Videos: NewPost(v) \/ Prioritize(v) \/ Elapse(v)
    \/ Flags \/ ReplayDead
    \/ \E c \in Categories, frames, videos \in BOOLEAN: Cleanup(c, frames, videos)
    \/ CvDies \/ UiDies \/ Boot \/ RedisDies \/ BeginReset
    \/ QueuesKept \/ SchemaNotMade \/ RefusedReset

Next == Ghost \/ Cv \/ Reset \/ Panel \/ CvStarts \/ UiStarts \/ Happens

\* Every process runs while it is up, and the watchdog of boot.py starts it
\* again.  Nothing that Happens has to.
Fairness == /\ WF_vars(Ghost) /\ WF_vars(Cv) /\ WF_vars(Reset)
            /\ WF_vars(CvStarts) /\ WF_vars(UiStarts)

Spec == Init /\ [][Next]_vars /\ Fairness

-----------------------------------------------------------------------------
(***************************************************************************)
(* Properties.                                                             *)
(***************************************************************************)
No(kinds) == happened \cap kinds = {}

JobsOf(v) == queue[v] + (IF cv.pc = "work" /\ cv.v = v THEN 1 ELSE 0)
             + (IF v \in held THEN 1 ELSE 0) + (IF v \in dead THEN 1 ELSE 0)

\* Where a harvested video can be on its way to the analysis.
Underway(v) ==
    \/ ghost.v = v /\ ghost.pc \in {"add", "push"}
    \/ JobsOf(v) > 0
    \/ cv.pc = "done" /\ cv.v = v
    \/ v \in analyze
    \/ "cv" \in happened /\ v \in framed

\* A post that is Harvested is never looked at again by the worker, so its job
\* has to be somewhere: about to be pushed, queued, claimed, orphaned, dead or
\* handed on to the analysis - whatever order scans, downloads, priorities,
\* pauses and deaths of the CV engine come in.  Only what takes the job away
\* after the commit breaks it (ui_server.py:635-652).
HarvestedIsUnderway ==
    No({"ui", "boot", "redis", "push", "reset", "cleanup"})
    => \A v \in Videos: post[v] = "harvested" => Underway(v)

\* The dedup set keeps a video from being queued twice, also when its download
\* is repeated after a death of ui_server or found again by a later scan; only
\* an administrator or a loss of Redis may.  Once its frames are recorded no job
\* of it waits, unless the CV engine died in between (ui_server.py:648).
QueuedOnce ==
    No({"prioritize", "cleanup", "redis", "reset"})
    => \A v \in Videos: /\ JobsOf(v) <= 1
                        /\ (No({"cv", "boot"}) /\ v \in framed) => queue[v] = 0

\* What every state of the harvester satisfies.
HarvestInv == HarvestTypeOK /\ QueuedOnce

\* A scan that is asked for covers the channel, unless Telegram refuses a batch
\* or a reset clears the lake under it.  A post whose video is not there yet is
\* downloaded or refused for good: a failed attempt, an error of the cycle, a
\* lake cleared under it or a death of the worker does not leave it behind.
\* Only a pause does, a clean-up that no scan follows, and a back-off that
\* outlasts the worker's sleep (ui_server.py:711-724, system_control.py:727).
Settles ==
    \A v \in Videos:
        /\ (trigger /\ v \in channel) ~> (v \in scanned \/ Paused("harvest")
                                            \/ ~No({"batch", "reset"}))
        /\ post[v] = "meta" ~> \/ post[v] # "meta"
                            \/ retry[v].s = "terminal"
                            \/ retry[v].n > ShortTries
                            \/ (retry[v].n > 0 /\ ~No({"ui", "boot"}))
                            \/ Paused("harvest")
                            \/ "cleanup" \in happened

\* A reset gives the system back: it ends with no pause flag set and a lake the
\* harvester, which is not restarted, can write to, also when Redis refuses its
\* pause or its flush.  The reset looks at neither answer, so it is reported done
\* all the same with the flags set when Redis refuses the resume ("stuck"), and
\* with no tables when they are not made ("schema").  Otherwise only somebody who
\* pauses or a death of ui_server while it runs comes between
\* (system_control.py:703-765).
ResetEndsRunning ==
    reset.pc # "idle" ~> \/ /\ reset.pc = "idle"
                            /\ flags = {} \/ "stuck" \in happened
                            /\ schema \/ "schema" \in happened
                         \/ ~No({"ui", "boot", "pause"})
=============================================================================
