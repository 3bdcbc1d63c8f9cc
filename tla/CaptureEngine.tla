---------------------------- MODULE CaptureEngine ----------------------------
(***************************************************************************)
(* The capture plane of vios/capture: the engine's thread takes one reel   *)
(* at a time through fetch, upload and record; a scan teaches the ledger   *)
(* what the channel holds; the backfill builds the asset sets that are     *)
(* missing; the operator imports, starts, pauses, stops, restores and      *)
(* rescans.  They share the ledger, and the channel is the only thing that *)
(* a session leaves behind.                                                *)
(*                                                                         *)
(* channel lists the messages that identify a reel: its videos and the     *)
(* manifests of its asset sets.  Records, clips, dots and snapshots get    *)
(* ids too, which no statement compares.                                   *)
(***************************************************************************)
EXTENDS CaptureLedger

CONSTANTS
  SnapshotEvery, HostileStop,   \* captures between snapshots, refusals that halt a run
  SessionTries,                 \* attempts of the backfill at one video per session
  MaxTroubles   \* bound on failures, deaths, buttons pressed and backfills begun

ASSUME CaptureAssumption ==
  /\ SnapshotEvery \in Nat \ {0} /\ HostileStop \in Nat \ {0} /\ SessionTries \in Nat
  /\ MaxTroubles \in Nat

VARIABLES
  channel,  \* the messages, in the order of their ids
  pinned,   \* the ledger snapshot pinned in the channel
  eng,      \* the engine: the locals of its thread and what the tab reads
  scan,     \* per caller, a channel scan in progress
  fill,     \* the backfill thread
  copy,     \* a restore in progress: the ledger it has downloaded
  closed,   \* the threads whose ledger handle a restore has closed
  budget,   \* what is left of MaxTroubles
  excused,  \* history: the reels an event below hid from the ledger
  dropped   \* history: the reels whose rows went with a wiped machine or a restore

captureVars == <<item, high, channel, pinned, eng, scan, fill, copy, closed, budget, excused, dropped>>
ledgerVars  == <<item, high>>

-----------------------------------------------------------------------------

Scanners == {"engine", "side"}
Threads  == {"engine", "side", "fill"}
NoScan   == [pc |-> "off", from |-> 0, head |-> 0, upto |-> 0]
NoFill   == [pc |-> "off", stop |-> FALSE, todo |-> {}, reel |-> {}, sent |-> 0,
             tries |-> [k \in Reels |-> 0]]
NoEngine == [pc |-> "off", state |-> "idle", stop |-> FALSE, pause |-> FALSE,
             reel |-> {}, sent |-> 0, since |-> 0, streak |-> 0]
NoPin    == [item |-> NewLedger, high |-> 0, there |-> FALSE]
NoCopy   == [pc |-> "off", item |-> NewLedger, high |-> 0]

CaptureInit ==
  /\ item = NewLedger /\ high = 0
  /\ channel = <<>> /\ pinned = NoPin /\ copy = NoCopy
  /\ eng = NoEngine /\ scan = [s \in Scanners |-> NoScan] /\ fill = NoFill
  /\ closed = {} /\ budget = MaxTroubles /\ excused = {} /\ dropped = {}

Last         == Len(channel)
At(p)         == eng.pc = p
Goto(p)       == eng' = [eng EXCEPT !.pc = p]
Alive         == ~At("off")
Busy          == eng.state \in {"running", "paused"}
Messages(kind, k) == {i \in 1 .. Last : channel[i] = [kind |-> kind, reel |-> k]}
Room(n)       == Last + n <= MaxMessages
Post(kind, k) == channel' = Append(channel, [kind |-> kind, reel |-> k])
Trouble       == budget > 0 /\ budget' = budget - 1
Open(p)       == p \notin closed
InFlight      == eng.reel

\* The thread ends: an error is kept on the page, anything else reads idle.
Ends(st) == eng' = [eng EXCEPT !.pc = "off", !.reel = {}, !.sent = 0, !.state = st]

-----------------------------------------------------------------------------
(* The operator *)

Import(file) ==
  /\ \E i \in 1 .. Len(file) : item[file[i]].state = "absent"
  /\ AddMany(file)
  /\ UNCHANGED <<high, channel, pinned, eng, scan, fill, copy, closed, budget, excused, dropped>>

PasteCaptured(k) ==
  /\ Trouble
  /\ SeedFromUrls(k)
  /\ UNCHANGED <<high, channel, pinned, eng, scan, fill, copy, closed, excused, dropped>>

\* The page shows "paused" only while a thread lives, so start resumes it.
Start ==
  /\ ~Alive
  /\ eng' = [NoEngine EXCEPT !.pc = "repair", !.state = "running", !.since = eng.since]
  /\ closed' = closed \ {"engine"}
  /\ UNCHANGED <<ledgerVars, channel, pinned, scan, fill, copy, budget, excused, dropped>>

Pause ==
  /\ ~eng.pause /\ Alive /\ Trouble
  /\ eng' = [eng EXCEPT !.pause = TRUE,
                        !.state = IF @ = "running" THEN "paused" ELSE @]
  /\ UNCHANGED <<ledgerVars, channel, pinned, scan, fill, copy, closed, excused, dropped>>

Resume ==
  /\ eng.pause
  /\ eng' = [eng EXCEPT !.pause = FALSE,
                        !.state = IF @ = "paused" THEN "running" ELSE @]
  /\ UNCHANGED <<ledgerVars, channel, pinned, scan, fill, copy, closed, budget, excused, dropped>>

\* The flag stays set until the next start.
Stop ==
  /\ ~eng.stop /\ Trouble
  /\ eng' = [eng EXCEPT !.stop = TRUE, !.pause = FALSE,
                        !.state = IF Alive THEN "stopping" ELSE "idle"]
  /\ UNCHANGED <<ledgerVars, channel, pinned, scan, fill, copy, closed, excused, dropped>>

\* The next scan reads the channel from message 1.
Rescan ==
  /\ high # 0 /\ Trouble
  /\ high' = 0
  /\ UNCHANGED <<item, channel, pinned, eng, scan, fill, copy, closed, excused, dropped>>

\* Refused while the page says running or paused, not while a thread lives: a run
\* that is stopping goes on.  One restore at a time is modelled.
RestoreAsk ==
  /\ copy.pc = "off" /\ ~Busy /\ Trouble
  /\ copy' = [copy EXCEPT !.pc = "get"]
  /\ UNCHANGED <<ledgerVars, channel, pinned, eng, scan, fill, closed, excused, dropped>>

\* The snapshot pinned by now; without one, or without an answer, nothing is done.
RestoreGet ==
  /\ copy.pc = "get"
  /\ \/ copy' = NoCopy
     \/ pinned.there /\ copy' = [pc |-> "swap", item |-> pinned.item, high |-> pinned.high]
  /\ UNCHANGED <<ledgerVars, channel, pinned, eng, scan, fill, closed, budget, excused, dropped>>

\* What the page says is not asked again: a run that is stopping, and one begun
\* during the download, keep a handle of the ledger that is moved aside.
RestoreSwap ==
  /\ copy.pc = "swap"
  /\ item' = copy.item /\ high' = copy.high /\ copy' = NoCopy
  /\ closed' = {p \in Threads : CASE p = "engine" -> Alive
                                  [] p = "side" -> scan["side"].pc # "off"
                                  [] OTHER -> fill.pc # "off"}
  \* the reel such a run has in hand is restored under it
  /\ excused' = excused \cup {k \in InFlight : copy.item[k].state = "uploaded"}
  /\ dropped' = dropped \cup (Known(item) \ Known(copy.item))
  /\ UNCHANGED <<channel, pinned, eng, scan, fill, budget>>

\* The upload may fail, and so may the pin, without a trace; the count of
\* captures starts over all the same.
Snapshot(force, pins) ==
  /\ force \/ eng.since >= SnapshotEvery
  /\ pinned' = IF pins THEN [item |-> item, high |-> high, there |-> TRUE] ELSE pinned

SnapshotNow(pins) ==
  /\ Snapshot(TRUE, pins) /\ Trouble
  /\ eng' = [eng EXCEPT !.since = 0]
  /\ UNCHANGED <<ledgerVars, channel, scan, fill, copy, closed, excused, dropped>>

-----------------------------------------------------------------------------
(* A channel scan: by the engine's thread before its first reel, or by the *)
(* seed button and the backfill's cycle beside it                          *)

\* The side scan heeds the flag only while the page shows a run.
Halted(s) == eng.stop /\ (s = "engine" \/ eng.state \in {"running", "paused", "stopping"})

ScanBegin(s) ==
  /\ scan[s].pc = "off"
  /\ scan' = [scan EXCEPT ![s] = [pc |-> "read", from |-> high, head |-> Last, upto |-> 0]]

SideScan ==
  /\ Trouble
  /\ ScanBegin("side")
  /\ closed' = closed \ {"side"}
  /\ UNCHANGED <<ledgerVars, channel, pinned, eng, fill, copy, excused, dropped>>

\* Messages from + 1 .. head in batches; a stop between two of them cuts the
\* reading short.
ScanRead(s) ==
  /\ scan[s].pc = "read"
  /\ \E upto \in IF Halted(s) THEN scan[s].from .. scan[s].head ELSE {scan[s].head} :
       scan' = [scan EXCEPT ![s].pc = "adopt", ![s].upto = upto]
  /\ UNCHANGED <<ledgerVars, channel, pinned, eng, fill, copy, closed, budget, excused, dropped>>

Newest(ids) == IF ids = {} THEN 0 ELSE CHOOSE i \in ids : \A j \in ids : j <= i

\* Videos of the window, and the manifests of the window that reply to one of them.
Found(from, upto) ==
  LET in(kind, k) == Messages(kind, k) \cap (from + 1) .. upto IN
    {[reel |-> k, msg |-> Newest(in("video", k)), manifest |-> Newest(in("manifest", k))] :
       k \in {k \in Reels : in("video", k) # {}}}

ScanAdopt(s) ==
  /\ scan[s].pc = "adopt" /\ Open(s)
  /\ LET found == Found(scan[s].from, scan[s].upto) IN
       /\ AdoptAll(found)
       \* the reel the engine has in hand is adopted under it
       /\ excused' = excused \cup {k \in InFlight : \E f \in found : f.reel = k}
  /\ scan' = [scan EXCEPT ![s].pc = "mark"]
  /\ UNCHANGED <<high, channel, pinned, eng, fill, copy, closed, budget, dropped>>

\* mutant: the mark moves although the reading was cut short
MarkAlways(s) == scan[s].head
MarkTo(s) == IF Halted(s) THEN high ELSE scan[s].head

\* The flag is read again: a side scan that was cut short while the run was
\* stopping finds it gone once the page says idle.
ScanMark(s) ==
  /\ scan[s].pc = "mark" /\ Open(s)
  /\ high' = MarkTo(s)
  /\ excused' = IF Halted(s) THEN excused
                ELSE excused \cup {channel[i].reel : i \in scan[s].upto + 1 .. scan[s].head}
  /\ scan' = [scan EXCEPT ![s] = NoScan]
  /\ UNCHANGED <<item, channel, pinned, eng, fill, copy, closed, budget, dropped>>

\* No session, a flood wait too long, a closed handle: the scan is an
\* optimisation, its failure is logged and survived.
ScanFails(s) ==
  /\ \/ scan[s].pc = "read" /\ Trouble
     \/ scan[s].pc \in {"adopt", "mark"} /\ ~Open(s) /\ UNCHANGED budget
  /\ scan' = [scan EXCEPT ![s] = NoScan]
  /\ UNCHANGED <<ledgerVars, channel, pinned, eng, fill, copy, closed, excused, dropped>>

-----------------------------------------------------------------------------
(* The engine's thread *)

Repair ==
  /\ At("repair") /\ Open("engine")
  /\ RepairStale
  /\ \E seed \in BOOLEAN :
       IF seed THEN ScanBegin("engine") /\ Goto("seed") ELSE UNCHANGED scan /\ Goto("top")
  /\ UNCHANGED <<high, channel, pinned, fill, copy, closed, budget, excused, dropped>>

Seeded ==
  /\ At("seed") /\ scan["engine"].pc = "off"
  /\ Goto("top")
  /\ UNCHANGED <<ledgerVars, channel, pinned, scan, fill, copy, closed, budget, excused, dropped>>

Top ==
  /\ At("top")
  /\ CASE eng.stop  -> Ends("idle")
       [] eng.pause -> eng.state # "paused" /\ eng' = [eng EXCEPT !.state = "paused"]
       [] OTHER     -> eng' = [eng EXCEPT !.pc = "claim", !.state = "running"]
  /\ UNCHANGED <<ledgerVars, channel, pinned, scan, fill, copy, closed, budget, excused, dropped>>

ClaimNext ==
  /\ At("claim") /\ Open("engine")
  /\ \E k \in Reels : /\ Claim(k)
                      /\ eng' = [eng EXCEPT !.pc = "fetch", !.reel = {k}]
  /\ UNCHANGED <<high, channel, pinned, scan, fill, copy, closed, budget, excused, dropped>>

\* Nothing is due: wait while something cools off, and end when nothing does.
NothingDue(pins) ==
  /\ At("claim") /\ Open("engine") /\ Claimable = {}
  /\ IF NextDueExists THEN Goto("top") /\ UNCHANGED pinned
     ELSE /\ Snapshot(TRUE, pins)
          /\ eng' = [eng EXCEPT !.pc = "off", !.state = "idle", !.since = 0]
  /\ UNCHANGED <<ledgerVars, channel, scan, fill, copy, closed, budget, excused, dropped>>

\* What a downloader's output is read as: the words of a refusal come before those
\* of a post without video, and those before those of a post that is gone.
Reply == {"media", "hostile", "photo", "unavailable", "transient"}

\* yt-dlp is asked again, without comments, unless it was refused.
YtDlp(reply, again) == IF reply \in {"media", "hostile"} THEN reply ELSE again

\* gallery-dl goes second: for a post without video always, for a passing failure
\* if it is allowed.  What it says of its own failure is not used.
Fetch(reply, again, gallery, allowed) ==
  LET first == YtDlp(reply, again) IN
  CASE first \in {"media", "hostile", "unavailable"} -> first
    [] first = "transient" /\ ~allowed             -> first
    [] gallery = "media"                           -> "media"
    [] gallery = "nothing" \/ first = "photo"       -> "unavailable"
    [] OTHER                                       -> first

Verdicts == {Fetch(reply, again, gallery, allowed) : reply \in Reply, again \in Reply,
               gallery \in {"media", "nothing", "refused"}, allowed \in BOOLEAN}

Fails(hostile) ==
  /\ \A k \in eng.reel : MarkFailed(k)
  /\ eng' = [eng EXCEPT !.pc = "after", !.reel = {}, !.sent = 0,
                        !.streak = IF hostile THEN @ + 1 ELSE @]

\* A post that is gone settles the row and counts as a request that went well; so
\* does a post without video that gallery-dl was refused.
FetchFails ==
  /\ At("fetch") /\ Open("engine") /\ Trouble
  /\ \E verdict \in Verdicts \ {"media"} :
       IF verdict = "unavailable"
         THEN /\ \A k \in eng.reel : MarkUnavailable(k)
              /\ eng' = [eng EXCEPT !.pc = "after", !.reel = {}]
         ELSE Fails(verdict = "hostile")
  /\ UNCHANGED <<high, channel, pinned, scan, fill, copy, closed, excused, dropped>>

\* The fetch went well.  sendVideo is sent again when no reply comes: the channel
\* may hold the video twice, or hold it although the call failed in the end.
SendVideo(copies, fails) ==
  /\ At("fetch") /\ Room(copies)
  /\ IF copies = 1 /\ ~fails THEN UNCHANGED budget ELSE Trouble
  /\ \E k \in eng.reel :
       channel' = channel \o [i \in 1 .. copies |-> [kind |-> "video", reel |-> k]]
  /\ eng' = [eng EXCEPT !.pc = IF fails THEN "sendfailed" ELSE "record",
                        !.sent = IF fails THEN 0 ELSE Last + copies]
  /\ UNCHANGED <<ledgerVars, pinned, scan, fill, copy, closed, excused, dropped>>

\* The record goes second; if it is refused the video is up already.
SendRecord ==
  /\ At("record")
  /\ \/ Goto("mark") /\ UNCHANGED budget
     \/ Goto("sendfailed") /\ Trouble
  /\ UNCHANGED <<ledgerVars, channel, pinned, scan, fill, copy, closed, excused, dropped>>

UploadFails ==
  /\ At("sendfailed") /\ Open("engine")
  /\ Fails(FALSE)
  /\ UNCHANGED <<high, channel, pinned, scan, fill, copy, closed, budget, excused, dropped>>

Mark ==
  /\ At("mark") /\ Open("engine")
  /\ \A k \in eng.reel : MarkUploaded(k, eng.sent)
  /\ Goto("marked")
  /\ UNCHANGED <<high, channel, pinned, scan, fill, copy, closed, budget, excused, dropped>>

\* The journal entry after it may fail on a locked database: the handler then
\* marks the row failed, over what was just recorded.
JournalFails ==
  /\ At("marked") /\ Open("engine") /\ Trouble
  /\ Fails(FALSE)
  /\ UNCHANGED <<high, channel, pinned, scan, fill, copy, closed, excused, dropped>>

Captured == eng' = [eng EXCEPT !.pc = "after", !.reel = {}, !.sent = 0, !.streak = 0,
                               !.since = IF @ < SnapshotEvery THEN @ + 1 ELSE @]

\* publish_assets never raises: with the setting off, or without its manifest,
\* there is no id to record.
Assets(sent) ==
  /\ At("marked") /\ Open("engine")
  /\ IF sent THEN /\ Room(1)
                  /\ \E k \in eng.reel : Post("manifest", k)
                  /\ eng' = [eng EXCEPT !.pc = "assets", !.sent = Last + 1]
     ELSE Captured /\ UNCHANGED channel
  /\ UNCHANGED <<ledgerVars, pinned, scan, fill, copy, closed, budget, excused, dropped>>

RecordAssets ==
  /\ At("assets") /\ Open("engine")
  /\ \A k \in eng.reel : MarkAssets(k, eng.sent)
  /\ Captured
  /\ UNCHANGED <<high, channel, pinned, scan, fill, copy, closed, budget, excused, dropped>>

After(pins) ==
  /\ At("after") /\ Open("engine")
  /\ LET due == eng.since >= SnapshotEvery
         halt == eng.streak >= HostileStop IN
       IF eng.stop THEN Ends("idle") /\ UNCHANGED pinned
       ELSE /\ IF due \/ halt THEN Snapshot(TRUE, pins) ELSE UNCHANGED pinned
            /\ eng' = [eng EXCEPT !.pc = IF halt THEN "off" ELSE "top",
                                  !.state = IF halt THEN "error" ELSE @,
                                  !.since = IF due \/ halt THEN 0 ELSE @]
  /\ UNCHANGED <<ledgerVars, channel, scan, fill, copy, closed, budget, excused, dropped>>

\* A statement on a handle that a restore has closed ends the thread.
Broken ==
  /\ ~Open("engine")
  /\ eng.pc \in {"repair", "claim", "fetch", "sendfailed", "mark", "marked", "assets", "after"}
  /\ Ends("error")
  /\ UNCHANGED <<ledgerVars, channel, pinned, scan, fill, copy, closed, budget, excused, dropped>>

-----------------------------------------------------------------------------
(* The backfill *)

Outstanding == {k \in NeedsAssets : fill.tries[k] < SessionTries}

\* The head of the loop: the attempt counts before it is made, and a stop takes
\* hold after the video in hand, never in the middle of one.
FillTurn(f) ==
  IF f.todo = {} \/ f.stop
    THEN fill' = [f EXCEPT !.pc = "off", !.todo = {}, !.reel = {}, !.sent = 0]
    ELSE \E k \in f.todo :
           fill' = [f EXCEPT !.pc = "build", !.todo = @ \ {k}, !.reel = {k}, !.sent = 0,
                             !.tries[k] = @ + 1]

\* The list of videos is read once, here.
FillStart ==
  /\ fill.pc = "off" /\ Outstanding # {}
  /\ FillTurn([fill EXCEPT !.stop = FALSE, !.todo = Outstanding])
  /\ closed' = closed \ {"fill"} /\ Trouble
  /\ UNCHANGED <<ledgerVars, channel, pinned, eng, scan, copy, excused, dropped>>

FillStop ==
  /\ fill.pc # "off" /\ ~fill.stop /\ Trouble
  /\ fill' = [fill EXCEPT !.stop = TRUE]
  /\ UNCHANGED <<ledgerVars, channel, pinned, eng, scan, copy, closed, excused, dropped>>

\* Bytes, clips and a manifest, or no manifest for whatever reason.
FillBuild(sent) ==
  /\ fill.pc = "build"
  /\ IF sent THEN /\ Room(1)
                  /\ \E k \in fill.reel : Post("manifest", k)
                  /\ fill' = [fill EXCEPT !.pc = "mark", !.sent = Last + 1]
     ELSE fill' = [fill EXCEPT !.pc = "mark"] /\ UNCHANGED channel
  /\ UNCHANGED <<ledgerVars, pinned, eng, scan, copy, closed, budget, excused, dropped>>

FillMark ==
  /\ fill.pc = "mark"
  /\ IF Open("fill")
       THEN (\A k \in fill.reel : MarkAssets(k, fill.sent)) /\ FillTurn(fill)
       ELSE UNCHANGED item /\ fill' = [NoFill EXCEPT !.tries = fill.tries]
  /\ UNCHANGED <<high, channel, pinned, eng, scan, copy, closed, budget, excused, dropped>>

-----------------------------------------------------------------------------
(* Time, death *)

HalfHourPasses ==
  /\ \E k \in Reels : item[k].recent
  /\ HalfHour
  /\ UNCHANGED <<high, channel, pinned, eng, scan, fill, copy, closed, budget, excused, dropped>>

CoolsOff(k) ==
  /\ Cooled(k)
  /\ UNCHANGED <<high, channel, pinned, eng, scan, fill, copy, closed, budget, excused, dropped>>

\* The process is killed; wiped: the machine and its ledger are gone with it, or a
\* restore was cut off between moving one ledger away and the other in.
Die(wiped) ==
  /\ Trouble
  /\ eng' = NoEngine /\ scan' = [s \in Scanners |-> NoScan] /\ fill' = NoFill
  /\ closed' = {} /\ copy' = NoCopy
  /\ IF wiped THEN item' = NewLedger /\ high' = 0 /\ dropped' = dropped \cup Known(item)
             ELSE UNCHANGED <<ledgerVars, dropped>>
  /\ UNCHANGED <<channel, pinned, excused>>

-----------------------------------------------------------------------------

Files == {<<k>> : k \in Reels} \cup {f \in Reels \X Reels : f[1] # f[2]}

EngineSteps ==
  \/ Repair \/ Seeded \/ Top \/ ClaimNext \/ SendVideo(1, FALSE) \/ SendRecord
  \/ UploadFails \/ Mark \/ RecordAssets \/ Broken
  \/ \E pins \in BOOLEAN : NothingDue(pins) \/ After(pins)
  \/ \E sent \in BOOLEAN : Assets(sent)

ScanSteps == \E s \in Scanners : ScanRead(s) \/ ScanAdopt(s) \/ ScanMark(s) \/ ScanFails(s)

FillSteps == FillStart \/ FillMark \/ \E sent \in BOOLEAN : FillBuild(sent)

Operator ==
  \/ \E file \in Files : Import(file)
  \/ \E k \in Reels : PasteCaptured(k)
  \/ Pause \/ Stop \/ Rescan \/ RestoreAsk \/ SideScan \/ FillStop
  \/ \E pins \in BOOLEAN : SnapshotNow(pins)

RestoreSteps == RestoreGet \/ RestoreSwap

Setbacks ==
  \/ FetchFails \/ JournalFails
  \/ \E copies \in 0 .. 2 : SendVideo(copies, TRUE)
  \/ SendVideo(2, FALSE)
  \/ \E wiped \in BOOLEAN : Die(wiped)

CaptureNext ==
  EngineSteps \/ ScanSteps \/ FillSteps \/ RestoreSteps \/ Operator \/ Setbacks \/ Start \/ Resume
  \/ HalfHourPasses \/ \E k \in Reels : CoolsOff(k)

CaptureSpec == CaptureInit /\ [][CaptureNext]_captureVars

\* The engine's thread and a scan run on, the operator starts and resumes again
\* and again, and time passes for every row.
CaptureFair ==
  /\ CaptureSpec
  /\ WF_captureVars(EngineSteps) /\ WF_captureVars(ScanSteps)
  /\ WF_captureVars(Start) /\ WF_captureVars(Resume)
  /\ WF_captureVars(HalfHourPasses)
  /\ \A k \in Reels : WF_captureVars(CoolsOff(k))

-----------------------------------------------------------------------------

CaptureTypeOK ==
  /\ item \in [Reels -> Row] /\ high \in Ids
  /\ channel \in Seq([kind : {"video", "manifest"}, reel : Reels]) /\ Last \in Ids
  /\ pinned \in [item : [Reels -> Row], high : Ids, there : BOOLEAN]
  /\ copy \in [pc : {"off", "get", "swap"}, item : [Reels -> Row], high : Ids]
  /\ high <= Last /\ pinned.high <= Last /\ copy.high <= Last
  /\ closed \subseteq Threads /\ excused \subseteq Reels /\ dropped \subseteq Reels
  /\ budget \in 0 .. MaxTroubles
  /\ Cardinality(eng.reel) <= 1 /\ Cardinality(fill.reel) <= 1
  /\ eng.sent \in Ids /\ fill.sent \in Ids
  /\ fill.todo \subseteq Reels /\ fill.tries \in [Reels -> 0 .. SessionTries]

\* What the scan mark promises: a reel whose video lies at or below it is never
\* fetched again, because its row says uploaded.  It breaks only for a reel that
\* was adopted or restored while the engine had it in hand, or that a scan cut
\* short by a stop passed over.  The pinned copy, and the copy that a restore has
\* downloaded, promise the same.
KnownBelowMark ==
  \A t \in {[item |-> item, high |-> high], [item |-> pinned.item, high |-> pinned.high],
             [item |-> copy.item, high |-> copy.high]} :
    \A i \in 1 .. t.high :
      channel[i].kind = "video" =>
        \/ t.item[channel[i].reel].state = "uploaded"
        \/ channel[i].reel \in excused

\* What every state of the capture plane satisfies.
CaptureInv == CaptureTypeOK /\ KnownBelowMark

\* A reel whose video lies at or below the mark is not sent again, by the run that
\* was in progress when a scan, a restore or a rescan came by, or by any later one.
NeverTwice ==
  [][\A k \in Reels :
       (\E i \in Last + 1 .. Len(channel') : channel'[i] = [kind |-> "video", reel |-> k]) =>
         Messages("video", k) \cap 1 .. high = {} \/ k \in excused]_captureVars

\* Through deaths, stops, restores and refusals every reel in the queue is settled
\* in the end, uploaded, gone or out of revivals, or its row goes: with a wiped
\* machine, or with a restore that puts in place a copy pinned before the reel was
\* imported.  Such a row is not missed by anything: only another import, or a scan
\* that finds the video in the channel, brings it back.
CaptureCompletes ==
  \A k \in Reels : item[k].state = "queued" ~>
                      (Settled(item[k]) \/ (item[k].state = "absent" /\ k \in dropped))
=============================================================================
