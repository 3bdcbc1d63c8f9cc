------------------------------- MODULE Media -------------------------------
(***************************************************************************)
(* Playback of one video that is still in the channel (atlas/media.py):    *)
(* what a viewer pulls out of Telegram, what the background fill and the   *)
(* warm-up fetch beside it, and how their pieces meet in one sparse file   *)
(* that becomes the cached video when every chunk is there.                *)
(*                                                                         *)
(* A file is the set of chunks really in it: what was never written reads  *)
(* as zeros.  Which chunks a sparse file holds is known only in memory, by *)
(* an index object that every transfer looks up once and keeps.            *)
(***************************************************************************)
EXTENDS Naturals, FiniteSets, FiniteSetsExt

CONSTANTS
    N,          \* chunks of the video
    Viewers,    \* range requests that may be open at a time
    Indexes,    \* identities of index objects
    Mishaps,    \* what may happen besides, each kind once
    MaxMishaps  \* and so many kinds in one behaviour

ASSUME MediaAssumption ==
    /\ N \in Nat \ {0}
    /\ IsFiniteSet(Viewers) /\ Viewers # {} /\ Viewers \cap {"fill", "warm"} = {}
    /\ IsFiniteSet(Indexes)
    /\ Indexes \subseteq Nat \ {0} /\ Cardinality(Indexes) > Cardinality(Viewers) + 2
    /\ MaxMishaps \in Nat

Chunks == 0..(N - 1)
Actors == Viewers \cup {"fill", "warm"}
NoFile == {N}      \* no set of chunks
None   == 0        \* no index object

VARIABLES
    mp4,        \* the cached file: its chunks, or NoFile
    part,       \* the sparse file beside it
    marks,      \* index object -> the chunks it says are held
    current,    \* the object _SPARSE has for this video, or None
    act,        \* actor -> where it is, its index object, its chunks to go
    warmed,     \* the video is in _WARMED
    cleaner,    \* an eviction or clear_cache between the files and the maps
    inflight,   \* the video is in _INFLIGHT
    loader,     \* the thread of _download
    underfoot,  \* history: a file was promoted under an index that is not the
                \* video's, or went between a look at its index and its use
    occurred    \* the kinds of events so far

maps == <<marks, current>>
loads == <<inflight, loader>>
mediaVars ==
    <<mp4, part, maps, act, warmed, cleaner, loads, underfoot, occurred>>

Off == [pc |-> "off", obj |-> None, todo |-> {}, range |-> {}]

\* It was told that the chunks are held and has not read them yet.
Reading(a) == act[a].pc \in {"size", "open"}

\* The file is gone and its index is not yet forgotten.
BetweenTheTwo == cleaner # "off" \/ \E a \in Actors: act[a].pc = "pop"

Mishap(e) ==
    /\ e \in Mishaps \ occurred
    /\ Cardinality(occurred) < MaxMishaps
    /\ occurred' = occurred \cup {e}

MediaTypeOK ==
    /\ {mp4, part} \subseteq (SUBSET Chunks) \cup {NoFile}
    /\ marks \in [Indexes -> SUBSET Chunks] /\ current \in Indexes \cup {None}
    /\ \A a \in Actors: /\ act[a].pc \in {"off", "hit", "size", "open", "start", "pull",
                                          "write", "add", "replace", "pop"}
                        /\ act[a].obj \in Indexes \cup {None}
                        /\ act[a].todo \subseteq Chunks
    /\ loader \in {"off", "queued", "get", "done"}
    /\ cleaner \in {"off", "evict", "clear"}
    /\ {warmed, inflight, underfoot} \subseteq BOOLEAN

MediaInit ==
    /\ mp4 = NoFile /\ part = NoFile
    /\ marks = [i \in Indexes |-> {}] /\ current = None
    /\ act = [a \in Actors |-> Off]
    /\ warmed = FALSE /\ cleaner = "off"
    /\ inflight = FALSE /\ loader = "off"
    /\ underfoot = FALSE /\ occurred = {}

-----------------------------------------------------------------------------
(***************************************************************************)
(* The index: _sparse_index.  An object nobody refers to any more is gone, *)
(* and its identity is free.                                               *)
(***************************************************************************)
InUse == {act[a].obj : a \in Actors} \cup {current}

Collected == marks' = [i \in Indexes |-> IF i \in InUse' THEN marks[i] ELSE {}]

Lookup(o) ==
    /\ IF current # None THEN o = current /\ UNCHANGED maps
       ELSE /\ o = CHOOSE i \in Indexes: i \notin InUse
            /\ current' = o
            /\ marks' = [marks EXCEPT ![o] = {}]

Enter(a, pc) == act' = [act EXCEPT ![a].pc = pc]
Gone(a)      == act' = [act EXCEPT ![a] = Off]
Leave(a)     == Gone(a) /\ UNCHANGED current /\ Collected

FillUnlessRunning(next) ==
    IF next["fill"].pc = "off" /\ mp4 = NoFile
    THEN [next EXCEPT !["fill"].pc = "start"] ELSE next

-----------------------------------------------------------------------------
(***************************************************************************)
(* A range request: api_play.                                              *)
(***************************************************************************)
Request(v, first, last) ==
    /\ act[v].pc = "off" /\ mp4 = NoFile
    /\ act' = [act EXCEPT ![v] = [Off EXCEPT !.pc = "hit", !.range = first..last]]
    /\ UNCHANGED <<mp4, part, maps, warmed, cleaner, loads, underfoot, occurred>>

\* A mutant: the first chunk is rounded up.
HeldRoundedUp(range, held) == held # {} /\ range \ {Min(range)} \subseteq held

Held(range, held) == range \subseteq held

\* sparse_hit: every chunk of the range is said to be held.
Hit(v) ==
    /\ act[v].pc = "hit"
    /\ \E o \in Indexes:
        /\ Lookup(o)
        /\ IF Held(act[v].range, marks'[o]) THEN Enter(v, "size")
           ELSE act' = FillUnlessRunning([act EXCEPT ![v].pc = "start"])
    /\ underfoot' = (underfoot \/ BetweenTheTwo)
    /\ UNCHANGED <<mp4, part, warmed, cleaner, loads, occurred>>

\* The file ends where the last chunk written to it does.
LongEnough(range) == part # NoFile /\ \E c \in part: c >= Max(range)

Size(v) ==
    /\ act[v].pc = "size"
    /\ IF LongEnough(act[v].range) THEN Enter(v, "open")
       ELSE act' = FillUnlessRunning([act EXCEPT ![v].pc = "start"])
    /\ UNCHANGED <<mp4, part, maps, warmed, cleaner, loads, underfoot, occurred>>

\* stream: the file is opened and read, or it is not there any more.
Open(v) ==
    /\ act[v].pc = "open"
    /\ Gone(v)
    /\ UNCHANGED <<mp4, part, maps, warmed, cleaner, loads, underfoot, occurred>>

\* The player seeks or goes away: nothing is promoted.
Disconnect(v) ==
    /\ act[v].pc = "pull"
    /\ Leave(v)
    /\ UNCHANGED <<mp4, part, warmed, cleaner, loads, underfoot, occurred>>

-----------------------------------------------------------------------------
(***************************************************************************)
(* The three transfers into the sparse file: stream_remote, fill, warm.    *)
(***************************************************************************)
Prefetch ==
    /\ act["warm"].pc = "off" /\ ~warmed /\ mp4 = NoFile /\ ~inflight
    /\ warmed' = TRUE
    /\ Enter("warm", "start")
    /\ UNCHANGED <<mp4, part, maps, cleaner, loads, underfoot, occurred>>

\* What the transfer is going to write: a viewer its range, the fill all from
\* the first chunk that is missing, the warm-up the two ends.
Wanted(a, held) ==
    IF a \in Viewers THEN act[a].range
    ELSE IF a = "warm" THEN {0, N - 1}
    ELSE {c \in Chunks: \E m \in Chunks \ held: c >= m}

Start(a) ==
    /\ act[a].pc = "start"
    /\ IF a = "fill" /\ mp4 # NoFile THEN Gone(a) /\ UNCHANGED maps
       ELSE \E o \in Indexes:
            /\ Lookup(o)
            /\ act' = [act EXCEPT ![a].pc = "pull", ![a].obj = o,
                                  ![a].todo = Wanted(a, marks'[o]), ![a].range = {}]
    /\ UNCHANGED <<mp4, part, warmed, cleaner, loads, underfoot, occurred>>

\* The next chunk arrives: it is written unless the index has it already.
Arrives(a) ==
    /\ act[a].pc = "pull" /\ act[a].todo # {}
    /\ LET c == Min(act[a].todo)
       IN  IF c \in marks[act[a].obj]
           THEN act' = [act EXCEPT ![a].todo = @ \ {c}]
           ELSE Enter(a, "write")
    /\ UNCHANGED <<mp4, part, maps, warmed, cleaner, loads, underfoot, occurred>>

\* The file is opened, made if it is not there, and the chunk put in its place.
Write(a) ==
    /\ act[a].pc = "write"
    /\ part' = (IF part = NoFile THEN {} ELSE part) \cup {Min(act[a].todo)}
    /\ Enter(a, "add")
    /\ UNCHANGED <<mp4, maps, warmed, cleaner, loads, underfoot, occurred>>

\* The disk refuses it: the chunk is not recorded, the transfer goes on.
WriteFails(a) ==
    /\ Mishap("disk")
    /\ act[a].pc = "write"
    /\ act' = [act EXCEPT ![a].pc = "pull", ![a].todo = @ \ {Min(@)}]
    /\ UNCHANGED <<mp4, part, maps, warmed, cleaner, loads, underfoot>>

Add(a) ==
    /\ act[a].pc = "add"
    /\ marks' = [marks EXCEPT ![act[a].obj] = @ \cup {Min(act[a].todo)}]
    /\ act' = [act EXCEPT ![a].pc = "pull", ![a].todo = @ \ {Min(@)}]
    /\ UNCHANGED <<mp4, part, current, warmed, cleaner, loads, underfoot, occurred>>

\* Telegram stops sending: the transfer ends and promotes nothing.  A pump that
\* is gone ends it without an error, and only a viewer counts what it got.
Breaks(a) ==
    /\ Mishap("stream")
    /\ act[a].pc = "pull"
    /\ \/ Leave(a)
       \/ /\ a \notin Viewers
          /\ act' = [act EXCEPT ![a].todo = {}]
          /\ UNCHANGED maps
    /\ UNCHANGED <<mp4, part, warmed, cleaner, loads, underfoot>>

\* A mutant: one chunk short is enough.
PromoteEarly(a) ==
    /\ act[a].pc = "pull" /\ act[a].todo = {}
    /\ IF Cardinality(marks[act[a].obj]) + 1 < N THEN Leave(a)
       ELSE Enter(a, "replace") /\ UNCHANGED maps
    /\ UNCHANGED <<mp4, part, warmed, cleaner, loads, underfoot, occurred>>

\* The transfer is through; _maybe_promote: as many chunks as the video has.
Promote(a) ==
    /\ act[a].pc = "pull" /\ act[a].todo = {}
    /\ IF Cardinality(marks[act[a].obj]) < N THEN Leave(a)
       ELSE Enter(a, "replace") /\ UNCHANGED maps
    /\ UNCHANGED <<mp4, part, warmed, cleaner, loads, underfoot, occurred>>

\* The sparse file, brought to its full length, takes the place of the cached
\* one.  If it is not there, nothing happens.
Replace(a) ==
    /\ act[a].pc = "replace"
    /\ IF part = NoFile THEN Leave(a) /\ UNCHANGED <<mp4, part, underfoot>>
       ELSE /\ mp4' = part /\ part' = NoFile
            /\ Enter(a, "pop") /\ UNCHANGED maps
            /\ underfoot' = \/ underfoot \/ act[a].obj # current \/ BetweenTheTwo
                            \/ \E b \in Actors: Reading(b)
    /\ UNCHANGED <<warmed, cleaner, loads, occurred>>

Pop(a) ==
    /\ act[a].pc = "pop"
    /\ current' = None
    /\ Gone(a) /\ Collected
    /\ UNCHANGED <<mp4, part, warmed, cleaner, loads, underfoot, occurred>>

-----------------------------------------------------------------------------
(***************************************************************************)
(* The whole file at once, when no chunks can be had: ensure, _download.   *)
(***************************************************************************)
Ensure ==
    /\ mp4 = NoFile /\ ~inflight
    /\ Mishap("no stream")
    /\ inflight' = TRUE /\ loader' = "queued"
    /\ UNCHANGED <<mp4, part, maps, act, warmed, cleaner, underfoot>>

\* With a slot it looks again: a file that came meanwhile ends it at once.
Slot ==
    /\ loader = "queued"
    /\ loader' = IF mp4 # NoFile THEN "off" ELSE "get"
    /\ UNCHANGED <<mp4, part, maps, act, warmed, cleaner, inflight, underfoot, occurred>>

Loaded ==
    /\ loader = "get"
    /\ mp4' \in {Chunks, mp4}
    /\ loader' = "done"
    /\ UNCHANGED <<part, maps, act, warmed, cleaner, inflight, underfoot, occurred>>

LoadEnds ==
    /\ loader = "done"
    /\ inflight' = FALSE /\ loader' = "off"
    /\ UNCHANGED <<mp4, part, maps, act, warmed, cleaner, underfoot, occurred>>

-----------------------------------------------------------------------------
(***************************************************************************)
(* Files go: eviction, clear_cache and a new process.                      *)
(***************************************************************************)
Removed == underfoot' = (underfoot \/ \E a \in Actors: Reading(a))

EvictCached ==
    /\ Mishap("evict cached")
    /\ mp4 # NoFile /\ mp4' = NoFile
    /\ UNCHANGED <<part, maps, act, warmed, cleaner, loads, underfoot>>

EvictSparse ==
    /\ Mishap("evict sparse") /\ cleaner = "off"
    /\ part # NoFile /\ part' = NoFile
    /\ cleaner' = "evict"
    /\ Removed
    /\ UNCHANGED <<mp4, maps, act, warmed, loads>>

ClearCache ==
    /\ Mishap("clear") /\ cleaner = "off"
    /\ mp4' = NoFile /\ part' = NoFile
    /\ cleaner' = "clear"
    /\ Removed
    /\ UNCHANGED <<maps, act, warmed, loads>>

Forget ==
    /\ cleaner # "off"
    /\ cleaner' = "off"
    /\ current' = None /\ UNCHANGED act /\ Collected
    /\ warmed' = (warmed /\ cleaner = "evict")
    /\ UNCHANGED <<mp4, part, loads, underfoot, occurred>>

\* sweep_sparse: what the last process left is not to be trusted.
NewProcess ==
    /\ Mishap("restart")
    /\ part' = NoFile /\ current' = None /\ warmed' = FALSE /\ cleaner' = "off"
    /\ act' = [a \in Actors |-> Off] /\ Collected
    /\ inflight' = FALSE /\ loader' = "off"
    /\ UNCHANGED <<mp4, underfoot>>

-----------------------------------------------------------------------------
Transfer(a) == \/ Start(a) \/ Arrives(a) \/ Write(a) \/ Add(a)
               \/ Promote(a) \/ Replace(a) \/ Pop(a)

MediaNext ==
    \/ \E v \in Viewers: \/ \E first, last \in Chunks: first <= last /\ Request(v, first, last)
                         \/ Hit(v) \/ Size(v) \/ Open(v) \/ Disconnect(v)
    \/ \E a \in Actors: Transfer(a) \/ WriteFails(a) \/ Breaks(a)
    \/ Prefetch \/ Ensure \/ Slot \/ Loaded \/ LoadEnds
    \/ EvictCached \/ EvictSparse \/ ClearCache \/ Forget \/ NewProcess

MediaSpec == MediaInit /\ [][MediaNext]_mediaVars

-----------------------------------------------------------------------------
(***************************************************************************)
(* Properties.                                                             *)
(***************************************************************************)
\* A cached video has all its chunks, however viewers, fill, warm-up and
\* downloads overlap and whatever fails: a hole would play as a grey frame and
\* be served for good.  Nothing is claimed any more once a transfer whose index is
\* no longer the video's has promoted a file, or a file went under a look at its
\* index: two transfers that overlap on the last chunk are enough for it
\* (media.py:907-960).
CachedIsWhole == underfoot \/ mp4 \in {NoFile, Chunks}

\* A range answered from the sparse file has every chunk of it, as long as no file
\* has gone between a look at its index and the read, in this or in an earlier
\* answer, nor been promoted under another index (media.py:963-988).
ServedIsWhole ==
    [][\A v \in Viewers:
        act[v].pc = "open" /\ act'[v].pc = "off" /\ part # NoFile
        => underfoot \/ act[v].range \subseteq part]_mediaVars

\* What the index says is held is in the file: nobody will fetch it again; as long
\* as nothing went underfoot so far, and not between the two steps in which a
\* file goes and its index is forgotten (media.py:487-532, 905-937).
IndexedIsWritten ==
    underfoot \/ BetweenTheTwo \/ current = None
    \/ marks[current] \subseteq (IF part = NoFile THEN {} ELSE part)

\* What every state of the cache satisfies.
MediaInv == MediaTypeOK /\ CachedIsWhole /\ IndexedIsWritten
=============================================================================
