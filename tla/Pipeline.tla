-------------------------------- MODULE Pipeline --------------------------------
(***************************************************************************)
(* One video through the real catalogue: the sweep of vios/process/engine  *)
(* plans cohorts that fit the card, visits the video once per cohort, puts *)
(* back the working files a pass reads and the disk has lost, or fails to, *)
(* and runs the pass.  The cache may evict the video's directory, and      *)
(* between visits a checkpoint may go to the channel.  A session may end   *)
(* at any moment: the same container starts again, or a new one rebuilds   *)
(* its store from the capture ledger and from the checkpoints.             *)
(* Leases, retries, deferrals and the other lane are in ProcessEngine.     *)
(***************************************************************************)
EXTENDS Runners

CONSTANTS Films,       \* what a film holds and its session offers: sets of traits
          Births,      \* video rows the capture ledger can give
          Selected,    \* the passes the operator selected
          Cards,       \* machines: [usable: MB per card, gpus: how many]
          MaxDeaths, MaxEvictions, MaxFailures

Headroom == 384
Budget(card) == IF card.usable - Headroom > 512 THEN card.usable - Headroom ELSE 512
Unknown  == [dur |-> FALSE, audio |-> "unknown"]
Measured(film) == [dur |-> TRUE, audio |-> IF "audio" \in film THEN "yes" ELSE "no"]

ASSUME PipelineAssumption ==
  /\ Selected \subseteq AllIds
  /\ Births \subseteq [dur : BOOLEAN, audio : {"unknown"}]
  /\ Cards \subseteq [usable : Nat, gpus : Nat]
  /\ {MaxDeaths, MaxEvictions, MaxFailures} \subseteq Nat
ASSUME EveryCardRunsTheSelection ==
  \A card \in Cards : Unrunnable(Selected, card.usable, card.gpus) = {}

VARIABLES
  film,      \* what the video is
  born,      \* its row in the capture ledger
  reel,      \* what the session holds of it: row, seen, table, store, held, disk
  channel,   \* what the checkpoints hold: row, store, held; at: whether any is there
  card,
  loaded,    \* weights resident on the card
  plan,      \* cohorts still to rotate through, the first one current
  todo,      \* passes this visit has still to run
  unmade,    \* history: passes of this table for which a lost file was not made again
  spent      \* deaths, evictions and failed rebuilds so far

vars == <<film, born, reel, channel, card, loaded, plan, todo, unmade, spent>>

Settled == {"done", "skipped"}
\* The selected passes as a plan takes them.
Order == TopoSort(Selected)

------------------------------------------------------------------------------
(* One pass over the reel as the session holds it *)

\* Rows the store has: what the passes whose evidence is there found.
Facts(f, r) == (UNION {Runner[c].finds : c \in r.store}) \ ({"text"} \ f)

\* Sound is looked for in the file only when the row has no duration.
HasAudio(f, r) == IF r.seen.dur THEN r.seen.audio = "yes" ELSE "audio" \in f
Built(f, r, c) == IF c = "artifacts" /\ ~HasAudio(f, r) THEN {"proxy"} ELSE Runner[c].makes

\* mutant: the index of the shot frames is trusted without looking for them
LostTrusted(r, c) ==
  {n \in Needs(c) \cap {"artifacts", "allframes"} :
     CASE n = "artifacts" -> ~(r.held \subseteq r.disk)
       [] OTHER           -> n \notin r.disk}
\* What a pass declares that it reads and the disk no longer has.
Lost(r, c) ==
  {n \in Needs(c) \cap {"artifacts", "keyframes", "allframes"} :
     CASE n = "artifacts" -> ~(r.held \subseteq r.disk)
       [] n = "keyframes" -> n \notin r.disk /\ "shots" \in r.store
       [] OTHER           -> n \notin r.disk}
Stalled(r, c) == \E n \in Needs(c) : r.table[n] = "skipped"
Rebuilt(r, c) == IF Stalled(r, c) THEN {} ELSE Lost(r, c)
\* A rebuild that fails is logged and passed over.
EnsureInputs(f, r, c, failed) ==
  [r EXCEPT !.disk = @ \cup UNION {Built(f, r, n) : n \in Lost(r, c) \ failed}]

\* What the runner checks before it loads anything, and what stops it afterwards.
Demands(f, r, c) ==
  LET p == Runner[c]
  IN /\ p.files \subseteq r.disk
     /\ p.facts \subseteq Facts(f, r)
     /\ p.any = {} \/ p.any \cap Facts(f, r) # {}
     /\ p.asks \subseteq f
     /\ p.length = "first" => r.seen.dur
Answers(f, r, c) ==
  /\ Runner[c].sees \subseteq f
  /\ Runner[c].length = "last" => r.seen.dur

\* The probe writes its measurements to the store; the visit keeps its own copy.
Emitted(f, r, c) ==
  LET made == Built(f, r, c)
  IN [r EXCEPT !.table[c] = "done",
               !.row   = IF c = "probe" THEN Measured(f) ELSE @,
               !.store = IF c \in Writers \cup {"shots"} THEN @ \cup {c} ELSE @,
               !.held  = IF c = "artifacts" THEN @ \cup made ELSE @,
               !.disk  = @ \cup made]

Ran(f, r, c, failed) ==
  LET ready == EnsureInputs(f, r, c, failed)
  IN IF Demands(f, ready, c) /\ Answers(f, ready, c)
       THEN Emitted(f, ready, c) ELSE [ready EXCEPT !.table[c] = "skipped"]
RunPass(f, r, c, failed) ==
  IF Stalled(r, c) THEN [r EXCEPT !.table[c] = "skipped"] ELSE Ran(f, r, c, failed)

\* What a runner that gets as far as its model puts on the card.
Weights(f, r, c, failed) ==
  IF ~Stalled(r, c) /\ Demands(f, EnsureInputs(f, r, c, failed), c)
    THEN Runner[c].loads ELSE {}

------------------------------------------------------------------------------
(* Sessions *)

Fresh(row) == [row |-> row, seen |-> row, table |-> [c \in AllIds |-> "none"],
               store |-> {}, held |-> {}, disk |-> {}]

Init == /\ film \in Films /\ born \in Births /\ card \in Cards
        /\ reel = Fresh(born)
        /\ channel = [at |-> FALSE, row |-> Unknown, store |-> {}, held |-> {}]
        /\ loaded = {} /\ plan = <<>> /\ todo = <<>> /\ unmade = {}
        /\ spent = [deaths |-> 0, evictions |-> 0, failures |-> 0]

\* Evidence proves its pass, and the passes without evidence behind it.
Implied(c) == {c} \cup (Closure(c) \cap Silent)
Reconciled(r) ==
  LET proved == UNION {Implied(c) : c \in r.store \cap Writers \cap Selected}
  IN [c \in AllIds |-> IF c \notin Selected THEN "none"
                       ELSE IF r.table[c] \in Settled THEN r.table[c]
                       ELSE IF c \in proved THEN "done" ELSE "queued"]

Rotate ==
  /\ plan = <<>>
  /\ \E c \in Selected : reel.table[c] \notin Settled
  /\ plan' = PlanCohorts(Order, Budget(card), card.gpus)
  /\ reel' = [reel EXCEPT !.table = Reconciled(reel)]
  /\ UNCHANGED <<film, born, channel, card, loaded, todo, unmade, spent>>

Waiting == {c \in ToSet(plan[1].passes) : reel.table[c] = "queued"}

Visit ==
  /\ plan # <<>> /\ todo = <<>> /\ Waiting # {}
  /\ todo' = TopoSort(Waiting)
  /\ reel' = [reel EXCEPT !.seen = reel.row]
  /\ UNCHANGED <<film, born, channel, card, loaded, plan, unmade, spent>>

Work ==
  /\ todo # <<>>
  /\ \E failed \in SUBSET Rebuilt(reel, Head(todo)) :
       /\ reel' = RunPass(film, reel, Head(todo), failed)
       /\ loaded' = loaded \cup Weights(film, reel, Head(todo), failed)
       /\ \/ failed = {} /\ UNCHANGED <<unmade, spent>>
          \/ /\ failed # {} /\ spent.failures < MaxFailures
             /\ unmade' = unmade \cup {Head(todo)}
             /\ spent' = [spent EXCEPT !.failures = @ + 1]
  /\ todo' = Tail(todo)
  /\ UNCHANGED <<film, born, channel, card, plan>>

\* A checkpoint goes up when there is new evidence; the rows of its videos go along,
\* and on import the first checkpoint's video row stays.
Checkpoint ==
  [at |-> TRUE, row |-> IF channel.at THEN channel.row ELSE reel.row,
   store |-> reel.store, held |-> reel.held]
Publish ==
  channel' = IF (reel.store \cap Writers) \subseteq channel.store THEN channel ELSE Checkpoint

\* After a visit the count or the clock may say that a checkpoint is due.
PublishDue ==
  /\ plan # <<>> /\ todo = <<>>
  /\ ~((reel.store \cap Writers) \subseteq channel.store)
  /\ Publish
  /\ UNCHANGED <<film, born, reel, card, loaded, plan, todo, unmade, spent>>

\* Every model is dropped, and what it held comes back.
Unload == loaded' = {}

\* The end of a cohort; an upload that fails leaves the watermark where it was.
CohortEnds ==
  /\ plan # <<>> /\ todo = <<>> /\ Waiting = {}
  /\ Publish \/ UNCHANGED channel
  /\ Unload
  /\ plan' = Tail(plan)
  /\ UNCHANGED <<film, born, reel, card, todo, unmade, spent>>

\* A lane that evicts keeps the video it has in hand, not that of the other lane, so
\* the files of this one may go between any two of its passes.
Evict ==
  /\ spent.evictions < MaxEvictions
  /\ reel.disk # {}
  /\ reel' = [reel EXCEPT !.disk = {}]
  /\ spent' = [spent EXCEPT !.evictions = @ + 1]
  /\ UNCHANGED <<film, born, channel, card, loaded, plan, todo, unmade>>

Dies == /\ spent.deaths < MaxDeaths
        /\ spent' = [spent EXCEPT !.deaths = @ + 1]
        /\ Unload /\ plan' = <<>> /\ todo' = <<>>

\* The engine stops, or its process dies, and starts again over the same database.
Restart == Dies /\ UNCHANGED <<film, born, reel, channel, card, unmade>>

FilledIn(row, ledger) == [row EXCEPT !.dur = @ \/ ledger.dur]
\* The boot restore imports before the ledger is read; the Start button after.
RestoredRow(importFirst) ==
  IF channel.at /\ importFirst THEN FilledIn(channel.row, born) ELSE born

\* The cards of the machine are probed when the engine is made.
Probe == card' \in Cards

NewContainer(importFirst) ==
  /\ Dies
  /\ reel' = [Fresh(RestoredRow(importFirst)) EXCEPT !.store = channel.store,
                                                     !.held = channel.held]
  /\ Probe /\ unmade' = {}
  /\ UNCHANGED <<film, born, channel>>

Next == \/ Rotate \/ Visit \/ Work \/ PublishDue \/ CohortEnds \/ Evict \/ Restart
        \/ \E importFirst \in BOOLEAN : NewContainer(importFirst)

Spec == Init /\ [][Next]_vars

------------------------------------------------------------------------------
(* Properties *)

\* The outcome of every selected pass in one undisturbed visit from a given row.
Queued(row) ==
  [Fresh(row) EXCEPT !.table = [c \in AllIds |-> IF c \in Selected THEN "queued" ELSE "none"]]
Outcome(f, row) ==
  LET visit[n \in 0 .. Len(Order)] ==
        IF n = 0 THEN Queued(row) ELSE RunPass(f, visit[n - 1], Order[n], {})
  IN visit[Len(Order)].table
Undisturbed == [f \in Films |-> [row \in Births |-> Outcome(f, row)]]

\* Types of the whole state.
PipelineTypeOK ==
  /\ film \in Films /\ born \in Births /\ card \in Cards
  /\ {reel.row, reel.seen, channel.row} \subseteq
       [dur : BOOLEAN, audio : {"unknown", "yes", "no"}]
  /\ reel.table \in [AllIds -> {"none", "queued", "done", "skipped"}]
  /\ reel.store \cup channel.store \subseteq Writers \cup {"shots"}
  /\ reel.held \cup channel.held \subseteq {"proxy", "wav"}
  /\ reel.disk \subseteq {"proxy", "wav", "keyframes", "allframes"}
  /\ ToSet(todo) \subseteq Selected
  /\ loaded \subseteq UNION {Runner[c].loads : c \in Selected}
  /\ unmade \subseteq Selected
  /\ spent.deaths \in 0 .. MaxDeaths /\ spent.evictions \in 0 .. MaxEvictions
  /\ spent.failures \in 0 .. MaxFailures

\* The passes that one undisturbed visit would have done, and that are given up.
Forgone ==
  LET calm == Undisturbed[film][born]
  IN {c \in Selected : reel.table[c] = "skipped" /\ calm[c] # "skipped"}
\* What a pass builds on: what it needs, however indirectly, and whoever writes what
\* it reads.
Leans ==
  [c \in AllIds |-> (Closure(c) \cup {w \in AllIds : Runner[w].finds \cap Reads(c) # {}}) \ {c}]
\* What one undisturbed visit would do is given up only where a lost file could not be
\* made again: however the passes are cut into cohorts, whatever the cache evicts and
\* wherever a session dies or a new container starts over, no pass is skipped for a
\* file or a row that came and went, unless the rebuild of a file failed for it or a
\* pass it builds on was given up before it.  The engine skips such a pass for good.
NothingLost ==
  LET gone == Forgone
  IN \A c \in gone : c \in unmade \/ Leans[c] \cap gone # {}

\* What is resident fits the memory the plan was made for: every weight was counted
\* for this cohort, but for the one tower two passes borrow. A pass that is too large
\* for the budget has the machine for itself, and the machine has room for it.
Alone(c) == /\ loaded \ {Borrowed} = {Catalogue[c].key}
            /\ Catalogue[c].vram <= card.usable * Catalogue[c].cards
FitsTheCard ==
  loaded # {} => /\ loaded \ plan[1].keys \subseteq {Borrowed}
                 /\ \/ SumOf(loaded \ {Borrowed}) <= Budget(card)
                    \/ \E c \in Selected : Alone(c)

\* When a pass begins, whoever writes what it reads, declared in the catalogue or
\* not, has had its turn: nothing is read before it was written.
WritersBeforeReaders ==
  todo # <<>> =>
    \A c \in Selected \ {Head(todo)} :
      Runner[c].finds \cap Reads(Head(todo)) # {} => reel.table[c] \in Settled

\* What every state of a visit satisfies.
PipelineInv == PipelineTypeOK /\ WritersBeforeReaders
=============================================================================
