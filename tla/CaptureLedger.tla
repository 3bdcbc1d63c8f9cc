---------------------------- MODULE CaptureLedger ----------------------------
(***************************************************************************)
(* The ledger of vios/capture/ledger.py: one row per reel, keyed by its    *)
(* shortcode, and the scan mark that vios/capture/seed.py keeps in it.     *)
(* Every method commits one statement or one transaction, so each is one   *)
(* action; CaptureEngine says which thread calls what, and when.           *)
(*                                                                         *)
(* Clocks are two flags of a row: cooling (next_try_at is still ahead) and *)
(* recent (claimed less than half an hour ago).                            *)
(***************************************************************************)
EXTENDS Naturals, Sequences, FiniteSets

CONSTANTS
  Reels,
  MaxAttempts,   \* the engine's max_attempts
  MaxRevivals,   \* CAPTURE_MAX_REVIVALS
  MaxMessages    \* bound on the message ids of the channel

ASSUME LedgerAssumption ==
  /\ IsFiniteSet(Reels)
  /\ MaxAttempts \in Nat \ {0} /\ MaxRevivals \in Nat /\ MaxMessages \in Nat

VARIABLES
  item,   \* the table
  high    \* meta.scan_high_water: the newest message id a scan has covered

-----------------------------------------------------------------------------

States == {"absent", "queued", "fetching", "uploaded", "failed", "unavailable"}
Ids    == 0 .. MaxMessages   \* 0 is no message id

\* attempts saturates at the limit: the code only ever asks whether it got there.
Row == [state: States, position: 0 .. Cardinality(Reels), attempts: 0 .. MaxAttempts,
        revivals: 0 .. MaxRevivals, cooling: BOOLEAN, recent: BOOLEAN,
        msg: Ids, manifest: Ids]
Absent == [state |-> "absent", position |-> 0, attempts |-> 0, revivals |-> 0,
           cooling |-> FALSE, recent |-> FALSE, msg |-> 0, manifest |-> 0]
NewLedger == [k \in Reels |-> Absent]

Known(t)     == {k \in Reels : t[k].state # "absent"}
NextPosition == Cardinality(Known(item)) + 1
Update(k, r) == item' = [item EXCEPT ![k] = IF @.state = "absent" THEN @ ELSE r]

\* A row the engine will not take up again by itself within the month.
Spent(r)   == r.state = "failed" /\ r.attempts = MaxAttempts /\ r.revivals = MaxRevivals
Settled(r) == r.state \in {"uploaded", "unavailable"} \/ Spent(r)

-----------------------------------------------------------------------------
(* Enqueue *)

\* file: the links of an import, folded to one entry per reel, in file order.
\* An existing row keeps its state; the new ones queue up behind the rest.
InFile(file, k) == \E i \in 1 .. Len(file) : file[i] = k
Before(file, j, k) ==
  \E i \in 1 .. Len(file) : file[i] = j /\ \A n \in 1 .. i : file[n] # k

AddMany(file) ==
  LET new      == {k \in Reels : InFile(file, k) /\ item[k].state = "absent"}
      ahead(k) == {j \in new \ {k} : Before(file, j, k)}
  IN item' = [k \in Reels |->
                IF k \in new
                  THEN [Absent EXCEPT !.state = "queued",
                                      !.position = NextPosition + Cardinality(ahead(k))]
                  ELSE item[k]]

-----------------------------------------------------------------------------
(* The work loop's view *)

Waiting      == {k \in Reels : item[k].state \in {"queued", "failed"}}
Claimable    == {k \in Waiting : ~item[k].cooling}
NextDueExists == Waiting # {}
First(ks)    == CHOOSE k \in ks : \A j \in ks : item[k].position <= item[j].position

Claim(k) ==
  /\ k \in Claimable /\ k = First(Claimable)
  /\ Update(k, [item[k] EXCEPT !.state = "fetching", !.recent = TRUE,
                               !.attempts = IF @ < MaxAttempts THEN @ + 1 ELSE @])

\* mutant: a claim is put back only by the run that made it
RepairNothing == UNCHANGED item
RepairStale ==
  item' = [k \in Reels |-> IF item[k].state = "fetching" /\ ~item[k].recent
                             THEN [item[k] EXCEPT !.state = "queued"] ELSE item[k]]

MarkUploaded(k, m) == Update(k, [item[k] EXCEPT !.state = "uploaded", !.msg = m])

\* A failed manifest has id 0 and is not recorded.
MarkAssets(k, m) == Update(k, [item[k] EXCEPT !.manifest = IF m = 0 THEN @ ELSE m])

Failed(r) ==
  IF r.attempts = MaxAttempts /\ r.revivals < MaxRevivals
    THEN [r EXCEPT !.state = "failed", !.cooling = TRUE, !.attempts = 0,
                   !.revivals = @ + 1]
    ELSE [r EXCEPT !.state = "failed", !.cooling = TRUE]
MarkFailed(k)      == Update(k, Failed(item[k]))
MarkUnavailable(k) == Update(k, [item[k] EXCEPT !.state = "unavailable"])

\* Uploaded videos with no asset set, and a message to thread one under.
NeedsAssets == {k \in Reels : /\ item[k].state = "uploaded"
                              /\ item[k].manifest = 0 /\ item[k].msg # 0}

-----------------------------------------------------------------------------
(* Adoption: found is a set of [reel, msg, manifest], one per reel *)

\* mutant: only a new row is written, as INSERT OR IGNORE alone would do
AdoptedIfNew(r, f) ==
  IF r.state # "absent" THEN r
  ELSE [r EXCEPT !.state = "uploaded", !.msg = f.msg, !.manifest = f.manifest]
Adopted(r, f) ==
  [r EXCEPT !.state = "uploaded", !.msg = f.msg,
            !.manifest = IF f.manifest = 0 THEN @ ELSE f.manifest]

AdoptAll(found) ==
  LET hit(k) == {f \in found : f.reel = k}
      \* adopted rows that were not in the table queue up behind the rest
      new    == {k \in Reels : hit(k) # {} /\ item[k].state = "absent"}
      ahead(k) == {j \in new \ {k} : \A f \in hit(j), g \in hit(k) : f.msg <= g.msg}
  IN item' = [k \in Reels |->
                IF hit(k) = {} THEN item[k]
                ELSE Adopted(IF k \in new
                               THEN [Absent EXCEPT !.position = NextPosition + Cardinality(ahead(k))]
                               ELSE item[k],
                             CHOOSE f \in hit(k) : TRUE)]

\* A pasted link: its message id is not known.
SeedFromUrls(k) == AdoptAll({[reel |-> k, msg |-> 0, manifest |-> 0]})

-----------------------------------------------------------------------------
(* Time *)

HalfHour == item' = [k \in Reels |-> [item[k] EXCEPT !.recent = FALSE]]
Cooled(k) == /\ item[k].cooling
             /\ item' = [item EXCEPT ![k].cooling = FALSE]
=============================================================================
