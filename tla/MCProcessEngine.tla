--------------------------- MODULE MCProcessEngine ---------------------------
(* Small instances of the sweep.  s makes files only, w and x write evidence. *)
EXTENDS ProcessEngine
CONSTANTS v1, v2, s, w, x
OneLane == [c \in Components |-> 0]
\* The language lane has what reads s, the other one s.
TwoLanes == [c \in Components |-> IF c = s THEN 0 ELSE 1]
Chain == [c \in Components |-> CASE c = s -> {} [] c = w -> {s} \cap Components
                                 [] OTHER -> {w}]
EvidenceWriters == Components \ {s}
TwoCohorts == [l \in Lanes |-> <<Components \ {x}, {x}>>]
NotForV1 == {<<v1, x>>}
OneCohort  == [l \in Lanes |-> <<Ours(l)>>]
HeldShards == {<<v1, w>>}
Quiet    == [die |-> 0, lapse |-> 0, defer |-> 0, reconcile |-> 0, operator |-> 0]
OperatorDies == [Quiet EXCEPT !.die = 1, !.reconcile = 1, !.operator = 1]
LapseOrDefer == [Quiet EXCEPT !.lapse = 1, !.defer = 1]
=============================================================================
