------------------------------- MODULE MCPipeline -------------------------------
(* The catalogue's default selection over a few kinds of film. *)
EXTENDS Pipeline
Talks    == {"record", "audio", "speech", "text", "objects", "faces", "token", "key"}
Scenery  == {"audio", "objects"}
Mute     == {"record", "text", "key"}
AllFilms == {Talks, Scenery, Mute}
LedgerRows == {[dur |-> d, audio |-> "unknown"] : d \in BOOLEAN}
TwoCards == [usable |-> 14000, gpus |-> 2]
\* Room for the largest pass, but not within the budget.
OneSmall == [usable |-> 6300, gpus |-> 1]
BothCards == {TwoCards, OneSmall}
=============================================================================
