------------------------------ MODULE MCShards ------------------------------
(* A worker whose pass writes two rows, and one that has no partition: what  *)
(* the second restored it publishes again.  A document holds one row, so     *)
(* that a shard of both has two parts.                                       *)
EXTENDS Shards
CONSTANTS w1, w2
MCWorkers == {w1, w2}
MCRows == {[by |-> w1, t |-> "claim"], [by |-> w1, t |-> "vector"]}
=============================================================================
