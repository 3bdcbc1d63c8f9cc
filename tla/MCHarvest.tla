----------------------------- MODULE MCHarvest -----------------------------
(* Two videos of two categories; the second may be posted later.             *)
EXTENDS Harvest
MCCategory == [v \in Videos |-> IF v = 1 THEN "a" ELSE "b"]
MCChoices == {<<>>, <<"a">>}
MCScope == <<"media", "queues", "sqlite">>
MCEvents == {"admin", "scan", "probe", "batch", "refused", "push", "ffmpeg", "post", "pause",
             "resume", "prioritize", "replay", "cleanup", "cv", "ui", "boot", "redis",
             "reset", "deaf", "stuck", "schema"}
=============================================================================
