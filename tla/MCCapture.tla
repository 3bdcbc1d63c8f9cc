------------------------------ MODULE MCCapture ------------------------------
(* Small instances of the capture plane: Reels is given by the configurations. *)
EXTENDS CaptureEngine
=============================================================================
