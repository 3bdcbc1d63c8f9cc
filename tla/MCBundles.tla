------------------------------ MODULE MCBundles ------------------------------
(* TLC instances of Bundles: constants are in the .cfg files.                *)
EXTENDS Bundles
=============================================================================
