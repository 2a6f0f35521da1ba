---------------------------- MODULE MCQuietSystem ----------------------------
(* Small instances of QuietSystem; the .cfg files say how small.            *)
EXTENDS QuietSystem
==============================================================================
