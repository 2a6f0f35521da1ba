--------------------------- MODULE MCOpenSLPlayer ---------------------------
(* Small instances of OpenSLPlayer; the .cfg files say how small.           *)
EXTENDS OpenSLPlayer
=============================================================================
