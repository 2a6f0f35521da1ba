-------------------------- MODULE MCOpenSLRecorder --------------------------
(* Small instances of OpenSLRecorder; the .cfg files say how small.         *)
EXTENDS OpenSLRecorder
=============================================================================
