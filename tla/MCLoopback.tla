----------------------------- MODULE MCLoopback -----------------------------
(* Small instances of Loopback; the .cfg files say how small. *)
EXTENDS Loopback, TLC

TransmitterSymmetry == Permutations(Transmitters)
=============================================================================
