----------------------------- MODULE MCNetwork -----------------------------
(* Small instances of Network; the .cfg files say how small.                *)
EXTENDS Network, TLC

SocketSymmetry == Permutations(SocketObjects) \cup Permutations(Fds)
============================================================================
