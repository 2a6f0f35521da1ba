-------------------------------- MODULE Pipe --------------------------------
(***************************************************************************)
(* What a sound card's ring of buffers promises to the modem at its other  *)
(* end: a pipe that takes blocks of audio in, numbered in order, and lets  *)
(* them out in the same order, none left out, with never more than         *)
(* Capacity of them inside.  It says nothing of rings, indices, queues,    *)
(* callbacks or silence.                                                   *)
(***************************************************************************)
EXTENDS Naturals

CONSTANT Capacity

VARIABLES in,   \* the last block that went in
          out   \* the last block that came out

PipeInit == in = 0 /\ out = 0

Enter == in - out < Capacity /\ in' = in + 1 /\ out' = out
Leave == out < in /\ out' = out + 1 /\ in' = in

\* The pipe is taken down, with what it holds, and a new one is laid.
Renew == in' = 0 /\ out' = 0

PipeNext == Enter \/ Leave \/ Renew

PipeSpec == PipeInit /\ [][PipeNext]_<<in, out>>
=============================================================================
