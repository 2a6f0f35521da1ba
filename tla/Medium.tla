------------------------------- MODULE Medium -------------------------------
(***************************************************************************)
(* What the loopback system promises its users, without the mixer, the     *)
(* arrays, the mutex or the blocks of audio: a lossy broadcast medium.     *)
(* Frames of a transmitter go on the air one after another in the order    *)
(* they were sent, some perhaps never, and a receiver may hear the frame   *)
(* that was aired last, once, or miss it.                                  *)
(***************************************************************************)
EXTENDS Naturals, Sequences

CONSTANTS Transmitters, Receivers

VARIABLES sent,    \* frames each transmitter was given
          aired,   \* the last frame of each transmitter that went out
          heard    \* the frames of each transmitter that each receiver got

mediumVars == <<sent, aired, heard>>

MediumInit ==
  /\ sent = [t \in Transmitters |-> 0]
  /\ aired = [t \in Transmitters |-> 0]
  /\ heard = [r \in Receivers |-> [t \in Transmitters |-> <<>>]]

Submit(t) ==
  /\ sent' = [sent EXCEPT ![t] = @ + 1]
  /\ UNCHANGED <<aired, heard>>

\* A transmitter that is freed takes the frames still queued with it, so that
\* the next frame aired may be any later one.
Air(t) ==
  /\ \E f \in (aired[t] + 1)..sent[t] : aired' = [aired EXCEPT ![t] = f]
  /\ UNCHANGED <<sent, heard>>

\* Only the frame aired last can still be heard, and only once.
Hear(r, t) ==
  /\ aired[t] > 0
  /\ \A k \in DOMAIN heard[r][t] : heard[r][t][k] < aired[t]
  /\ heard' = [heard EXCEPT ![r][t] = Append(@, aired[t])]
  /\ UNCHANGED <<sent, aired>>

MediumNext ==
  \/ \E t \in Transmitters : Submit(t) \/ Air(t)
  \/ \E r \in Receivers, t \in Transmitters : Hear(r, t)

MediumSpec == MediumInit /\ [][MediumNext]_mediumVars
=============================================================================
