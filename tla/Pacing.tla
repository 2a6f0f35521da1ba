------------------------------- MODULE Pacing -------------------------------
(***************************************************************************)
(* The pace of the loopback's mixer thread (loopback_thread).  After the   *)
(* work of a tick it sleeps for what is left of the period since last_now, *)
(* which is the time the sleep of the tick before *began*, so that a sleep *)
(* counts as work of the next tick.                                        *)
(*                                                                         *)
(* A period is the time it takes to play one tick's buffer: 1024 samples   *)
(* of 44100 a second.                                                      *)
(***************************************************************************)
EXTENDS Integers

CONSTANTS Period,      \* loopback_sleep, in microseconds
          Work,        \* how long a tick may take, with its wait for the mutex: a set
          Oversleep    \* by how much usleep may exceed what it was asked for

VARIABLES
  clock,      \* what gettimeofday returns: it never goes back
  last_now,   \* the time kept from the tick before
  slept,      \* how long the last tick slept, if at all
  due         \* history: a whole period after the end of the work of the tick before

paceVars == <<clock, last_now, slept, due>>

PaceInit ==
  /\ clock \in Nat /\ last_now = clock
  /\ slept = 0 /\ due = clock

\* A tick: w of work and the sleep after it.
MixFor(w) ==
  LET now == clock + w
      sleep_length == Period - (now - last_now)
  IN  /\ \E over \in Oversleep :
           slept' = IF sleep_length > 0 THEN sleep_length + over ELSE 0
      /\ clock' = now + slept'
      /\ last_now' = now
      /\ due' = last_now + Period

PaceNext == \E w \in Work : MixFor(w)
PaceSpec == PaceInit /\ [][PaceNext]_paceVars

-----------------------------------------------------------------------------
(* Properties.                                                              *)

\* From the end of a tick's work to the end of the next tick's sleep passes a period at
\* least: the mixer is never more than twice too fast.
NeverTooEarly == due <= clock

\* Unless a tick's work takes a whole period, one of two successive ticks sleeps: those
\* who wait for the mutex, and the clients, get their turn.
GivesWay == [][(\A w \in Work : w < Period) /\ slept = 0 => slept' > 0]_paceVars

\* With the work of every tick the same, only every second tick sleeps, and the mixer
\* takes two buffers from every producer in little more than the time of one.
SleepsEverySecond ==
  [][(\E w \in Work : Work = {w}) /\ slept > 0 => slept' = 0]_paceVars
=============================================================================
