----------------------------- MODULE RingProofs -----------------------------
(***************************************************************************)
(* The order of the buffers in a ring of n, as the callbacks of opensl.c   *)
(* go round it: how long ago each was at the index idx, which moves on by  *)
(* one each time.                                                          *)
(***************************************************************************)
EXTENDS Integers, TLAPS

\* 1: the buffer just left behind; n: the one that is next, at idx.
Age(n, idx, i) == IF i < idx THEN idx - i ELSE idx + n - i

\* The buffer at the index is the oldest.
LEMMA AgeBounds ==
  ASSUME NEW n \in Nat \ {0}, NEW idx \in 0..(n - 1), NEW i \in 0..(n - 1)
  PROVE  /\ Age(n, idx, i) \in 1..n
         /\ Age(n, idx, i) = n <=> i = idx
  BY DEF Age

\* No two buffers are of an age.
LEMMA AgeInjective ==
  ASSUME NEW n \in Nat \ {0}, NEW idx \in 0..(n - 1),
         NEW i \in 0..(n - 1), NEW j \in 0..(n - 1), Age(n, idx, i) = Age(n, idx, j)
  PROVE  i = j
  BY DEF Age

\* The index moves on by one and wraps around at the end.
LEMMA NextInRing ==
  ASSUME NEW n \in Nat \ {0}, NEW idx \in 0..(n - 1)
  PROVE  /\ (idx + 1) % n \in 0..(n - 1)
         /\ (idx + 1) % n = IF idx + 1 = n THEN 0 ELSE idx + 1
  OBVIOUS

\* Moving on makes the buffer that was next the youngest, and the others older by one.
THEOREM AgeNext ==
  ASSUME NEW n \in Nat \ {0}, NEW idx \in 0..(n - 1), NEW i \in 0..(n - 1)
  PROVE  Age(n, (idx + 1) % n, i) = IF i = idx THEN 1 ELSE Age(n, idx, i) + 1
<1> DEFINE next == (idx + 1) % n
<1>1. next = IF idx + 1 = n THEN 0 ELSE idx + 1
  BY NextInRing
<1> HIDE DEF next
<1>2. Age(n, next, i) = IF i = idx THEN 1 ELSE Age(n, idx, i) + 1
  BY <1>1 DEF Age
<1> QED BY <1>2 DEF next
=============================================================================
