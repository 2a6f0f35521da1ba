------------------------------ MODULE PtrArray ------------------------------
(***************************************************************************)
(* The growable arrays of pointers in which the loopback mixer keeps its   *)
(* producers and its consumers (loopback.c:15-21, 41-83): a block of cap   *)
(* slots of which the first num are in use.  A full array is doubled by    *)
(* realloc, whose new slots hold whatever was in memory (Uninit), and a    *)
(* removal closes the gap by shifting, which leaves a stale pointer or     *)
(* NULL in the slot it vacates.                                            *)
(***************************************************************************)
EXTENDS Naturals

CONSTANTS NULL,     \* the null pointer calloc leaves in a slot
          Uninit    \* what realloc leaves in a slot: a value nobody wrote

\* calloc(cap, sizeof(pointer)): cap slots, none in use.
EmptyArray(cap) == [buf |-> [k \in 0..(cap - 1) |-> NULL], num |-> 0, cap |-> cap]

\* The slots a loop "for (i = 0; i < num; i++)" visits, and their contents.
Used(a) == {k \in 0..(a.cap - 1) : k < a.num}
Live(a) == {a.buf[k] : k \in Used(a)}

\* An array of pointers from Ptr, with its count within its capacity.
IsArray(a, Ptr) ==
  /\ a = [buf |-> a.buf, num |-> a.num, cap |-> a.cap]
  /\ a.cap \in Nat \ {0} /\ a.num \in 0..a.cap
  /\ a.buf \in [0..(a.cap - 1) -> Ptr \cup {NULL, Uninit}]

\* No pointer is in two used slots.
Distinct(a) == \A j, k \in Used(a) : a.buf[j] = a.buf[k] => j = k

-----------------------------------------------------------------------------
(* loopback_add_producer_locked and loopback_add_consumer_locked.           *)

Grown(a) ==
  IF a.num = a.cap
  THEN [buf |-> [k \in 0..(2 * a.cap - 1) |-> IF k < a.cap THEN a.buf[k] ELSE Uninit],
        num |-> a.num, cap |-> 2 * a.cap]
  ELSE a

\* Mutant: the capacity check is gone.
AddNoGrow(a, p) == [a EXCEPT !.buf[a.num] = p, !.num = a.num + 1]

Add(a, p) ==
  [buf |-> [Grown(a).buf EXCEPT ![a.num] = p], num |-> a.num + 1, cap |-> Grown(a).cap]

-----------------------------------------------------------------------------
(* loopback_remove_producer_locked and loopback_remove_consumer_locked:     *)
(* the first slot that holds p is cleared, the slots after it move down by  *)
(* one and the loop stops; an array that does not hold p is left as it is.  *)

Slot(a, p) == CHOOSE i \in Used(a) : a.buf[i] = p /\ \A j \in Used(a) : a.buf[j] = p => i <= j

\* Mutant: the shift stops one slot early.
CloseGapShort(a, i) ==
  [k \in 0..(a.cap - 1) |-> IF k >= i /\ k + 2 < a.num THEN a.buf[k + 1] ELSE a.buf[k]]

\* Mutant: the last pointer is moved into the gap instead of shifting.
CloseGapSwap(a, i) == [a.buf EXCEPT ![i] = a.buf[a.num - 1]]

CloseGap(a, i) ==
  [k \in 0..(a.cap - 1) |->
     IF k >= i /\ k + 1 < a.num THEN a.buf[k + 1]
     ELSE IF k = i THEN NULL ELSE a.buf[k]]

Remove(a, p) ==
  IF p \in Live(a)
  THEN [buf |-> CloseGap(a, Slot(a, p)), num |-> a.num - 1, cap |-> a.cap]
  ELSE a
=============================================================================
