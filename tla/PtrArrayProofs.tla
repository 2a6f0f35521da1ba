--------------------------- MODULE PtrArrayProofs ---------------------------
(***************************************************************************)
(* What the array operations of PtrArray do, for every capacity, every     *)
(* content and every pointer: an addition, doubling or not, adds just its  *)
(* pointer, and a removal from an array without repetitions takes away     *)
(* just its own, wherever it was; and neither changes the order of the     *)
(* others.                                                                 *)
(***************************************************************************)
EXTENDS PtrArray, TLAPS

LEMMA EmptyArrayIsArray ==
  ASSUME NEW Ptr, NEW cap \in Nat \ {0}
  PROVE  /\ IsArray(EmptyArray(cap), Ptr)
         /\ Live(EmptyArray(cap)) = {}
         /\ Distinct(EmptyArray(cap))
  BY DEF IsArray, EmptyArray, Live, Used, Distinct

\* The capacity check makes room: after it slot num exists, and nothing has moved.
LEMMA GrownHasRoom ==
  ASSUME NEW Ptr, NEW a, IsArray(a, Ptr)
  PROVE  /\ IsArray(Grown(a), Ptr)
         /\ Grown(a).num = a.num
         /\ a.num < Grown(a).cap
         /\ \A k \in Used(a) : k \in Used(Grown(a)) /\ Grown(a).buf[k] = a.buf[k]
         /\ Used(Grown(a)) = Used(a)
<1>1. CASE a.num = a.cap
  <2> DEFINE b == [k \in 0..(2 * a.cap - 1) |-> IF k < a.cap THEN a.buf[k] ELSE Uninit]
  <2>1. Grown(a) = [buf |-> b, num |-> a.num, cap |-> 2 * a.cap]
    BY <1>1 DEF Grown, IsArray
  <2>2. b \in [0..(2 * a.cap - 1) -> Ptr \cup {NULL, Uninit}]
    BY DEF IsArray
  <2> QED BY <1>1, <2>1, <2>2 DEF IsArray, Used
<1>2. CASE a.num /= a.cap
  BY <1>2 DEF Grown, IsArray, Used
<1> QED BY <1>1, <1>2

LEMMA AddArray ==
  ASSUME NEW Ptr, NEW a, IsArray(a, Ptr), NEW p \in Ptr
  PROVE  /\ IsArray(Add(a, p), Ptr)
         /\ Used(Add(a, p)) = Used(a) \cup {a.num}
         /\ Add(a, p).buf[a.num] = p
         /\ \A k \in Used(a) : Add(a, p).buf[k] = a.buf[k]
<1> DEFINE g == Grown(a)
<1>1. /\ IsArray(g, Ptr) /\ g.num = a.num /\ a.num < g.cap /\ Used(g) = Used(a)
      /\ \A k \in Used(a) : g.buf[k] = a.buf[k]
  BY GrownHasRoom
<1>2. Add(a, p) = [buf |-> [g.buf EXCEPT ![a.num] = p], num |-> a.num + 1, cap |-> g.cap]
  BY <1>1 DEF Add, IsArray
<1>3. a.num \in 0..(g.cap - 1) /\ g.cap \in Nat \ {0}
  BY <1>1 DEF IsArray
<1>4. [g.buf EXCEPT ![a.num] = p] \in [0..(g.cap - 1) -> Ptr \cup {NULL, Uninit}]
  BY <1>1, <1>3 DEF IsArray
<1> HIDE DEF g
<1>5. IsArray(Add(a, p), Ptr)
  BY <1>2, <1>3, <1>4 DEF IsArray
<1>6. Used(Add(a, p)) = Used(a) \cup {a.num}
  BY <1>1, <1>2, <1>3 DEF Used, IsArray
<1>7. Add(a, p).buf[a.num] = p /\ \A k \in Used(a) : Add(a, p).buf[k] = a.buf[k]
  BY <1>1, <1>2, <1>3 DEF Used, IsArray
<1> QED BY <1>5, <1>6, <1>7

\* Adding a pointer adds it to the live ones; adding a new one keeps them distinct.
THEOREM AddLive ==
  ASSUME NEW Ptr, NEW a, IsArray(a, Ptr), NEW p \in Ptr
  PROVE  /\ Live(Add(a, p)) = Live(a) \cup {p}
         /\ Distinct(a) /\ p \notin Live(a) => Distinct(Add(a, p))
<1>1. a.num \notin Used(a)
  BY DEF Used, IsArray
<1> QED BY <1>1, AddArray DEF Live, Distinct

-----------------------------------------------------------------------------
\* In an array without repetitions the removal finds the one slot of its pointer.
LEMMA SlotIsUnique ==
  ASSUME NEW Ptr, NEW a, IsArray(a, Ptr), Distinct(a), NEW p \in Live(a)
  PROVE  Slot(a, p) \in Used(a) /\ a.buf[Slot(a, p)] = p
<1>1. PICK i \in Used(a) : a.buf[i] = p
  BY DEF Live
<1>2. \A j \in Used(a) : a.buf[j] = p => j = i
  BY <1>1 DEF Distinct
<1>3. i \in Nat
  BY DEF Used, IsArray
<1>4. \A j \in Used(a) : a.buf[j] = p => i <= j
  BY <1>2, <1>3
<1> QED BY <1>1, <1>4 DEF Slot

LEMMA RemoveArray ==
  ASSUME NEW Ptr, NEW a, IsArray(a, Ptr), Distinct(a), NEW p
  PROVE  IsArray(Remove(a, p), Ptr)
<1>1. CASE p \notin Live(a)
  BY <1>1 DEF Remove
<1>2. CASE p \in Live(a)
  <2> DEFINE i == Slot(a, p)
  <2>1. i \in Used(a)
    BY <1>2, SlotIsUnique
  <2>2. /\ a.cap \in Nat \ {0} /\ a.num \in 1..a.cap /\ i \in 0..(a.num - 1)
        /\ a.buf \in [0..(a.cap - 1) -> Ptr \cup {NULL, Uninit}]
    BY <2>1 DEF IsArray, Used
  <2> HIDE DEF i
  <2>3. CloseGap(a, i) \in [0..(a.cap - 1) -> Ptr \cup {NULL, Uninit}]
    <3> SUFFICES ASSUME NEW k \in 0..(a.cap - 1)
                 PROVE  CloseGap(a, i)[k] \in Ptr \cup {NULL, Uninit}
      BY DEF CloseGap
    <3>1. CASE k >= i /\ k + 1 < a.num
      <4>1. k + 1 \in 0..(a.cap - 1)
        BY <2>2, <3>1
      <4> QED BY <2>2, <3>1, <4>1 DEF CloseGap
    <3>2. CASE ~(k >= i /\ k + 1 < a.num)
      BY <2>2, <3>2 DEF CloseGap
    <3> QED BY <3>1, <3>2
  <2>4. Remove(a, p) = [buf |-> CloseGap(a, i), num |-> a.num - 1, cap |-> a.cap]
    BY <1>2 DEF Remove, i
  <2> QED BY <2>2, <2>3, <2>4 DEF IsArray
<1> QED BY <1>1, <1>2

\* Removing takes away the pointer and nothing else, and no repetition appears.
THEOREM RemoveLive ==
  ASSUME NEW Ptr, NEW a, IsArray(a, Ptr), Distinct(a), NEW p
  PROVE  /\ Live(Remove(a, p)) = Live(a) \ {p}
         /\ Distinct(Remove(a, p))
<1>1. CASE p \notin Live(a)
  BY <1>1 DEF Remove
<1>2. CASE p \in Live(a)
  <2> DEFINE i == Slot(a, p)
             b == Remove(a, p)
             From(k) == IF k < i THEN k ELSE k + 1
  <2>1. i \in Used(a) /\ a.buf[i] = p
    BY <1>2, SlotIsUnique
  <2>2. a.cap \in Nat \ {0} /\ a.num \in 1..a.cap /\ i \in 0..(a.num - 1)
    BY <2>1 DEF IsArray, Used
  <2>3. b = [buf |-> CloseGap(a, i), num |-> a.num - 1, cap |-> a.cap]
    BY <1>2 DEF Remove
  <2> HIDE DEF i, b
  <2>4. Used(b) = 0..(a.num - 2)
    BY <2>2, <2>3 DEF Used
  <2>5. Used(a) = 0..(a.num - 1)
    BY <2>2 DEF Used
  <2>6. \A k \in Used(b) : From(k) \in Used(a) \ {i} /\ b.buf[k] = a.buf[From(k)]
    <3> SUFFICES ASSUME NEW k \in Used(b)
                 PROVE  From(k) \in Used(a) \ {i} /\ b.buf[k] = a.buf[From(k)]
      OBVIOUS
    <3>1. b.buf[k] = CloseGap(a, i)[k] /\ k \in 0..(a.cap - 1) /\ k + 1 < a.num
      BY <2>2, <2>3, <2>4
    <3> QED BY <2>2, <2>4, <2>5, <3>1 DEF CloseGap
  <2>7. \A m \in Used(a) \ {i} : \E k \in Used(b) : m = From(k)
    <3> SUFFICES ASSUME NEW m \in Used(a) \ {i}
                 PROVE  \E k \in Used(b) : m = From(k)
      OBVIOUS
    <3>1. CASE m < i
      BY <2>2, <2>4, <2>5, <3>1
    <3>2. CASE m > i
      <4>1. m - 1 \in Used(b) /\ m = From(m - 1)
        BY <2>2, <2>4, <2>5, <3>2
      <4> QED BY <4>1
    <3> QED BY <2>2, <2>5, <3>1, <3>2
  <2>8. Live(b) = {a.buf[m] : m \in Used(a) \ {i}}
    <3> HIDE DEF From
    <3> QED BY <2>6, <2>7 DEF Live
  <2>9. Live(b) = Live(a) \ {p}
    BY <2>1, <2>8 DEF Live, Distinct
  <2>10. Distinct(b)
    <3> SUFFICES ASSUME NEW j \in Used(b), NEW k \in Used(b), b.buf[j] = b.buf[k]
                 PROVE  j = k
      BY DEF Distinct
    <3>1. From(j) = From(k)
      <4> HIDE DEF From
      <4> QED BY <2>6 DEF Distinct
    <3> QED BY <2>2, <2>4, <3>1
  <2> QED BY <2>9, <2>10 DEF b
<1> QED BY <1>1, <1>2

-----------------------------------------------------------------------------
(* The order of an array.                                                   *)

\* Removing what a slot holds moves every later slot down by one.
LEMMA RemovedSlot ==
  ASSUME NEW Ptr, NEW a, IsArray(a, Ptr), Distinct(a), NEW i \in Used(a)
  PROVE  /\ Remove(a, a.buf[i]).num = a.num - 1
         /\ Remove(a, a.buf[i]).cap = a.cap
         /\ \A k \in Used(Remove(a, a.buf[i])) : i <= k =>
              k + 1 \in Used(a) /\ Remove(a, a.buf[i]).buf[k] = a.buf[k + 1]
<1> DEFINE p == a.buf[i]
<1>1. p \in Live(a)
  BY DEF Live
<1>2. Slot(a, p) = i
  BY <1>1, SlotIsUnique DEF Distinct
<1>3. Remove(a, p) = [buf |-> CloseGap(a, i), num |-> a.num - 1, cap |-> a.cap]
  BY <1>1, <1>2 DEF Remove
<1> HIDE DEF p
<1>4. /\ Remove(a, p).num = a.num - 1 /\ Remove(a, p).cap = a.cap
      /\ Remove(a, p).buf = CloseGap(a, i)
  BY <1>3
<1>5. a.num \in Nat /\ a.cap \in Nat /\ i \in Nat
  BY DEF IsArray, Used
<1>6. ASSUME NEW k \in Used(Remove(a, p)), i <= k
      PROVE  k + 1 \in Used(a) /\ CloseGap(a, i)[k] = a.buf[k + 1]
  <2>1. k \in 0..(a.cap - 1) /\ k < a.num - 1
    BY <1>4, <1>6 DEF Used
  <2>2. k + 1 \in Used(a)
    BY <1>5, <2>1 DEF Used, IsArray
  <2> QED BY <1>5, <1>6, <2>1, <2>2 DEF CloseGap
<1> QED BY <1>4, <1>6 DEF p

\* Nor does it move any earlier one.
LEMMA RemovedBefore ==
  ASSUME NEW Ptr, NEW a, IsArray(a, Ptr), Distinct(a), NEW i \in Used(a)
  PROVE  \A k \in Used(Remove(a, a.buf[i])) : k < i =>
           k \in Used(a) /\ Remove(a, a.buf[i]).buf[k] = a.buf[k]
<1> DEFINE p == a.buf[i]
<1>1. p \in Live(a)
  BY DEF Live
<1>2. Slot(a, p) = i
  BY <1>1, SlotIsUnique DEF Distinct
<1>3. Remove(a, p) = [buf |-> CloseGap(a, i), num |-> a.num - 1, cap |-> a.cap]
  BY <1>1, <1>2 DEF Remove
<1> HIDE DEF p
<1>4. /\ Remove(a, p).num = a.num - 1 /\ Remove(a, p).cap = a.cap
      /\ Remove(a, p).buf = CloseGap(a, i)
  BY <1>3
<1>5. a.num \in Nat /\ a.cap \in Nat /\ i \in Nat
  BY DEF IsArray, Used
<1>6. ASSUME NEW k \in Used(Remove(a, p)), k < i
      PROVE  k \in Used(a) /\ CloseGap(a, i)[k] = a.buf[k]
  <2>1. k \in 0..(a.cap - 1) /\ k < a.num - 1
    BY <1>4, <1>6 DEF Used
  <2>2. k \in Used(a)
    BY <1>5, <2>1 DEF Used
  <2> QED BY <1>5, <1>6, <2>1, <2>2 DEF CloseGap
<1> QED BY <1>4, <1>6 DEF p

\* A pointer that is in the array before and after an addition or a removal is no further back.
LEMMA PlacesKept ==
  ASSUME NEW Ptr, NEW a, IsArray(a, Ptr), Distinct(a), NEW p \in Ptr,
         NEW b, b = Remove(a, p) \/ (p \notin Live(a) /\ b = Add(a, p))
  PROVE  \A j \in Used(a), k \in Used(b) : a.buf[j] = b.buf[k] => k <= j
<1> SUFFICES ASSUME NEW j \in Used(a), NEW k \in Used(b), a.buf[j] = b.buf[k] PROVE k <= j
  OBVIOUS
<1>1. \A n \in Used(a) : n \in Nat
  BY DEF IsArray, Used
<1>2. CASE p \notin Live(a) /\ b = Add(a, p)
  <2>1. k \in Used(a) \/ k = a.num
    BY <1>2, AddArray
  <2>2. CASE k \in Used(a)
    <3>1. a.buf[j] = a.buf[k]
      BY <1>2, <2>2, AddArray
    <3> QED BY <1>1, <2>2, <3>1 DEF Distinct
  <2>3. CASE k = a.num
    <3>1. a.buf[j] = p
      BY <1>2, <2>3, AddArray
    <3> QED BY <1>2, <3>1 DEF Live
  <2> QED BY <2>1, <2>2, <2>3
<1>3. CASE b = Remove(a, p) /\ p \notin Live(a)
  BY <1>1, <1>3 DEF Remove, Distinct
<1>4. CASE b = Remove(a, p) /\ p \in Live(a)
  <2>1. PICK i \in Used(a) : a.buf[i] = p
    BY <1>4 DEF Live
  <2>2. /\ \A m \in Used(b) : i <= m => m + 1 \in Used(a) /\ b.buf[m] = a.buf[m + 1]
        /\ \A m \in Used(b) : m < i => m \in Used(a) /\ b.buf[m] = a.buf[m]
        /\ b.cap = a.cap
    BY <1>4, <2>1, RemovedSlot, RemovedBefore
  <2>3. k \in Nat
    BY <2>2 DEF Used, IsArray
  <2>4. CASE i <= k
    <3>1. k + 1 = j
      BY <2>2, <2>4 DEF Distinct
    <3> QED BY <1>1, <2>3, <3>1
  <2>5. CASE k < i
    <3>1. k = j
      BY <2>2, <2>5 DEF Distinct
    <3> QED BY <1>1, <3>1
  <2>6. i \in Nat
    BY <1>1
  <2> QED BY <2>3, <2>4, <2>5, <2>6
<1> QED BY <1>2, <1>3, <1>4
=============================================================================
