-------------------------- MODULE ArithmeticProofs --------------------------
(* Theorems about arithmetic: the clamping of offsets and lengths, receiving *)
(* into a packet, and the pace of the mixer.                                *)
EXTENDS DatagramPacket, Pacing, TLAPS

\* Where the clamped window lies.  The native functions read and write within the array
\* whatever they are asked for, unless the array has no bytes.
THEOREM ClampedWithin ==
  ASSUME NEW size \in Nat \ {0}, NEW off \in Int, NEW len \in Int
  PROVE  Window(ClampedOffset(size, off), ClampedLength(size, off, len)) \subseteq 0..(size - 1)
  BY DEF Window, ClampedOffset, ClampedLength

\* A window that lies within the array is used as it is.
THEOREM ClampedExact ==
  ASSUME NEW size \in Nat, NEW off \in Nat, NEW len \in Nat, off < size, off + len <= size
  PROVE  ClampedOffset(size, off) = off /\ ClampedLength(size, off, len) = len
  BY DEF ClampedOffset, ClampedLength

\* For an array of no bytes the byte before the array is used, whatever is asked for, if
\* anything is.
THEOREM ClampedEmpty ==
  ASSUME NEW off \in Int, NEW len \in Int
  PROVE  /\ ClampedOffset(0, off) = -1
         /\ ClampedLength(0, off, len) = IF len > 0 THEN 1 ELSE 0
  BY DEF ClampedOffset, ClampedLength

-----------------------------------------------------------------------------
\* The bytes received lie before the offset, so that the next receive starts after them
\* unless the array is full.
Behind == \A x \in stored : x \in Int /\ x < offset /\ x < Size
PacketInv ==
  /\ offset \in Int /\ length \in Int
  /\ Behind /\ NothingOverwritten /\ WithinArray

LEMMA ReceiveKeeps ==
  ASSUME Size \in Nat, PacketInv, Receive
  PROVE  PacketInv'
<1> DEFINE start == ClampedOffset(Size, offset)
           room == ClampedLength(Size, offset, length)
<1>1. start \in Int /\ room \in Int /\ start + room <= Size /\ start < Size
  BY DEF PacketInv, ClampedOffset, ClampedLength
<1>2. PICK n \in 1..room :
        /\ lost' = lost \cup (stored \cap Window(start, n))
        /\ stored' = stored \cup Window(start, n)
        /\ offset' = start + room
        /\ length' = length
  BY DEF Receive
<1>3. n \in Int /\ 1 <= n /\ n <= room
  BY <1>1
<1>4. start <= offset \/ offset < 0
  BY DEF PacketInv, ClampedOffset
<1>5. start >= offset \/ start = Size - 1
  BY DEF PacketInv, ClampedOffset
<1>6. Size > 0 => start >= 0
  BY DEF PacketInv, ClampedOffset
<1> HIDE DEF start, room
<1>7. \A x \in Window(start, n) : x \in Int /\ start <= x /\ x < start + n
  BY <1>1, <1>3 DEF Window
<1>8. NothingOverwritten'
  <2>1. \A x \in stored \cap Window(start, n) : x = Size - 1
    BY <1>1, <1>3, <1>5, <1>7 DEF PacketInv, Behind
  <2> QED
    BY <1>2, <2>1 DEF PacketInv, NothingOverwritten
<1>9. Behind'
  BY <1>1, <1>2, <1>3, <1>4, <1>5, <1>7 DEF PacketInv, Behind
<1>10. WithinArray'
  BY <1>1, <1>2, <1>3, <1>6, <1>7 DEF PacketInv, WithinArray
<1> QED
  BY <1>1, <1>2, <1>8, <1>9, <1>10 DEF PacketInv

\* Receiving into a packet never reaches outside an array that has bytes and never
\* overwrites what was received before, but for the last byte.
THEOREM PacketFillsInOrder ==
  ASSUME Size \in Nat
  PROVE  PacketSpec => []NothingOverwritten /\ []WithinArray
<1>1. PacketInit => PacketInv
  BY DEF PacketInit, PacketInv, Behind, NothingOverwritten, WithinArray
<1>2. PacketInv /\ [SetWindow \/ Receive]_packetVars => PacketInv'
  <2>1. PacketInv /\ SetWindow => PacketInv'
    BY DEF SetWindow, PacketInv, Behind, NothingOverwritten, WithinArray
  <2>2. PacketInv /\ UNCHANGED packetVars => PacketInv'
    BY DEF packetVars, PacketInv, Behind, NothingOverwritten, WithinArray
  <2> QED
    BY <2>1, <2>2, ReceiveKeeps
<1>3. PacketInv => NothingOverwritten /\ WithinArray
  BY DEF PacketInv
<1> QED
  BY <1>1, <1>2, <1>3, PTL DEF PacketSpec

-----------------------------------------------------------------------------
\* What the times are, for whatever the work and the oversleep of each tick.
PaceInv == /\ clock \in Int /\ last_now \in Int /\ due \in Int /\ slept \in Nat
           /\ due <= clock
           /\ clock = last_now + slept

LEMMA MixKeeps ==
  ASSUME Period \in Nat, Oversleep \subseteq Nat, NEW w \in Nat, PaceInv, MixFor(w)
  PROVE  PaceInv'
<1> DEFINE now == clock + w
           sleep_length == Period - (now - last_now)
<1>1. PICK over \in Oversleep : slept' = IF sleep_length > 0 THEN sleep_length + over ELSE 0
  BY DEF MixFor
<1>2. /\ clock' = now + slept' /\ last_now' = now /\ due' = last_now + Period
      /\ over \in Nat /\ now \in Int /\ sleep_length \in Int /\ last_now \in Int
      /\ now + sleep_length = last_now + Period
  BY DEF MixFor, PaceInv
<1> HIDE DEF now, sleep_length
<1>3. PICK s \in Nat : s = slept' /\ s >= sleep_length
  BY <1>1, <1>2
<1>4. clock' = now + s /\ now + s \in Int /\ last_now + Period \in Int
  BY <1>2, <1>3
<1>5. last_now + Period <= now + s
  <2>1. /\ s >= sleep_length /\ now \in Int /\ sleep_length \in Int
        /\ now + sleep_length = last_now + Period
    BY <1>2, <1>3
  <2> QED BY <2>1
<1> QED BY <1>2, <1>3, <1>4, <1>5 DEF PaceInv

LEMMA PaceInvariant ==
  ASSUME Period \in Nat, Work \subseteq Nat, Oversleep \subseteq Nat
  PROVE  /\ PaceInit => PaceInv
         /\ PaceInv /\ [PaceNext]_paceVars => PaceInv'
<1>1. PaceInit => PaceInv
  BY DEF PaceInit, PaceInv
<1>2. PaceInv /\ UNCHANGED paceVars => PaceInv'
  BY DEF paceVars, PaceInv
<1>3. ASSUME NEW w \in Work, PaceInv, MixFor(w) PROVE PaceInv'
  BY <1>3, MixKeeps
<1> QED BY <1>1, <1>2, <1>3 DEF PaceNext

\* However long ticks work and sleep, two of them take a period at least: the mixer is at
\* most twice too fast.
THEOREM TwoTicksAPeriod ==
  ASSUME Period \in Nat, Work \subseteq Nat, Oversleep \subseteq Nat
  PROVE  PaceSpec => []NeverTooEarly
<1>1. PaceInv => NeverTooEarly
  BY DEF PaceInv, NeverTooEarly
<1> QED BY <1>1, PaceInvariant, PTL DEF PaceSpec

\* While the work of a tick takes less than a period, one of two successive ticks sleeps
\* and leaves the mutex to others.
THEOREM OneOfTwoSleeps ==
  ASSUME Period \in Nat, Work \subseteq Nat, Oversleep \subseteq Nat
  PROVE  PaceSpec => GivesWay
<1> DEFINE Way == (\A w \in Work : w < Period) /\ slept = 0 => slept' > 0
<1>1. ASSUME PaceInv, PaceNext PROVE Way
  <2> SUFFICES ASSUME \A w \in Work : w < Period, slept = 0 PROVE slept' > 0
    OBVIOUS
  <2>1. PICK w \in Work : MixFor(w)
    BY <1>1 DEF PaceNext
  <2>2. clock = last_now /\ w \in Nat /\ w < Period /\ clock \in Int
    BY <1>1 DEF PaceInv
  <2>3. Period - ((clock + w) - last_now) > 0
    BY <2>2
  <2> QED BY <2>1, <2>2, <2>3 DEF MixFor
<1> HIDE DEF Way
<1>2. PaceInv /\ [PaceNext]_paceVars => [Way]_paceVars
  BY <1>1
<1>3. PaceSpec => [][Way]_paceVars
  BY <1>2, PaceInvariant, PTL DEF PaceSpec
<1> QED BY <1>3 DEF GivesWay, Way

\* With the same work in every tick, a tick that follows one that slept does not sleep:
\* the mixer takes two buffers in about the time it takes to play one.
THEOREM EverySecondSleeps ==
  ASSUME Period \in Nat, Work \subseteq Nat, Oversleep \subseteq Nat
  PROVE  PaceSpec => SleepsEverySecond
<1> DEFINE Steady == \E w \in Work : Work = {w}
           Slept == Steady /\ slept > 0 => \A w \in Work : slept + w >= Period
           Second == Steady /\ slept > 0 => slept' = 0
<1>1. ASSUME PaceInv, Slept, PaceNext PROVE Slept' /\ Second
  <2>1. PICK w \in Work : MixFor(w)
    BY <1>1 DEF PaceNext
  <2>2. /\ w \in Nat /\ clock \in Int /\ last_now \in Int /\ slept \in Nat
        /\ clock = last_now + slept
    BY <1>1 DEF PaceInv
  <2>3. PICK over \in Oversleep :
          slept' = IF Period - (slept + w) > 0 THEN Period - (slept + w) + over ELSE 0
    <3>1. (clock + w) - last_now = slept + w
      BY <2>2
    <3> QED BY <2>1, <3>1 DEF MixFor
  <2>4. Second
    <3> SUFFICES ASSUME Steady, slept > 0 PROVE slept' = 0
      OBVIOUS
    <3>1. slept + w >= Period
      BY <1>1
    <3> QED BY <2>2, <2>3, <3>1
  <2>5. ASSUME Steady, slept' > 0 PROVE \A v \in Work : slept' + v >= Period
    <3>1. \A v \in Work : v = w
      BY <2>5
    <3>2. slept = 0
      BY <2>2, <2>4, <2>5
    <3>3. over \in Nat /\ slept' >= Period - w
      BY <2>2, <2>3, <3>2
    <3>4. PICK s \in Nat : s = slept' /\ s >= Period - w
      BY <2>2, <2>3, <3>3
    <3>5. s + w >= Period
      <4>1. s >= Period - w /\ w \in Nat
        BY <2>2, <3>4
      <4> QED BY <4>1
    <3> QED BY <3>1, <3>4, <3>5
  <2> QED BY <2>4, <2>5
<1>2. PaceInit => Slept
  BY DEF PaceInit
<1>3. UNCHANGED paceVars /\ Slept => Slept'
  BY DEF paceVars
<1> HIDE DEF Slept, Second
<1>4. PaceInv /\ Slept /\ [PaceNext]_paceVars => Slept' /\ [Second]_paceVars
  BY <1>1, <1>3
<1>5. PaceSpec => [][Second]_paceVars
  BY <1>2, <1>4, PaceInvariant, PTL DEF PaceSpec
<1> QED BY <1>5 DEF SleepsEverySecond, Second
=============================================================================
