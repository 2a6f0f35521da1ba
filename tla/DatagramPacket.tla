--------------------------- MODULE DatagramPacket ---------------------------
(***************************************************************************)
(* The window of a DatagramPacket (DatagramPacket.java, datagram_socket.c) *)
(* and the clamping that six native functions repeat word for word before  *)
(* they touch an array: nativeSend and nativeRecv of the frames, nativeSend*)
(* and nativeReceive of the datagrams, nativeRead and nativeWrite of the   *)
(* two streams.                                                            *)
(*                                                                         *)
(* Bytes are known by their positions in the packet's array.               *)
(***************************************************************************)
EXTENDS Integers

CONSTANT Size       \* the length of the packet's array

VARIABLES
  offset, length,   \* the packet's two fields
  stored,           \* history: the bytes received since the window was last set
  lost              \* history: those of them that a later receive overwrote

packetVars == <<offset, length, stored, lost>>

-----------------------------------------------------------------------------
(* The clamping.                                                            *)

\* Of the array's size, the offset and the length asked for, the offset and the length
\* that are used.  size - 1 and size - offset are of an unsigned type: for an array of no
\* bytes the offset wraps around to one before the array.
ClampedOffset(size, off) ==
  LET from == IF off < 0 THEN 0 ELSE off
  IN  IF from >= size THEN size - 1 ELSE from

ClampedLength(size, off, len) ==
  LET room == size - ClampedOffset(size, off)
  IN  IF len < 0 THEN 0 ELSE IF len > room THEN room ELSE len

Window(off, len) == off .. (off + len - 1)

-----------------------------------------------------------------------------
(* A packet into which datagrams are received.                              *)

PacketInit ==
  /\ offset \in Int /\ length \in Int
  /\ stored = {} /\ lost = {}

\* A new packet, setData or setLength.
SetWindow ==
  /\ offset' \in Int /\ length' \in Int
  /\ stored' = {} /\ lost' = {}

\* nativeReceive of a datagram of n bytes: the offset moves on by all the room there was;
\* the length stays.  Without room lwip returns 0, which throws and changes nothing.
Receive ==
  LET start == ClampedOffset(Size, offset)
      room == ClampedLength(Size, offset, length)
  IN  \E n \in 1..room :
        /\ lost' = lost \cup (stored \cap Window(start, n))
        /\ stored' = stored \cup Window(start, n)
        /\ offset' = start + room
        /\ UNCHANGED length

PacketSpec == PacketInit /\ [][SetWindow \/ Receive]_packetVars

-----------------------------------------------------------------------------
(* Properties.                                                              *)

\* Receiving again and again into one packet overwrites nothing but, once the array is
\* full, its last byte.
NothingOverwritten == lost \subseteq {Size - 1}

\* What is received stays within the array, if it has room for anything.
WithinArray == Size > 0 => stored \subseteq 0..(Size - 1)
=============================================================================
