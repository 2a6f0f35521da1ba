------------------------- MODULE OpenSLPlayerProofs -------------------------
(***************************************************************************)
(* That the callback never writes into a buffer being played, that it      *)
(* never outlives what it uses, that no block is lost on its way to the    *)
(* loudspeaker, that the player is a pipe and what a source is promised,   *)
(* and that a closed one runs out of things to do, for any number of       *)
(* buffers and blocks.                                                     *)
(***************************************************************************)
EXTENDS OpenSLPlayer, RingProofs, SequenceTheorems

AgeOf(i) == Age(NumBuf, buf_idx, i)

\* Where the callback can run, and what has been done by then.
Staged ==
  /\ stage \notin {"priming", "open", "freeing"} => queue = <<>> /\ cb = "idle"
  /\ stage \in {"object", "priming", "open"} \/ cb /= "idle" \/ play /= "STOPPED" => object
  /\ play /= "STOPPED" => stage \in {"open", "freeing"}
  /\ stage \in {"allocated", "object"} => out = 0 /\ played = 0
  /\ stage = "priming" /\ cb /= "idle" => primed > 0
  /\ cb = "eof" => closed /\ out = sent

\* The queue holds the buffers in the order in which they were filled.
InOrder ==
  /\ \A j, k \in DOMAIN queue : j < k => AgeOf(queue[j]) > AgeOf(queue[k])
  /\ cb /= "idle" => \A k \in DOMAIN queue : queue[k] /= buf_idx
  /\ stage = "priming" =>
       \A k \in DOMAIN queue : AgeOf(queue[k]) <= IF cb = "idle" THEN primed ELSE primed - 1

Block(k) == bufs[queue[k]]
InHand == cb = "fill" /\ scratch /= 0

\* The blocks that were emitted and not played are in the buffers on the queue, and
\* the last of them perhaps in the callback's hands; each is followed by younger
\* buffers enough for the blocks that follow it.
Carried ==
  ~refused /\ stage \notin {"none", "noplayer", "noencoder"} =>
    /\ played <= out
    /\ InHand => scratch = out /\ played < out
    /\ \A k \in DOMAIN queue : Block(k) /= 0 =>
         /\ played < Block(k) /\ Block(k) <= out
         /\ out - Block(k) < IF InHand THEN AgeOf(queue[k]) + 1 ELSE AgeOf(queue[k])
         /\ InHand => Block(k) < out
    /\ \A j, k \in DOMAIN queue : j < k /\ Block(j) /= 0 /\ Block(k) /= 0 => Block(j) < Block(k)
    /\ \A v \in (played + 1)..out :
         (InHand /\ v = out) \/ \E k \in DOMAIN queue : Block(k) = v

IInv == TypeOK /\ Staged /\ InOrder /\ Carried

-----------------------------------------------------------------------------
LEMMA InitInv == Init => IInv
<1> SUFFICES ASSUME Init PROVE IInv
  OBVIOUS
<1>1. closed \in BOOLEAN /\ object \in BOOLEAN /\ refused \in BOOLEAN /\ failed \in BOOLEAN
  BY Zenon DEF Init
<1>2. TypeOK
  BY <1>1, PlayerAssumption DEF Init, TypeOK, Ring
<1>3. Staged /\ InOrder /\ Carried
  BY DEF Init, Staged, InOrder, Carried, InHand
<1> QED BY <1>2, <1>3 DEF IInv

LEMMA NextIdxOK == ASSUME TypeOK PROVE NextIdx \in Ring
  BY NextInRing, PlayerAssumption DEF TypeOK, Ring, NextIdx

\* A flag is left alone, set, or cleared.
LEMMA Flags ==
  ASSUME TypeOK, Next
  PROVE  /\ object' \in BOOLEAN /\ closed' \in BOOLEAN
         /\ refused' \in BOOLEAN /\ failed' \in BOOLEAN
<1>1. object \in BOOLEAN /\ closed \in BOOLEAN /\ refused \in BOOLEAN /\ failed \in BOOLEAN
  BY DEF TypeOK
<1>2. /\ object' = object \/ object' = TRUE \/ object' = FALSE
      /\ closed' = closed \/ closed' = TRUE \/ closed' = FALSE
      /\ refused' = refused \/ refused' = TRUE \/ refused' = FALSE
      /\ failed' = failed \/ failed' = TRUE \/ failed' = FALSE
  BY Zenon
     DEF Next, Construct, Allocate, CreateAudioPlayer, RegisterCallback, Prime, StartPlaying,
         CreateFails, BufferDone, Callback, ProduceBlock, ProduceSilence, ProduceEOF, Fill,
         FillWith, EOF, StopAtEOF, User, Send, Close, Terminate, Finalize, Terminating,
         StopPlayer, StopWith, PollStopped, PollFails, Destroy, DestroyPlayer, DestroyEncoder, DestroyProducer,
         encVars, SetStopped, Stopping, pastVars, Halt
<1> QED BY <1>1, <1>2, Zenon

LEMMA AgesInRing ==
  ASSUME TypeOK
  PROVE  \A i \in Ring : AgeOf(i) \in 1..NumBuf /\ AgeOf(i) \in Nat
<1>1. NumBuf \in Nat \ {0} /\ buf_idx \in 0..(NumBuf - 1)
  BY PlayerAssumption DEF TypeOK, Ring
<1> QED BY <1>1, AgeBounds DEF AgeOf, Ring

LEMMA Typed == ASSUME TypeOK, Next PROVE TypeOK'
<1> USE Flags, PlayerAssumption DEF TypeOK, ringVars, encVars, pastVars
<1>1. CASE Allocate
  <2>1. [i \in Ring |-> 0] \in [Ring -> Nat] /\ 0 \in Ring
    BY DEF Ring
  <2> QED BY <1>1, <2>1 DEF Allocate
<1>2. CASE CreateAudioPlayer \/ RegisterCallback \/ StartPlaying \/ CreateFails
  BY <1>2 DEF CreateAudioPlayer, RegisterCallback, StartPlaying, CreateFails
<1>3. CASE Prime
  BY <1>3 DEF Prime
<1>4. CASE BufferDone
  BY <1>4 DEF BufferDone
<1>5. CASE ProduceBlock \/ ProduceSilence \/ ProduceEOF
  BY <1>5 DEF ProduceBlock, ProduceSilence, ProduceEOF
<1>6. CASE Fill
  <2>1. queue' \in Seq(Ring) /\ Len(queue') <= NumBuf
    <3>1. \/ queue' = queue
          \/ queue' = Append(queue, buf_idx) /\ Len(queue) < NumBuf
      BY <1>6 DEF Fill, FillWith
    <3>2. queue \in Seq(Ring) /\ buf_idx \in Ring /\ Len(queue) <= NumBuf /\ NumBuf \in Nat
      OBVIOUS
    <3>3. Append(queue, buf_idx) \in Seq(Ring) /\ Len(Append(queue, buf_idx)) = Len(queue) + 1
      BY ONLY <3>2
    <3>4. Len(queue) \in Nat
      BY ONLY <3>2
    <3> QED BY ONLY <3>1, <3>2, <3>3, <3>4
  <2>2. bufs' \in [Ring -> Nat] /\ buf_idx' \in Ring /\ cb' = "idle"
    BY <1>6, NextIdxOK DEF Fill, FillWith
  <2> QED BY <1>6, <2>1, <2>2 DEF Fill, FillWith
<1>7. CASE EOF
  BY <1>7 DEF EOF, StopAtEOF, SetStopped, Stopping
<1>8. CASE Send
  BY <1>8 DEF Send
<1>9. CASE Halt \/ Close \/ Terminate \/ Finalize \/ StopPlayer \/ PollStopped \/ PollFails
  BY <1>9 DEF Halt, Close, Terminate, Finalize, StopPlayer, StopWith, PollStopped, PollFails, SetStopped, Stopping
<1>10. CASE DestroyPlayer
  BY <1>10 DEF DestroyPlayer
<1>11. CASE DestroyEncoder \/ DestroyProducer
  BY <1>11 DEF DestroyEncoder, DestroyProducer
<1> QED
  BY <1>1, <1>2, <1>3, <1>4, <1>5, <1>6, <1>7, <1>8, <1>9, <1>10, <1>11
     DEF Next, Construct, Callback, User, Terminating, Destroy

LEMMA StagedStep == ASSUME IInv, Next PROVE Staged'
<1> USE DEF IInv, TypeOK, Staged, ringVars, encVars, pastVars
<1>1. CASE Construct \/ CreateFails
  BY <1>1 DEF Construct, Allocate, CreateAudioPlayer, RegisterCallback, Prime, StartPlaying,
              CreateFails
<1>2. CASE BufferDone
  BY <1>2 DEF BufferDone
<1>3. CASE ProduceBlock \/ ProduceSilence \/ ProduceEOF
  BY <1>3 DEF ProduceBlock, ProduceSilence, ProduceEOF
<1>4. CASE Fill \/ EOF
  BY <1>4 DEF Fill, FillWith, EOF, StopAtEOF, SetStopped, Stopping
<1>5. CASE Halt \/ User \/ Terminating
  BY <1>5 DEF Halt, User, Send, Close, Terminate, Finalize, Terminating, StopPlayer, StopWith, PollStopped, PollFails, SetStopped, Stopping
<1>6. CASE Destroy
  BY <1>6 DEF Destroy, DestroyPlayer, DestroyEncoder, DestroyProducer
<1> QED BY <1>1, <1>2, <1>3, <1>4, <1>5, <1>6 DEF Next, Callback

LEMMA InOrderStep == ASSUME IInv, Next PROVE InOrder'
<1>0. TypeOK /\ Staged /\ InOrder
  BY DEF IInv
<1> USE <1>0, PlayerAssumption DEF TypeOK, ringVars, encVars, pastVars
<1>1. CASE Allocate \/ CreateAudioPlayer \/ RegisterCallback
  <2>1. queue' = <<>>
    BY <1>1 DEF Staged, Allocate, CreateAudioPlayer, RegisterCallback
  <2> QED BY <2>1 DEF InOrder
<1>2. CASE Prime
  <2>1. /\ stage = "priming" /\ cb = "idle" /\ primed < NumBuf /\ primed \in Nat
        /\ primed' = primed + 1 /\ cb' = "called" /\ queue' = queue /\ buf_idx' = buf_idx
        /\ stage' = stage
    BY <1>2 DEF Prime
  <2>2. \A k \in DOMAIN queue : queue[k] \in Ring /\ AgeOf(queue[k]) <= primed
    BY <2>1 DEF InOrder
  <2>3. \A k \in DOMAIN queue : queue[k] /= buf_idx
    BY <2>1, <2>2, AgeBounds DEF Ring, AgeOf
  <2> QED BY <2>1, <2>2, <2>3 DEF InOrder, AgeOf
<1>3. CASE BufferDone
  <2>1. queue' = Tail(queue) /\ queue /= <<>> /\ buf_idx' = buf_idx /\ stage' /= "priming"
    BY <1>3 DEF BufferDone, Staged
  <2>2. /\ DOMAIN queue = 1..Len(queue) /\ Len(queue) \in Nat \ {0}
        /\ DOMAIN queue' = 1..(Len(queue) - 1)
        /\ \A k \in DOMAIN queue' : queue'[k] = queue[k + 1]
        /\ \A k \in DOMAIN queue : queue[k] \in Ring
    BY <2>1
  <2>3. ASSUME NEW k \in DOMAIN queue' PROVE queue'[k] /= buf_idx
    <3>1. 1 \in DOMAIN queue /\ k + 1 \in DOMAIN queue /\ 1 < k + 1
      BY <2>2
    <3>2. AgeOf(queue[1]) > AgeOf(queue[k + 1])
      BY <3>1 DEF InOrder
    <3>3. AgeOf(queue[1]) \in 1..NumBuf /\ AgeOf(queue[k + 1]) \in 1..NumBuf
      BY <2>2, <3>1, AgeBounds DEF Ring, AgeOf
    <3>4. queue[k + 1] = buf_idx => AgeOf(queue[k + 1]) = NumBuf
      BY <2>2, <3>1, AgeBounds DEF Ring, AgeOf
    <3> QED BY <2>2, <3>2, <3>3, <3>4
  <2>4. ASSUME NEW j \in DOMAIN queue', NEW k \in DOMAIN queue', j < k
        PROVE  AgeOf(queue'[j]) > AgeOf(queue'[k])
    <3>0. j \in 1..(Len(queue) - 1) /\ k \in 1..(Len(queue) - 1) /\ j < k
      BY <2>2, <2>4
    <3>1. j + 1 \in DOMAIN queue /\ k + 1 \in DOMAIN queue /\ j + 1 < k + 1
      BY ONLY <2>2, <3>0
    <3>2. AgeOf(queue[j + 1]) > AgeOf(queue[k + 1])
      BY <3>1 DEF InOrder
    <3> QED BY <2>2, <3>2
  <2> QED BY <2>1, <2>3, <2>4 DEF InOrder, AgeOf
<1>4. CASE ProduceBlock \/ ProduceSilence \/ ProduceEOF \/ EOF
  <2>1. queue' = queue /\ buf_idx' = buf_idx /\ stage' = stage /\ primed' = primed /\ cb /= "idle"
    BY <1>4 DEF ProduceBlock, ProduceSilence, ProduceEOF, EOF, StopAtEOF, SetStopped, Stopping
  <2>2. \A k \in DOMAIN queue : queue[k] \in Ring
    OBVIOUS
  <2>3. \A k \in DOMAIN queue : AgeOf(queue[k]) \in 1..NumBuf
    BY <2>2, AgeBounds DEF AgeOf, Ring
  <2> QED BY <2>1, <2>3 DEF InOrder, AgeOf
<1>5. CASE Fill
  <2> DEFINE NewAge(i) == Age(NumBuf, NextIdx, i)
  <2>1. /\ cb = "fill" /\ cb' = "idle" /\ buf_idx' = NextIdx
        /\ queue' = queue \/ queue' = Append(queue, buf_idx)
        /\ stage' = stage /\ primed' = primed
    BY <1>5 DEF Fill, FillWith
  <2>2. \A k \in DOMAIN queue : queue[k] \in Ring /\ queue[k] /= buf_idx
    BY <2>1 DEF InOrder
  <2>3. \A i \in Ring : NewAge(i) = IF i = buf_idx THEN 1 ELSE AgeOf(i) + 1
    BY AgeNext DEF AgeOf, NextIdx, Ring
  <2>4. \A i \in Ring : AgeOf(i) \in 1..NumBuf
    BY AgeBounds DEF AgeOf, Ring
  <2> HIDE DEF NewAge
  <2>5. \A j, k \in DOMAIN queue : j < k => NewAge(queue[j]) > NewAge(queue[k])
    BY <2>2, <2>3, <2>4 DEF InOrder
  <2>6. \A k \in DOMAIN queue : NewAge(queue[k]) > NewAge(buf_idx)
    BY <2>2, <2>3, <2>4
  <2>7. \A j, k \in DOMAIN queue' : j < k => NewAge(queue'[j]) > NewAge(queue'[k])
    <3>1. CASE queue' = queue
      BY <2>5, <3>1
    <3>2. CASE queue' = Append(queue, buf_idx)
      <4>1. /\ DOMAIN queue' = 1..(Len(queue) + 1) /\ DOMAIN queue = 1..Len(queue)
            /\ Len(queue) \in Nat /\ queue'[Len(queue) + 1] = buf_idx
            /\ \A k \in DOMAIN queue : queue'[k] = queue[k]
        BY <3>2
      <4> QED BY <2>5, <2>6, <4>1
    <3> QED BY <2>1, <3>1, <3>2
  <2>8. stage = "priming" => \A k \in DOMAIN queue : NewAge(queue[k]) <= primed
    BY <2>1, <2>2, <2>3, <2>4 DEF InOrder
  <2>9. stage = "priming" => NewAge(buf_idx) <= primed
    <3>1. stage = "priming" => primed > 0 /\ primed \in Nat
      BY <2>1 DEF Staged
    <3>2. buf_idx \in Ring
      OBVIOUS
    <3>3. NewAge(buf_idx) = 1
      BY ONLY <2>3, <3>2
    <3> QED BY ONLY <3>1, <3>3
  <2>10. stage = "priming" => \A k \in DOMAIN queue' : NewAge(queue'[k]) <= primed
    <3>1. CASE queue' = queue
      BY ONLY <2>8, <3>1
    <3>2. CASE queue' = Append(queue, buf_idx)
      <4>1. /\ DOMAIN queue' = 1..(Len(queue) + 1) /\ DOMAIN queue = 1..Len(queue)
            /\ Len(queue) \in Nat /\ queue'[Len(queue) + 1] = buf_idx
            /\ \A k \in DOMAIN queue : queue'[k] = queue[k]
        BY <3>2
      <4> QED BY ONLY <2>8, <2>9, <4>1
    <3> QED BY <2>1, <3>1, <3>2
  <2> QED BY <2>1, <2>7, <2>10 DEF InOrder, AgeOf, NewAge
<1>6. CASE DestroyPlayer
  BY <1>6 DEF DestroyPlayer, InOrder
<1>7. CASE StartPlaying \/ CreateFails \/ Halt \/ User \/ Terminating \/ DestroyEncoder \/ DestroyProducer
  BY <1>7 DEF Halt, StartPlaying, CreateFails, User, Send, Close, Terminate, Finalize, Terminating,
              StopPlayer, StopWith, PollStopped, PollFails, DestroyEncoder, DestroyProducer, InOrder, AgeOf, SetStopped, Stopping
<1> QED
  BY <1>1, <1>2, <1>3, <1>4, <1>5, <1>6, <1>7 DEF Next, Construct, Callback, Destroy

\* Live: the encoder and the ring exist, and OpenSL has refused nothing.
Whole == ~refused /\ stage \notin {"none", "noplayer", "noencoder"}

\* A buffer has been played, and is the next block or silence.
LEMMA CarriedDone ==
  ASSUME IInv, BufferDone, Whole
  PROVE  /\ Carried'
         /\ played' = played \/ (played < out /\ played' = played + 1)
<1>1. /\ TypeOK /\ Staged /\ InOrder /\ Carried
      /\ queue' = Tail(queue) /\ queue /= <<>> /\ cb = "idle" /\ cb' = "called"
      /\ buf_idx' = buf_idx /\ bufs' = bufs /\ out' = out /\ scratch' = scratch
      /\ played' = IF Block(1) = 0 THEN played ELSE Block(1)
  BY DEF IInv, BufferDone, encVars, Block, pastVars
<1>2. /\ DOMAIN queue = 1..Len(queue) /\ Len(queue) \in Nat \ {0}
      /\ DOMAIN queue' = 1..(Len(queue) - 1)
      /\ \A k \in DOMAIN queue' : queue'[k] = queue[k + 1]
      /\ out \in Nat /\ played \in Nat
      /\ \A k \in DOMAIN queue : Block(k) \in Nat /\ AgeOf(queue[k]) \in Nat
  <2>1. \A k \in DOMAIN queue : queue[k] \in Ring
    BY <1>1 DEF TypeOK
  <2>2. \A i \in Ring : AgeOf(i) \in Nat
    BY <1>1, AgesInRing
  <2> QED BY <1>1, <2>1, <2>2 DEF TypeOK, Block
<1>3. ~InHand /\ ~InHand'
  BY <1>1 DEF InHand
<1>4. /\ played <= out
      /\ \A k \in DOMAIN queue : Block(k) /= 0 =>
           played < Block(k) /\ Block(k) <= out /\ out - Block(k) < AgeOf(queue[k])
      /\ \A j, k \in DOMAIN queue : j < k /\ Block(j) /= 0 /\ Block(k) /= 0 => Block(j) < Block(k)
      /\ \A v \in (played + 1)..out : \E k \in DOMAIN queue : Block(k) = v
  BY <1>1, <1>3 DEF Carried, Whole
<1>5. \A k \in DOMAIN queue' : k + 1 \in DOMAIN queue /\ Block(k)' = Block(k + 1)
  BY <1>1, <1>2 DEF Block
<1>6. Block(1) /= 0 => played < out /\ Block(1) = played + 1
  <2> SUFFICES ASSUME Block(1) /= 0, Block(1) > played + 1 PROVE FALSE
    BY <1>2, <1>4
  <2>1. 1 \in DOMAIN queue /\ played + 1 \in (played + 1)..out
    BY <1>2, <1>4
  <2>2. PICK k \in DOMAIN queue : Block(k) = played + 1
    BY <1>4, <2>1
  <2>3. k > 1 /\ Block(k) /= 0
    BY <1>2, <2>2
  <2>4. Block(1) < Block(k)
    BY <1>4, <2>1, <2>2, <2>3
  <2> QED BY <1>2, <2>1, <2>2, <2>4
<1>7. \A k \in DOMAIN queue' : Block(k)' /= 0 =>
        played' < Block(k)' /\ Block(k)' <= out /\ out - Block(k)' < AgeOf(queue'[k])
  <2> SUFFICES ASSUME NEW k \in DOMAIN queue', Block(k + 1) /= 0
               PROVE  /\ played' < Block(k + 1) /\ Block(k + 1) <= out
                      /\ out - Block(k + 1) < AgeOf(queue[k + 1])
    BY <1>2, <1>5
  <2>1. 1 \in DOMAIN queue /\ k + 1 \in DOMAIN queue /\ 1 < k + 1
    BY <1>2
  <2> QED BY <1>1, <1>2, <1>4, <2>1
<1>8. \A j, k \in DOMAIN queue' : j < k /\ Block(j)' /= 0 /\ Block(k)' /= 0 => Block(j)' < Block(k)'
  <2> SUFFICES ASSUME NEW j \in DOMAIN queue', NEW k \in DOMAIN queue', j < k,
                      Block(j + 1) /= 0, Block(k + 1) /= 0
               PROVE  Block(j + 1) < Block(k + 1)
    BY <1>5
  <2>1. j + 1 \in DOMAIN queue /\ k + 1 \in DOMAIN queue /\ j + 1 < k + 1
    BY <1>2
  <2> QED BY <1>4, <2>1
<1>9. \A v \in (played' + 1)..out : \E k \in DOMAIN queue' : Block(k)' = v
  <2> SUFFICES ASSUME NEW v \in (played' + 1)..out PROVE \E k \in DOMAIN queue' : Block(k)' = v
    OBVIOUS
  <2>1. v \in (played + 1)..out /\ v /= Block(1)
    BY <1>1, <1>2, <1>6
  <2>2. PICK k \in DOMAIN queue : Block(k) = v
    BY <1>4, <2>1
  <2>3. k - 1 \in DOMAIN queue' /\ (k - 1) + 1 = k
    BY <1>2, <2>1, <2>2
  <2> QED BY <1>5, <2>2, <2>3
<1>10. played' <= out
  BY <1>1, <1>4, <1>6
<1>11. \A k : AgeOf(queue[k])' = AgeOf(queue'[k])
  BY <1>1 DEF AgeOf
<1> QED BY <1>1, <1>3, <1>6, <1>7, <1>8, <1>9, <1>10, <1>11 DEF Carried

\* The callback has emitted a block, which it has in hand.
LEMMA CarriedEmitted ==
  ASSUME IInv, ProduceBlock, Whole
  PROVE  Carried' /\ out' = out + 1 /\ out - played < NumBuf
<1>1. /\ TypeOK /\ Staged /\ InOrder /\ Carried
      /\ queue' = queue /\ cb = "called" /\ cb' = "fill" /\ buf_idx' = buf_idx /\ bufs' = bufs
      /\ out' = out + 1 /\ scratch' = out + 1 /\ played' = played
      /\ out \in Nat /\ played \in Nat
  BY DEF IInv, ProduceBlock, TypeOK, pastVars
<1>2. \A k \in DOMAIN queue : queue[k] \in Ring
  BY <1>1 DEF TypeOK
<1>3. \A k \in DOMAIN queue : AgeOf(queue[k]) \in Nat /\ AgeOf(queue[k]) <= NumBuf - 1
  <2> SUFFICES ASSUME NEW k \in DOMAIN queue
               PROVE  AgeOf(queue[k]) \in Nat /\ AgeOf(queue[k]) <= NumBuf - 1
    OBVIOUS
  <2>1. queue[k] \in Ring /\ queue[k] /= buf_idx
    BY <1>1, <1>2 DEF InOrder
  <2>2. NumBuf \in Nat \ {0} /\ buf_idx \in 0..(NumBuf - 1)
    BY <1>1, PlayerAssumption DEF TypeOK, Ring
  <2>3. /\ AgeOf(queue[k]) \in 1..NumBuf
        /\ AgeOf(queue[k]) = NumBuf <=> queue[k] = buf_idx
    BY <2>1, <2>2, AgeBounds DEF AgeOf, Ring
  <2> HIDE DEF AgeOf
  <2> QED BY <2>1, <2>2, <2>3
<1>4. ~InHand /\ InHand'
  BY <1>1 DEF InHand
<1>5. \A k \in DOMAIN queue : Block(k) \in Nat
  BY <1>1, <1>2 DEF TypeOK, Block
<1>6. /\ played <= out
      /\ \A k \in DOMAIN queue : Block(k) /= 0 =>
           played < Block(k) /\ Block(k) <= out /\ out - Block(k) < AgeOf(queue[k])
      /\ \A j, k \in DOMAIN queue : j < k /\ Block(j) /= 0 /\ Block(k) /= 0 => Block(j) < Block(k)
      /\ \A v \in (played + 1)..out : \E k \in DOMAIN queue : Block(k) = v
  BY <1>1, <1>4 DEF Carried, Whole
<1>7. out - played < NumBuf
  <2>1. CASE out = played
    BY <2>1, <1>1, PlayerAssumption
  <2>2. CASE out > played
    <3>1. PICK k \in DOMAIN queue : Block(k) = played + 1
      BY <1>1, <1>6, <2>2
    <3>2. out - (played + 1) < AgeOf(queue[k])
      BY <1>1, <1>6, <3>1
    <3> QED BY <1>1, <1>3, <3>2, PlayerAssumption
  <2> QED BY <1>1, <1>6, <2>1, <2>2
<1>8. \A k \in DOMAIN queue : Block(k)' = Block(k) /\ AgeOf(queue[k])' = AgeOf(queue[k])
  BY <1>1 DEF Block, AgeOf
<1>9. \A k \in DOMAIN queue : Block(k) /= 0 =>
        /\ played < Block(k) /\ Block(k) <= out + 1 /\ Block(k) < out + 1
        /\ (out + 1) - Block(k) < AgeOf(queue[k]) + 1
  BY <1>1, <1>3, <1>5, <1>6
<1>10. \A v \in (played + 1)..(out + 1) : v = out + 1 \/ \E k \in DOMAIN queue : Block(k) = v
  BY <1>1, <1>6
<1> QED BY <1>1, <1>4, <1>6, <1>7, <1>8, <1>9, <1>10 DEF Carried

\* The callback has enqueued what it had in hand, block or silence.
LEMMA CarriedFilled ==
  ASSUME IInv, Fill, Whole
  PROVE  Carried'
<1>1. /\ TypeOK /\ Staged /\ InOrder /\ Carried
      /\ cb = "fill" /\ cb' = "idle" /\ buf_idx' = NextIdx
      /\ bufs' = [bufs EXCEPT ![buf_idx] = scratch]
      /\ out' = out /\ played' = played /\ stage' = stage
      /\ out \in Nat /\ played \in Nat /\ scratch \in Nat /\ buf_idx \in Ring
      /\ bufs \in [Ring -> Nat]
  BY DEF IInv, Fill, FillWith, TypeOK, encVars, pastVars
<1>2. CASE refused'
  BY <1>2 DEF Carried
<1>3. CASE queue' = Append(queue, buf_idx)
  <2> DEFINE n == Len(queue) + 1
             NewAge(i) == Age(NumBuf, NextIdx, i)
             NewBlock(k) == IF k = n THEN scratch ELSE Block(k)
  <2>1. /\ DOMAIN queue' = 1..n /\ DOMAIN queue = 1..Len(queue) /\ Len(queue) \in Nat
        /\ queue'[n] = buf_idx
        /\ \A k \in DOMAIN queue : queue'[k] = queue[k] /\ queue[k] \in Ring
    BY <1>1, <1>3 DEF TypeOK
  <2>2. \A k \in DOMAIN queue : queue[k] /= buf_idx
    BY <1>1 DEF InOrder
  <2>3. \A i \in Ring : NewAge(i) = IF i = buf_idx THEN 1 ELSE AgeOf(i) + 1
    BY <1>1, AgeNext, PlayerAssumption DEF AgeOf, NextIdx, Ring
  <2>4. \A i \in Ring : AgeOf(i) \in Nat
    BY <1>1, AgesInRing
  <2>5. \A k \in DOMAIN queue' : Block(k)' = NewBlock(k)
    BY <1>1, <2>1, <2>2 DEF Block
  <2>6. \A k \in DOMAIN queue : Block(k) \in Nat
    BY <1>1, <2>1 DEF Block
  <2> HIDE DEF NewAge
  <2>7. NewAge(queue'[n]) = 1 /\ \A k \in DOMAIN queue : NewAge(queue'[k]) = AgeOf(queue[k]) + 1
    BY <1>1, <2>1, <2>2, <2>3
  <2>8. /\ played <= out
        /\ scratch /= 0 => scratch = out /\ played < out
        /\ \A k \in DOMAIN queue : Block(k) /= 0 =>
             /\ played < Block(k) /\ Block(k) <= out
             /\ out - Block(k) < AgeOf(queue[k]) + 1
             /\ scratch /= 0 => Block(k) < out
        /\ \A j, k \in DOMAIN queue :
             j < k /\ Block(j) /= 0 /\ Block(k) /= 0 => Block(j) < Block(k)
        /\ \A v \in (played + 1)..out :
             (scratch /= 0 /\ v = out) \/ \E k \in DOMAIN queue : Block(k) = v
    <3>1. InHand <=> scratch /= 0
      BY <1>1 DEF InHand
    <3>2. \A k \in DOMAIN queue : AgeOf(queue[k]) \in Nat
      BY <2>1, <2>4
    <3> QED BY <1>1, <2>6, <3>1, <3>2 DEF Carried, Whole
  <2>9. \A k \in DOMAIN queue' : NewBlock(k) /= 0 =>
          played < NewBlock(k) /\ NewBlock(k) <= out /\ out - NewBlock(k) < NewAge(queue'[k])
    BY <1>1, <2>1, <2>6, <2>7, <2>8
  <2>10. \A j, k \in DOMAIN queue' :
           j < k /\ NewBlock(j) /= 0 /\ NewBlock(k) /= 0 => NewBlock(j) < NewBlock(k)
    BY <1>1, <2>1, <2>6, <2>8
  <2>11. \A v \in (played + 1)..out : \E k \in DOMAIN queue' : NewBlock(k) = v
    <3> SUFFICES ASSUME NEW v \in (played + 1)..out PROVE \E k \in DOMAIN queue' : NewBlock(k) = v
      OBVIOUS
    <3>1. CASE scratch /= 0 /\ v = out
      <4>1. n \in DOMAIN queue' /\ NewBlock(n) = v
        BY <2>1, <2>8, <3>1
      <4> QED BY <4>1
    <3>2. CASE \E k \in DOMAIN queue : Block(k) = v
      <4>1. PICK k \in DOMAIN queue : Block(k) = v
        BY <3>2
      <4>2. k \in DOMAIN queue' /\ NewBlock(k) = v
        BY <2>1, <4>1
      <4> QED BY <4>2
    <3> QED BY <2>8, <3>1, <3>2
  <2> HIDE DEF NewBlock
  <2>12. ~InHand'
    BY <1>1 DEF InHand
  <2>13. \A k \in DOMAIN queue' : AgeOf(queue[k])' = NewAge(queue'[k])
    BY <1>1 DEF AgeOf, NewAge
  <2> QED BY <1>1, <2>5, <2>8, <2>9, <2>10, <2>11, <2>12, <2>13 DEF Carried
<1> QED BY <1>2, <1>3 DEF Fill, FillWith

LEMMA CarriedStep == ASSUME IInv, Next PROVE Carried'
<1>0. TypeOK /\ Staged /\ Carried
  BY DEF IInv
<1>1. CASE Allocate \/ CreateAudioPlayer \/ RegisterCallback
  <2>1. queue' = <<>> /\ cb' = "idle" /\ out' = 0 /\ played' = 0
    BY <1>0, <1>1
       DEF Allocate, CreateAudioPlayer, RegisterCallback, Staged, ringVars, encVars, pastVars
  <2> QED BY <2>1 DEF Carried, InHand
<1>2. CASE BufferDone
  <2>1. CASE Whole
    BY <1>2, <2>1, CarriedDone
  <2>2. CASE ~Whole
    <3>1. ~Whole'
      BY <1>2, <2>2 DEF BufferDone, Whole
    <3> QED BY <3>1 DEF Whole, Carried
  <2> QED BY <2>1, <2>2
<1>3. CASE ProduceBlock
  <2>1. CASE Whole
    BY <1>3, <2>1, CarriedEmitted
  <2>2. CASE ~Whole
    <3>1. ~Whole'
      BY <1>3, <2>2 DEF ProduceBlock, Whole, pastVars
    <3> QED BY <3>1 DEF Whole, Carried
  <2> QED BY <2>1, <2>2
<1>4. CASE Fill
  <2>1. CASE Whole
    BY <1>4, <2>1, CarriedFilled
  <2>2. CASE ~Whole
    <3>1. ~Whole'
      BY <1>4, <2>2 DEF Fill, FillWith, Whole
    <3> QED BY <3>1 DEF Whole, Carried
  <2> QED BY <2>1, <2>2
<1>5. CASE ProduceSilence \/ ProduceEOF \/ EOF \/ Prime
  <2>1. /\ queue' = queue /\ bufs' = bufs /\ buf_idx' = buf_idx /\ out' = out /\ played' = played
        /\ stage' = stage /\ refused' = refused
    BY <1>5 DEF ProduceSilence, ProduceEOF, EOF, StopAtEOF, Prime, encVars, SetStopped, Stopping, pastVars
  <2>2. ~InHand /\ ~InHand'
    BY <1>5 DEF ProduceSilence, ProduceEOF, EOF, StopAtEOF, Prime, InHand, SetStopped, Stopping
  <2> QED BY <1>0, <2>1, <2>2 DEF Carried, Block, AgeOf
<1>6. CASE DestroyPlayer
  BY <1>6 DEF DestroyPlayer, Carried
<1>7. CASE StartPlaying \/ CreateFails \/ Halt \/ User \/ Terminating \/ DestroyEncoder \/ DestroyProducer
  <2>1. /\ UNCHANGED <<queue, bufs, buf_idx, cb, scratch, out, played, refused>>
        /\ stage' \notin {"none", "noplayer", "noencoder"} =>
             stage \notin {"none", "noplayer", "noencoder"}
    BY <1>7 DEF StartPlaying, CreateFails, Halt, User, Send, Close, Terminate, Finalize, Terminating,
                StopPlayer, StopWith, PollStopped, PollFails, DestroyEncoder, DestroyProducer, ringVars, encVars, SetStopped, Stopping, pastVars
  <2> QED BY <1>0, <2>1 DEF Carried, Block, AgeOf, InHand
<1> QED
  BY <1>1, <1>2, <1>3, <1>4, <1>5, <1>6, <1>7 DEF Next, Construct, Callback, Destroy

LEMMA Safe == Spec => []IInv
<1>1. IInv /\ [Next]_vars => IInv'
  <2>1. IInv /\ Next => IInv'
    BY Typed, StagedStep, InOrderStep, CarriedStep DEF IInv
  <2>2. IInv /\ UNCHANGED vars => IInv'
    BY DEF IInv, TypeOK, Staged, InOrder, Carried, InHand, Block, AgeOf, vars, ringVars, encVars, pastVars
  <2> QED BY <2>1, <2>2
<1> QED BY <1>1, InitInv, PTL DEF Spec

-----------------------------------------------------------------------------
\* Every variable of the player keeps its type.
THEOREM PlayerTypeCorrect == Spec => []TypeOK
<1>1. IInv => TypeOK
  BY DEF IInv
<1> QED BY <1>1, Safe, PTL

\* The callback never writes into a buffer that OpenSL has on its queue.
THEOREM PlayerNeverOverwrites == Spec => []NeverOverwritten
<1>1. IInv => NeverOverwritten
  BY DEF IInv, InOrder, NeverOverwritten
<1> QED BY <1>1, Safe, PTL

\* What is in flight, place by place.
LEMMA FlightPlaces ==
  ASSUME TypeOK
  PROVE  /\ Len(queue) \in Nat /\ DOMAIN queue = 1..Len(queue)
         /\ DOMAIN InFlight = IF cb = "fill" THEN 1..(Len(queue) + 1) ELSE 1..Len(queue)
         /\ \A k \in DOMAIN queue : InFlight[k] = Block(k)
         /\ cb = "fill" => InFlight[Len(queue) + 1] = scratch
<1> DEFINE q == [k \in DOMAIN queue |-> bufs[queue[k]]]
           h == IF cb = "fill" THEN <<scratch>> ELSE <<>>
<1>1. /\ Len(queue) \in Nat /\ DOMAIN queue = 1..Len(queue)
      /\ \A k \in DOMAIN queue : queue[k] \in Ring
  BY DEF TypeOK
<1>2. q \in Seq(Nat) /\ Len(q) = Len(queue)
  BY <1>1 DEF TypeOK
<1>3. h \in Seq(Nat) /\ (cb = "fill" => Len(h) = 1 /\ h[1] = scratch) /\ (cb /= "fill" => Len(h) = 0)
  BY DEF TypeOK
<1>4. \A k \in DOMAIN queue : q[k] = Block(k)
  BY DEF Block
<1>5. InFlight = q \o h
  BY DEF InFlight
<1> HIDE DEF q, h
<1>6. /\ InFlight \in Seq(Nat) /\ Len(InFlight) = Len(q) + Len(h)
      /\ \A k \in 1..(Len(q) + Len(h)) :
           InFlight[k] = IF k <= Len(q) THEN q[k] ELSE h[k - Len(q)]
  BY <1>2, <1>3, <1>5, ConcatProperties
<1>7. \A k \in 1..Len(queue) : InFlight[k] = q[k]
  <2> SUFFICES ASSUME NEW k \in 1..Len(queue) PROVE InFlight[k] = q[k]
    OBVIOUS
  <2>1. Len(h) \in Nat
    BY ONLY <1>3, LenProperties
  <2>2. k \in 1..(Len(q) + Len(h)) /\ k <= Len(q)
    BY ONLY <1>1, <1>2, <2>1
  <2>3. InFlight[k] = IF k <= Len(q) THEN q[k] ELSE h[k - Len(q)]
    BY ONLY <1>6, <2>2, Zenon
  <2> QED BY ONLY <2>2, <2>3, Zenon
<1>8. cb = "fill" => /\ InFlight[Len(queue) + 1] = scratch
                    /\ Len(InFlight) = Len(queue) + 1
  <2> SUFFICES ASSUME cb = "fill" PROVE InFlight[Len(queue) + 1] = scratch /\ Len(InFlight) = Len(queue) + 1
    OBVIOUS
  <2>1. Len(h) = 1 /\ h[1] = scratch
    BY <1>3
  <2>2. Len(queue) + 1 \in 1..(Len(q) + Len(h)) /\ (Len(queue) + 1) - Len(q) = 1
    BY ONLY <1>1, <1>2, <2>1
  <2>3. InFlight[Len(queue) + 1] = IF Len(queue) + 1 <= Len(q) THEN q[Len(queue) + 1]
                                                               ELSE h[(Len(queue) + 1) - Len(q)]
    BY ONLY <1>6, <2>2, Zenon
  <2>4. ~(Len(queue) + 1 <= Len(q))
    BY ONLY <1>1, <1>2
  <2>5. InFlight[Len(queue) + 1] = h[1]
    BY ONLY <2>2, <2>3, <2>4, Zenon
  <2>6. Len(InFlight) = Len(queue) + 1
    BY ONLY <1>2, <1>6, <2>1
  <2> QED BY ONLY <2>1, <2>5, <2>6, Zenon
<1>9. cb /= "fill" => Len(InFlight) = Len(queue)
  BY ONLY <1>1, <1>2, <1>3, <1>6
<1>10. DOMAIN InFlight = IF cb = "fill" THEN 1..(Len(queue) + 1) ELSE 1..Len(queue)
  <2>1. DOMAIN InFlight = 1..Len(InFlight)
    BY <1>6
  <2> QED BY ONLY <1>8, <1>9, <2>1
<1>11. \A k \in DOMAIN queue : InFlight[k] = Block(k)
  BY ONLY <1>1, <1>4, <1>7
<1> QED BY ONLY <1>1, <1>8, <1>10, <1>11

\* What is in flight is what was emitted and not played, each block once and in order.
THEOREM PlayerLosesNothing == Spec => []NothingLost
<1>1. ASSUME IInv PROVE NothingLost
  <2> SUFFICES ASSUME ~refused, stage \in {"priming", "open", "freeing"}
               PROVE  /\ {InFlight[k] : k \in DOMAIN InFlight} \ {0} = (played + 1)..out
                      /\ \A j, k \in DOMAIN InFlight :
                           j < k /\ InFlight[j] /= 0 /\ InFlight[k] /= 0 => InFlight[j] < InFlight[k]
    BY DEF NothingLost
  <2> DEFINE n == Len(queue)
  <2>1. /\ n \in Nat /\ DOMAIN queue = 1..n
        /\ DOMAIN InFlight = IF cb = "fill" THEN 1..(n + 1) ELSE 1..n
        /\ \A k \in 1..n : InFlight[k] = Block(k)
        /\ cb = "fill" => InFlight[n + 1] = scratch
    BY <1>1, FlightPlaces DEF IInv
  <2>2. /\ played \in Nat /\ out \in Nat /\ scratch \in Nat
        /\ InHand <=> (cb = "fill" /\ scratch /= 0)
        /\ \A k \in 1..n : Block(k) \in Nat
    BY <1>1, <2>1 DEF IInv, TypeOK, Block, InHand
  <2>3. /\ InHand => scratch = out /\ played < out
        /\ \A k \in 1..n : Block(k) /= 0 =>
             played < Block(k) /\ Block(k) <= out /\ (InHand => Block(k) < out)
        /\ \A j, k \in 1..n : j < k /\ Block(j) /= 0 /\ Block(k) /= 0 => Block(j) < Block(k)
        /\ \A v \in (played + 1)..out : (InHand /\ v = out) \/ \E k \in 1..n : Block(k) = v
    BY <1>1, <2>1 DEF IInv, Carried
  <2> HIDE DEF n
  <2>4. \A k \in DOMAIN InFlight : k \in 1..n \/ (cb = "fill" /\ k = n + 1)
    BY ONLY <2>1
  <2>5. ASSUME NEW k \in DOMAIN InFlight, InFlight[k] /= 0
        PROVE  InFlight[k] \in (played + 1)..out
    <3>1. CASE k \in 1..n
      BY ONLY <2>1, <2>2, <2>3, <2>5, <3>1
    <3>2. CASE cb = "fill" /\ k = n + 1
      BY ONLY <2>1, <2>2, <2>3, <2>5, <3>2
    <3> QED BY <2>4, <3>1, <3>2
  <2>6. ASSUME NEW v \in (played + 1)..out
        PROVE  v /= 0 /\ \E k \in DOMAIN InFlight : InFlight[k] = v
    <3>1. CASE InHand /\ v = out
      <4>1. n + 1 \in DOMAIN InFlight /\ InFlight[n + 1] = v
        BY ONLY <2>1, <2>2, <2>3, <3>1
      <4> QED BY <2>2, <4>1
    <3>2. CASE \E k \in 1..n : Block(k) = v
      <4>1. PICK k \in 1..n : Block(k) = v
        BY <3>2
      <4>2. k \in DOMAIN InFlight /\ InFlight[k] = v
        BY ONLY <2>1, <4>1
      <4> QED BY <2>2, <4>2
    <3> QED BY <2>3, <3>1, <3>2
  <2>7. ASSUME NEW j \in DOMAIN InFlight, NEW k \in DOMAIN InFlight,
               j < k, InFlight[j] /= 0, InFlight[k] /= 0
        PROVE  InFlight[j] < InFlight[k]
    <3>1. j \in 1..n
      BY <2>1, <2>4, <2>7
    <3>2. CASE k \in 1..n
      BY ONLY <2>1, <2>3, <2>7, <3>1, <3>2
    <3>3. CASE cb = "fill" /\ k = n + 1
      BY ONLY <2>1, <2>2, <2>3, <2>7, <3>1, <3>3
    <3> QED BY <2>4, <3>2, <3>3
  <2>8. {InFlight[k] : k \in DOMAIN InFlight} \ {0} = (played + 1)..out
    BY ONLY <2>5, <2>6
  <2> QED BY <2>7, <2>8
<1>2. IInv => NothingLost
  BY <1>1
<1> QED BY <1>2, Safe, PTL

\* The callback runs only while the player and what it uses exist.
THEOREM PlayerCallbackAlive == Spec => []CallbackAlive
<1>1. IInv => CallbackAlive
  BY DEF IInv, Staged, CallbackAlive
<1> QED BY <1>1, Safe, PTL

\* The callback stops the player only when every block that was sent has been played.
THEOREM PlayerStopsFlushed == Spec => StopsFlushed
<1> DEFINE Flushed ==
      (cb = "eof" /\ cb' = "idle" /\ play = "PLAYING" /\ play' /= "PLAYING")
        => queue = <<>> /\ (refused \/ played = sent)
<1>1. ASSUME IInv, Next PROVE Flushed
  <2> SUFFICES ASSUME cb = "eof", cb' = "idle", play = "PLAYING", play' /= "PLAYING"
               PROVE  queue = <<>> /\ (refused \/ played = sent)
    OBVIOUS
  <2>1. EOF
    BY <1>1 DEF Next, Construct, Allocate, CreateAudioPlayer, RegisterCallback, Prime,
                StartPlaying, CreateFails, BufferDone, Callback, ProduceBlock, ProduceSilence,
                ProduceEOF, Fill, FillWith, User, Send, Close, Terminate, Finalize, Terminating,
                StopPlayer, StopWith, PollStopped, PollFails, Destroy, DestroyPlayer, DestroyEncoder,
                DestroyProducer, ringVars, SetStopped, Stopping, Halt
  <2>2. queue = <<>>
    BY <1>1, <2>1 DEF EOF, StopAtEOF, IInv, TypeOK, SetStopped, Stopping
  <2>3. out = sent /\ out \in Nat /\ played \in Nat /\ ~InHand
    BY <1>1 DEF IInv, Staged, TypeOK, InHand
  <2>4. ~refused => played <= out /\ \A v \in (played + 1)..out : FALSE
    BY <1>1, <2>2, <2>3 DEF IInv, Staged, Carried
  <2> QED BY <2>2, <2>3, <2>4
<1>2. IInv /\ [Next]_vars => [Flushed]_vars
  BY <1>1
<1>3. StopsFlushed <=> [][Flushed]_vars
  BY DEF StopsFlushed
<1> HIDE DEF Flushed
<1> QED BY <1>2, <1>3, Safe, PTL DEF Spec

\* Until OpenSL refuses a buffer, the player is a pipe of NumBuf blocks.
THEOREM PlayerIsPipe == Spec => ImplementsPipe
<1> DEFINE in == IF refused THEN 0 ELSE out
           gone == IF refused THEN 0 ELSE played
           Piped == Loudspeaker!PipeNext \/ (in' = in /\ gone' = gone)
<1>1. Init => Loudspeaker!PipeInit
  BY DEF Init, Loudspeaker!PipeInit
<1>2. ASSUME IInv, Next PROVE Piped
  <2>1. CASE in' = 0 /\ gone' = 0
    BY <2>1 DEF Loudspeaker!PipeNext, Loudspeaker!Renew
  <2>2. CASE UNCHANGED <<out, played, refused>>
    BY <2>2
  <2>3. CASE refused \/ refused' \/ Allocate
    <3>1. Allocate => ~refused' /\ out' = 0 /\ played' = 0
      BY DEF Allocate
    <3>2. Allocate \/ refused'
      BY <1>2, <2>3 DEF Next, Construct, CreateAudioPlayer, RegisterCallback, Prime,
                StartPlaying, CreateFails, BufferDone, Callback, ProduceBlock, ProduceSilence,
                ProduceEOF, Fill, FillWith, EOF, StopAtEOF, User, Send, Close, Terminate,
                Finalize, Terminating, StopPlayer, StopWith, PollStopped, PollFails, Destroy, DestroyPlayer,
                DestroyEncoder, DestroyProducer, ringVars, encVars, SetStopped, Stopping, pastVars, Halt
    <3> QED BY <2>1, <3>1, <3>2
  <2>4. CASE BufferDone /\ ~refused
    <3>1. Whole /\ ~refused' /\ out' = out
      BY <1>2, <2>4 DEF Whole, BufferDone, IInv, Staged, encVars, pastVars
    <3>2. played' = played \/ (played < out /\ played' = played + 1)
      BY <1>2, <2>4, <3>1, CarriedDone
    <3> QED BY <2>4, <3>1, <3>2 DEF Loudspeaker!PipeNext, Loudspeaker!Leave
  <2>5. CASE ProduceBlock /\ ~refused
    <3>1. Whole /\ ~refused' /\ played' = played
      BY <1>2, <2>5 DEF Whole, ProduceBlock, IInv, Staged, pastVars
    <3>2. out' = out + 1 /\ out - played < NumBuf
      BY <1>2, <2>5, <3>1, CarriedEmitted
    <3> QED BY <2>5, <3>1, <3>2 DEF Loudspeaker!PipeNext, Loudspeaker!Enter
  <2>6. CASE ~refused /\ ~refused' /\ ~Allocate /\ ~BufferDone /\ ~ProduceBlock
    <3>1. UNCHANGED <<out, played>>
      BY <1>2, <2>6 DEF Next, Construct, CreateAudioPlayer, RegisterCallback, Prime,
                StartPlaying, CreateFails, Callback, ProduceSilence, ProduceEOF, Fill,
                FillWith, EOF, StopAtEOF, User, Send, Close, Terminate, Finalize, Terminating,
                StopPlayer, StopWith, PollStopped, PollFails, Destroy, DestroyPlayer, DestroyEncoder,
                DestroyProducer, encVars, SetStopped, Stopping, pastVars, Halt
    <3> QED BY <2>6, <3>1
  <2> QED BY <2>3, <2>4, <2>5, <2>6
<1>3. ASSUME IInv, UNCHANGED vars PROVE Piped
  BY <1>3 DEF vars, encVars, pastVars
<1>4. IInv /\ [Next]_vars => [Loudspeaker!PipeNext]_<<in, gone>>
  BY <1>2, <1>3
<1>5. ImplementsPipe <=> Loudspeaker!PipeInit /\ [][Loudspeaker!PipeNext]_<<in, gone>>
  BY DEF ImplementsPipe, Loudspeaker!PipeSpec
<1> HIDE DEF in, gone, Piped
<1> QED BY <1>1, <1>4, <1>5, Safe, PTL DEF Spec

-----------------------------------------------------------------------------
(* What the owner of the transmitter is promised.                           *)

\* Nothing is sent or closed before the constructor has returned, and nothing stops an open
\* player that was not closed.
Fresh ==
  /\ stage \in {"allocated", "object", "priming"} => ~closed /\ sent = 0 /\ out = 0
  /\ term /= "idle" => closed /\ stage = "open"
  /\ stage = "open" /\ play /= "PLAYING" => closed

LEMMA FreshStep == ASSUME IInv, Fresh, [Next]_vars PROVE Fresh'
<1>0. TypeOK /\ Staged
  BY DEF IInv
<1> USE <1>0 DEF Fresh, TypeOK, Staged, ringVars, encVars, pastVars
<1>1. CASE Construct \/ CreateFails
  BY <1>1 DEF Construct, Allocate, CreateAudioPlayer, RegisterCallback, Prime, StartPlaying, CreateFails
<1>2. CASE BufferDone \/ Callback \/ Halt
  BY <1>2 DEF BufferDone, Callback, Halt, ProduceBlock, ProduceSilence, ProduceEOF, Fill, FillWith, EOF, StopAtEOF, SetStopped, Stopping
<1>3. CASE User \/ Terminating \/ Destroy
  BY <1>3 DEF User, Send, Close, Terminate, Finalize, Terminating, StopPlayer, StopWith, PollStopped, PollFails,
       Destroy, DestroyPlayer, DestroyEncoder, DestroyProducer, SetStopped, Stopping
<1>4. CASE UNCHANGED vars
  BY <1>4 DEF vars, pastVars
<1> QED BY <1>1, <1>2, <1>3, <1>4 DEF Next

\* Every step is one of an audio system, or does not concern it.
LEMMA NextSource ==
  ASSUME IInv, Fresh, Next
  PROVE  Playing!SourceStep("player") \/ UNCHANGED Playing!sourceVars
<1> DEFINE On == play /= "STOPPED" \/ (cb /= "idle" /\ stage /= "priming")
           Mine == stage /= "open" \/ term = "stop" \/ (play /= "PLAYING" /\ out < sent)
<1>1. /\ Speaking = IF On THEN {"player"} ELSE {}
      /\ Speaking' = IF On' THEN {"player"} ELSE {}
      /\ Waiting = IF out < sent THEN {"player"} ELSE {}
      /\ Waiting' = IF out' < sent' THEN {"player"} ELSE {}
      /\ Ended = IF closed THEN {"player"} ELSE {}
      /\ Ended' = IF closed' THEN {"player"} ELSE {}
      /\ Held = IF Mine THEN {"player"} ELSE {}
      /\ Held' = IF Mine' THEN {"player"} ELSE {}
  BY DEF Speaking, Waiting, Ended, Held, When
<1>2. /\ TypeOK /\ Staged /\ sent \in Nat /\ out \in 0..sent /\ play \in {"STOPPED", "PLAYING", "STOPPING"}
      /\ closed \in BOOLEAN
  BY DEF IInv, TypeOK
<1> USE DEF ringVars, encVars, pastVars
<1>3. CASE Allocate
  <2>1. ~On /\ ~On' /\ Mine /\ Mine' /\ ~(out' < sent') /\ ~closed'
    BY <1>2, <1>3 DEF Allocate, Staged
  <2> HIDE DEF On, Mine
  <2> QED BY <1>1, <2>1 DEF Playing!SourceStep, Playing!Make
<1>4. CASE StartPlaying
  <2>1. ~On /\ On' /\ Mine /\ out' = out /\ sent' = sent /\ closed' = closed /\ ~closed
    BY <1>2, <1>4 DEF StartPlaying, Staged, Fresh
  <2> HIDE DEF On, Mine
  <2> QED BY <1>1, <2>1 DEF Playing!SourceStep, Playing!Begin
<1>5. CASE Send
  <2>1. On' = On /\ Mine' = Mine /\ out' < sent' /\ closed' = closed /\ ~closed
    BY <1>2, <1>5 DEF Send, Fresh
  <2> HIDE DEF On, Mine
  <2> QED BY <1>1, <2>1 DEF Playing!SourceStep, Playing!Offer
<1>6. CASE Close \/ Terminate
  <2>1. On' = On /\ (Mine => Mine') /\ out' = out /\ sent' = sent /\ closed'
    BY <1>2, <1>6 DEF Close, Terminate, Fresh
  <2> HIDE DEF On, Mine
  <2> QED BY <1>1, <2>1 DEF Playing!SourceStep, Playing!End
<1>7. CASE Finalize
  <2>1. On' = On /\ Mine' /\ out' = out /\ sent' = sent /\ closed' = closed
    BY <1>2, <1>7 DEF Finalize
  <2> HIDE DEF On, Mine
  <2> QED BY <1>1, <2>1 DEF Playing!SourceStep, Playing!TakeBack
<1>8. CASE ProduceBlock
  <2>1. /\ On /\ On' /\ out < sent /\ out' = out + 1 /\ sent' = sent /\ closed' = closed
        /\ Mine' => Mine
        /\ out' < sent' => Mine' = Mine
    BY <1>2, <1>8 DEF ProduceBlock, Fresh
  <2> HIDE DEF On, Mine
  <2> QED BY <1>1, <2>1 DEF Playing!SourceStep, Playing!Pull
<1>9. CASE DestroyPlayer
  <2>1. ~On' /\ Mine /\ Mine' /\ out' = out /\ sent' = sent /\ closed' = closed
    BY <1>2, <1>9 DEF DestroyPlayer
  <2> HIDE DEF On, Mine
  <2> QED BY <1>1, <2>1 DEF Playing!SourceStep, Playing!Cut
<1>10. CASE StopPlayer
  <2>1. /\ On' = On /\ (Mine' => Mine)
        /\ out' = out /\ sent' = sent /\ closed' = closed
    BY <1>2, <1>10 DEF StopPlayer, StopWith, SetStopped, Stopping
  <2> HIDE DEF On, Mine
  <2> QED BY <1>1, <2>1 DEF Playing!SourceStep, Playing!LetGo, Playing!sourceVars
<1>11. CASE EOF \/ Fill \/ Halt
  <2>1. UNCHANGED <<out, sent, closed>>
    BY <1>11 DEF EOF, StopAtEOF, Fill, FillWith, Halt
  <2>2. (Mine' <=> Mine) /\ (On' => On) /\ (On => On' \/ Mine \/ (closed /\ ~(out < sent)))
    <3>1. CASE EOF
      <4>1. /\ cb = "eof" /\ cb' = "idle" /\ stage' = stage /\ term' = term
            /\ closed /\ out = sent /\ stage /= "priming"
        BY <1>2, <3>1 DEF EOF, StopAtEOF, Staged, Fresh
      <4> QED BY <1>2, <2>1, <4>1
    <3>2. CASE Fill
      <4>1. /\ cb = "fill" /\ cb' = "idle" /\ UNCHANGED <<stage, term, play>>
        BY <3>2 DEF Fill, FillWith
      <4> QED BY <1>2, <2>1, <4>1 DEF Fresh
    <3>3. CASE Halt
      <4>1. /\ play = "STOPPING" /\ play' = "STOPPED" /\ UNCHANGED <<stage, term, cb>>
            /\ stage /= "priming"
        BY <1>2, <3>3 DEF Halt, Staged
      <4> QED BY <1>2, <2>1, <4>1 DEF Fresh
    <3> QED BY <1>11, <3>1, <3>2, <3>3
  <2> HIDE DEF On, Mine
  <2> QED
    BY <1>1, <2>1, <2>2 DEF Playing!SourceStep, Playing!Cut, Playing!Drop, Playing!sourceVars
<1>12. CASE \/ CreateAudioPlayer \/ RegisterCallback \/ Prime \/ CreateFails \/ BufferDone
            \/ ProduceSilence \/ ProduceEOF \/ PollStopped \/ PollFails \/ DestroyEncoder
            \/ DestroyProducer
  <2>1. On' = On /\ Mine' = Mine /\ out' = out /\ sent' = sent /\ closed' = closed
    BY <1>2, <1>12 DEF CreateAudioPlayer, RegisterCallback, Prime, CreateFails, BufferDone,
         ProduceSilence, ProduceEOF, PollStopped, PollFails, DestroyEncoder, DestroyProducer, Staged
  <2> HIDE DEF On, Mine
  <2> QED BY <1>1, <2>1 DEF Playing!sourceVars
<1> QED
  BY <1>3, <1>4, <1>5, <1>6, <1>7, <1>8, <1>9, <1>10, <1>11, <1>12
     DEF Next, Construct, Callback, User, Terminating, Destroy

\* The player, its callback and its owners together treat the transmitter as Source says, even
\* after OpenSL has refused a buffer or to stop, and while a terminate and the callback overlap.
THEOREM PlayerIsSource == Spec => ImplementsSource
<1>1. Init => Fresh /\ Playing!SourceInit
  BY DEF Init, Fresh, Playing!SourceInit, Speaking, Waiting, Ended, Held, When
<1>2. IInv /\ Fresh /\ [Next]_vars => Fresh'
  BY FreshStep
<1>3. IInv /\ Fresh /\ [Next]_vars => [Playing!SourceNext]_(Playing!sourceVars)
  <2>1. UNCHANGED vars => UNCHANGED Playing!sourceVars
    BY DEF vars, ringVars, encVars, Playing!sourceVars, Speaking, Waiting, Ended, Held, When, pastVars
  <2> QED BY <2>1, NextSource DEF Playing!SourceNext
<1> QED BY <1>1, <1>2, <1>3, Safe, PTL DEF Spec, ImplementsSource, Playing!SourceSpec

-----------------------------------------------------------------------------
(* Why a closed player comes to a stop.                                     *)

\* A player that plays always has a buffer on its queue or its callback under way, unless it
\* is starved; and who polls for the end of playback does so only after OpenSL has agreed to it.
NeverDry ==
  /\ play = "PLAYING" /\ cb = "idle" /\ queue = <<>> => Starved
  /\ term = "poll" => play /= "PLAYING"

\* What the callback and the sound card have still to do for a closed player: three steps for
\* each block and each buffer, less what has been done of the callback under way.
WorkLeft ==
  3 * (sent - out) + 3 * Len(queue) +
    (CASE cb = "idle" -> 0 [] cb = "eof" -> 1 [] cb = "called" -> 2 [] cb = "fill" -> 4)

\* Every step they take brings a closed player nearer to its end, whether it plays blocks or the
\* silence queued before them, and no other step takes it further away.
WindsDown ==
  [][closed /\ stage = "open" =>
       (WorkLeft' < WorkLeft \/ UNCHANGED <<cb, queue, sent, out>>)]_vars

\* Priming enqueues every buffer, and each callback takes one off the queue and puts one on.
Fed ==
  /\ stage \in {"allocated", "object"} => primed = 0
  /\ ~refused /\ stage = "priming" => Len(queue) = IF cb = "idle" THEN primed ELSE primed - 1
  /\ NeverDry

FedInv == IInv /\ Fresh /\ Fed

\* Every step keeps it: who takes a buffer off the queue goes on to put one on, unless OpenSL
\* refuses it, the stream ends, or it is being destroyed.
LEMMA FedStep == ASSUME FedInv, Next PROVE Fed'
<1>1. TypeOK /\ Staged /\ Fresh /\ Fed /\ NumBuf \in Nat \ {0}
  BY PlayerAssumption DEF FedInv, IInv
<1>2. Len(queue) \in Nat /\ (queue = <<>> <=> Len(queue) = 0)
  BY <1>1 DEF TypeOK
<1> USE DEF Fed, NeverDry, Starved, ringVars, encVars, pastVars
<1>3. CASE Allocate \/ CreateAudioPlayer
  BY <1>1, <1>3 DEF Allocate, CreateAudioPlayer, Staged
<1>4. CASE RegisterCallback
  <2>1. queue = <<>> /\ cb = "idle" /\ stage = "object"
    BY <1>1, <1>4 DEF RegisterCallback, Staged
  <2> QED BY <1>1, <1>2, <1>4, <2>1 DEF RegisterCallback, Staged
<1>5. CASE Prime
  <2>1. primed' = primed + 1 /\ primed \in Nat
    BY <1>1, <1>5 DEF Prime, TypeOK
  <2> QED BY <1>1, <1>2, <1>5, <2>1 DEF Prime, Staged
<1>6. CASE StartPlaying
  <2>1. ~refused => queue /= <<>>
    BY <1>1, <1>2, <1>6 DEF StartPlaying
  <2> QED BY <1>1, <1>6, <2>1 DEF StartPlaying, Fresh
<1>7. CASE CreateFails
  BY <1>1, <1>7 DEF CreateFails, Staged
<1>8. CASE BufferDone
  BY <1>1, <1>8 DEF BufferDone, Staged
<1>9. CASE ProduceBlock \/ ProduceSilence
  BY <1>1, <1>9 DEF ProduceBlock, ProduceSilence
<1>10. CASE ProduceEOF
  BY <1>1, <1>10 DEF ProduceEOF
<1>11. CASE Fill
  <2>1. /\ cb = "fill" /\ cb' = "idle" /\ UNCHANGED <<stage, primed, play, term, failed>>
        /\ \/ queue' = Append(queue, buf_idx) /\ refused' = refused
           \/ queue' = queue /\ refused' = TRUE
    BY <1>11 DEF Fill, FillWith
  <2>2. queue' = Append(queue, buf_idx) => Len(queue') = Len(queue) + 1 /\ queue' /= <<>>
    <3>1. Len(Append(queue, buf_idx)) = Len(queue) + 1
      BY <1>1 DEF TypeOK
    <3> QED BY <1>2, <3>1
  <2>3. primed \in Nat
    BY <1>1 DEF TypeOK
  <2> QED BY <1>1, <1>2, <2>1, <2>2, <2>3
<1>12. CASE EOF
  <2>1. /\ cb = "eof" /\ UNCHANGED <<stage, primed, queue, refused, term>>
        /\ play /= "PLAYING" => play' /= "PLAYING"
        /\ Len(queue) <= 0 => play' /= "PLAYING" \/ failed'
    BY <1>12 DEF EOF, StopAtEOF, SetStopped, Stopping
  <2>2. stage /= "priming"
    BY <1>1, <2>1 DEF Staged, Fresh
  <2> QED BY <1>1, <1>2, <2>1, <2>2
<1>13. CASE Halt \/ User \/ Terminating
  BY <1>1, <1>13 DEF Halt, User, Send, Close, Terminate, Finalize, Terminating, StopPlayer, StopWith, PollStopped, PollFails, SetStopped, Stopping
<1>14. CASE Destroy
  BY <1>1, <1>14 DEF Destroy, DestroyPlayer, DestroyEncoder, DestroyProducer, Staged
<1> QED
  BY <1>3, <1>4, <1>5, <1>6, <1>7, <1>8, <1>9, <1>10, <1>11, <1>12, <1>13, <1>14
     DEF Next, Construct, Callback

\* So it holds in every state the player can be in.
LEMMA FedSafe == Spec => []FedInv
<1>1. Init => Fresh /\ Fed
  BY DEF Init, Fresh, Fed, NeverDry
<1>2. FedInv /\ [Next]_vars => Fresh' /\ Fed'
  <2>1. ASSUME FedInv, UNCHANGED vars PROVE Fed'
    BY <2>1 DEF FedInv, Fed, NeverDry, Starved, vars, ringVars, encVars, pastVars
  <2> QED BY <2>1, FedStep, FreshStep DEF FedInv, IInv
<1> QED BY <1>1, <1>2, Safe, PTL DEF Spec, FedInv

\* The player can always take its next step, so that nothing but a refusal of OpenSL's keeps it
\* from coming to its end.
THEOREM PlayerNeverDry == Spec => []NeverDry
<1>1. FedInv => NeverDry
  BY DEF FedInv, Fed
<1> QED BY <1>1, FedSafe, PTL

\* And the steps to that end are counted.
THEOREM PlayerWindsDown == Spec => WindsDown
<1> DEFINE Down == closed /\ stage = "open" =>
                     (WorkLeft' < WorkLeft \/ UNCHANGED <<cb, queue, sent, out>>)
<1>1. FedInv /\ [Next]_vars => [Down]_vars
  <2> SUFFICES ASSUME FedInv, Next, closed, stage = "open" PROVE Down
    OBVIOUS
  <2>1. /\ TypeOK /\ sent \in Nat /\ out \in Nat /\ Len(queue) \in Nat
        /\ cb \in {"idle", "called", "fill", "eof"}
    BY DEF FedInv, IInv, TypeOK
  <2> DEFINE CbWork(c) == CASE c = "idle" -> 0 [] c = "eof" -> 1 [] c = "called" -> 2 [] c = "fill" -> 4
             Work(s, o, q, c) == 3 * (s - o) + 3 * q + CbWork(c)
  <2>2. /\ WorkLeft = Work(sent, out, Len(queue), cb)
        /\ WorkLeft' = Work(sent', out', Len(queue'), cb')
    BY DEF WorkLeft
  <2>3. CbWork("idle") = 0 /\ CbWork("eof") = 1 /\ CbWork("called") = 2 /\ CbWork("fill") = 4
    OBVIOUS
  <2> HIDE DEF CbWork
  <2> USE DEF ringVars, encVars, pastVars
  <2>4. CASE BufferDone
    <3>1. queue' = Tail(queue) /\ queue /= <<>> /\ UNCHANGED <<sent, out>> /\ cb = "idle" /\ cb' = "called"
      BY <2>4 DEF BufferDone
    <3>2. Len(queue') = Len(queue) - 1
      BY <2>1, <3>1 DEF TypeOK
    <3>3. Work(sent, out, Len(queue) - 1, "called") < Work(sent, out, Len(queue), "idle")
      BY ONLY <2>1, <2>3
    <3> QED BY <2>2, <3>1, <3>2, <3>3
  <2>5. CASE ProduceBlock
    <3>1. out' = out + 1 /\ UNCHANGED <<queue, sent>> /\ cb = "called" /\ cb' = "fill"
      BY <2>5 DEF ProduceBlock
    <3>2. Work(sent, out + 1, Len(queue), "fill") < Work(sent, out, Len(queue), "called")
      BY ONLY <2>1, <2>3
    <3> QED BY <2>2, <3>1, <3>2
  <2>6. CASE ProduceEOF
    <3>1. UNCHANGED <<queue, sent, out>> /\ cb = "called" /\ cb' = "eof"
      BY <2>6 DEF ProduceEOF
    <3>2. Work(sent, out, Len(queue), "eof") < Work(sent, out, Len(queue), "called")
      BY ONLY <2>1, <2>3
    <3> QED BY <2>2, <3>1, <3>2
  <2>7. CASE Fill
    <3>1. /\ UNCHANGED <<sent, out>> /\ cb = "fill" /\ cb' = "idle"
          /\ queue' = Append(queue, buf_idx) \/ queue' = queue
      BY <2>7 DEF Fill, FillWith
    <3>2. Len(Append(queue, buf_idx)) = Len(queue) + 1
      BY <2>1 DEF TypeOK
    <3>3. /\ Work(sent, out, Len(queue) + 1, "idle") < Work(sent, out, Len(queue), "fill")
          /\ Work(sent, out, Len(queue), "idle") < Work(sent, out, Len(queue), "fill")
      BY ONLY <2>1, <2>3
    <3> QED BY <2>2, <3>1, <3>2, <3>3
  <2>8. CASE EOF
    <3>1. UNCHANGED <<queue, sent, out>> /\ cb = "eof" /\ cb' = "idle"
      BY <2>8 DEF EOF, StopAtEOF, SetStopped, Stopping
    <3>2. Work(sent, out, Len(queue), "idle") < Work(sent, out, Len(queue), "eof")
      BY ONLY <2>1, <2>3
    <3> QED BY <2>2, <3>1, <3>2
  <2>9. CASE Construct \/ CreateFails \/ ProduceSilence \/ Halt \/ User \/ Terminating \/ Destroy
    BY <2>9 DEF Halt, Construct, Allocate, CreateAudioPlayer, RegisterCallback, Prime, StartPlaying, CreateFails,
         ProduceSilence, User, Send, Close, Terminate, Finalize, Terminating, StopPlayer, StopWith, PollStopped, PollFails,
         Destroy, DestroyPlayer, DestroyEncoder, DestroyProducer, SetStopped, Stopping
  <2> QED BY <2>4, <2>5, <2>6, <2>7, <2>8, <2>9 DEF Next, Callback
<1>2. WindsDown <=> [][Down]_vars
  BY DEF WindsDown
<1> HIDE DEF Down
<1> QED BY <1>1, <1>2, FedSafe, PTL DEF Spec
=============================================================================
