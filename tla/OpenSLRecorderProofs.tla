------------------------ MODULE OpenSLRecorderProofs ------------------------
(***************************************************************************)
(* That the microphone never writes into a buffer the callback has not     *)
(* read yet, that the callback never outlives what it uses, that no buffer *)
(* is mislaid, and that the recorder is a pipe, for any number of buffers, *)
(* frames and chunks.                                                      *)
(***************************************************************************)
EXTENDS OpenSLRecorder, RingProofs

AgeOf(i) == Age(NumBuf, buf_idx, i)

\* The buffers the microphone has filled and the callback has not given back.
Filled == pending + (IF cb = "idle" THEN 0 ELSE 1)

\* Where the microphone and the callback can run, and what has been done by then.
Staged ==
  /\ stage \notin {"priming", "open", "freeing"} => queue = <<>>
  /\ stage \notin {"open", "freeing"} => pending = 0 /\ cb = "idle" /\ record = "STOPPED"
  /\ stage \in {"object", "priming", "open"} \/ cb /= "idle" \/ record /= "STOPPED" => object
  /\ stage \in {"allocated", "object", "priming"} =>
       buf_idx = 0 /\ captured = 0 /\ consumed = 0 /\ ~refused
  /\ stage \in {"allocated", "object", "priming"} => Len(queue) = primed

\* The queue holds the buffers in the order in which they were given back, and those
\* that are filled come before all of them.
InOrder ==
  /\ Filled <= NumBuf
  /\ \A k \in DOMAIN queue : AgeOf(queue[k].buf) <= NumBuf - Filled
  /\ \A j, k \in DOMAIN queue : j < k => AgeOf(queue[j].buf) > AgeOf(queue[k].buf)

Whole == ~refused /\ stage \notin {"none", "norecorder", "nodecoder"}
Running == stage = "open" \/ record /= "STOPPED" \/ Filled > 0

\* Unless a buffer was refused, no age is missing, and the filled buffers hold the
\* chunks that were not decoded yet, the oldest at buf_idx.
Unbroken ==
  Whole =>
    /\ \A k \in DOMAIN queue : AgeOf(queue[k].buf) + Filled + k = NumBuf + 1
    /\ Running => Len(queue) + Filled = NumBuf
    /\ captured = consumed + pending + (IF cb = "called" THEN 1 ELSE 0)
    /\ \A i \in Ring : AgeOf(i) + Filled > NumBuf =>
         bufs[i].chunk + Filled + AgeOf(i) = captured + NumBuf + 1

IInv == TypeOK /\ Staged /\ InOrder /\ Unbroken

-----------------------------------------------------------------------------
LEMMA InitInv == Init => IInv
<1> SUFFICES ASSUME Init PROVE IInv
  OBVIOUS
<1>1. closed \in BOOLEAN /\ object \in BOOLEAN /\ refused \in BOOLEAN /\ failed \in BOOLEAN
  BY Zenon DEF Init
<1>2. EmptyRing \in [Ring -> [chunk : Nat, frames : Nat]] /\ 0 \in Ring
  BY RecorderAssumption DEF EmptyRing, Ring
<1>3. TypeOK
  BY <1>1, <1>2, RecorderAssumption DEF Init, TypeOK
<1>4. Staged /\ InOrder /\ Unbroken
  BY RecorderAssumption DEF Init, Staged, InOrder, Unbroken, Whole, Filled
<1> QED BY <1>3, <1>4 DEF IInv

\* A flag is left alone, set, or cleared.
LEMMA Flags ==
  ASSUME TypeOK, Next
  PROVE  /\ object' \in BOOLEAN /\ closed' \in BOOLEAN
         /\ refused' \in BOOLEAN /\ failed' \in BOOLEAN
<1>1. object \in BOOLEAN /\ closed \in BOOLEAN /\ refused \in BOOLEAN /\ failed \in BOOLEAN
  BY DEF TypeOK
<1>2. /\ object' = object \/ object' = TRUE \/ object' = FALSE
      /\ closed' = closed \/ closed' = TRUE \/ closed' = FALSE
      /\ refused' = refused \/ refused' = TRUE \/ refused' = FALSE
      /\ failed' = failed \/ failed' = TRUE \/ failed' = FALSE
  BY Zenon
     DEF Next, Construct, Allocate, CreateAudioRecorder, RegisterCallback, Prime,
         StartRecording, CreateFails, BufferFilled, Callback, CallBack, Consume, Requeue,
         RequeueWith, Close, Closing, Halt, StopRecorder, StopWith, SetStopped, PollStopped, PollFails, Finalize, Destroy,
         DestroyRecorder, DestroyDecoder, DestroyConsumer, ringVars
<1> QED BY <1>1, <1>2, Zenon

LEMMA AgesInRing ==
  ASSUME TypeOK
  PROVE  \A i \in Ring : AgeOf(i) \in 1..NumBuf /\ (AgeOf(i) = NumBuf <=> i = buf_idx)
<1>1. NumBuf \in Nat \ {0} /\ buf_idx \in 0..(NumBuf - 1)
  BY RecorderAssumption DEF TypeOK, Ring
<1> QED BY <1>1, AgeBounds DEF AgeOf, Ring

\* What the arithmetic below needs to know of the state.
LEMMA Numbers ==
  ASSUME TypeOK
  PROVE  /\ NumBuf \in Nat \ {0} /\ Filled \in Nat /\ pending \in Nat
         /\ captured \in Nat /\ consumed \in Nat /\ Len(queue) \in Nat
         /\ DOMAIN queue = 1..Len(queue)
         /\ \A k \in DOMAIN queue : queue[k] \in [buf : Ring, frames : Nat]
         /\ \A k \in DOMAIN queue : queue[k].buf \in Ring
         /\ \A k \in DOMAIN queue : AgeOf(queue[k].buf) \in 1..NumBuf
<1>1. /\ NumBuf \in Nat \ {0} /\ Filled \in Nat /\ pending \in Nat
      /\ captured \in Nat /\ consumed \in Nat /\ Len(queue) \in Nat
      /\ DOMAIN queue = 1..Len(queue)
  BY RecorderAssumption DEF TypeOK, Filled
<1> DEFINE Entry == [buf : Ring, frames : Nat]
<1>0. queue \in Seq(Entry)
  BY DEF TypeOK
<1> HIDE DEF Entry
<1>2. \A k \in DOMAIN queue : queue[k] \in Entry
  BY <1>0
<1> USE DEF Entry
<1>3. \A k \in DOMAIN queue : queue[k].buf \in Ring
  BY <1>2
<1>4. \A k \in DOMAIN queue : AgeOf(queue[k].buf) \in 1..NumBuf
  BY <1>3, AgesInRing
<1> QED BY <1>1, <1>2, <1>3, <1>4

LEMMA Appended ==
  ASSUME NEW S, NEW q \in Seq(S), NEW e \in S
  PROVE  /\ Append(q, e) \in Seq(S) /\ Len(Append(q, e)) = Len(q) + 1
         /\ DOMAIN q = 1..Len(q) /\ DOMAIN Append(q, e) = 1..(Len(q) + 1)
         /\ Append(q, e)[Len(q) + 1] = e
         /\ \A k \in DOMAIN q : Append(q, e)[k] = q[k]
  OBVIOUS

\* What enqueueing a buffer does to the queue.
LEMMA Enqueued ==
  ASSUME TypeOK, NEW i \in Ring, NEW f \in Nat
  PROVE  LET e == [buf |-> i, frames |-> f]
             q == Append(queue, e)
         IN  /\ q \in Seq([buf : Ring, frames : Nat]) /\ Len(q) = Len(queue) + 1
             /\ DOMAIN queue = 1..Len(queue) /\ DOMAIN q = 1..(Len(queue) + 1)
             /\ q[Len(queue) + 1] = e
             /\ \A k \in DOMAIN queue : q[k] = queue[k]
<1> DEFINE Entry == [buf : Ring, frames : Nat]
           e == [buf |-> i, frames |-> f]
<1>1. queue \in Seq(Entry) /\ e \in Entry
  BY DEF TypeOK
<1> HIDE DEF Entry, e
<1>2. /\ Append(queue, e) \in Seq(Entry) /\ Len(Append(queue, e)) = Len(queue) + 1
      /\ DOMAIN queue = 1..Len(queue) /\ DOMAIN Append(queue, e) = 1..(Len(queue) + 1)
      /\ Append(queue, e)[Len(queue) + 1] = e
      /\ \A k \in DOMAIN queue : Append(queue, e)[k] = queue[k]
  BY <1>1, Appended
<1> QED BY <1>2 DEF Entry, e

\* The head of the queue is older than the rest of it.
LEMMA Behind ==
  ASSUME TypeOK, InOrder, queue /= <<>>
  PROVE  /\ Len(queue) > 0 /\ 1 \in DOMAIN queue /\ Head(queue) = queue[1]
         /\ Head(queue) \in [buf : Ring, frames : Nat]
         /\ DOMAIN Tail(queue) = 1..(Len(queue) - 1) /\ Len(Tail(queue)) = Len(queue) - 1
         /\ \A k \in DOMAIN Tail(queue) :
              /\ Tail(queue)[k] = queue[k + 1] /\ k + 1 \in DOMAIN queue
              /\ AgeOf(queue[1].buf) > AgeOf(queue[k + 1].buf)
<1>1. /\ Len(queue) \in Nat \ {0} /\ 1 \in DOMAIN queue /\ Head(queue) = queue[1]
      /\ DOMAIN queue = 1..Len(queue)
      /\ DOMAIN Tail(queue) = 1..(Len(queue) - 1) /\ Len(Tail(queue)) = Len(queue) - 1
      /\ \A k \in DOMAIN Tail(queue) : Tail(queue)[k] = queue[k + 1]
  BY DEF TypeOK
<1>2. Head(queue) \in [buf : Ring, frames : Nat]
  BY <1>1, Numbers
<1>3. \A k \in DOMAIN Tail(queue) : k + 1 \in DOMAIN queue /\ 1 < k + 1
  BY <1>1
<1>4. \A k \in DOMAIN Tail(queue) : AgeOf(queue[1].buf) > AgeOf(queue[k + 1].buf)
  BY <1>1, <1>3 DEF InOrder
<1> QED BY <1>1, <1>2, <1>3, <1>4

\* There are buffers on the queue only beside the filled ones.
LEMMA RoomToFill ==
  ASSUME TypeOK, InOrder, queue /= <<>>
  PROVE  Filled < NumBuf /\ Filled + AgeOf(Head(queue).buf) <= NumBuf
<1>1. 1 \in DOMAIN queue /\ Head(queue) = queue[1]
  BY Behind
<1>2. AgeOf(queue[1].buf) \in 1..NumBuf /\ AgeOf(queue[1].buf) <= NumBuf - Filled
  BY <1>1, Numbers DEF InOrder
<1> QED BY <1>1, <1>2, Numbers

-----------------------------------------------------------------------------
LEMMA Typed == ASSUME IInv, Next PROVE TypeOK'
<1>0. TypeOK /\ Staged /\ InOrder
  BY DEF IInv
<1> USE <1>0, Flags, RecorderAssumption DEF TypeOK, ringVars
<1>1. CASE Allocate
  <2>1. EmptyRing \in [Ring -> [chunk : Nat, frames : Nat]] /\ 0 \in Ring
    BY DEF EmptyRing, Ring
  <2> QED BY <1>1, <2>1 DEF Allocate
<1>2. CASE CreateAudioRecorder \/ RegisterCallback \/ StartRecording \/ CreateFails
  BY <1>2 DEF CreateAudioRecorder, RegisterCallback, StartRecording, CreateFails
<1>3. CASE Prime
  <2>1. primed \in Ring
    BY <1>3 DEF Prime, Ring
  <2>2. queue' \in Seq([buf : Ring, frames : Nat])
    BY <1>3, <2>1, Enqueued DEF Prime
  <2> QED BY <1>3, <2>2 DEF Prime
<1>4. CASE BufferFilled
  <2>1. /\ queue /= <<>> /\ captured' = captured + 1 /\ pending' = pending + 1
        /\ queue' = Tail(queue)
        /\ bufs' = [bufs EXCEPT ![Head(queue).buf] =
                      [chunk |-> captured + 1, frames |-> Head(queue).frames]]
    BY <1>4 DEF BufferFilled
  <2>2. Head(queue) \in [buf : Ring, frames : Nat] /\ Filled < NumBuf
    BY <2>1, Behind, RoomToFill
  <2>3. [chunk |-> captured + 1, frames |-> Head(queue).frames] \in [chunk : Nat, frames : Nat]
    BY <2>2
  <2>4. bufs' \in [Ring -> [chunk : Nat, frames : Nat]]
    BY <2>1, <2>3
  <2>5. pending' \in 0..NumBuf
    BY <2>1, <2>2 DEF Filled
  <2>6. queue' \in Seq([buf : Ring, frames : Nat])
    BY <2>1
  <2> QED BY <1>4, <2>1, <2>4, <2>5, <2>6 DEF BufferFilled
<1>5. CASE CallBack
  BY <1>5 DEF CallBack
<1>6. CASE Consume
  <2>1. bufs[buf_idx].chunk \in Nat
    OBVIOUS
  <2> QED BY <1>6, <2>1 DEF Consume
<1>7. CASE Requeue
  <2>1. buf_idx' \in Ring
    BY <1>7, NextInRing DEF Requeue, RequeueWith, Ring
  <2>3. queue' = queue \/ queue' = Append(queue, [buf |-> buf_idx, frames |-> NumFrames])
    BY <1>7 DEF Requeue, RequeueWith
  <2>2. Append(queue, [buf |-> buf_idx, frames |-> NumFrames]) \in Seq([buf : Ring, frames : Nat])
    <3>1. TypeOK /\ buf_idx \in Ring /\ NumFrames \in Nat
      OBVIOUS
    <3> QED BY ONLY <3>1, Enqueued
  <2>4. queue' \in Seq([buf : Ring, frames : Nat])
    BY <2>2, <2>3
  <2> QED BY <1>7, <2>1, <2>4 DEF Requeue, RequeueWith
<1>8. CASE Close \/ Closing \/ Halt \/ Finalize
  BY <1>8 DEF Close, Closing, Halt, StopRecorder, StopWith, SetStopped, PollStopped, PollFails, Finalize
<1>9. CASE DestroyRecorder
  BY <1>9 DEF DestroyRecorder
<1>10. CASE DestroyDecoder \/ DestroyConsumer
  BY <1>10 DEF DestroyDecoder, DestroyConsumer
<1> QED
  BY <1>1, <1>2, <1>3, <1>4, <1>5, <1>6, <1>7, <1>8, <1>9, <1>10
     DEF Next, Construct, Callback, Destroy

LEMMA StagedStep == ASSUME IInv, Next PROVE Staged'
<1> USE DEF IInv, TypeOK, Staged, ringVars
<1>1. CASE Allocate
  BY <1>1 DEF Allocate
<1>7. CASE CreateAudioRecorder \/ RegisterCallback \/ StartRecording \/ CreateFails
  <2>1. UNCHANGED <<queue, pending, cb, buf_idx, captured, consumed, refused, primed>>
    BY <1>7 DEF CreateAudioRecorder, RegisterCallback, StartRecording, CreateFails
  <2>2. stage' \in {"allocated", "object", "priming"} => stage \in {"allocated", "object", "priming"}
    BY <1>7 DEF CreateAudioRecorder, RegisterCallback, StartRecording, CreateFails
  <2> QED BY <1>7, <2>1, <2>2
       DEF CreateAudioRecorder, RegisterCallback, StartRecording, CreateFails
<1>6. CASE Prime
  <2>1. Len(queue') = Len(queue) + 1
    BY <1>6 DEF Prime
  <2> QED BY <1>6, <2>1 DEF Prime
<1>2. CASE BufferFilled
  BY <1>2 DEF BufferFilled
<1>3. CASE Callback
  BY <1>3 DEF Callback, CallBack, Consume, Requeue, RequeueWith
<1>4. CASE Close \/ Closing \/ Halt \/ Finalize
  <2>1. /\ UNCHANGED <<primed, object, queue, pending, cb, bufs, buf_idx, captured, consumed, refused>>
        /\ stage' = stage \/ (stage = "open" /\ stage' = "freeing")
        /\ record' /= "STOPPED" => record /= "STOPPED"
    BY <1>4 DEF Close, Closing, Halt, StopRecorder, StopWith, SetStopped, PollStopped, PollFails, Finalize
  <2> QED BY <2>1
<1>5. CASE Destroy
  BY <1>5 DEF Destroy, DestroyRecorder, DestroyDecoder, DestroyConsumer
<1> QED BY <1>1, <1>2, <1>3, <1>4, <1>5, <1>6, <1>7 DEF Next, Construct

\* A chunk is recorded in the buffer at the head of the queue.
LEMMA InOrderFilled == ASSUME IInv, BufferFilled PROVE InOrder' /\ Filled' = Filled + 1
<1>1. /\ TypeOK /\ InOrder /\ queue /= <<>> /\ queue' = Tail(queue)
      /\ buf_idx' = buf_idx /\ pending' = pending + 1 /\ cb' = cb
  BY DEF IInv, BufferFilled
<1>2. Filled' = Filled + 1 /\ Filled' <= NumBuf
  BY <1>1, Numbers, RoomToFill DEF Filled
<1>3. ASSUME NEW k \in DOMAIN queue' PROVE AgeOf(queue'[k].buf) <= NumBuf - Filled'
  <2>1. queue'[k] = queue[k + 1] /\ k + 1 \in DOMAIN queue
    BY <1>1, Behind
  <2>2. AgeOf(queue[1].buf) > AgeOf(queue[k + 1].buf)
    BY <1>1, Behind
  <2>3. Filled + AgeOf(queue[1].buf) <= NumBuf /\ 1 \in DOMAIN queue
    BY <1>1, Behind, RoomToFill
  <2>4. /\ AgeOf(queue[1].buf) \in 1..NumBuf /\ AgeOf(queue[k + 1].buf) \in 1..NumBuf
        /\ Filled \in Nat /\ NumBuf \in Nat
    BY <1>1, <2>1, <2>3, Numbers
  <2>5. AgeOf(queue[k + 1].buf) <= NumBuf - (Filled + 1)
    BY <2>2, <2>3, <2>4
  <2> QED BY <1>2, <2>1, <2>5
<1>4. ASSUME NEW j \in DOMAIN queue', NEW k \in DOMAIN queue', j < k
      PROVE  AgeOf(queue'[j].buf) > AgeOf(queue'[k].buf)
  <2>1. /\ queue'[j] = queue[j + 1] /\ j + 1 \in DOMAIN queue
        /\ queue'[k] = queue[k + 1] /\ k + 1 \in DOMAIN queue
    BY <1>1, Behind
  <2>2. j + 1 < k + 1
    BY <1>1, <1>4, Behind
  <2> QED BY <1>1, <2>1, <2>2 DEF InOrder
<1>5. \A i : AgeOf(i)' = Age(NumBuf, buf_idx, i)
  BY <1>1 DEF AgeOf
<1> QED BY <1>1, <1>2, <1>3, <1>4 DEF InOrder, AgeOf

\* The buffer at buf_idx has become the youngest, and the others one older.
LEMMA Aged ==
  ASSUME IInv, Requeue
  PROVE  /\ \A i \in Ring : Age(NumBuf, buf_idx', i) = IF i = buf_idx THEN 1 ELSE AgeOf(i) + 1
         /\ \A k \in DOMAIN queue :
              /\ queue[k].buf /= buf_idx
              /\ Age(NumBuf, buf_idx', queue[k].buf) = AgeOf(queue[k].buf) + 1
<1>1. /\ TypeOK /\ InOrder /\ cb = "requeue" /\ buf_idx \in Ring
      /\ buf_idx' = (buf_idx + 1) % NumBuf
  BY DEF IInv, TypeOK, Requeue, RequeueWith
<1> DEFINE next == (buf_idx + 1) % NumBuf
<1>2. \A i \in Ring : Age(NumBuf, next, i) = IF i = buf_idx THEN 1 ELSE AgeOf(i) + 1
  BY <1>1, AgeNext, RecorderAssumption DEF AgeOf, Ring
<1> HIDE DEF next
<1>3. \A k \in DOMAIN queue : queue[k].buf \in Ring /\ queue[k].buf /= buf_idx
  <2> SUFFICES ASSUME NEW k \in DOMAIN queue
               PROVE  queue[k].buf \in Ring /\ queue[k].buf /= buf_idx
    OBVIOUS
  <2>1. queue[k].buf \in Ring /\ NumBuf \in Nat \ {0} /\ pending \in Nat
    BY <1>1, Numbers
  <2>2. AgeOf(queue[k].buf) <= NumBuf - (pending + 1)
    BY <1>1 DEF InOrder, Filled
  <2>3. AgeOf(queue[k].buf) \in 1..NumBuf
    BY <1>1, Numbers
  <2>4. queue[k].buf = buf_idx => AgeOf(queue[k].buf) = NumBuf
    BY <1>1, <2>1, AgesInRing
  <2> QED BY <2>1, <2>2, <2>3, <2>4
<1>4. buf_idx' = next
  BY <1>1 DEF next
<1> QED BY <1>2, <1>3, <1>4

LEMMA InOrderRequeued == ASSUME IInv, Requeue PROVE InOrder' /\ Filled = Filled' + 1
<1> DEFINE NewAge(i) == Age(NumBuf, buf_idx', i)
<1>1. /\ TypeOK /\ InOrder /\ cb = "requeue" /\ cb' = "idle" /\ pending' = pending
      /\ buf_idx \in Ring
      /\ \/ queue' = queue
         \/ queue' = Append(queue, [buf |-> buf_idx, frames |-> NumFrames])
  BY DEF IInv, TypeOK, Requeue, RequeueWith
<1>2. Filled' = pending /\ Filled = pending + 1 /\ Filled <= NumBuf
  BY <1>1, Numbers DEF Filled, InOrder
<1>3. NewAge(buf_idx) = 1
  BY <1>1, Aged
<1>4. \A k \in DOMAIN queue : NewAge(queue[k].buf) = AgeOf(queue[k].buf) + 1
  BY Aged
<1> HIDE DEF NewAge
<1>5. /\ \A k \in DOMAIN queue : NewAge(queue[k].buf) <= NumBuf - pending
      /\ \A k \in DOMAIN queue : NewAge(queue[k].buf) > 1
      /\ \A j, k \in DOMAIN queue : j < k => NewAge(queue[j].buf) > NewAge(queue[k].buf)
  <2>1. \A k \in DOMAIN queue : AgeOf(queue[k].buf) <= NumBuf - (pending + 1)
    BY <1>1, <1>2 DEF InOrder
  <2>2. \A j, k \in DOMAIN queue : j < k => AgeOf(queue[j].buf) > AgeOf(queue[k].buf)
    BY <1>1 DEF InOrder
  <2>3. /\ NumBuf \in Nat /\ pending \in Nat
        /\ \A k \in DOMAIN queue : AgeOf(queue[k].buf) \in Nat \ {0}
    BY <1>1, Numbers
  <2>4. \A k \in DOMAIN queue : NewAge(queue[k].buf) <= NumBuf - pending /\ NewAge(queue[k].buf) > 1
    BY ONLY <1>4, <2>1, <2>3
  <2>5. \A j, k \in DOMAIN queue : j < k => NewAge(queue[j].buf) > NewAge(queue[k].buf)
    BY ONLY <1>4, <2>2, <2>3
  <2> QED BY <2>4, <2>5
<1>6. CASE queue' = queue
  BY <1>1, <1>2, <1>5, <1>6, Numbers DEF InOrder, AgeOf, NewAge
<1>7. CASE queue' = Append(queue, [buf |-> buf_idx, frames |-> NumFrames])
  <2> DEFINE entry == [buf |-> buf_idx, frames |-> NumFrames]
             n == Len(queue)
  <2>1. /\ n \in Nat /\ DOMAIN queue = 1..n /\ DOMAIN queue' = 1..(n + 1)
        /\ queue'[n + 1] = entry
        /\ \A k \in DOMAIN queue : queue'[k] = queue[k]
    BY <1>1, <1>7, Enqueued, Numbers, RecorderAssumption
  <2>2. NewAge(queue'[n + 1].buf) = 1
    BY <1>3, <2>1
  <2> HIDE DEF entry, n
  <2>3. \A k \in DOMAIN queue' : NewAge(queue'[k].buf) <= NumBuf - pending
    BY <1>1, <1>2, <1>5, <2>1, <2>2, Numbers
  <2>4. \A j, k \in DOMAIN queue' : j < k => NewAge(queue'[j].buf) > NewAge(queue'[k].buf)
    <3> SUFFICES ASSUME NEW j \in DOMAIN queue', NEW k \in DOMAIN queue', j < k
                 PROVE  NewAge(queue'[j].buf) > NewAge(queue'[k].buf)
      OBVIOUS
    <3>1. j \in DOMAIN queue /\ (k \in DOMAIN queue \/ k = n + 1)
      BY <2>1
    <3> QED BY <1>5, <2>1, <2>2, <3>1
  <2> QED BY <1>1, <1>2, <2>3, <2>4, Numbers DEF InOrder, AgeOf, NewAge
<1> QED BY <1>1, <1>2, <1>6, <1>7, Numbers

LEMMA InOrderStep == ASSUME IInv, Next PROVE InOrder'
<1>0. TypeOK /\ Staged /\ InOrder /\ Unbroken
  BY DEF IInv
<1>1. CASE Prime
  <2> DEFINE entry == [buf |-> primed, frames |-> NumBuf]
             n == Len(queue)
  <2>1. /\ Filled = 0 /\ Filled' = 0 /\ buf_idx = 0 /\ buf_idx' = 0 /\ ~refused
        /\ n = primed /\ primed < NumBuf /\ queue' = Append(queue, entry)
        /\ stage = "priming"
    BY <1>0, <1>1 DEF Prime, Staged, Filled
  <2>2. primed \in Ring
    BY <1>0, <2>1, RecorderAssumption DEF TypeOK, Ring
  <2>3. /\ n \in Nat /\ DOMAIN queue = 1..n /\ DOMAIN queue' = 1..(n + 1)
        /\ queue'[n + 1] = entry
        /\ \A k \in DOMAIN queue : queue'[k] = queue[k]
    BY <1>0, <2>1, <2>2, Enqueued, Numbers, RecorderAssumption
  <2>4. AgeOf(primed) = NumBuf - primed
    BY <2>1, <2>2, RecorderAssumption DEF AgeOf, Age, Ring
  <2>5. \A k \in DOMAIN queue : AgeOf(queue[k].buf) + k = NumBuf + 1
    <3>1. \A k \in DOMAIN queue : AgeOf(queue[k].buf) + 0 + k = NumBuf + 1
      BY <1>0, <2>1 DEF Unbroken, Whole
    <3> QED BY <1>0, <3>1, Numbers
  <2>6. AgeOf(queue'[n + 1].buf) = NumBuf - n
    BY <2>1, <2>3, <2>4
  <2> HIDE DEF entry, n
  <2>7. ASSUME NEW k \in DOMAIN queue' PROVE AgeOf(queue'[k].buf) = NumBuf + 1 - k
    <3>1. CASE k = n + 1
      BY <1>0, <2>3, <2>6, <3>1, Numbers
    <3>2. CASE k \in DOMAIN queue
      <4>1. queue'[k] = queue[k] /\ AgeOf(queue[k].buf) + k = NumBuf + 1
        BY <2>3, <2>5, <3>2
      <4>2. AgeOf(queue[k].buf) \in 1..NumBuf /\ k \in Nat /\ NumBuf \in Nat
        BY <1>0, <2>3, <3>2, Numbers
      <4>3. AgeOf(queue[k].buf) = NumBuf + 1 - k
        BY <4>1, <4>2
      <4> QED BY <4>1, <4>3
    <3> QED BY <2>3, <3>1, <3>2
  <2>8. \A k \in DOMAIN queue' : AgeOf(queue'[k].buf) <= NumBuf
    BY <1>0, <2>3, <2>7, Numbers
  <2>9. \A j, k \in DOMAIN queue' : j < k => AgeOf(queue'[j].buf) > AgeOf(queue'[k].buf)
    BY <1>0, <2>3, <2>7, Numbers
  <2> QED BY <1>0, <2>1, <2>8, <2>9, Numbers DEF InOrder, AgeOf
<1>2. CASE BufferFilled
  BY <1>2, InOrderFilled
<1>3. CASE CallBack
  <2>1. Filled' = Filled /\ queue' = queue /\ buf_idx' = buf_idx
    BY <1>0, <1>3 DEF CallBack, Filled, TypeOK
  <2> QED BY <1>0, <2>1 DEF InOrder, AgeOf
<1>4. CASE Consume
  <2>1. Filled' = Filled /\ queue' = queue /\ buf_idx' = buf_idx
    BY <1>4 DEF Consume, Filled
  <2> QED BY <1>0, <2>1 DEF InOrder, AgeOf
<1>5. CASE Requeue
  BY <1>5, InOrderRequeued
<1>6. CASE DestroyRecorder
  <2>1. queue' = <<>> /\ Filled' = 0
    BY <1>6 DEF DestroyRecorder, Filled
  <2> QED BY <1>0, <2>1, Numbers DEF InOrder
<1>7. CASE Allocate
  <2>1. queue' = <<>> /\ Filled' = Filled
    BY <1>0, <1>7 DEF Allocate, Filled, Staged
  <2> QED BY <1>0, <2>1, Numbers DEF InOrder
<1>8. CASE CreateAudioRecorder \/ RegisterCallback \/ StartRecording \/ CreateFails
             \/ Close \/ Closing \/ Halt \/ Finalize \/ DestroyDecoder \/ DestroyConsumer
  <2>1. UNCHANGED ringVars
    BY <1>8 DEF CreateAudioRecorder, RegisterCallback, StartRecording, CreateFails, Close,
                Closing, Halt, StopRecorder, StopWith, SetStopped, PollStopped, PollFails, Finalize, DestroyDecoder, DestroyConsumer
  <2> QED BY <1>0, <2>1 DEF InOrder, AgeOf, Filled, ringVars
<1> QED
  BY <1>1, <1>2, <1>3, <1>4, <1>5, <1>6, <1>7, <1>8 DEF Next, Construct, Callback, Destroy

-----------------------------------------------------------------------------
\* While the recorder runs every buffer is queued or filled.
LEMMA UnbrokenFilled == ASSUME IInv, BufferFilled, Whole PROVE Unbroken'
<1>1. /\ TypeOK /\ InOrder /\ Unbroken /\ queue /= <<>> /\ queue' = Tail(queue)
      /\ record /= "STOPPED" /\ captured' = captured + 1 /\ consumed' = consumed
      /\ buf_idx' = buf_idx /\ pending' = pending + 1 /\ cb' = cb
      /\ bufs' = [bufs EXCEPT ![Head(queue).buf] =
                    [chunk |-> captured + 1, frames |-> Head(queue).frames]]
      /\ bufs \in [Ring -> [chunk : Nat, frames : Nat]]
  BY DEF IInv, BufferFilled, TypeOK
<1>2. /\ \A k \in DOMAIN queue : AgeOf(queue[k].buf) + Filled + k = NumBuf + 1
      /\ Len(queue) + Filled = NumBuf
      /\ captured = consumed + pending + (IF cb = "called" THEN 1 ELSE 0)
      /\ \A i \in Ring : AgeOf(i) + Filled > NumBuf =>
           bufs[i].chunk + Filled + AgeOf(i) = captured + NumBuf + 1
  BY <1>1 DEF Unbroken, Running
<1>3. Filled' = Filled + 1
  BY InOrderFilled
<1>4. ASSUME NEW k \in DOMAIN queue'
      PROVE  AgeOf(queue'[k].buf) + Filled' + k = NumBuf + 1
  <2>1. queue'[k] = queue[k + 1] /\ k + 1 \in DOMAIN queue
    BY <1>1, Behind
  <2>2. AgeOf(queue[k + 1].buf) + Filled + (k + 1) = NumBuf + 1
    BY <1>2, <2>1
  <2>3. AgeOf(queue[k + 1].buf) \in 1..NumBuf /\ Filled \in Nat /\ NumBuf \in Nat /\ k \in Nat
    BY <1>1, <2>1, Behind, Numbers
  <2> QED BY <1>3, <2>1, <2>2, <2>3
<1>5. Len(queue') + Filled' = NumBuf
  <2>1. Len(queue') + 1 = Len(queue) /\ Len(queue') \in Nat /\ Len(queue) \in Nat
    BY <1>1, Behind
  <2>2. Filled \in Nat /\ NumBuf \in Nat
    BY <1>1, Numbers
  <2>3. Len(queue) + Filled = NumBuf
    BY <1>2
  <2> QED BY ONLY <1>3, <2>1, <2>2, <2>3
<1>6. captured' = consumed' + pending' + (IF cb' = "called" THEN 1 ELSE 0)
  <2>1. captured = consumed + pending + (IF cb = "called" THEN 1 ELSE 0)
    BY <1>2
  <2>2. captured \in Nat /\ consumed \in Nat /\ pending \in Nat
    BY <1>1 DEF TypeOK
  <2>3. captured' = captured + 1 /\ consumed' = consumed /\ pending' = pending + 1 /\ cb' = cb
    BY <1>1
  <2> QED BY ONLY <2>1, <2>2, <2>3
<1> DEFINE head == Head(queue).buf
<1>7. head \in Ring /\ AgeOf(head) + Filled = NumBuf
  <2>1. head = queue[1].buf /\ 1 \in DOMAIN queue
    BY <1>1, Behind
  <2>2. head \in Ring /\ AgeOf(head) \in 1..NumBuf
    BY <1>1, <2>1, Numbers
  <2>3. AgeOf(head) + Filled + 1 = NumBuf + 1
    BY <1>2, <2>1
  <2>4. Filled \in Nat /\ NumBuf \in Nat /\ AgeOf(head) \in Nat
    BY <1>1, <2>2, Numbers
  <2>5. AgeOf(head) + Filled = NumBuf
    <3> HIDE DEF head
    <3> QED BY <2>3, <2>4
  <2> QED BY <2>2, <2>5
<1>8. bufs'[head].chunk = captured + 1
  BY <1>1, <1>7
<1>9. \A i \in Ring : i /= head => bufs'[i] = bufs[i]
  BY <1>1
<1> HIDE DEF head
<1>10. ASSUME NEW i \in Ring, AgeOf(i) + Filled' > NumBuf
       PROVE  bufs'[i].chunk + Filled' + AgeOf(i) = captured' + NumBuf + 1
  <2>0. AgeOf(i) \in 1..NumBuf /\ Filled \in Nat /\ NumBuf \in Nat /\ captured \in Nat
    BY <1>1, AgesInRing, Numbers
  <2>1. CASE i = head
    <3>1. bufs'[i].chunk = captured + 1 /\ AgeOf(i) + Filled = NumBuf
      BY <1>7, <1>8, <2>1
    <3>2. captured + 1 + (Filled + 1) + AgeOf(i) = (captured + 1) + NumBuf + 1
      BY <2>0, <3>1
    <3> QED BY <1>1, <1>3, <3>1, <3>2
  <2>2. CASE i /= head
    <3>1. AgeOf(i) /= AgeOf(head)
      <4>1. /\ NumBuf \in Nat \ {0} /\ buf_idx \in 0..(NumBuf - 1)
            /\ i \in 0..(NumBuf - 1) /\ head \in 0..(NumBuf - 1)
        BY <1>1, <1>7, RecorderAssumption DEF Ring, TypeOK
      <4> QED BY <2>2, <4>1, AgeInjective DEF AgeOf
    <3>2. AgeOf(i) + Filled > NumBuf
      <4>1. AgeOf(head) \in Nat
        BY <1>1, <1>7, AgesInRing
      <4>2. AgeOf(head) + Filled = NumBuf /\ AgeOf(i) + Filled' > NumBuf
        BY <1>7, <1>10
      <4> QED BY ONLY <1>3, <2>0, <3>1, <4>1, <4>2
    <3>3. bufs[i].chunk + Filled + AgeOf(i) = captured + NumBuf + 1 /\ bufs[i].chunk \in Nat
      BY <1>1, <1>2, <3>2
    <3>4. bufs'[i].chunk = bufs[i].chunk
      BY <1>9, <2>2
    <3>5. bufs[i].chunk + (Filled + 1) + AgeOf(i) = (captured + 1) + NumBuf + 1
      BY <2>0, <3>3
    <3> QED BY <1>1, <1>3, <3>4, <3>5
  <2> QED BY <2>1, <2>2
<1> QED BY <1>1, <1>4, <1>5, <1>6, <1>10 DEF Unbroken, AgeOf

\* What is decoded is the chunk after the last one.
LEMMA NextConsumed ==
  ASSUME IInv, Consume, Whole
  PROVE  consumed' = consumed + 1 /\ captured' = captured /\ consumed < captured
<1>1. /\ TypeOK /\ Unbroken /\ cb = "called" /\ captured' = captured
      /\ consumed' = bufs[buf_idx].chunk /\ buf_idx \in Ring /\ bufs[buf_idx].chunk \in Nat
  BY DEF IInv, Consume, TypeOK
<1>2. Filled = pending + 1 /\ AgeOf(buf_idx) = NumBuf
  BY <1>1, AgesInRing DEF Filled
<1>3. captured = consumed + pending + 1
  BY <1>1 DEF Unbroken
<1>4. AgeOf(buf_idx) + Filled > NumBuf
  BY <1>1, <1>2, Numbers
<1>5. bufs[buf_idx].chunk + Filled + AgeOf(buf_idx) = captured + NumBuf + 1
  BY <1>1, <1>4 DEF Unbroken
<1>6. /\ captured \in Nat /\ consumed \in Nat /\ pending \in Nat /\ NumBuf \in Nat
  BY <1>1, Numbers
<1>7. bufs[buf_idx].chunk + (pending + 1) + NumBuf = captured + NumBuf + 1
  BY <1>2, <1>5
<1>8. bufs[buf_idx].chunk = consumed + 1
  BY <1>1, <1>3, <1>6, <1>7
<1> QED BY <1>1, <1>3, <1>6, <1>8

\* A buffer that is given back joins the queue at its end.
LEMMA UnbrokenRequeued == ASSUME IInv, Requeue, Whole, ~refused' PROVE Unbroken'
<1> DEFINE NewAge(i) == Age(NumBuf, buf_idx', i)
           entry == [buf |-> buf_idx, frames |-> NumFrames]
           n == Len(queue)
<1>1. /\ TypeOK /\ InOrder /\ Unbroken /\ cb = "requeue" /\ cb' = "idle" /\ pending' = pending
      /\ buf_idx \in Ring /\ captured' = captured /\ consumed' = consumed /\ bufs' = bufs
      /\ queue' = Append(queue, entry)
  BY DEF IInv, TypeOK, Requeue, RequeueWith
<1>2. Filled' = pending /\ Filled = pending + 1 /\ Filled <= NumBuf
  BY <1>1, Numbers DEF Filled, InOrder
<1>3. /\ n \in Nat /\ DOMAIN queue = 1..n /\ DOMAIN queue' = 1..(n + 1) /\ Len(queue') = n + 1
      /\ queue'[n + 1] = entry
      /\ \A k \in DOMAIN queue : queue'[k] = queue[k]
  BY <1>1, Enqueued, Numbers, RecorderAssumption
<1>4. /\ \A k \in DOMAIN queue : AgeOf(queue[k].buf) + (pending + 1) + k = NumBuf + 1
      /\ n + (pending + 1) = NumBuf
      /\ captured = consumed + pending
      /\ \A i \in Ring : AgeOf(i) + (pending + 1) > NumBuf =>
           bufs[i].chunk + (pending + 1) + AgeOf(i) = captured + NumBuf + 1
  BY <1>1, <1>2, Numbers DEF Unbroken, Running
<1>5. \A i \in Ring : NewAge(i) = IF i = buf_idx THEN 1 ELSE AgeOf(i) + 1
  BY Aged
<1>6. \A k \in DOMAIN queue : NewAge(queue[k].buf) = AgeOf(queue[k].buf) + 1
  BY Aged
<1>7. NewAge(queue'[n + 1].buf) = 1
  BY <1>1, <1>3, <1>5
<1> HIDE DEF NewAge, entry, n
<1>8. ASSUME NEW k \in DOMAIN queue'
      PROVE  NewAge(queue'[k].buf) + pending + k = NumBuf + 1
  <2>1. CASE k = n + 1
    BY <1>1, <1>3, <1>4, <1>7, <2>1, Numbers
  <2>2. CASE k \in DOMAIN queue
    <3>1. /\ queue'[k] = queue[k] /\ NewAge(queue[k].buf) = AgeOf(queue[k].buf) + 1
          /\ AgeOf(queue[k].buf) + (pending + 1) + k = NumBuf + 1
      BY <1>3, <1>4, <1>6, <2>2
    <3>2. AgeOf(queue[k].buf) \in 1..NumBuf /\ k \in Nat /\ NumBuf \in Nat /\ pending \in Nat
      BY <1>1, <1>3, <2>2, Numbers
    <3> QED BY <3>1, <3>2
  <2> QED BY <1>3, <2>1, <2>2
<1>9. Len(queue') + pending = NumBuf
  BY <1>1, <1>3, <1>4, Numbers
<1>10. ASSUME NEW i \in Ring, NewAge(i) + pending > NumBuf
       PROVE  bufs[i].chunk + pending + NewAge(i) = captured + NumBuf + 1
  <2>1. /\ AgeOf(i) \in 1..NumBuf /\ pending \in Nat /\ NumBuf \in Nat /\ captured \in Nat
        /\ bufs[i].chunk \in Nat
    BY <1>1, AgesInRing, Numbers DEF TypeOK
  <2>2. i /= buf_idx
    BY <1>2, <1>5, <1>10, <2>1
  <2>3. NewAge(i) = AgeOf(i) + 1
    BY <1>5, <2>2
  <2>4. bufs[i].chunk + (pending + 1) + AgeOf(i) = captured + NumBuf + 1
    BY <1>4, <1>10, <2>1, <2>3
  <2> QED BY <2>1, <2>3, <2>4
<1>11. captured = consumed + pending + 0
  BY <1>1, <1>4, Numbers
<1> QED BY <1>1, <1>2, <1>8, <1>9, <1>10, <1>11 DEF Unbroken, AgeOf, NewAge

LEMMA UnbrokenStep == ASSUME IInv, Next PROVE Unbroken'
<1>0. TypeOK /\ Staged /\ InOrder /\ Unbroken
  BY DEF IInv
<1>1. CASE Allocate
  <2>1. /\ queue' = <<>> /\ Filled' = 0 /\ captured' = 0 /\ consumed' = 0 /\ pending' = 0
        /\ cb' = "idle" /\ stage' = "allocated" /\ record' = "STOPPED"
    BY <1>0, <1>1 DEF Allocate, Filled, Staged
  <2>2. ~Running'
    BY <2>1 DEF Running
  <2>3. \A i \in Ring : ~(AgeOf(i)' + 0 > NumBuf)
    <3>1. TypeOK'
      BY <1>1, Typed DEF Next, Construct
    <3>2. NumBuf \in Nat \ {0} /\ buf_idx' \in 0..(NumBuf - 1)
      BY <3>1, RecorderAssumption DEF TypeOK, Ring
    <3>3. \A i \in Ring : Age(NumBuf, buf_idx', i) \in 1..NumBuf
      BY <3>2, AgeBounds DEF Ring
    <3> QED BY <3>2, <3>3 DEF AgeOf
  <2> QED BY <2>1, <2>2, <2>3 DEF Unbroken, AgeOf
<1>2. CASE Prime
  <2> DEFINE entry == [buf |-> primed, frames |-> NumBuf]
             n == Len(queue)
  <2>1. /\ Filled = 0 /\ Filled' = 0 /\ buf_idx = 0 /\ buf_idx' = 0 /\ ~refused
        /\ n = primed /\ primed < NumBuf /\ queue' = Append(queue, entry)
        /\ stage = "priming" /\ stage' = "priming" /\ record' = "STOPPED"
        /\ UNCHANGED <<captured, consumed, pending, cb, bufs>>
    BY <1>0, <1>2 DEF Prime, Staged, Filled
  <2>2. primed \in Ring
    BY <1>0, <2>1, RecorderAssumption DEF TypeOK, Ring
  <2>3. /\ n \in Nat /\ DOMAIN queue = 1..n /\ DOMAIN queue' = 1..(n + 1)
        /\ queue'[n + 1] = entry
        /\ \A k \in DOMAIN queue : queue'[k] = queue[k]
    BY <1>0, <2>1, <2>2, Enqueued, Numbers, RecorderAssumption
  <2>4. AgeOf(primed) + 0 + (n + 1) = NumBuf + 1
    BY <2>1, <2>2, RecorderAssumption DEF AgeOf, Age, Ring
  <2>5. AgeOf(queue'[n + 1].buf) + 0 + (n + 1) = NumBuf + 1
    BY <2>3, <2>4
  <2>6. \A k \in DOMAIN queue : AgeOf(queue[k].buf) + 0 + k = NumBuf + 1
    BY <1>0, <2>1 DEF Unbroken, Whole
  <2>7. captured = consumed + pending + (IF cb = "called" THEN 1 ELSE 0)
    BY <1>0, <2>1 DEF Unbroken, Whole
  <2>8. \A i \in Ring : ~(AgeOf(i) + 0 > NumBuf)
    BY <1>0, AgesInRing, Numbers
  <2>9. ~Running'
    BY <2>1 DEF Running
  <2> HIDE DEF entry, n
  <2>10. \A k \in DOMAIN queue' : AgeOf(queue'[k].buf) + 0 + k = NumBuf + 1
    BY <2>3, <2>5, <2>6
  <2> QED BY <2>1, <2>7, <2>8, <2>9, <2>10 DEF Unbroken, AgeOf
<1>3. CASE StartRecording
  <2>1. /\ UNCHANGED ringVars /\ stage = "priming" /\ primed = NumBuf
    BY <1>3 DEF StartRecording
  <2>2. Len(queue) = NumBuf /\ Filled = 0 /\ Filled' = 0
    BY <1>0, <2>1 DEF Staged, Filled, ringVars
  <2>3. Len(queue') + Filled' = NumBuf
    BY <2>1, <2>2, RecorderAssumption DEF ringVars
  <2> QED BY <1>0, <2>1, <2>2, <2>3 DEF Unbroken, Whole, AgeOf, ringVars
<1>4. CASE BufferFilled
  <2>1. Whole' => Whole
    BY <1>4 DEF BufferFilled, Whole
  <2> QED BY <1>4, <2>1, UnbrokenFilled DEF Unbroken
<1>5. CASE CallBack
  <2>1. /\ Filled' = Filled /\ UNCHANGED <<queue, bufs, buf_idx, captured, consumed>>
        /\ (Whole' => Whole) /\ pending' = pending - 1 /\ cb = "idle" /\ cb' = "called"
        /\ Filled > 0
    BY <1>0, <1>5 DEF CallBack, Filled, TypeOK, Whole
  <2>2. Whole => captured = consumed + pending' + 1 /\ Running
    BY <1>0, <2>1, Numbers DEF Unbroken, Running, TypeOK
  <2> QED BY <1>0, <2>1, <2>2 DEF Unbroken, AgeOf
<1>6. CASE Consume
  <2>1. /\ Filled' = Filled /\ UNCHANGED <<queue, bufs, buf_idx, captured, pending, stage, record>>
        /\ (Whole' => Whole) /\ cb = "called" /\ cb' = "requeue"
    BY <1>6 DEF Consume, Filled, Whole
  <2>2. Whole => captured = consumed' + pending' + 0
    <3>1. Whole => captured = consumed + pending + 1
      BY <1>0, <2>1 DEF Unbroken
    <3>2. Whole => consumed' = consumed + 1
      BY <1>6, NextConsumed DEF IInv
    <3> QED BY <1>0, <2>1, <3>1, <3>2, Numbers
  <2>3. Running' = Running
    BY <2>1 DEF Running
  <2> QED BY <1>0, <2>1, <2>2, <2>3 DEF Unbroken, AgeOf
<1>7. CASE Requeue
  <2>1. Whole' => Whole /\ ~refused'
    BY <1>7 DEF Requeue, RequeueWith, Whole
  <2> QED BY <1>7, <2>1, UnbrokenRequeued DEF Unbroken
<1>8. CASE DestroyRecorder \/ DestroyDecoder \/ DestroyConsumer
  BY <1>8 DEF DestroyRecorder, DestroyDecoder, DestroyConsumer, Unbroken, Whole
<1>9. CASE CreateAudioRecorder \/ RegisterCallback \/ CreateFails \/ Close \/ Closing \/ Halt \/ Finalize
  <2>1. UNCHANGED ringVars /\ (Whole' => Whole)
    BY <1>9 DEF CreateAudioRecorder, RegisterCallback, CreateFails, Close, Closing,
                Halt, StopRecorder, StopWith, SetStopped, PollStopped, PollFails, Finalize, Whole, ringVars
  <2>2. Running' => Running
    BY <1>0, <1>9, <2>1
       DEF CreateAudioRecorder, RegisterCallback, CreateFails, Close, Closing, Halt, StopRecorder, StopWith, SetStopped,
           PollStopped, PollFails, Finalize, Running, Filled, ringVars, TypeOK
  <2> QED BY <1>0, <2>1, <2>2 DEF Unbroken, AgeOf, Filled, ringVars
<1> QED
  BY <1>1, <1>2, <1>3, <1>4, <1>5, <1>6, <1>7, <1>8, <1>9 DEF Next, Construct, Callback, Destroy

LEMMA Safe == Spec => []IInv
<1>1. IInv /\ [Next]_vars => IInv'
  <2>1. IInv /\ Next => IInv'
    BY Typed, StagedStep, InOrderStep, UnbrokenStep DEF IInv
  <2>2. IInv /\ UNCHANGED vars => IInv'
    BY DEF IInv, TypeOK, Staged, InOrder, Unbroken, Whole, Running, Filled, AgeOf, vars, ringVars
  <2> QED BY <2>1, <2>2
<1> QED BY <1>1, InitInv, PTL DEF Spec

-----------------------------------------------------------------------------
\* Every variable of the recorder keeps its type; in particular no more than NumBuf
\* buffers ever wait for their callback.
THEOREM RecorderTypeCorrect == Spec => []TypeOK
<1>1. IInv => TypeOK
  BY DEF IInv
<1> QED BY <1>1, Safe, PTL

\* The microphone never writes into the buffer the callback reads, whatever OpenSL
\* refuses.
THEOREM RecorderNeverOverwrites == Spec => []NeverOverwritten
<1>1. ASSUME IInv, Filled > 0, NEW k \in DOMAIN queue PROVE queue[k].buf /= buf_idx
  <2>1. /\ AgeOf(queue[k].buf) \in 1..NumBuf /\ queue[k].buf \in Ring
        /\ Filled \in Nat /\ NumBuf \in Nat
    BY <1>1, Numbers DEF IInv
  <2>2. AgeOf(queue[k].buf) <= NumBuf - Filled
    BY <1>1 DEF IInv, InOrder
  <2>3. queue[k].buf = buf_idx => AgeOf(queue[k].buf) = NumBuf
    BY <1>1, <2>1, AgesInRing DEF IInv
  <2> QED BY <1>1, <2>1, <2>2, <2>3
<1>2. IInv => (cb /= "idle" \/ pending > 0 => Filled > 0)
  BY DEF IInv, TypeOK, Filled
<1>3. IInv => NeverOverwritten
  BY <1>1, <1>2 DEF NeverOverwritten
<1> QED BY <1>3, Safe, PTL

\* The callback runs only while the recorder and what it uses exist.
THEOREM RecorderCallbackAlive == Spec => []CallbackAlive
<1>1. IInv => CallbackAlive
  BY DEF IInv, Staged, CallbackAlive
<1> QED BY <1>1, Safe, PTL

\* Until OpenSL refuses one, every buffer is on the queue, waiting or in hand, and
\* none is on the queue twice.
THEOREM RecorderMislaysNone == Spec => []NoneMislaid
<1>1. ASSUME IInv, stage = "open", ~refused PROVE Len(queue) + Filled = NumBuf
  BY <1>1 DEF IInv, Unbroken, Whole, Running
<1>2. ASSUME IInv, NEW j \in DOMAIN queue, NEW k \in DOMAIN queue, queue[j].buf = queue[k].buf
      PROVE  j = k
  <2>1. AgeOf(queue[j].buf) = AgeOf(queue[k].buf) /\ AgeOf(queue[j].buf) \in 1..NumBuf
    BY <1>2, Numbers DEF IInv
  <2>2. /\ j < k => AgeOf(queue[j].buf) > AgeOf(queue[k].buf)
        /\ k < j => AgeOf(queue[k].buf) > AgeOf(queue[j].buf)
    BY <1>2 DEF IInv, InOrder
  <2>3. j \in Nat /\ k \in Nat
    BY <1>2, Numbers DEF IInv
  <2> QED BY <2>1, <2>2, <2>3
<1>3. IInv => Len(queue) \in Nat /\ pending \in Nat
  BY Numbers DEF IInv
<1>4. IInv => NoneMislaid
  <2> SUFFICES ASSUME IInv, stage = "open", ~refused
               PROVE  Len(queue) + pending + (IF cb = "idle" THEN 0 ELSE 1) = NumBuf
    BY <1>2 DEF NoneMislaid
  <2> QED BY <1>1, <1>3 DEF Filled
<1> QED BY <1>4, Safe, PTL

\* Until OpenSL refuses a buffer, the recorder is a pipe of NumBuf chunks.
THEOREM RecorderIsPipe == Spec => ImplementsPipe
<1> DEFINE in == IF refused THEN 0 ELSE captured
           gone == IF refused THEN 0 ELSE consumed
           Piped == Microphone!PipeNext \/ (in' = in /\ gone' = gone)
<1>1. Init => Microphone!PipeInit
  BY DEF Init, Microphone!PipeInit
<1>2. ASSUME IInv, Next PROVE Piped
  <2>0. TypeOK /\ Staged /\ InOrder /\ Unbroken
    BY <1>2 DEF IInv
  <2>1. CASE in' = 0 /\ gone' = 0
    BY <2>1 DEF Microphone!PipeNext, Microphone!Renew
  <2>2. CASE refused \/ refused' \/ Allocate
    <3>1. Allocate => ~refused' /\ captured' = 0 /\ consumed' = 0
      BY DEF Allocate
    <3>2. Allocate \/ refused'
      BY <1>2, <2>2 DEF Next, Construct, CreateAudioRecorder, RegisterCallback, Prime,
                StartRecording, CreateFails, BufferFilled, Callback, CallBack, Consume, Requeue,
                RequeueWith, Close, Closing, Halt, StopRecorder, StopWith, SetStopped, PollStopped, PollFails, Finalize, Destroy,
                DestroyRecorder, DestroyDecoder, DestroyConsumer, ringVars
    <3> QED BY <2>1, <3>1, <3>2
  <2>3. CASE BufferFilled /\ ~refused
    <3>1. Whole /\ ~refused' /\ consumed' = consumed /\ captured' = captured + 1 /\ queue /= <<>>
      BY <2>0, <2>3 DEF Whole, BufferFilled, Staged
    <3>2. Filled < NumBuf
      BY <2>0, <3>1, RoomToFill
    <3>3. captured = consumed + pending + (IF cb = "called" THEN 1 ELSE 0)
      BY <2>0, <3>1 DEF Unbroken
    <3>4. captured - consumed < NumBuf
      BY <2>0, <3>2, <3>3, RecorderAssumption DEF Filled, TypeOK
    <3> QED BY <2>3, <3>1, <3>4 DEF Microphone!PipeNext, Microphone!Enter
  <2>4. CASE Consume /\ ~refused
    <3>1. Whole /\ ~refused'
      BY <2>0, <2>4 DEF Whole, Consume, Staged
    <3>2. consumed' = consumed + 1 /\ captured' = captured /\ consumed < captured
      BY <1>2, <2>4, <3>1, NextConsumed
    <3> QED BY <2>4, <3>1, <3>2 DEF Microphone!PipeNext, Microphone!Leave
  <2>5. CASE ~refused /\ ~refused' /\ ~Allocate /\ ~BufferFilled /\ ~Consume
    <3>1. UNCHANGED <<captured, consumed>>
      BY <1>2, <2>5 DEF Next, Construct, CreateAudioRecorder, RegisterCallback, Prime,
                StartRecording, CreateFails, Callback, CallBack, Requeue, RequeueWith, Close,
                Closing, Halt, StopRecorder, StopWith, SetStopped, PollStopped, PollFails, Finalize, Destroy, DestroyRecorder,
                DestroyDecoder, DestroyConsumer, ringVars
    <3> QED BY <2>5, <3>1
  <2> QED BY <2>2, <2>3, <2>4, <2>5
<1>3. ASSUME IInv, UNCHANGED vars PROVE Piped
  BY <1>3 DEF vars, ringVars
<1>4. IInv /\ [Next]_vars => [Microphone!PipeNext]_<<in, gone>>
  BY <1>2, <1>3
<1>5. ImplementsPipe <=> Microphone!PipeInit /\ [][Microphone!PipeNext]_<<in, gone>>
  BY DEF ImplementsPipe, Microphone!PipeSpec
<1> HIDE DEF in, gone, Piped
<1> QED BY <1>1, <1>4, <1>5, Safe, PTL DEF Spec
=============================================================================
