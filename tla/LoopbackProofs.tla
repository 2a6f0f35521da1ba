--------------------------- MODULE LoopbackProofs ---------------------------
(***************************************************************************)
(* Safety of Loopback for every number of transmitters and receivers, any  *)
(* array capacity, any frame length and any queue bound, whether or not    *)
(* the system is closed early.  Three invariants carry the results.  IInv  *)
(* joins the type invariant with what makes a removal complete: the arrays *)
(* hold no pointer twice, and only objects that are open or being freed.   *)
(* InOrder follows a frame from the queue to those who hear it, and gives  *)
(* the refinement of Medium.  TickInv accounts for a tick under way, whose *)
(* array shrinks while the loop walks it.  The refinement of Source needs  *)
(* none of these two, only who owns what.                                  *)
(***************************************************************************)
EXTENDS Loopback, PtrArrayProofs

USE LoopbackAssumption

IInv == TypeOK /\ NoDanglingRegistration /\ RegisteredOnce

\* A block emitted leaves a well-formed encoder.
LEMMA AfterBlockType ==
  ASSUME NEW e \in Encoders, e.queue /= <<>>
  PROVE  AfterBlock(e) \in Encoders /\ Head(e.queue) \in Nat
<1>1. e.queue \in Seq(Nat) /\ Tail(e.queue) \in Seq(Nat) /\ Head(e.queue) \in Nat
  BY DEF Encoders
<1>2. e = [closed |-> e.closed, queue |-> e.queue, part |-> e.part]
  BY DEF Encoders
<1>3. e.closed \in BOOLEAN /\ e.part \in 1..FrameBlocks
  BY DEF Encoders
<1>4. CASE LastBlock(e)
  <2>1. AfterBlock(e) = [closed |-> e.closed, queue |-> Tail(e.queue), part |-> 1]
    BY <1>2, <1>4 DEF AfterBlock
  <2> QED BY <1>1, <1>3, <2>1 DEF Encoders
<1>5. CASE ~LastBlock(e)
  <2>1. AfterBlock(e) = [closed |-> e.closed, queue |-> e.queue, part |-> e.part + 1]
    BY <1>2, <1>5 DEF AfterBlock
  <2> QED BY <1>1, <1>3, <1>5, <2>1 DEF Encoders, LastBlock
<1> QED BY <1>1, <1>4, <1>5

\* The field updates of the handlers keep encoders, decoders and ticks well formed.
LEMMA ClosedEncoder == ASSUME NEW e \in Encoders PROVE [e EXCEPT !.closed = TRUE] \in Encoders
  BY DEF Encoders

LEMMA QueuedEncoder ==
  ASSUME NEW e \in Encoders, NEW q \in Seq(Nat) PROVE [e EXCEPT !.queue = q] \in Encoders
  BY DEF Encoders

LEMMA ClosedDecoder == ASSUME NEW d \in Decoders PROVE [d EXCEPT !.closed = TRUE] \in Decoders
  BY DEF Decoders

LEMMA QueuedDecoder ==
  ASSUME NEW d \in Decoders, NEW q \in Seq(Blocks) PROVE [d EXCEPT !.queue = q] \in Decoders
  BY DEF Decoders

LEMMA VisitedTick ==
  ASSUME NEW k \in Ticks, NEW v \in Seq(Transmitters), NEW j \in SUBSET Transmitters
  PROVE  /\ [k EXCEPT !.visited = v] \in Ticks
         /\ [k EXCEPT !.visited = v, !.ejected = j] \in Ticks
<1>1. [k EXCEPT !.visited = v] \in Ticks
  BY DEF Ticks
<1>2. [k EXCEPT !.visited = v, !.ejected = j] \in Ticks
  BY DEF Ticks
<1> QED BY <1>1, <1>2

\* A block consumed leaves a well-formed decoder.
LEMMA AfterConsumeType ==
  ASSUME NEW d \in Decoders, NEW m \in SUBSET Blocks
  PROVE  AfterConsume(d, m) \in Decoders
<1>1. Recovered(d, m) \subseteq Blocks /\ Unmixed(d, m) \subseteq Blocks
  BY DEF Recovered, Unmixed
<1>2. d = [closed |-> d.closed, queue |-> d.queue, hearing |-> d.hearing]
      /\ d.closed \in BOOLEAN /\ d.queue \in Seq(Blocks)
  BY DEF Decoders
<1> DEFINE q == IF Recovered(d, m) = {} THEN d.queue
                ELSE Append(d.queue, CHOOSE b \in Recovered(d, m) : TRUE)
<1>3. q \in Seq(Blocks)
  <2>1. CASE Recovered(d, m) = {}
    BY <1>2, <2>1
  <2>2. CASE Recovered(d, m) /= {}
    <3>1. (CHOOSE b \in Recovered(d, m) : TRUE) \in Blocks
      BY <1>1, <2>2
    <3> QED BY <1>2, <2>2, <3>1
  <2> QED BY <2>1, <2>2
<1> DEFINE h == {b \in Unmixed(d, m) : b.part < FrameBlocks}
<1>4. AfterConsume(d, m) = [d EXCEPT !.hearing = h, !.queue = q]
  BY DEF AfterConsume
<1>5. h \in SUBSET Blocks
  BY <1>1
<1> HIDE DEF q, h
<1> QED BY <1>2, <1>3, <1>4, <1>5 DEF Decoders

LEMMA FramesFromType ==
  ASSUME NEW t \in Transmitters, NEW bs \in SUBSET Blocks
  PROVE  FramesFrom(t, bs) \in Seq(Nat)
<1>1. CASE \E b \in bs : b.tx = t
  <2>1. (CHOOSE b \in bs : b.tx = t) \in Blocks
    BY <1>1
  <2>2. (CHOOSE b \in bs : b.tx = t).frame \in Nat
    BY <2>1 DEF Blocks
  <2> QED BY <1>1, <2>2 DEF FramesFrom
<1>2. CASE ~\E b \in bs : b.tx = t
  BY <1>2 DEF FramesFrom
<1> QED BY <1>1, <1>2

\* What is registered, read as a sequence, is a sequence of transmitters.
LEMMA ContentsType ==
  ASSUME NEW Ptr, NEW a, IsArray(a, Ptr), Live(a) \subseteq Ptr
  PROVE  Contents(a) \in Seq(Ptr)
<1>1. a.num \in Nat /\ \A k \in 1..a.num : k - 1 \in Used(a)
  BY DEF IsArray, Used
<1>2. \A k \in 1..a.num : a.buf[k - 1] \in Ptr
  BY <1>1 DEF Live
<1> QED BY <1>1, <1>2 DEF Contents

-----------------------------------------------------------------------------
LEMMA InitInv == Init => IInv
<1> SUFFICES ASSUME Init PROVE IInv
  OBVIOUS
<1>1. /\ IsArray(producers, Transmitters) /\ Live(producers) = {} /\ Distinct(producers)
      /\ IsArray(consumers, Receivers) /\ Live(consumers) = {} /\ Distinct(consumers)
  BY EmptyArrayIsArray DEF Init
<1>2. NewEncoder \in Encoders /\ NewDecoder \in Decoders /\ NoTick \in Ticks
  BY DEF NewEncoder, NewDecoder, Encoders, Decoders, NoTick, Ticks
<1>3. TypeOK
  BY <1>1, <1>2 DEF Init, TypeOK
<1> QED BY <1>1, <1>3 DEF IInv, NoDanglingRegistration, RegisteredOnce

\* What every step keeps of the arrays: they are arrays, without repetitions.
ArraysOK ==
  /\ IsArray(producers, Transmitters) /\ Distinct(producers)
  /\ IsArray(consumers, Receivers) /\ Distinct(consumers)

\* The only changes to the arrays are fresh ones, additions and removals.
ArrayStep ==
  \/ UNCHANGED <<producers, consumers>>
  \/ producers' = EmptyArray(InitialCap) /\ consumers' = EmptyArray(InitialCap)
  \/ UNCHANGED consumers /\ \E t \in Transmitters :
       \/ producers' = Add(producers, t) /\ t \notin Live(producers)
       \/ producers' = Remove(producers, t)
  \/ UNCHANGED producers /\ \E r \in Receivers :
       \/ consumers' = Add(consumers, r) /\ r \notin Live(consumers)
       \/ consumers' = Remove(consumers, r)

LEMMA ArraysStep == ArraysOK /\ ArrayStep => ArraysOK'
<1> SUFFICES ASSUME ArraysOK, ArrayStep PROVE ArraysOK'
  OBVIOUS
<1>1. CASE UNCHANGED <<producers, consumers>>
  BY <1>1 DEF ArraysOK
<1>2. CASE producers' = EmptyArray(InitialCap) /\ consumers' = EmptyArray(InitialCap)
  BY <1>2, EmptyArrayIsArray DEF ArraysOK
<1>3. ASSUME UNCHANGED consumers, NEW t \in Transmitters,
             \/ producers' = Add(producers, t) /\ t \notin Live(producers)
             \/ producers' = Remove(producers, t)
      PROVE  ArraysOK'
  BY <1>3, AddArray, AddLive, RemoveArray, RemoveLive DEF ArraysOK
<1>4. ASSUME UNCHANGED producers, NEW r \in Receivers,
             \/ consumers' = Add(consumers, r) /\ r \notin Live(consumers)
             \/ consumers' = Remove(consumers, r)
      PROVE  ArraysOK'
  BY <1>4, AddArray, AddLive, RemoveArray, RemoveLive DEF ArraysOK
<1> QED BY <1>1, <1>2, <1>3, <1>4 DEF ArrayStep

LEMMA NextArrays == IInv /\ [Next]_vars => ArrayStep
<1> SUFFICES ASSUME IInv, [Next]_vars PROVE ArrayStep
  OBVIOUS
<1> USE DEF ArrayStep
<1>1. CASE SystemCreate
  BY <1>1 DEF SystemCreate
<1>2. CASE SystemClose \/ SystemDestroy \/ MixerExit \/ TickBegin \/ SumDone \/ TickEnd
  BY <1>2 DEF SystemClose, SystemDestroy, MixerExit, TickBegin, TickFrom, SumDone, SumEnd,
              TickEnd, Finish, data
<1>3. ASSUME NEW t \in Transmitters, SumBlock(t) \/ SumNothing(t) \/ EjectAtEOF(t)
      PROVE  ArrayStep
  BY <1>3 DEF SumBlock, SumNothing, EjectAtEOF, Visiting, RemoveProducerLocked
<1>4. ASSUME NEW r \in Receivers, WriteConsumer(r)
      PROVE  ArrayStep
  BY <1>4 DEF WriteConsumer
<1>5. ASSUME NEW t \in Transmitters, AddProducer(t)
      PROVE  ArrayStep
  <2>1. t \notin Live(producers)
    BY <1>5 DEF IInv, NoDanglingRegistration, AddProducer
  <2> QED BY <1>5, <2>1 DEF AddProducer, txStill
<1>6. ASSUME NEW t \in Transmitters, TxStep(t), ~AddProducer(t)
      PROVE  ArrayStep
  BY <1>6 DEF TxStep, OpenTransmitter, Send, CloseTransmitter, TerminateTransmitter,
     TerminateRemove, FinalizeTransmitter, FreeRemove, FreeEncoder, FreeTransmitter,
     txStill, RemoveProducerLocked
<1>7. ASSUME NEW r \in Receivers, AddConsumer(r)
      PROVE  ArrayStep
  <2>1. r \notin Live(consumers)
    BY <1>7 DEF IInv, NoDanglingRegistration, AddConsumer
  <2> QED BY <1>7, <2>1 DEF AddConsumer, rxStill
<1>8. ASSUME NEW r \in Receivers, RxStep(r), ~AddConsumer(r)
      PROVE  ArrayStep
  BY <1>8 DEF RxStep, OpenReceiver, Recv, CloseReceiver, CloseRemove, FinalizeReceiver,
     FreeRemoveConsumer, FreeReceiver, rxStill
<1>9. CASE UNCHANGED vars
  BY <1>9 DEF vars, data
<1> QED BY <1>1, <1>2, <1>3, <1>4, <1>5, <1>6, <1>7, <1>8, <1>9 DEF Next, Mixer

LEMMA NextRegistered == IInv /\ [Next]_vars => NoDanglingRegistration'
<1> SUFFICES ASSUME IInv, [Next]_vars PROVE NoDanglingRegistration'
  OBVIOUS
<1>0. /\ IsArray(producers, Transmitters) /\ Distinct(producers)
      /\ IsArray(consumers, Receivers) /\ Distinct(consumers)
      /\ NoDanglingRegistration
      /\ tx \in [Transmitters -> {"none", "created", "open", "freeing", "removed", "encfreed"}]
      /\ rx \in [Receivers -> {"none", "created", "open", "freeing", "removed"}]
  BY DEF IInv, TypeOK, RegisteredOnce
<1> USE <1>0 DEF NoDanglingRegistration
<1>1. CASE SystemCreate
  BY <1>1, EmptyArrayIsArray DEF SystemCreate, txVars, rxVars
<1>2. CASE SystemClose \/ SystemDestroy \/ MixerExit \/ TickBegin \/ SumDone \/ TickEnd
  BY <1>2 DEF SystemClose, SystemDestroy, MixerExit, TickBegin, TickFrom, SumDone, SumEnd,
              TickEnd, Finish, data, txVars, rxVars
<1>3. ASSUME NEW t \in Transmitters, SumBlock(t) \/ SumNothing(t)
      PROVE  NoDanglingRegistration'
  BY <1>3 DEF SumBlock, SumNothing, Visiting, txVars, rxVars
<1>4. ASSUME NEW t \in Transmitters, EjectAtEOF(t)
      PROVE  NoDanglingRegistration'
  BY <1>4, RemoveLive DEF EjectAtEOF, Visiting, RemoveProducerLocked, txVars, rxVars
<1>5. ASSUME NEW r \in Receivers, WriteConsumer(r)
      PROVE  NoDanglingRegistration'
  BY <1>5 DEF WriteConsumer, txVars, rxVars
<1>6. ASSUME NEW t \in Transmitters, TxStep(t)
      PROVE  NoDanglingRegistration'
  <2>1. CASE AddProducer(t)
    BY <2>1, AddLive DEF AddProducer, txStill, rxVars
  <2>2. CASE TerminateRemove(t)
    BY <2>2, RemoveLive DEF TerminateRemove, RemoveProducerLocked, txStill, rxVars
  <2>3. CASE FreeRemove(t)
    BY <2>3, RemoveLive DEF FreeRemove, RemoveProducerLocked, txStill, rxVars
  <2>4. CASE FinalizeTransmitter(t)
    BY <2>4 DEF FinalizeTransmitter, txStill, rxVars
  <2>5. CASE OpenTransmitter(t) \/ FreeEncoder(t) \/ FreeTransmitter(t)
    BY <2>5 DEF OpenTransmitter, FreeEncoder, FreeTransmitter, txStill, rxVars
  <2>6. CASE Send(t) \/ CloseTransmitter(t) \/ TerminateTransmitter(t)
    BY <2>6 DEF Send, CloseTransmitter, TerminateTransmitter, txStill, rxVars, txVars
  <2> QED BY <1>6, <2>1, <2>2, <2>3, <2>4, <2>5, <2>6 DEF TxStep
<1>7. ASSUME NEW r \in Receivers, RxStep(r)
      PROVE  NoDanglingRegistration'
  <2>1. CASE AddConsumer(r)
    BY <2>1, AddLive DEF AddConsumer, rxStill, txVars
  <2>2. CASE CloseRemove(r)
    BY <2>2, RemoveLive DEF CloseRemove, rxStill, txVars
  <2>3. CASE FreeRemoveConsumer(r)
    BY <2>3, RemoveLive DEF FreeRemoveConsumer, rxStill, txVars
  <2>4. CASE FinalizeReceiver(r)
    BY <2>4 DEF FinalizeReceiver, rxStill, txVars
  <2>5. CASE OpenReceiver(r) \/ FreeReceiver(r)
    BY <2>5 DEF OpenReceiver, FreeReceiver, rxStill, txVars
  <2>6. CASE Recv(r) \/ CloseReceiver(r)
    BY <2>6 DEF Recv, CloseReceiver, rxStill, rxVars, txVars
  <2> QED BY <1>7, <2>1, <2>2, <2>3, <2>4, <2>5, <2>6 DEF RxStep
<1>8. CASE UNCHANGED vars
  BY <1>8 DEF vars, data, txVars, rxVars
<1> QED BY <1>1, <1>2, <1>3, <1>4, <1>5, <1>6, <1>7, <1>8 DEF Next, Mixer

LEMMA NextType == IInv /\ [Next]_vars => TypeOK'
<1> SUFFICES ASSUME IInv, [Next]_vars PROVE TypeOK'
  OBVIOUS
<1>a. TypeOK /\ ArraysOK
  BY DEF IInv, TypeOK, RegisteredOnce, ArraysOK
<1>b. IsArray(producers, Transmitters)' /\ IsArray(consumers, Receivers)'
  BY <1>a, NextArrays, ArraysStep DEF ArraysOK
<1>c. Contents(producers) \in Seq(Transmitters)
  BY <1>a, ContentsType DEF TypeOK, IInv, NoDanglingRegistration
<1>d. NewEncoder \in Encoders /\ NewDecoder \in Decoders
  BY DEF NewEncoder, NewDecoder, Encoders, Decoders
<1> USE <1>a, <1>b DEF TypeOK
<1>0. CASE SystemCreate
  BY <1>0 DEF SystemCreate, txVars, rxVars
<1>1. CASE SystemClose \/ SystemDestroy \/ MixerExit \/ SumDone
  BY <1>1 DEF SystemClose, SystemDestroy, MixerExit, SumDone, SumEnd,
              mixVars, data, txVars, rxVars
<1>2. CASE TickBegin \/ TickEnd
  <2>1. tick' \in Ticks
    <3>1. tick' = NoTick
          \/ tick' = [roster |-> Contents(producers), visited |-> <<>>, ejected |-> {}]
      BY <1>2 DEF TickBegin, TickFrom, TickEnd, Finish
    <3>2. \A s \in Seq(Transmitters) : [roster |-> s, visited |-> <<>>, ejected |-> {}] \in Ticks
      BY ONLY DEF Ticks
    <3>3. NoTick \in Ticks
      BY ONLY DEF Ticks, NoTick
    <3> QED BY ONLY <1>c, <3>1, <3>2, <3>3
  <2>2. idx' \in Nat /\ mix' \subseteq Blocks /\ mpc' \in {"sum", "idle"} /\ UNCHANGED <<sys, data>>
    BY <1>2 DEF TickBegin, TickFrom, TickEnd, Finish
  <2> QED BY <2>1, <2>2 DEF data, txVars, rxVars
<1>3. ASSUME NEW t \in Transmitters, Visiting(t), Visited(t) \/ Ejected(t)
      PROVE  tick' \in Ticks
  <2> DEFINE v == Append(tick.visited, t)
             j == tick.ejected \cup {t}
  <2>1. tick \in Ticks /\ v \in Seq(Transmitters) /\ j \in SUBSET Transmitters
    BY DEF Ticks
  <2>2. tick' = [tick EXCEPT !.visited = v] \/ tick' = [tick EXCEPT !.visited = v, !.ejected = j]
    BY <1>3 DEF Visited, Ejected
  <2> HIDE DEF v, j
  <2>3. /\ [tick EXCEPT !.visited = v] \in Ticks
        /\ [tick EXCEPT !.visited = v, !.ejected = j] \in Ticks
    BY ONLY <2>1, VisitedTick
  <2> QED BY ONLY <2>2, <2>3
<1>4. ASSUME NEW t \in Transmitters, SumBlock(t)
      PROVE  TypeOK'
  <2>1. AfterBlock(enc[t]) \in Encoders /\ Head(enc[t].queue) \in Nat
    BY <1>4, AfterBlockType DEF SumBlock
  <2>2. [tx |-> t, frame |-> Head(enc[t].queue), part |-> enc[t].part] \in Blocks
    BY <2>1 DEF Blocks, Encoders
  <2>3. mix' \subseteq Blocks
    BY <1>4, <2>2 DEF SumBlock
  <2>4. enc' \in [Transmitters -> Encoders] /\ aired' \in [Transmitters -> Nat]
    BY <1>4, <2>1 DEF SumBlock
  <2>5. idx' \in Nat
    BY <1>4 DEF SumBlock, Visiting
  <2> QED BY <1>3, <1>4, <2>3, <2>4, <2>5 DEF SumBlock, Visiting, txVars, rxVars
<1>5. ASSUME NEW t \in Transmitters, SumNothing(t) \/ EjectAtEOF(t)
      PROVE  TypeOK'
  BY <1>3, <1>5 DEF SumNothing, EjectAtEOF, Visiting, txVars, rxVars
<1>6. ASSUME NEW r \in Receivers, WriteConsumer(r)
      PROVE  TypeOK'
  <2>1. AfterConsume(dec[r], mix) \in Decoders
    BY AfterConsumeType
  <2>2. dec' \in [Receivers -> Decoders]
    BY <1>6, <2>1 DEF WriteConsumer
  <2>3. Recovered(dec[r], mix) \in SUBSET Blocks
    BY DEF Recovered, Unmixed
  <2>4. \A t \in Transmitters : heard[r][t] \o FramesFrom(t, Recovered(dec[r], mix)) \in Seq(Nat)
    BY <2>3, FramesFromType
  <2>5. heard' \in [Receivers -> [Transmitters -> Seq(Nat)]]
    BY <1>6, <2>4 DEF WriteConsumer
  <2>6. idx' = idx + 1 /\ UNCHANGED <<txVars, rxVars>>
    BY <1>6 DEF WriteConsumer
  <2>7. idx' \in Nat
    BY <1>3, <2>6
  <2> QED BY <1>6, <1>3, <2>2, <2>5, <2>6, <2>7 DEF WriteConsumer, txVars, rxVars
<1>7. ASSUME NEW t \in Transmitters, TxStep(t)
      PROVE  TypeOK'
  <2> USE DEF txStill, mixVars, txVars, rxVars
  <2>1. CASE OpenTransmitter(t) \/ FreeEncoder(t)
    <3>1. enc' \in [Transmitters -> Encoders]
      BY <1>d, <2>1 DEF OpenTransmitter, FreeEncoder
    <3> QED BY <2>1, <3>1 DEF OpenTransmitter, FreeEncoder
  <2>2. CASE Send(t)
    <3>1. enc' \in [Transmitters -> Encoders]
      <4> DEFINE q == Append(enc[t].queue, sent[t] + 1)
      <4>1. enc' = [enc EXCEPT ![t] = [enc[t] EXCEPT !.queue = q]]
        BY <2>2 DEF Send
      <4>2. q \in Seq(Nat)
        BY DEF Encoders
      <4>3. [enc[t] EXCEPT !.queue = q] \in Encoders
        <5> HIDE DEF q
        <5> QED BY <4>2, QueuedEncoder
      <4> QED BY <4>1, <4>3
    <3> QED BY <2>2, <3>1 DEF Send
  <2>3. CASE CloseTransmitter(t) \/ TerminateTransmitter(t)
    <3>1. enc' \in [Transmitters -> Encoders]
      <4>1. enc' = [enc EXCEPT ![t] = [enc[t] EXCEPT !.closed = TRUE]]
        BY <2>3 DEF CloseTransmitter, TerminateTransmitter
      <4> QED BY <4>1, ClosedEncoder
    <3> QED BY <2>3, <3>1 DEF CloseTransmitter, TerminateTransmitter
  <2>4. CASE AddProducer(t) \/ TerminateRemove(t) \/ FinalizeTransmitter(t)
             \/ FreeRemove(t) \/ FreeTransmitter(t)
    BY <2>4 DEF AddProducer, TerminateRemove, FinalizeTransmitter, FreeRemove, FreeTransmitter
  <2> QED BY <1>7, <2>1, <2>2, <2>3, <2>4 DEF TxStep
<1>8. ASSUME NEW r \in Receivers, RxStep(r)
      PROVE  TypeOK'
  <2> USE DEF rxStill, mixVars, txVars, rxVars
  <2>1. CASE OpenReceiver(r) \/ FreeReceiver(r)
    <3>1. dec' \in [Receivers -> Decoders]
      BY <1>d, <2>1 DEF OpenReceiver, FreeReceiver
    <3> QED BY <2>1, <3>1 DEF OpenReceiver, FreeReceiver
  <2>2. CASE Recv(r) \/ CloseReceiver(r)
    <3>1. dec' \in [Receivers -> Decoders]
      <4>1. CASE Recv(r)
        <5> DEFINE q == Tail(dec[r].queue)
        <5>1. dec' = [dec EXCEPT ![r] = [dec[r] EXCEPT !.queue = q]]
          BY <4>1 DEF Recv
        <5>2. q \in Seq(Blocks)
          BY <4>1 DEF Recv, Decoders
        <5>3. [dec[r] EXCEPT !.queue = q] \in Decoders
          <6> HIDE DEF q
          <6> QED BY <5>2, QueuedDecoder
        <5> QED BY <5>1, <5>3
      <4>2. CASE CloseReceiver(r)
        <5>1. dec' = [dec EXCEPT ![r] = [dec[r] EXCEPT !.closed = TRUE]]
          BY <4>2 DEF CloseReceiver
        <5> QED BY <5>1, ClosedDecoder
      <4> QED BY <2>2, <4>1, <4>2
    <3> QED BY <2>2, <3>1 DEF Recv, CloseReceiver
  <2>3. CASE AddConsumer(r) \/ CloseRemove(r) \/ FinalizeReceiver(r) \/ FreeRemoveConsumer(r)
    BY <2>3 DEF AddConsumer, CloseRemove, FinalizeReceiver, FreeRemoveConsumer
  <2> QED BY <1>8, <2>1, <2>2, <2>3 DEF RxStep
<1>9. CASE UNCHANGED vars
  BY <1>9 DEF vars, mixVars, data, txVars, rxVars
<1> QED BY <1>0, <1>1, <1>2, <1>4, <1>5, <1>6, <1>7, <1>8, <1>9 DEF Next, Mixer

LEMMA NextInv == IInv /\ [Next]_vars => IInv'
<1> SUFFICES ASSUME IInv, [Next]_vars PROVE IInv'
  OBVIOUS
<1>1. ArraysOK'
  BY NextArrays, ArraysStep DEF IInv, TypeOK, RegisteredOnce, ArraysOK
<1> QED BY <1>1, NextType, NextRegistered DEF IInv, RegisteredOnce, ArraysOK

-----------------------------------------------------------------------------
\* Loopback is type correct.
THEOREM TypeCorrect == Spec => []TypeOK
<1>1. IInv => TypeOK
  BY DEF IInv
<1> QED BY <1>1, InitInv, NextInv, PTL DEF Spec

\* The mixer never holds a pointer to a producer or consumer that has been freed.
THEOREM NeverDangling == Spec => []NoDanglingRegistration
<1>1. IInv => NoDanglingRegistration
  BY DEF IInv
<1> QED BY <1>1, InitInv, NextInv, PTL DEF Spec

\* Nothing is ever registered twice.
THEOREM AlwaysRegisteredOnce == Spec => []RegisteredOnce
<1>1. IInv => RegisteredOnce
  BY DEF IInv
<1> QED BY <1>1, InitInv, NextInv, PTL DEF Spec

-----------------------------------------------------------------------------
(* The way of a frame: queued, aired, mixed, recovered and heard.           *)

\* What a transmitter has queued is in order, and comes after what was aired.
QueuedInOrder ==
  \A t \in Transmitters :
    /\ aired[t] <= sent[t]
    /\ \A k \in DOMAIN enc[t].queue : aired[t] < enc[t].queue[k] /\ enc[t].queue[k] <= sent[t]
    /\ \A j, k \in DOMAIN enc[t].queue : j < k => enc[t].queue[j] < enc[t].queue[k]

\* What a receiver has heard is in order, and was aired; what its decoder holds was heard.
HeardInOrder ==
  \A r \in Receivers :
    /\ \A t \in Transmitters :
         /\ \A k \in DOMAIN heard[r][t] : heard[r][t][k] <= aired[t]
         /\ \A j, k \in DOMAIN heard[r][t] : j < k => heard[r][t][j] < heard[r][t][k]
    /\ \A k \in DOMAIN dec[r].queue :
         LET f == dec[r].queue[k]
         IN  \E j \in DOMAIN heard[r][f.tx] : heard[r][f.tx][j] = f.frame
    /\ \A j, k \in DOMAIN dec[r].queue :
         LET f == dec[r].queue[j]
             g == dec[r].queue[k]
         IN  j < k /\ f.tx = g.tx => f.frame < g.frame

\* The receivers the mix of the tick under way has not reached yet.
ToWrite(r) == mpc = "sum" \/ \E j \in Used(consumers) : idx <= j /\ consumers.buf[j] = r

\* A frame that a mix completes was the last to be aired, and those who are still to
\* get the mix have not heard it.
MixedFresh ==
  mpc \in {"sum", "write"} => \A b \in mix : mix = {b} /\ b.part = FrameBlocks =>
    /\ b.frame = aired[b.tx] /\ 0 < b.frame
    /\ \A r \in Receivers : ToWrite(r) =>
         \A k \in DOMAIN heard[r][b.tx] : heard[r][b.tx][k] < b.frame

InOrder == QueuedInOrder /\ HeardInOrder /\ MixedFresh

LEMMA InitInOrder == Init => InOrder
<1> SUFFICES ASSUME Init PROVE InOrder
  OBVIOUS
<1>1. QueuedInOrder
  BY DEF Init, QueuedInOrder, NewEncoder
<1>2. HeardInOrder
  BY DEF Init, HeardInOrder, NewDecoder
<1>3. MixedFresh
  BY DEF Init, MixedFresh
<1> QED BY <1>1, <1>2, <1>3 DEF InOrder

\* Where the encoders, the decoders and the counts of frames are left alone.
LEMMA StillFrames ==
  ASSUME Next
  PROVE  \/ \E t \in Transmitters : SumBlock(t) \/ Send(t)
         \/ \E r \in Receivers : WriteConsumer(r)
         \/ /\ UNCHANGED <<sent, aired, heard>>
            /\ \/ enc' = enc
               \/ \E t \in Transmitters : enc' = [enc EXCEPT ![t] = NewEncoder]
               \/ \E t \in Transmitters : enc' = [enc EXCEPT ![t].closed = TRUE]
            /\ \/ dec' = dec
               \/ \E r \in Receivers : dec' = [dec EXCEPT ![r] = NewDecoder]
               \/ \E r \in Receivers : Recv(r)
               \/ \E r \in Receivers : dec' = [dec EXCEPT ![r].closed = TRUE]
<1> DEFINE Still ==
      /\ UNCHANGED <<sent, aired, heard>>
      /\ \/ enc' = enc
         \/ \E t \in Transmitters : enc' = [enc EXCEPT ![t] = NewEncoder]
         \/ \E t \in Transmitters : enc' = [enc EXCEPT ![t].closed = TRUE]
      /\ \/ dec' = dec
         \/ \E r \in Receivers : dec' = [dec EXCEPT ![r] = NewDecoder]
         \/ \E r \in Receivers : Recv(r)
         \/ \E r \in Receivers : dec' = [dec EXCEPT ![r].closed = TRUE]
<1>1. CASE SystemCreate \/ SystemClose \/ SystemDestroy
  BY <1>1 DEF SystemCreate, SystemClose, SystemDestroy, data, txVars
<1>2. CASE MixerExit \/ TickBegin \/ SumDone \/ TickEnd
  BY <1>2 DEF MixerExit, TickBegin, TickFrom, SumDone, SumEnd, TickEnd, Finish, data, txVars
<1>3. ASSUME NEW t \in Transmitters, SumNothing(t) \/ EjectAtEOF(t) PROVE Still
  BY <1>3 DEF SumNothing, EjectAtEOF, Visiting, txVars
<1>4. ASSUME NEW t \in Transmitters, TxStep(t), ~Send(t) PROVE Still
  <2>1. UNCHANGED <<sent, aired, heard, dec>>
    BY <1>4 DEF TxStep, OpenTransmitter, AddProducer, CloseTransmitter, TerminateTransmitter,
                TerminateRemove, FinalizeTransmitter, FreeRemove, FreeEncoder, FreeTransmitter,
                txStill, txVars
  <2>2. \/ enc' = enc \/ enc' = [enc EXCEPT ![t] = NewEncoder]
        \/ enc' = [enc EXCEPT ![t].closed = TRUE]
    BY <1>4 DEF TxStep, OpenTransmitter, AddProducer, CloseTransmitter, TerminateTransmitter,
                TerminateRemove, FinalizeTransmitter, FreeRemove, FreeEncoder, FreeTransmitter
  <2> QED BY <2>1, <2>2
<1>5. ASSUME NEW r \in Receivers, RxStep(r) PROVE Still
  <2>1. UNCHANGED <<sent, aired, heard, enc>>
    BY <1>5 DEF RxStep, OpenReceiver, AddConsumer, Recv, CloseReceiver, CloseRemove,
                FinalizeReceiver, FreeRemoveConsumer, FreeReceiver, rxStill, txVars
  <2>2. \/ dec' = dec \/ dec' = [dec EXCEPT ![r] = NewDecoder]
        \/ Recv(r) \/ dec' = [dec EXCEPT ![r].closed = TRUE]
    BY <1>5 DEF RxStep, OpenReceiver, AddConsumer, CloseReceiver, CloseRemove,
                FinalizeReceiver, FreeRemoveConsumer, FreeReceiver
  <2> QED BY <2>1, <2>2
<1> QED BY <1>1, <1>2, <1>3, <1>4, <1>5 DEF Next, Mixer

-----------------------------------------------------------------------------
\* A block of the frame at the head of the queue; the last takes it off.
LEMMA SumsBlock ==
  ASSUME IInv, QueuedInOrder, NEW t \in Transmitters, SumBlock(t)
  PROVE  LET f == Head(enc[t].queue)
         IN  /\ f \in Nat /\ aired[t] < f /\ f <= sent[t]
             /\ sent' = sent /\ heard' = heard /\ dec' = dec
             /\ \A u \in Transmitters : u /= t => enc'[u].queue = enc[u].queue /\ aired'[u] = aired[u]
             /\ \/ /\ enc[t].part = FrameBlocks /\ aired'[t] = f
                   /\ enc'[t].queue = Tail(enc[t].queue)
                \/ /\ enc[t].part /= FrameBlocks /\ aired'[t] = aired[t]
                   /\ enc'[t].queue = enc[t].queue
<1>1. /\ enc \in [Transmitters -> Encoders] /\ aired \in [Transmitters -> Nat]
      /\ enc[t].queue /= <<>> /\ enc[t] \in Encoders /\ enc[t].queue \in Seq(Nat)
  BY DEF IInv, TypeOK, SumBlock, Encoders
<1>2. Head(enc[t].queue) = enc[t].queue[1] /\ 1 \in DOMAIN enc[t].queue /\ Head(enc[t].queue) \in Nat
  BY <1>1
<1>3. aired[t] < Head(enc[t].queue) /\ Head(enc[t].queue) <= sent[t]
  BY <1>2 DEF QueuedInOrder
<1>4. /\ enc' = [enc EXCEPT ![t] = AfterBlock(enc[t])]
      /\ aired' = IF LastBlock(enc[t]) THEN [aired EXCEPT ![t] = Head(enc[t].queue)] ELSE aired
      /\ sent' = sent /\ heard' = heard /\ dec' = dec
  BY DEF SumBlock, Visiting, txVars
<1>5. LastBlock(enc[t]) => AfterBlock(enc[t]).queue = Tail(enc[t].queue)
  BY <1>1 DEF AfterBlock, Encoders
<1>6. ~LastBlock(enc[t]) => AfterBlock(enc[t]).queue = enc[t].queue
  BY <1>1 DEF AfterBlock, Encoders
<1>7. \A u \in Transmitters : u /= t => enc'[u].queue = enc[u].queue /\ aired'[u] = aired[u]
  BY <1>1, <1>4
<1>8. enc'[t] = AfterBlock(enc[t])
  BY <1>1, <1>4
<1>9. CASE LastBlock(enc[t])
  BY <1>1, <1>2, <1>3, <1>4, <1>5, <1>7, <1>8, <1>9 DEF LastBlock
<1>10. CASE ~LastBlock(enc[t])
  BY <1>1, <1>2, <1>3, <1>4, <1>6, <1>7, <1>8, <1>10 DEF LastBlock
<1> QED BY <1>9, <1>10

LEMMA QueuedStep == ASSUME IInv, InOrder, Next PROVE QueuedInOrder'
<1>0. /\ enc \in [Transmitters -> Encoders] /\ QueuedInOrder
      /\ sent \in [Transmitters -> Nat] /\ aired \in [Transmitters -> Nat]
  BY DEF IInv, TypeOK, InOrder
<1>00. \A t \in Transmitters :
         enc[t] \in Encoders /\ enc[t].queue \in Seq(Nat) /\ sent[t] \in Nat /\ aired[t] \in Nat
  BY <1>0 DEF Encoders
<1>1. ASSUME NEW t \in Transmitters, SumBlock(t) PROVE QueuedInOrder'
  <2> DEFINE f == Head(enc[t].queue)
             q == enc[t].queue
  <2>1. /\ f \in Nat /\ aired[t] < f /\ f <= sent[t] /\ sent' = sent
        /\ \A u \in Transmitters : u /= t => enc'[u].queue = enc[u].queue /\ aired'[u] = aired[u]
        /\ \/ aired'[t] = f /\ enc'[t].queue = Tail(q)
           \/ aired'[t] = aired[t] /\ enc'[t].queue = q
    BY <1>0, <1>1, SumsBlock
  <2>2. q \in Seq(Nat) /\ q /= <<>>
    BY <1>1, <1>00 DEF SumBlock
  <2>3. /\ \A k \in DOMAIN q : aired[t] < q[k] /\ q[k] <= sent[t]
        /\ \A j, k \in DOMAIN q : j < k => q[j] < q[k]
    BY <1>0 DEF QueuedInOrder
  <2> HIDE DEF q
  <2>4. /\ f = q[1] /\ 1 \in DOMAIN q
        /\ \A k \in DOMAIN Tail(q) : k + 1 \in DOMAIN q /\ 1 < k + 1 /\ Tail(q)[k] = q[k + 1]
    BY <2>2 DEF q
  <2>5. /\ \A k \in DOMAIN Tail(q) : f < Tail(q)[k] /\ Tail(q)[k] <= sent[t]
        /\ \A j, k \in DOMAIN Tail(q) : j < k => Tail(q)[j] < Tail(q)[k]
    <3>1. \A k \in DOMAIN Tail(q) : f < Tail(q)[k] /\ Tail(q)[k] <= sent[t]
      BY <2>3, <2>4
    <3>2. ASSUME NEW j \in DOMAIN Tail(q), NEW k \in DOMAIN Tail(q), j < k
          PROVE  Tail(q)[j] < Tail(q)[k]
      <4>1. j + 1 \in DOMAIN q /\ k + 1 \in DOMAIN q /\ j + 1 < k + 1
        BY <2>2, <2>4, <3>2
      <4> QED BY <2>3, <2>4, <4>1
    <3> QED BY <3>1, <3>2
  <2> HIDE DEF f
  <2>6. ASSUME NEW u \in Transmitters
        PROVE  /\ aired'[u] <= sent'[u]
               /\ \A k \in DOMAIN enc'[u].queue :
                    aired'[u] < enc'[u].queue[k] /\ enc'[u].queue[k] <= sent'[u]
               /\ \A j, k \in DOMAIN enc'[u].queue : j < k => enc'[u].queue[j] < enc'[u].queue[k]
    <3>1. CASE u /= t
      BY <1>0, <2>1, <3>1 DEF QueuedInOrder
    <3>2. CASE u = t /\ aired'[t] = f /\ enc'[t].queue = Tail(q)
      BY <2>1, <2>5, <3>2
    <3>3. CASE u = t /\ aired'[t] = aired[t] /\ enc'[t].queue = q
      BY <1>0, <2>1, <2>3, <3>3 DEF QueuedInOrder
    <3> QED BY <2>1, <3>1, <3>2, <3>3
  <2> QED BY <2>6 DEF QueuedInOrder
<1>2. ASSUME NEW t \in Transmitters, Send(t) PROVE QueuedInOrder'
  <2> DEFINE q == enc[t].queue
             p == Append(q, sent[t] + 1)
  <2>1. /\ sent' = [sent EXCEPT ![t] = sent[t] + 1] /\ aired' = aired
        /\ enc' = [enc EXCEPT ![t] = [enc[t] EXCEPT !.queue = p]]
    BY <1>2 DEF Send
  <2>2. /\ q \in Seq(Nat)
        /\ \A k \in DOMAIN q : aired[t] < q[k] /\ q[k] <= sent[t] /\ q[k] \in Nat
        /\ \A j, k \in DOMAIN q : j < k => q[j] < q[k]
    BY <1>0, <1>00 DEF QueuedInOrder
  <2>3. /\ DOMAIN p = DOMAIN q \cup {Len(q) + 1} /\ DOMAIN q = 1..Len(q) /\ Len(q) \in Nat
        /\ p[Len(q) + 1] = sent[t] + 1
        /\ \A k \in DOMAIN q : p[k] = q[k]
    <3>1. q \in Seq(Nat) /\ sent[t] + 1 \in Nat
      BY <1>00, <2>2
    <3> HIDE DEF q
    <3> QED BY ONLY <3>1 DEF p
  <2>4. [enc[t] EXCEPT !.queue = p].queue = p
    BY <1>00 DEF Encoders
  <2> HIDE DEF p, q
  <2>5. enc'[t].queue = p /\ sent'[t] = sent[t] + 1
    BY <1>0, <2>1, <2>4
  <2>6. /\ \A k \in DOMAIN p : aired[t] < p[k] /\ p[k] <= sent[t] + 1
        /\ \A j, k \in DOMAIN p : j < k => p[j] < p[k]
    <3>1. aired[t] <= sent[t] /\ aired[t] \in Nat /\ sent[t] \in Nat
      BY <1>0, <1>00 DEF QueuedInOrder
    <3>2. \A k \in DOMAIN p : aired[t] < p[k] /\ p[k] <= sent[t] + 1
      BY <2>2, <2>3, <3>1
    <3>3. ASSUME NEW j \in DOMAIN p, NEW k \in DOMAIN p, j < k PROVE p[j] < p[k]
      <4>1. j \in DOMAIN q /\ (k \in DOMAIN q \/ k = Len(q) + 1)
        BY <2>3, <3>3
      <4> QED BY <2>2, <2>3, <3>1, <3>3, <4>1
    <3> QED BY <3>2, <3>3
  <2>7. ASSUME NEW u \in Transmitters
        PROVE  /\ aired'[u] <= sent'[u]
               /\ \A k \in DOMAIN enc'[u].queue :
                    aired'[u] < enc'[u].queue[k] /\ enc'[u].queue[k] <= sent'[u]
               /\ \A j, k \in DOMAIN enc'[u].queue : j < k => enc'[u].queue[j] < enc'[u].queue[k]
    <3>1. CASE u /= t
      <4>1. enc'[u] = enc[u] /\ sent'[u] = sent[u] /\ aired'[u] = aired[u]
        BY <1>0, <2>1, <3>1
      <4> QED BY <1>0, <4>1 DEF QueuedInOrder
    <3>2. CASE u = t
      <4>1. aired[t] <= sent[t] + 1
        BY <1>0, <1>00 DEF QueuedInOrder
      <4> QED BY <2>1, <2>5, <2>6, <3>2, <4>1
    <3> QED BY <3>1, <3>2
  <2> QED BY <2>7 DEF QueuedInOrder
<1>3. ASSUME UNCHANGED <<sent, aired>>,
             \A t \in Transmitters : enc'[t].queue = enc[t].queue \/ enc'[t].queue = <<>>
      PROVE  QueuedInOrder'
  BY <1>0, <1>3 DEF QueuedInOrder
<1>4. ASSUME NEW r \in Receivers, WriteConsumer(r) PROVE QueuedInOrder'
  BY <1>3, <1>4 DEF WriteConsumer, txVars
<1>5. ASSUME NEW t \in Transmitters, enc' = [enc EXCEPT ![t] = NewEncoder]
      PROVE  \A u \in Transmitters : enc'[u].queue = enc[u].queue \/ enc'[u].queue = <<>>
  BY <1>0, <1>5 DEF NewEncoder
<1>6. ASSUME NEW t \in Transmitters, enc' = [enc EXCEPT ![t].closed = TRUE]
      PROVE  \A u \in Transmitters : enc'[u].queue = enc[u].queue
  <2>1. enc' = [enc EXCEPT ![t] = [enc[t] EXCEPT !.closed = TRUE]]
    BY <1>6
  <2>2. [enc[t] EXCEPT !.closed = TRUE].queue = enc[t].queue
    BY <1>00 DEF Encoders
  <2> QED BY <1>0, <2>1, <2>2
<1> QED BY <1>1, <1>2, <1>3, <1>4, <1>5, <1>6, StillFrames

\* A mix that gives a receiver a frame completes just that frame.
LEMMA Recovers ==
  ASSUME NEW d, NEW m, Recovered(d, m) /= {}
  PROVE  \E b \in m : /\ m = {b} /\ Recovered(d, m) = {b} /\ b.part = FrameBlocks
<1>1. PICK b \in Recovered(d, m) : TRUE
  OBVIOUS
<1>2. b \in m /\ m = {b} /\ b.part = FrameBlocks
  BY <1>1 DEF Recovered, Unmixed
<1>3. \A c \in Recovered(d, m) : c \in m
  BY DEF Recovered, Unmixed
<1> QED BY <1>1, <1>2, <1>3

\* What a receiver's share of a mix does to what it has heard and queued.
LEMMA WritesOne ==
  ASSUME IInv, NEW r \in Receivers, WriteConsumer(r)
  PROVE  \/ UNCHANGED heard /\ \A q \in Receivers : dec'[q].queue = dec[q].queue
         \/ \E b \in mix :
              /\ mix = {b} /\ b.part = FrameBlocks
              /\ heard' = [heard EXCEPT ![r][b.tx] = Append(heard[r][b.tx], b.frame)]
              /\ dec'[r].queue = Append(dec[r].queue, b)
              /\ \A q \in Receivers : q /= r => dec'[q].queue = dec[q].queue
<1> DEFINE R == Recovered(dec[r], mix)
<1>1. /\ heard \in [Receivers -> [Transmitters -> Seq(Nat)]] /\ mix \subseteq Blocks
      /\ dec \in [Receivers -> Decoders]
      /\ dec' = [dec EXCEPT ![r] = AfterConsume(dec[r], mix)]
      /\ heard' = [heard EXCEPT ![r] = [t \in Transmitters |-> heard[r][t] \o FramesFrom(t, R)]]
  BY DEF IInv, TypeOK, WriteConsumer
<1>2. AfterConsume(dec[r], mix).queue =
        IF R = {} THEN dec[r].queue ELSE Append(dec[r].queue, CHOOSE b \in R : TRUE)
  BY <1>1 DEF AfterConsume, Decoders
<1>3. /\ dec'[r].queue = AfterConsume(dec[r], mix).queue
      /\ \A q \in Receivers : q /= r => dec'[q].queue = dec[q].queue
  BY <1>1
<1>4. \A t \in Transmitters : heard[r][t] \in Seq(Nat)
  BY <1>1
<1>5. CASE R = {}
  <2>1. \A t \in Transmitters : heard[r][t] \o FramesFrom(t, R) = heard[r][t]
    <3> SUFFICES ASSUME NEW t \in Transmitters PROVE heard[r][t] \o <<>> = heard[r][t]
      BY <1>5 DEF FramesFrom
    <3> QED BY <1>4
  <2>2. [t \in Transmitters |-> heard[r][t] \o FramesFrom(t, R)] = heard[r]
    BY <1>1, <2>1
  <2>3. heard' = heard
    BY <1>1, <2>2
  <2> QED BY <1>2, <1>3, <1>5, <2>3
<1>6. CASE R /= {}
  <2>1. PICK b \in mix : mix = {b} /\ R = {b} /\ b.part = FrameBlocks
    BY <1>6, Recovers
  <2>2. b \in Blocks /\ b.tx \in Transmitters /\ b.frame \in Nat
    BY <1>1 DEF Blocks
  <2>3. (CHOOSE c \in R : TRUE) = b
    BY <2>1
  <2>4. dec'[r].queue = Append(dec[r].queue, b)
    BY <1>2, <1>3, <1>6, <2>3
  <2>5. FramesFrom(b.tx, R) = <<b.frame>>
    <3>1. \E c \in R : c.tx = b.tx
      BY <2>1
    <3>2. (CHOOSE c \in R : c.tx = b.tx) = b
      BY <2>1
    <3> QED BY <3>1, <3>2 DEF FramesFrom
  <2>6. \A t \in Transmitters : t /= b.tx => FramesFrom(t, R) = <<>>
    BY <2>1 DEF FramesFrom
  <2>7. heard[r][b.tx] \o FramesFrom(b.tx, R) = Append(heard[r][b.tx], b.frame)
    BY <1>4, <2>2, <2>5
  <2>8. \A t \in Transmitters : t /= b.tx => heard[r][t] \o FramesFrom(t, R) = heard[r][t]
    <3> SUFFICES ASSUME NEW t \in Transmitters, t /= b.tx PROVE heard[r][t] \o <<>> = heard[r][t]
      BY <2>6
    <3> QED BY <1>4
  <2> DEFINE more == [t \in Transmitters |-> heard[r][t] \o FramesFrom(t, R)]
             new == Append(heard[r][b.tx], b.frame)
  <2>9. more = [heard[r] EXCEPT ![b.tx] = new]
    <3>1. heard[r] \in [Transmitters -> Seq(Nat)]
      BY <1>1
    <3> HIDE DEF new
    <3>2. more[b.tx] = new /\ \A t \in Transmitters : t /= b.tx => more[t] = heard[r][t]
      BY <2>2, <2>7, <2>8 DEF new
    <3>3. \A t \in Transmitters : more[t] = [heard[r] EXCEPT ![b.tx] = new][t]
      BY <3>1, <3>2
    <3> QED BY <3>1, <3>3
  <2>10. heard' = [heard EXCEPT ![r] = more]
    BY <1>1
  <2> HIDE DEF more, new
  <2>11. heard' = [heard EXCEPT ![r][b.tx] = new]
    BY <1>1, <2>9, <2>10
  <2> QED BY <1>3, <2>1, <2>4, <2>11 DEF new
<1> QED BY <1>5, <1>6

\* Appending keeps what was there and adds one more at the end.
LEMMA Appended ==
  ASSUME NEW S, NEW s \in Seq(S), NEW e \in S
  PROVE  /\ Append(s, e) \in Seq(S)
         /\ Append(s, e)[Len(s) + 1] = e
         /\ DOMAIN s = 1..Len(s) /\ Len(s) \in Nat
         /\ DOMAIN Append(s, e) = 1..(Len(s) + 1)
         /\ \A k \in DOMAIN s : Append(s, e)[k] = s[k] /\ k \in DOMAIN Append(s, e)
  OBVIOUS

LEMMA Shortened ==
  ASSUME NEW S, NEW s \in Seq(S), s /= <<>>
  PROVE  \A k \in DOMAIN Tail(s) : k \in Nat /\ k + 1 \in DOMAIN s /\ Tail(s)[k] = s[k + 1]
  OBVIOUS

\* As long as nothing is heard, and the decoders' queues at most lose frames.
LEMMA NothingHeard ==
  ASSUME IInv, HeardInOrder, heard' = heard,
         \A t \in Transmitters : aired'[t] \in Nat /\ aired[t] <= aired'[t],
         \A r \in Receivers :
           \/ dec'[r].queue = dec[r].queue
           \/ dec'[r].queue = <<>>
           \/ dec[r].queue /= <<>> /\ dec'[r].queue = Tail(dec[r].queue)
  PROVE  HeardInOrder'
<1>1. \A t \in Transmitters : aired[t] \in Nat
  BY DEF IInv, TypeOK
<1>2. ASSUME NEW r \in Receivers, NEW t \in Transmitters
      PROVE  /\ \A k \in DOMAIN heard'[r][t] : heard'[r][t][k] <= aired'[t]
             /\ \A j, k \in DOMAIN heard'[r][t] : j < k => heard'[r][t][j] < heard'[r][t][k]
  <2>1. \A k \in DOMAIN heard[r][t] : heard[r][t][k] \in Nat /\ heard[r][t][k] <= aired[t]
    BY DEF IInv, TypeOK, HeardInOrder
  <2>2. \A j, k \in DOMAIN heard[r][t] : j < k => heard[r][t][j] < heard[r][t][k]
    BY DEF HeardInOrder
  <2> QED BY <1>1, <2>1, <2>2
<1>3. ASSUME NEW r \in Receivers
      PROVE  /\ \A k \in DOMAIN dec'[r].queue :
                  LET f == dec'[r].queue[k]
                  IN  \E j \in DOMAIN heard'[r][f.tx] : heard'[r][f.tx][j] = f.frame
             /\ \A j, k \in DOMAIN dec'[r].queue :
                  LET f == dec'[r].queue[j]
                      g == dec'[r].queue[k]
                  IN  j < k /\ f.tx = g.tx => f.frame < g.frame
  <2>1. /\ \A k \in DOMAIN dec[r].queue :
             LET f == dec[r].queue[k]
             IN  \E j \in DOMAIN heard[r][f.tx] : heard[r][f.tx][j] = f.frame
        /\ \A j, k \in DOMAIN dec[r].queue :
             LET f == dec[r].queue[j]
                 g == dec[r].queue[k]
             IN  j < k /\ f.tx = g.tx => f.frame < g.frame
    BY DEF HeardInOrder
  <2>2. dec[r].queue \in Seq(Blocks)
    BY DEF IInv, TypeOK, Decoders
  <2> DEFINE q == dec[r].queue
             p == dec'[r].queue
  <2>3. CASE p = q
    BY <2>1, <2>3
  <2>4. CASE p = <<>>
    BY <2>4
  <2>5. CASE q /= <<>> /\ p = Tail(q)
    <3>1. \A k \in DOMAIN p : k \in Nat /\ k + 1 \in DOMAIN q /\ p[k] = q[k + 1]
      BY <2>2, <2>5, Shortened
    <3> HIDE DEF p, q
    <3>2. ASSUME NEW k \in DOMAIN p
          PROVE  \E j \in DOMAIN heard[r][p[k].tx] : heard[r][p[k].tx][j] = p[k].frame
      BY <2>1, <3>1 DEF q
    <3>3. ASSUME NEW j \in DOMAIN p, NEW k \in DOMAIN p, j < k, p[j].tx = p[k].tx
          PROVE  p[j].frame < p[k].frame
      <4>1. j + 1 \in DOMAIN q /\ k + 1 \in DOMAIN q /\ j + 1 < k + 1
        BY <3>1, <3>3
      <4>2. q[j + 1].tx = q[k + 1].tx
        BY <3>1, <3>3
      <4>3. q[j + 1].frame < q[k + 1].frame
        BY <2>1, <4>1, <4>2 DEF q
      <4> QED BY <3>1, <4>3
    <3> QED BY <3>2, <3>3 DEF p
  <2> QED BY <2>3, <2>4, <2>5
<1> QED BY <1>2, <1>3 DEF HeardInOrder

\* A receiver that recovers a frame had not heard it, nor any later one.
LEMMA HeardStep == ASSUME IInv, InOrder, Next PROVE HeardInOrder'
<1>0. /\ dec \in [Receivers -> Decoders] /\ HeardInOrder /\ MixedFresh /\ QueuedInOrder
      /\ \A t \in Transmitters : aired[t] \in Nat
      /\ \A r \in Receivers : \A t \in Transmitters : heard[r][t] \in Seq(Nat)
      /\ heard \in [Receivers -> [Transmitters -> Seq(Nat)]]
      /\ mix \subseteq Blocks
  BY DEF IInv, TypeOK, InOrder
<1>1. ASSUME NEW t \in Transmitters, SumBlock(t) PROVE HeardInOrder'
  <2>1. \A u \in Transmitters : aired'[u] \in Nat /\ aired[u] <= aired'[u]
    BY <1>0, <1>1, SumsBlock
  <2>2. heard' = heard /\ dec' = dec
    BY <1>0, <1>1, SumsBlock
  <2> QED BY <1>0, <2>1, <2>2, NothingHeard
<1>2. ASSUME NEW t \in Transmitters, Send(t) PROVE HeardInOrder'
  <2>1. heard' = heard /\ dec' = dec /\ aired' = aired
    BY <1>2 DEF Send, txStill
  <2> QED BY <1>0, <2>1, NothingHeard
<1>3. ASSUME UNCHANGED <<aired, heard>>,
             \/ dec' = dec
             \/ \E r \in Receivers : dec' = [dec EXCEPT ![r] = NewDecoder]
             \/ \E r \in Receivers : Recv(r)
             \/ \E r \in Receivers : dec' = [dec EXCEPT ![r].closed = TRUE]
      PROVE  HeardInOrder'
  <2>1. CASE dec' = dec
    BY <1>0, <1>3, <2>1, NothingHeard
  <2>2. ASSUME NEW r \in Receivers, dec' = [dec EXCEPT ![r] = NewDecoder] PROVE HeardInOrder'
    <3>1. \A q \in Receivers : dec'[q].queue = dec[q].queue \/ dec'[q].queue = <<>>
      BY <1>0, <2>2 DEF NewDecoder
    <3> QED BY <1>0, <1>3, <3>1, NothingHeard
  <2>3. ASSUME NEW r \in Receivers, Recv(r) PROVE HeardInOrder'
    <3> DEFINE p == Tail(dec[r].queue)
    <3>1. dec[r].queue /= <<>> /\ dec' = [dec EXCEPT ![r] = [dec[r] EXCEPT !.queue = p]]
      BY <2>3 DEF Recv
    <3>2. [dec[r] EXCEPT !.queue = p].queue = p
      BY <1>0 DEF Decoders
    <3> HIDE DEF p
    <3>3. dec'[r].queue = p /\ \A q \in Receivers : q /= r => dec'[q].queue = dec[q].queue
      BY <1>0, <3>1, <3>2
    <3> QED BY <1>0, <1>3, <3>1, <3>3, NothingHeard DEF p
  <2>4. ASSUME NEW r \in Receivers, dec' = [dec EXCEPT ![r].closed = TRUE] PROVE HeardInOrder'
    <3>1. dec' = [dec EXCEPT ![r] = [dec[r] EXCEPT !.closed = TRUE]]
      BY <2>4
    <3>2. [dec[r] EXCEPT !.closed = TRUE].queue = dec[r].queue
      BY <1>0 DEF Decoders
    <3>3. \A q \in Receivers : dec'[q].queue = dec[q].queue
      BY <1>0, <3>1, <3>2
    <3> QED BY <1>0, <1>3, <3>3, NothingHeard
  <2> QED BY <1>3, <2>1, <2>2, <2>3, <2>4
<1>4. ASSUME NEW r \in Receivers, WriteConsumer(r) PROVE HeardInOrder'
  <2>0. aired' = aired
    BY <1>4 DEF WriteConsumer
  <2>1. CASE UNCHANGED heard /\ \A q \in Receivers : dec'[q].queue = dec[q].queue
    BY <1>0, <2>0, <2>1, NothingHeard
  <2>2. ASSUME NEW b \in mix, mix = {b}, b.part = FrameBlocks,
               heard' = [heard EXCEPT ![r][b.tx] = Append(heard[r][b.tx], b.frame)],
               dec'[r].queue = Append(dec[r].queue, b),
               \A q \in Receivers : q /= r => dec'[q].queue = dec[q].queue
        PROVE  HeardInOrder'
    <3> DEFINE s == heard[r][b.tx]
               q == dec[r].queue
    <3>1. b \in Blocks /\ b.tx \in Transmitters /\ b.frame \in Nat
      BY <1>0 DEF Blocks
    <3>2. s \in Seq(Nat) /\ q \in Seq(Blocks)
      BY <1>0, <3>1 DEF Decoders
    <3>3. ToWrite(r)
      <4>1. mpc = "write" /\ idx < consumers.num /\ r = consumers.buf[idx]
        BY <1>4 DEF WriteConsumer
      <4>2. idx \in Used(consumers)
        BY <4>1 DEF IInv, TypeOK, IsArray, Used
      <4>3. idx \in Nat
        BY DEF IInv, TypeOK
      <4> QED BY <4>1, <4>2, <4>3 DEF ToWrite
    <3>4. mpc = "write"
      BY <1>4 DEF WriteConsumer
    <3>5. b.frame = aired[b.tx] /\ \A k \in DOMAIN s : s[k] < b.frame
      BY <1>0, <2>2, <3>3, <3>4 DEF MixedFresh
    <3>6. \A k \in DOMAIN q : q[k] \in Blocks /\ q[k].frame \in Nat
      <4> HIDE DEF q
      <4>1. \A k \in DOMAIN q : q[k] \in Blocks
        BY <3>2
      <4> QED BY <4>1 DEF Blocks
    <3>7. \A k \in DOMAIN q : q[k].tx = b.tx => q[k].frame < b.frame
      <4> SUFFICES ASSUME NEW k \in DOMAIN q, q[k].tx = b.tx PROVE q[k].frame < b.frame
        OBVIOUS
      <4>1. PICK j \in DOMAIN heard[r][q[k].tx] : heard[r][q[k].tx][j] = q[k].frame
        BY <1>0 DEF HeardInOrder
      <4> QED BY <3>5, <4>1
    <3> DEFINE s2 == Append(s, b.frame)
               q2 == Append(q, b)
    <3>8. /\ DOMAIN s2 = 1..(Len(s) + 1) /\ DOMAIN s = 1..Len(s) /\ Len(s) \in Nat
          /\ s2[Len(s) + 1] = b.frame
          /\ \A k \in DOMAIN s : s2[k] = s[k] /\ k \in DOMAIN s2
      <4> HIDE DEF s
      <4> QED BY ONLY <3>1, <3>2, Appended
    <3>9. /\ DOMAIN q2 = 1..(Len(q) + 1) /\ DOMAIN q = 1..Len(q) /\ Len(q) \in Nat
          /\ q2[Len(q) + 1] = b
          /\ \A k \in DOMAIN q : q2[k] = q[k]
      <4> HIDE DEF q
      <4> QED BY ONLY <3>1, <3>2, Appended
    <3>10. /\ \A j, k \in DOMAIN s : j < k => s[j] < s[k]
           /\ \A k \in DOMAIN q : \E j \in DOMAIN heard[r][q[k].tx] : heard[r][q[k].tx][j] = q[k].frame
           /\ \A j, k \in DOMAIN q : j < k /\ q[j].tx = q[k].tx => q[j].frame < q[k].frame
      BY <1>0, <3>1 DEF HeardInOrder
    <3>11. heard'[r][b.tx] = s2
      BY <1>0, <2>2, <3>1
    <3>12. \A p \in Receivers : \A t \in Transmitters :
             p /= r \/ t /= b.tx => heard'[p][t] = heard[p][t]
      BY <1>0, <2>2, <3>1
    <3>13. dec'[r].queue = q2
      BY <2>2
    <3> HIDE DEF s, q, s2, q2
    <3>14. /\ \A k \in DOMAIN s2 : s2[k] <= aired[b.tx]
           /\ \A j, k \in DOMAIN s2 : j < k => s2[j] < s2[k]
      <4>1. \A k \in DOMAIN s2 : k \in DOMAIN s \/ k = Len(s) + 1
        BY <3>8
      <4>2. \A k \in DOMAIN s2 : s2[k] <= aired[b.tx]
        <5>1. \A k \in DOMAIN s : s[k] \in Nat
          BY <3>2
        <5> QED BY <3>1, <3>5, <3>8, <4>1, <5>1
      <4>3. ASSUME NEW j \in DOMAIN s2, NEW k \in DOMAIN s2, j < k PROVE s2[j] < s2[k]
        <5>1. j \in DOMAIN s
          BY <3>8, <4>3
        <5> QED BY <3>5, <3>8, <3>10, <4>1, <4>3, <5>1
      <4> QED BY <4>2, <4>3
    <3>15. \A k \in DOMAIN q2 : k \in DOMAIN q \/ k = Len(q) + 1
      BY <3>9
    <3>16. ASSUME NEW j \in DOMAIN q2, NEW k \in DOMAIN q2, j < k, q2[j].tx = q2[k].tx
           PROVE  q2[j].frame < q2[k].frame
      <4>1. j \in DOMAIN q
        BY <3>9, <3>16
      <4>2. q2[j] = q[j]
        BY <3>9, <4>1
      <4>3. CASE k \in DOMAIN q
        BY <3>9, <3>10, <3>16, <4>1, <4>2, <4>3
      <4>4. CASE k = Len(q) + 1
        BY <3>7, <3>9, <3>16, <4>1, <4>2, <4>4
      <4> QED BY <3>15, <4>3, <4>4
    <3>17. ASSUME NEW k \in DOMAIN q2
           PROVE  \E j \in DOMAIN heard'[r][q2[k].tx] : heard'[r][q2[k].tx][j] = q2[k].frame
      <4>1. CASE k \in DOMAIN q
        <5>1. q2[k] = q[k]
          BY <3>9, <4>1
        <5>2. PICK j \in DOMAIN heard[r][q[k].tx] : heard[r][q[k].tx][j] = q[k].frame
          BY <3>10, <4>1
        <5>3. q[k].tx \in Transmitters
          BY <3>6, <4>1 DEF Blocks
        <5>4. CASE q[k].tx = b.tx
          <6>1. j \in DOMAIN s /\ s[j] = q[k].frame
            BY <5>2, <5>4 DEF s
          <6> QED BY <3>8, <3>11, <5>1, <5>4, <6>1
        <5>5. CASE q[k].tx /= b.tx
          <6>1. heard'[r][q[k].tx] = heard[r][q[k].tx]
            BY <3>12, <5>3, <5>5
          <6> QED BY <5>1, <5>2, <6>1
        <5> QED BY <5>4, <5>5
      <4>2. CASE k = Len(q) + 1
        <5>1. q2[k] = b
          BY <3>9, <4>2
        <5>2. Len(s) + 1 \in DOMAIN s2
          BY <3>8
        <5> QED BY <3>8, <3>11, <5>1, <5>2
      <4> QED BY <3>15, <4>1, <4>2
    <3>18. ASSUME NEW p \in Receivers, NEW t \in Transmitters
           PROVE  /\ \A k \in DOMAIN heard'[p][t] : heard'[p][t][k] <= aired'[t]
                  /\ \A j, k \in DOMAIN heard'[p][t] : j < k => heard'[p][t][j] < heard'[p][t][k]
      <4>1. CASE p = r /\ t = b.tx
        BY <2>0, <3>11, <3>14, <4>1
      <4>2. CASE p /= r \/ t /= b.tx
        <5>1. heard'[p][t] = heard[p][t]
          BY <3>12, <4>2
        <5> QED BY <1>0, <2>0, <5>1 DEF HeardInOrder
      <4> QED BY <4>1, <4>2
    <3>19. ASSUME NEW p \in Receivers
           PROVE  /\ \A k \in DOMAIN dec'[p].queue :
                       LET f == dec'[p].queue[k]
                       IN  \E j \in DOMAIN heard'[p][f.tx] : heard'[p][f.tx][j] = f.frame
                  /\ \A j, k \in DOMAIN dec'[p].queue :
                       LET f == dec'[p].queue[j]
                           g == dec'[p].queue[k]
                       IN  j < k /\ f.tx = g.tx => f.frame < g.frame
      <4>1. CASE p = r
        BY <3>13, <3>16, <3>17, <4>1
      <4>2. CASE p /= r
        <5>1. dec'[p].queue = dec[p].queue
          BY <2>2, <4>2
        <5>2. \A t \in Transmitters : heard'[p][t] = heard[p][t]
          BY <3>12, <4>2
        <5>3. \A k \in DOMAIN dec[p].queue : dec[p].queue[k].tx \in Transmitters
          <6>1. dec[p].queue \in Seq(Blocks)
            BY <1>0 DEF Decoders
          <6>2. \A k \in DOMAIN dec[p].queue : dec[p].queue[k] \in Blocks
            BY <6>1
          <6> QED BY <6>2 DEF Blocks
        <5> DEFINE u == dec[p].queue
        <5>4. /\ \A k \in DOMAIN u : \E j \in DOMAIN heard[p][u[k].tx] : heard[p][u[k].tx][j] = u[k].frame
              /\ \A j, k \in DOMAIN u : j < k /\ u[j].tx = u[k].tx => u[j].frame < u[k].frame
          BY <1>0 DEF HeardInOrder
        <5> HIDE DEF u
        <5>5. \A k \in DOMAIN u :
                 \E j \in DOMAIN heard'[p][u[k].tx] : heard'[p][u[k].tx][j] = u[k].frame
          BY <5>2, <5>3, <5>4 DEF u
        <5> QED BY <5>1, <5>4, <5>5 DEF u
      <4> QED BY <4>1, <4>2
    <3> QED BY <3>18, <3>19 DEF HeardInOrder
  <2> QED BY <1>4, <2>1, <2>2, WritesOne
<1> QED BY <1>1, <1>2, <1>3, <1>4, StillFrames

\* Between the steps of the mixer, those who are still to get the mix stay the same.
LEMMA MixedStep == ASSUME IInv, InOrder, Next PROVE MixedFresh'
<1>0. /\ mix \subseteq Blocks /\ MixedFresh /\ HeardInOrder
      /\ \A t \in Transmitters : aired[t] \in Nat
      /\ \A r \in Receivers : \A t \in Transmitters : heard[r][t] \in Seq(Nat)
      /\ heard \in [Receivers -> [Transmitters -> Seq(Nat)]]
      /\ idx \in Nat /\ Distinct(consumers)
  BY DEF IInv, TypeOK, InOrder, RegisteredOnce
<1>1. ASSUME mpc' \notin {"sum", "write"} \/ mix' = {} PROVE MixedFresh'
  BY <1>1 DEF MixedFresh
<1>2. ASSUME UNCHANGED <<mix, aired, heard>>, mpc \in {"sum", "write"},
             \A r \in Receivers : ToWrite(r)' => ToWrite(r)
      PROVE  MixedFresh'
  BY <1>0, <1>2 DEF MixedFresh
<1>3. ASSUME UNCHANGED <<mpc, idx, consumers, mix, aired, heard>> PROVE MixedFresh'
  <2>1. CASE mpc \in {"sum", "write"}
    BY <1>2, <1>3, <2>1 DEF ToWrite
  <2>2. CASE mpc \notin {"sum", "write"}
    BY <1>1, <1>3, <2>2
  <2> QED BY <2>1, <2>2
<1>4. CASE SystemCreate \/ SystemDestroy \/ MixerExit \/ TickBegin \/ TickEnd
  BY <1>1, <1>4 DEF SystemCreate, SystemDestroy, MixerExit, TickBegin, TickFrom, TickEnd, Finish
<1>5. CASE SystemClose
  BY <1>3, <1>5 DEF SystemClose, mixVars, data
<1>6. CASE SumDone
  BY <1>2, <1>6 DEF SumDone, SumEnd, data, ToWrite
<1>7. ASSUME NEW t \in Transmitters, SumBlock(t) PROVE MixedFresh'
  <2> DEFINE nb == [tx |-> t, frame |-> Head(enc[t].queue), part |-> enc[t].part]
  <2>1. mix' = mix \cup {nb} /\ nb.tx = t /\ nb.frame = Head(enc[t].queue) /\ nb.part = enc[t].part
    BY <1>7 DEF SumBlock
  <2> HIDE DEF nb
  <2>2. SUFFICES ASSUME NEW b \in mix', mix' = {b}, b.part = FrameBlocks
        PROVE  /\ b.frame = aired'[b.tx] /\ 0 < b.frame
               /\ \A r \in Receivers : \A k \in DOMAIN heard'[r][b.tx] : heard'[r][b.tx][k] < b.frame
    BY DEF MixedFresh
  <2>3. b = nb
    BY <2>1, <2>2
  <2>4. /\ nb.frame \in Nat /\ aired[t] < nb.frame /\ heard' = heard
        /\ aired'[t] = nb.frame
    BY <1>0, <1>7, <2>1, <2>2, <2>3, SumsBlock DEF InOrder
  <2>5. ASSUME NEW r \in Receivers, NEW k \in DOMAIN heard[r][t] PROVE heard[r][t][k] < nb.frame
    <3>1. heard[r][t][k] \in Nat /\ heard[r][t][k] <= aired[t]
      BY <1>0 DEF HeardInOrder
    <3> QED BY <1>0, <2>4, <3>1
  <2>6. 0 < nb.frame
    BY <1>0, <2>4
  <2> QED BY <2>1, <2>3, <2>4, <2>5, <2>6
<1>8. ASSUME NEW t \in Transmitters, SumNothing(t) \/ EjectAtEOF(t) PROVE MixedFresh'
  <2>1. UNCHANGED <<mix, aired, heard, mpc>> /\ mpc = "sum"
    BY <1>8 DEF SumNothing, EjectAtEOF, Visiting
  <2> QED BY <1>2, <2>1 DEF ToWrite
<1>9. ASSUME NEW r \in Receivers, WriteConsumer(r) PROVE MixedFresh'
  <2>1. /\ mpc = "write" /\ mpc' = "write" /\ idx' = idx + 1 /\ UNCHANGED <<mix, aired, consumers>>
        /\ r = consumers.buf[idx] /\ idx < consumers.num
    BY <1>9 DEF WriteConsumer
  <2>2. idx \in Used(consumers)
    BY <2>1 DEF IInv, TypeOK, IsArray, Used
  <2>3. SUFFICES ASSUME NEW b \in mix, mix = {b}, b.part = FrameBlocks,
                        NEW q \in Receivers, ToWrite(q)'
        PROVE  /\ b.frame = aired[b.tx] /\ 0 < b.frame
               /\ \A k \in DOMAIN heard'[q][b.tx] : heard'[q][b.tx][k] < b.frame
    <3>1. ASSUME NEW b \in mix, mix = {b}, b.part = FrameBlocks PROVE b.frame = aired[b.tx] /\ 0 < b.frame
      BY <1>0, <2>1, <3>1 DEF MixedFresh
    <3> QED BY <2>1, <3>1 DEF MixedFresh
  <2>4. PICK j \in Used(consumers) : idx + 1 <= j /\ consumers.buf[j] = q
    BY <2>1, <2>3 DEF ToWrite
  <2>5. j \in Nat /\ idx <= j /\ j /= idx
    BY <1>0, <2>4 DEF IInv, TypeOK, IsArray, Used
  <2>6. q /= r
    BY <1>0, <2>1, <2>2, <2>4, <2>5 DEF Distinct
  <2>7. ToWrite(q)
    BY <2>4, <2>5 DEF ToWrite
  <2>8. heard'[q] = heard[q]
    BY <1>0, <1>9, <2>6 DEF WriteConsumer
  <2> QED BY <1>0, <2>1, <2>3, <2>7, <2>8 DEF MixedFresh
<1>10. ASSUME NEW t \in Transmitters, TxStep(t) PROVE MixedFresh'
  <2>1. UNCHANGED <<mpc, idx, consumers, mix, aired, heard>>
    BY <1>10 DEF TxStep, OpenTransmitter, AddProducer, Send, CloseTransmitter, TerminateTransmitter,
                TerminateRemove, FinalizeTransmitter, FreeRemove, FreeEncoder, FreeTransmitter,
                txStill, mixVars
  <2> QED BY <1>3, <2>1
<1>11. ASSUME NEW r \in Receivers, RxStep(r) PROVE MixedFresh'
  <2>1. UNCHANGED <<mpc, idx, mix, aired, heard>>
    BY <1>11 DEF RxStep, OpenReceiver, AddConsumer, Recv, CloseReceiver, CloseRemove,
                 FinalizeReceiver, FreeRemoveConsumer, FreeReceiver, rxStill, mixVars
  <2>2. consumers' = consumers \/ mpc \notin {"sum", "write"}
    BY <1>11 DEF RxStep, OpenReceiver, AddConsumer, Recv, CloseReceiver, CloseRemove,
                 FinalizeReceiver, FreeRemoveConsumer, FreeReceiver, LockFree
  <2> QED BY <1>1, <1>3, <2>1, <2>2
<1> QED BY <1>4, <1>5, <1>6, <1>7, <1>8, <1>9, <1>10, <1>11 DEF Next, Mixer

LEMMA NextInOrder == IInv /\ InOrder /\ [Next]_vars => InOrder'
<1> SUFFICES ASSUME IInv, InOrder, [Next]_vars PROVE InOrder'
  OBVIOUS
<1>1. CASE Next
  BY <1>1, QueuedStep, HeardStep, MixedStep DEF InOrder
<1>2. CASE UNCHANGED vars
  BY <1>2 DEF InOrder, QueuedInOrder, HeardInOrder, MixedFresh, ToWrite,
              vars, mixVars, data, txVars
<1> QED BY <1>1, <1>2

\* Frames are decoded in the order they were sent, each at most once.
THEOREM AlwaysDecodedInOrder == Spec => []DecodedInOrder
<1>1. InOrder => DecodedInOrder
  BY DEF InOrder, QueuedInOrder, HeardInOrder, DecodedInOrder
<1>2. Init => IInv /\ InOrder
  BY InitInv, InitInOrder
<1>3. IInv /\ InOrder /\ [Next]_vars => (IInv /\ InOrder)'
  BY NextInv, NextInOrder
<1> QED BY <1>1, <1>2, <1>3, PTL DEF Spec

-----------------------------------------------------------------------------
(* The loopback implements the medium.                                      *)

LEMMA InitMedium == Init => Abstract!MediumInit
  BY DEF Init, Abstract!MediumInit

LEMMA NextMedium ==
  ASSUME IInv, InOrder, [Next]_vars
  PROVE  [Abstract!MediumNext]_(Abstract!mediumVars)
<1> USE DEF Abstract!mediumVars
<1>0. /\ sent \in [Transmitters -> Nat] /\ aired \in [Transmitters -> Nat] /\ mix \subseteq Blocks
      /\ QueuedInOrder /\ MixedFresh
  BY DEF IInv, TypeOK, InOrder
<1>1. ASSUME NEW t \in Transmitters, SumBlock(t)
      PROVE  Abstract!Air(t) \/ UNCHANGED <<sent, aired, heard>>
  <2> DEFINE f == Head(enc[t].queue)
  <2>1. f \in Nat /\ aired[t] < f /\ f <= sent[t] /\ sent' = sent /\ heard' = heard
    BY <1>0, <1>1, SumsBlock
  <2>2. aired' = [aired EXCEPT ![t] = f] \/ aired' = aired
    BY <1>1 DEF SumBlock
  <2> HIDE DEF f
  <2>3. f \in (aired[t] + 1)..sent[t]
    BY <1>0, <2>1
  <2> QED BY <2>1, <2>2, <2>3 DEF Abstract!Air
<1>2. ASSUME NEW t \in Transmitters, Send(t) PROVE Abstract!Submit(t)
  BY <1>2 DEF Send, txStill, Abstract!Submit
<1>3. ASSUME NEW r \in Receivers, WriteConsumer(r)
      PROVE  UNCHANGED <<sent, aired, heard>> \/ \E t \in Transmitters : Abstract!Hear(r, t)
  <2>0. sent' = sent /\ aired' = aired
    BY <1>3 DEF WriteConsumer, txVars
  <2>1. ASSUME NEW b \in mix, mix = {b}, b.part = FrameBlocks,
               heard' = [heard EXCEPT ![r][b.tx] = Append(heard[r][b.tx], b.frame)]
        PROVE  Abstract!Hear(r, b.tx) /\ b.tx \in Transmitters
    <3>1. mpc = "write" /\ ToWrite(r) /\ b.tx \in Transmitters
      <4>1. mpc = "write" /\ idx < consumers.num /\ r = consumers.buf[idx]
        BY <1>3 DEF WriteConsumer
      <4>2. idx \in Used(consumers) /\ idx \in Nat
        BY <4>1 DEF IInv, TypeOK, IsArray, Used
      <4> QED BY <1>0, <4>1, <4>2 DEF ToWrite, Blocks
    <3>2. b.frame = aired[b.tx] /\ \A k \in DOMAIN heard[r][b.tx] : heard[r][b.tx][k] < aired[b.tx]
      BY <1>0, <2>1, <3>1 DEF MixedFresh
    <3>3. aired[b.tx] > 0
      BY <1>0, <2>1, <3>1 DEF MixedFresh
    <3> QED BY <2>0, <2>1, <3>1, <3>2, <3>3 DEF Abstract!Hear
  <2> QED BY <2>0, <2>1, WritesOne, <1>3
<1>4. CASE UNCHANGED <<sent, aired, heard>>
  BY <1>4
<1>5. CASE UNCHANGED vars
  BY <1>5 DEF vars, data, txVars
<1>6. CASE Next
  BY <1>1, <1>2, <1>3, <1>4, <1>6, StillFrames DEF Abstract!MediumNext
<1> QED BY <1>5, <1>6

\* The mixer, its arrays and its mutex implement the lossy broadcast medium.
THEOREM RefinesMedium == Spec => ImplementsMedium
<1>1. Init => IInv /\ InOrder
  BY InitInv, InitInOrder
<1>2. IInv /\ InOrder /\ [Next]_vars => (IInv /\ InOrder)'
  BY NextInv, NextInOrder
<1>3. IInv /\ InOrder /\ [Next]_vars => [Abstract!MediumNext]_(Abstract!mediumVars)
  BY NextMedium
<1> QED BY <1>1, <1>2, <1>3, InitMedium, PTL DEF Spec, ImplementsMedium, Abstract!MediumSpec

\* A step that takes a producer out of the mixer, and what it leaves when it does not.
LEMMA NextEjects ==
  ASSUME IInv, Next, sys' = sys, NEW t \in Transmitters,
         t \in Live(producers), t \notin Live(producers')
  PROVE  AtEOF(enc[t]) \/ txterm[t] \/ tx[t] = "freeing"
<1>0. IsArray(producers, Transmitters) /\ Distinct(producers)
  BY DEF IInv, TypeOK, RegisteredOnce
<1>1. producers' /= producers
  OBVIOUS
<1>2. ASSUME NEW u \in Transmitters, producers' = Remove(producers, u) PROVE u = t
  BY <1>0, <1>2, RemoveLive
<1>3. ASSUME NEW u \in Transmitters PROVE producers' /= Add(producers, u)
  BY <1>0, <1>3, AddLive
<1>4. ~SystemCreate
  BY DEF SystemCreate
<1>5. CASE SystemClose \/ SystemDestroy \/ MixerExit \/ TickBegin \/ SumDone \/ TickEnd
  BY <1>1, <1>5 DEF SystemClose, SystemDestroy, MixerExit, TickBegin, TickFrom, SumDone, SumEnd,
                    TickEnd, Finish, data
<1>6. ASSUME NEW u \in Transmitters, SumBlock(u) \/ SumNothing(u) \/ EjectAtEOF(u)
      PROVE  AtEOF(enc[t])
  BY <1>1, <1>2, <1>6 DEF SumBlock, SumNothing, EjectAtEOF, RemoveProducerLocked
<1>7. ASSUME NEW u \in Transmitters, TxStep(u) PROVE txterm[t] \/ tx[t] = "freeing"
  <2>1. TerminateRemove(u) \/ FreeRemove(u)
    BY <1>1, <1>3, <1>7 DEF TxStep, OpenTransmitter, AddProducer, Send, CloseTransmitter,
       TerminateTransmitter, FinalizeTransmitter, FreeEncoder, FreeTransmitter
  <2> QED BY <1>2, <2>1 DEF TerminateRemove, FreeRemove, RemoveProducerLocked
<1>8. ASSUME NEW r \in Receivers, WriteConsumer(r) \/ RxStep(r) PROVE FALSE
  BY <1>1, <1>8 DEF WriteConsumer, RxStep, OpenReceiver, AddConsumer, Recv, CloseReceiver,
     CloseRemove, FinalizeReceiver, FreeRemoveConsumer, FreeReceiver, rxStill
<1> QED BY <1>4, <1>5, <1>6, <1>7, <1>8 DEF Next, Mixer

\* A producer leaves only drained and closed, or at its owner's hand.
THEOREM EjectsOnlyDrained == Spec => OnlyDrainedEjected
<1> DEFINE Drained == sys' = sys => \A t \in Transmitters :
             t \in Live(producers) /\ t \notin Live(producers') =>
               AtEOF(enc[t]) \/ txterm[t] \/ tx[t] = "freeing"
<1>1. IInv /\ [Next]_vars => [Drained]_vars
  BY NextEjects
<1> HIDE DEF Drained
<1>2. Spec => [][Drained]_vars
  BY <1>1, InitInv, NextInv, PTL DEF Spec
<1> QED BY <1>2 DEF OnlyDrainedEjected, Drained

-----------------------------------------------------------------------------
(* What a tick serves.                                                      *)

\* The tick under way, after d ejections: the slots from idx on hold the roster from
\* idx + 1 + d on, and what lies before that has been visited or skipped.
Served(d) ==
  LET R == tick.roster
      V == tick.visited
      E == tick.ejected
  IN  /\ producers.num + d = Len(R) /\ idx + d <= Len(R) + 1
      /\ \A j, k \in DOMAIN R : R[j] = R[k] => j = k
      /\ \A j \in Used(producers) : idx <= j => producers.buf[j] = R[j + 1 + d]
      /\ \A m \in DOMAIN V : \E k \in DOMAIN R : k <= idx + d /\ V[m] = R[k]
      /\ \A j, k \in DOMAIN V : V[j] = V[k] => j = k
      /\ \A e \in E : \E k \in DOMAIN R : k <= idx + d /\ e = R[k]
      /\ \A k \in DOMAIN R : k = idx + d => R[k] \notin E
      /\ \A k \in DOMAIN R : k <= idx + d =>
           ((\E j \in DOMAIN V : V[j] = R[k]) <=> ~(k > 1 /\ R[k - 1] \in E))

TickInv == TickService /\ (mpc = "sum" => \E d \in Nat : Served(d))

\* The roster of a tick that begins is the array.
LEMMA BeginServed == ASSUME IInv, TickBegin PROVE Served(0)'
<1>0. IsArray(producers, Transmitters) /\ Distinct(producers) /\ producers.num \in Nat
  BY DEF IInv, TypeOK, RegisteredOnce, IsArray
<1>1. idx' = 0 /\ producers' = producers
      /\ tick' = [roster |-> Contents(producers), visited |-> <<>>, ejected |-> {}]
  BY DEF TickBegin, TickFrom, data
<1> DEFINE R == Contents(producers)
<1>2. R \in Seq(Transmitters)
  BY <1>0, ContentsType DEF IInv, NoDanglingRegistration
<1>3. DOMAIN R = 1..producers.num /\ \A k \in 1..producers.num : R[k] = producers.buf[k - 1]
  BY DEF Contents
<1>4. Len(R) = producers.num
  <2> HIDE DEF R
  <2> QED BY <1>0, <1>2, <1>3
<1>5. \A k \in 1..producers.num : k - 1 \in Used(producers)
  BY <1>0 DEF Used, IsArray
<1>6. \A j, k \in DOMAIN R : R[j] = R[k] => j = k
  <2> SUFFICES ASSUME NEW j \in 1..producers.num, NEW k \in 1..producers.num, R[j] = R[k] PROVE j = k
    BY <1>3
  <2>1. producers.buf[j - 1] = producers.buf[k - 1] /\ j - 1 \in Used(producers) /\ k - 1 \in Used(producers)
    BY <1>3, <1>5
  <2>2. j - 1 = k - 1
    BY <1>0, <2>1 DEF Distinct
  <2> QED BY <1>0, <2>2
<1>7. \A j \in Used(producers) : producers.buf[j] = R[j + 1 + 0]
  <2> SUFFICES ASSUME NEW j \in Used(producers) PROVE producers.buf[j] = R[j + 1]
    BY DEF Used
  <2>1. j + 1 \in 1..producers.num /\ (j + 1) - 1 = j
    BY <1>0 DEF Used, IsArray
  <2> QED BY <1>3, <2>1
<1> HIDE DEF R
<1>8. tick'.roster = R /\ tick'.visited = <<>> /\ tick'.ejected = {}
  BY <1>1 DEF R
<1>9. \A k \in DOMAIN R : ~(k <= 0 + 0) /\ k /= 0 + 0
  BY <1>0, <1>3
<1> QED BY <1>0, <1>1, <1>4, <1>6, <1>7, <1>8, <1>9 DEF Served

\* A visit, with or without an ejection, keeps the account of the tick.
LEMMA VisitServed ==
  ASSUME IInv, NEW d \in Nat, Served(d), NEW t \in Transmitters, Visiting(t),
         NEW more \in {0, 1},
         tick' = [tick EXCEPT !.visited = Append(tick.visited, t),
                              !.ejected = IF more = 1 THEN tick.ejected \cup {t} ELSE tick.ejected],
         producers' = IF more = 1 THEN Remove(producers, t) ELSE producers
  PROVE  Served(d + more)'
<1> DEFINE R == tick.roster
           V == tick.visited
           E == tick.ejected
           W == tick'.visited
           F == tick'.ejected
           n == Len(R)
           i == idx + d + 1
<1>1. /\ IsArray(producers, Transmitters) /\ Distinct(producers) /\ tick \in Ticks /\ idx \in Nat
      /\ producers.num \in Nat
  BY DEF IInv, TypeOK, RegisteredOnce, IsArray
<1>2. R \in Seq(Transmitters) /\ V \in Seq(Transmitters) /\ E \subseteq Transmitters
  BY <1>1 DEF Ticks
<1>3. tick'.roster = R /\ W = Append(V, t) /\ F = IF more = 1 THEN E \cup {t} ELSE E
  BY <1>1 DEF Ticks
<1>4. /\ producers.num + d = n /\ idx + d <= n + 1
      /\ \A j, k \in DOMAIN R : R[j] = R[k] => j = k
      /\ \A j \in Used(producers) : idx <= j => producers.buf[j] = R[j + 1 + d]
      /\ \A m \in DOMAIN V : \E k \in DOMAIN R : k <= idx + d /\ V[m] = R[k]
      /\ \A j, k \in DOMAIN V : V[j] = V[k] => j = k
      /\ \A e \in E : \E k \in DOMAIN R : k <= idx + d /\ e = R[k]
      /\ \A k \in DOMAIN R : k = idx + d => R[k] \notin E
      /\ \A k \in DOMAIN R : k <= idx + d =>
           ((\E j \in DOMAIN V : V[j] = R[k]) <=> ~(k > 1 /\ R[k - 1] \in E))
  BY DEF Served
<1>5. idx < producers.num /\ t = producers.buf[idx] /\ idx' = idx + 1 /\ idx \in Used(producers)
  BY <1>1 DEF Visiting, Used, IsArray
<1>6. /\ W \in Seq(Transmitters) /\ W[Len(V) + 1] = t /\ DOMAIN V = 1..Len(V) /\ Len(V) \in Nat
      /\ DOMAIN W = 1..(Len(V) + 1)
      /\ \A k \in DOMAIN V : W[k] = V[k] /\ k \in DOMAIN W
  <2> HIDE DEF V
  <2> QED BY ONLY <1>2, <1>3, Appended
<1>7. DOMAIN R = 1..n /\ n \in Nat /\ i \in DOMAIN R
  <2>1. DOMAIN R = 1..n /\ n \in Nat
    BY <1>2
  <2>2. producers.num + d = n /\ idx + d <= n + 1 /\ idx < producers.num
    BY <1>4, <1>5
  <2>3. idx \in Nat /\ producers.num \in Nat /\ d \in Nat
    BY <1>1
  <2> HIDE DEF n
  <2>4. i \in 1..n
    BY ONLY <2>1, <2>2, <2>3
  <2> QED BY <2>1, <2>4
<1> HIDE DEF R, V, E, W, F, n
<1>8. t = R[i]
  BY <1>1, <1>4, <1>5
<1>9. \A m \in DOMAIN W : m \in DOMAIN V \/ m = Len(V) + 1
  BY <1>6
<1>10. i = idx' + d /\ i \in Nat /\ i > idx + d
  BY <1>1, <1>5
\* The producer visited is new to the tick.
<1>11. /\ \A m \in DOMAIN V : V[m] /= t
       /\ t \notin E
  <2>1. \A k \in DOMAIN R : k <= idx + d => R[k] /= t
    <3> SUFFICES ASSUME NEW k \in DOMAIN R, k <= idx + d PROVE k /= i
      BY <1>4, <1>7, <1>8
    <3> QED BY <1>1, <1>7, <1>10
  <2> QED BY <1>4, <2>1
<1>12. \A m \in DOMAIN W : \E k \in DOMAIN R : k <= i /\ W[m] = R[k]
  <2> SUFFICES ASSUME NEW m \in DOMAIN W PROVE \E k \in DOMAIN R : k <= i /\ W[m] = R[k]
    OBVIOUS
  <2>1. CASE m \in DOMAIN V
    <3>1. PICK k \in DOMAIN R : k <= idx + d /\ V[m] = R[k]
      BY <1>4, <2>1
    <3>2. k <= i
      BY <1>1, <1>7, <3>1
    <3> QED BY <1>6, <2>1, <3>1, <3>2
  <2>2. CASE m = Len(V) + 1
    BY <1>6, <1>7, <1>8, <1>10, <2>2
  <2> QED BY <1>9, <2>1, <2>2
<1>13. \A j, k \in DOMAIN W : W[j] = W[k] => j = k
  BY <1>4, <1>6, <1>9, <1>11
<1>14. \A e \in F : \E k \in DOMAIN R : k <= i /\ e = R[k]
  <2>1. ASSUME NEW e \in E PROVE \E k \in DOMAIN R : k <= i /\ e = R[k]
    <3>1. PICK k \in DOMAIN R : k <= idx + d /\ e = R[k]
      BY <1>4
    <3>2. k <= i
      BY <1>1, <1>7, <3>1
    <3> QED BY <3>1, <3>2
  <2>2. \E k \in DOMAIN R : k <= i /\ t = R[k]
    BY <1>7, <1>8, <1>10
  <2> QED BY <1>3, <2>1, <2>2
\* Up to the producer visited, those skipped are those who follow an ejected one.
<1>15. \A k \in DOMAIN R : k <= i =>
         ((\E j \in DOMAIN W : W[j] = R[k]) <=> ~(k > 1 /\ R[k - 1] \in F))
  <2> SUFFICES ASSUME NEW k \in DOMAIN R, k <= i
               PROVE  (\E j \in DOMAIN W : W[j] = R[k]) <=> ~(k > 1 /\ R[k - 1] \in F)
    OBVIOUS
  <2>0. k \in Nat /\ (k > 1 => k - 1 \in DOMAIN R /\ k - 1 /= i)
    BY <1>7, <1>10
  <2>1. k > 1 => (R[k - 1] \in F <=> R[k - 1] \in E)
    <3>1. k > 1 => R[k - 1] /= t
      BY <1>4, <1>7, <1>8, <2>0
    <3> QED BY <1>3, <3>1
  <2>2. CASE k = i
    <3>1. \E j \in DOMAIN W : W[j] = R[k]
      BY <1>6, <1>8, <2>2
    <3>2. k > 1 => R[k - 1] \notin E
      <4>1. k - 1 = idx + d
        BY <1>1, <2>2
      <4> QED BY <1>4, <2>0, <4>1
    <3> QED BY <2>1, <3>1, <3>2
  <2>3. CASE k /= i
    <3>1. k <= idx + d
      BY <1>1, <1>10, <2>0, <2>3
    <3>2. R[k] /= t
      BY <1>4, <1>7, <1>8, <2>3
    <3>3. (\E j \in DOMAIN W : W[j] = R[k]) <=> (\E j \in DOMAIN V : V[j] = R[k])
      BY <1>6, <1>9, <3>2
    <3> QED BY <1>4, <2>1, <3>1, <3>3
  <2> QED BY <2>2, <2>3
<1>18. tick'.roster = R /\ tick'.visited = W /\ tick'.ejected = F /\ n = Len(R)
  BY <1>3 DEF R, W, F, n
<1>19. \A j, k \in DOMAIN R : R[j] = R[k] => j = k
  BY <1>4
<1>16. CASE more = 0
  <2>1. producers' = producers /\ F = E /\ d + more = d /\ idx' + (d + more) = i
    BY <1>3, <1>10, <1>16
  <2>2. i <= n + 1
    BY <1>7
  <2>3. \A j \in Used(producers) : idx' <= j => producers.buf[j] = R[j + 1 + d]
    BY <1>1, <1>4, <1>5 DEF Used, IsArray
  <2>4. \A k \in DOMAIN R : k = i => R[k] \notin F
    BY <1>8, <1>11, <2>1
  <2>5. producers.num + d = n
    BY <1>4
  <2> HIDE DEF i
  <2> QED BY ONLY <1>18, <1>19, <1>12, <1>13, <1>14, <1>15, <2>1, <2>2, <2>3, <2>4, <2>5 DEF Served
<1>17. CASE more = 1
  <2>1. producers' = Remove(producers, t) /\ d + more = d + 1 /\ idx' + (d + more) = i + 1
    BY <1>1, <1>5, <1>10, <1>17
  <2>2. /\ producers'.num = producers.num - 1 /\ producers'.cap = producers.cap
        /\ \A k \in Used(producers') : idx <= k =>
             k + 1 \in Used(producers) /\ producers'.buf[k] = producers.buf[k + 1]
    BY <1>1, <1>5, <2>1, RemovedSlot
  <2>3. producers'.num + (d + more) = n /\ i + 1 <= n + 1
    <3>1. producers.num + d = n
      BY <1>4
    <3>2. n \in Nat /\ i <= n
      BY <1>7
    <3> QED BY <1>1, <1>10, <2>1, <2>2, <3>1, <3>2
  <2>4. \A j \in Used(producers') : idx' <= j => producers'.buf[j] = R[j + 1 + (d + more)]
    <3> SUFFICES ASSUME NEW j \in Used(producers'), idx' <= j
                 PROVE  producers'.buf[j] = R[j + 1 + (d + more)]
      OBVIOUS
    <3>1. j \in Nat /\ idx <= j
      BY <1>1, <1>5, <2>2 DEF Used, IsArray
    <3>2. j + 1 \in Used(producers) /\ producers'.buf[j] = producers.buf[j + 1]
      BY <2>2, <3>1
    <3>3. producers.buf[j + 1] = R[(j + 1) + 1 + d]
      BY <1>1, <1>4, <3>1, <3>2
    <3>4. (j + 1) + 1 + d = j + 1 + (d + more)
      BY <2>1, <3>1
    <3> QED BY <3>2, <3>3, <3>4
  <2>5. \A k \in DOMAIN R : k <= i + 1 => k <= i \/ k = i + 1
    BY <1>7, <1>10
  \* Who follows the one ejected is neither visited nor ejected.
  <2>6. ASSUME NEW k \in DOMAIN R, k = i + 1
        PROVE  /\ R[k] \notin F
               /\ ~\E j \in DOMAIN W : W[j] = R[k]
               /\ k > 1 /\ R[k - 1] \in F
    <3>1. \A m \in DOMAIN R : m <= i => R[m] /= R[k]
      BY <1>4, <1>7, <1>10, <2>6
    <3>2. R[k] \notin F
      BY <1>14, <3>1
    <3>3. ~\E j \in DOMAIN W : W[j] = R[k]
      BY <1>12, <3>1
    <3>4. k > 1 /\ k - 1 = i
      BY <1>7, <1>10, <2>6
    <3>5. t \in F
      BY <1>3, <1>17
    <3> QED BY <1>8, <3>2, <3>3, <3>4, <3>5
  <2>7. \A k \in DOMAIN R : k <= i + 1 =>
          ((\E j \in DOMAIN W : W[j] = R[k]) <=> ~(k > 1 /\ R[k - 1] \in F))
    BY <1>15, <2>5, <2>6
  <2>8. /\ \A m \in DOMAIN W : \E k \in DOMAIN R : k <= i + 1 /\ W[m] = R[k]
        /\ \A e \in F : \E k \in DOMAIN R : k <= i + 1 /\ e = R[k]
    <3>1. \A k \in DOMAIN R : k <= i => k <= i + 1
      BY <1>7, <1>10
    <3> QED BY <1>12, <1>14, <3>1
  <2>9. \A k \in DOMAIN R : k = i + 1 => R[k] \notin F
    BY <2>6
  <2> HIDE DEF i
  <2>10. idx' + (d + more) = i + 1
    BY <2>1
  <2> QED BY ONLY <1>13, <1>18, <1>19, <2>3, <2>4, <2>7, <2>8, <2>9, <2>10 DEF Served
<1> QED BY <1>16, <1>17

LEMMA InitTick == Init => TickInv
  BY DEF Init, TickInv, TickService

LEMMA NextTick == ASSUME IInv, TickInv, [Next]_vars PROVE TickInv'
<1>0. TickService /\ (mpc = "sum" => \E d \in Nat : Served(d)) /\ idx \in Nat /\ tick \in Ticks
  BY DEF TickInv, IInv, TypeOK
<1>1. ASSUME mpc' \notin {"sum", "write"} PROVE TickInv'
  BY <1>1 DEF TickInv, TickService
<1>2. ASSUME UNCHANGED <<mpc, tick>>, mpc /= "sum" PROVE TickInv'
  BY <1>0, <1>2 DEF TickInv, TickService
<1>3. ASSUME UNCHANGED <<mpc, tick, idx, producers>> PROVE TickInv'
  BY <1>0, <1>3 DEF TickInv, TickService, Served
<1>4. CASE SystemCreate \/ SystemDestroy \/ MixerExit \/ TickEnd
  BY <1>1, <1>4 DEF SystemCreate, SystemDestroy, MixerExit, TickEnd, Finish
<1>5. CASE SystemClose \/ UNCHANGED vars
  BY <1>3, <1>5 DEF SystemClose, vars, mixVars, data
<1>6. CASE TickBegin
  <2>1. Served(0)'
    BY <1>6, BeginServed
  <2>2. mpc' = "sum"
    BY <1>6 DEF TickBegin, TickFrom
  <2>3. \E d \in Nat : Served(d)'
    BY <2>1
  <2> QED BY <2>2, <2>3 DEF TickInv, TickService
<1>7. CASE SumDone
  <2>1. mpc = "sum" /\ idx >= producers.num /\ mpc' = "write" /\ tick' = tick
    BY <1>7 DEF SumDone, SumEnd
  <2>2. PICK d \in Nat : Served(d)
    BY <1>0, <2>1
  <2>3. DOMAIN tick.roster = 1..Len(tick.roster) /\ Len(tick.roster) \in Nat
    BY <1>0 DEF Ticks
  <2>4. producers.num \in Nat
    BY DEF IInv, TypeOK, IsArray
  <2>5. \A k \in DOMAIN tick.roster : k <= idx + d
    BY <1>0, <2>1, <2>2, <2>3, <2>4 DEF Served
  <2>6. TickService'
    BY <2>1, <2>2, <2>5 DEF Served, TickService
  <2> QED BY <2>1, <2>6 DEF TickInv
<1>8. ASSUME NEW t \in Transmitters, SumBlock(t) \/ SumNothing(t) \/ EjectAtEOF(t) PROVE TickInv'
  <2>1. mpc = "sum" /\ mpc' = "sum" /\ Visiting(t)
    BY <1>8 DEF SumBlock, SumNothing, EjectAtEOF, Visiting
  <2>2. PICK d \in Nat : Served(d)
    BY <1>0, <2>1
  <2>3. CASE Visited(t) /\ producers' = producers
    <3>1. tick' = [tick EXCEPT !.visited = Append(tick.visited, t),
                               !.ejected = tick.ejected]
      BY <1>0, <2>3 DEF Visited, Ticks
    <3>2. Served(d + 0)'
      <4>1. /\ tick' = [tick EXCEPT !.visited = Append(tick.visited, t),
                                    !.ejected = IF 0 = 1 THEN tick.ejected \cup {t} ELSE tick.ejected]
            /\ producers' = IF 0 = 1 THEN Remove(producers, t) ELSE producers
        BY <2>3, <3>1
      <4> QED BY <2>1, <2>2, <4>1, VisitServed
    <3> QED BY <2>1, <3>2 DEF TickInv, TickService
  <2>4. CASE Ejected(t) /\ producers' = Remove(producers, t)
    <3>1. tick' = [tick EXCEPT !.visited = Append(tick.visited, t),
                               !.ejected = tick.ejected \cup {t}]
      BY <2>4 DEF Ejected
    <3>2. Served(d + 1)'
      BY <2>1, <2>2, <2>4, <3>1, VisitServed
    <3>3. d + 1 \in Nat
      OBVIOUS
    <3> QED BY <2>1, <3>2, <3>3 DEF TickInv, TickService
  <2> QED BY <1>8, <2>3, <2>4 DEF SumBlock, SumNothing, EjectAtEOF, RemoveProducerLocked
<1>9. ASSUME NEW r \in Receivers, WriteConsumer(r) PROVE TickInv'
  BY <1>2, <1>9 DEF WriteConsumer
<1>10. ASSUME NEW t \in Transmitters, TxStep(t) PROVE TickInv'
  <2>1. UNCHANGED <<mpc, tick, idx>>
    BY <1>10 DEF TxStep, OpenTransmitter, AddProducer, Send, CloseTransmitter, TerminateTransmitter,
                TerminateRemove, FinalizeTransmitter, FreeRemove, FreeEncoder, FreeTransmitter,
                txStill, mixVars
  <2>2. producers' = producers \/ mpc \notin {"sum", "write"}
    BY <1>10 DEF TxStep, OpenTransmitter, AddProducer, Send, CloseTransmitter, TerminateTransmitter,
                TerminateRemove, FinalizeTransmitter, FreeRemove, FreeEncoder, FreeTransmitter,
                LockFree
  <2> QED BY <1>2, <1>3, <2>1, <2>2
<1>11. ASSUME NEW r \in Receivers, RxStep(r) PROVE TickInv'
  BY <1>3, <1>11 DEF RxStep, OpenReceiver, AddConsumer, Recv, CloseReceiver, CloseRemove,
     FinalizeReceiver, FreeRemoveConsumer, FreeReceiver, rxStill, mixVars
<1> QED BY <1>4, <1>5, <1>6, <1>7, <1>8, <1>9, <1>10, <1>11 DEF Next, Mixer

\* A tick visits nobody twice and misses only who follows an ejected producer.
THEOREM AlwaysTickService == Spec => []TickService
<1>1. TickInv => TickService
  BY DEF TickInv
<1>2. Init => IInv /\ TickInv
  BY InitInv, InitTick
<1>3. IInv /\ TickInv /\ [Next]_vars => (IInv /\ TickInv)'
  BY NextInv, NextTick
<1> QED BY <1>1, <1>2, <1>3, PTL DEF Spec

-----------------------------------------------------------------------------
(* Why CloseEjects and FramesGoOut are true, as far as it is a matter of    *)
(* safety: everyone's turn comes nearer with every tick, and every tick     *)
(* ends.                                                                    *)

\* Nobody who stays in the array is moved back in it.
NeverMovesBack ==
  [][\A j \in Used(producers), k \in Used(producers') :
       producers.buf[j] = producers'.buf[k] => k <= j]_vars

\* The array is only appended to, and a removal shifts it towards the front.
THEOREM ProducersNeverMoveBack == Spec => NeverMovesBack
<1> DEFINE Kept == \A j \in Used(producers), k \in Used(producers') :
                     producers.buf[j] = producers'.buf[k] => k <= j
<1>1. IInv /\ [Next]_vars => [Kept]_vars
  <2> SUFFICES ASSUME IInv, Next PROVE Kept
    OBVIOUS
  <2>0. IsArray(producers, Transmitters) /\ Distinct(producers)
    BY DEF IInv, TypeOK, RegisteredOnce
  <2>1. CASE producers' = producers
    BY <2>0, <2>1 DEF Used, Distinct, IsArray
  <2>2. ASSUME NEW t \in Transmitters, producers' = Remove(producers, t) PROVE Kept
    BY <2>0, <2>2, PlacesKept
  <2>3. ASSUME NEW t \in Transmitters, AddProducer(t) PROVE Kept
    <3>1. producers' = Add(producers, t) /\ t \notin Live(producers)
      BY <2>3 DEF AddProducer, IInv, NoDanglingRegistration
    <3> QED BY <2>0, <3>1, PlacesKept
  <2>4. CASE SystemCreate
    <3>1. Used(producers') = {}
      BY <2>4, LoopbackAssumption DEF SystemCreate, EmptyArray, Used
    <3> QED BY <3>1
  <2>5. CASE SystemClose \/ SystemDestroy
    BY <2>1, <2>5 DEF SystemClose, SystemDestroy, data
  <2>6. CASE Mixer
    BY <2>1, <2>2, <2>6 DEF Mixer, MixerExit, TickBegin, TickFrom, SumDone, SumEnd, TickEnd, Finish, SumBlock, SumNothing,
       EjectAtEOF, RemoveProducerLocked, WriteConsumer, data
  <2>7. ASSUME NEW t \in Transmitters, TxStep(t) PROVE Kept
    BY <2>1, <2>2, <2>3, <2>7 DEF TxStep, OpenTransmitter, Send, CloseTransmitter, TerminateTransmitter,
       TerminateRemove, FinalizeTransmitter, FreeRemove, FreeEncoder, FreeTransmitter, RemoveProducerLocked
  <2>8. ASSUME NEW r \in Receivers, RxStep(r) PROVE Kept
    BY <2>1, <2>8 DEF RxStep, OpenReceiver, AddConsumer, Recv, CloseReceiver, CloseRemove,
       FinalizeReceiver, FreeRemoveConsumer, FreeReceiver, rxStill
  <2> QED BY <2>3, <2>4, <2>5, <2>6, <2>7, <2>8 DEF Next
<1> HIDE DEF Kept
<1>2. Spec => [][Kept]_vars
  BY <1>1, InitInv, NextInv, PTL DEF Spec
<1> QED BY <1>2 DEF NeverMovesBack, Kept

\* In the tick under way, after d ejections: who is before idx has not moved back, and has moved
\* up if the predecessor was ejected.
Passed(d) ==
  \A j \in Used(producers) : j < idx =>
    \E k \in DOMAIN tick.roster :
      /\ k <= idx + d /\ producers.buf[j] = tick.roster[k] /\ j + 1 <= k
      /\ k > 1 /\ tick.roster[k - 1] \in tick.ejected => j + 1 < k

\* Whoever was registered when a tick began is visited in it, or is further up the array after it: a
\* producer is skipped no more often than there are others before it.
VisitedOrMovedUp ==
  mpc = "write" =>
    \A k \in DOMAIN tick.roster :
      \/ \E j \in DOMAIN tick.visited : tick.visited[j] = tick.roster[k]
      \/ \A j \in Used(producers) : producers.buf[j] = tick.roster[k] => j + 1 < k

PlaceInv == VisitedOrMovedUp /\ (mpc = "sum" => \E d \in Nat : Served(d) /\ Passed(d))

\* A visit, with or without an ejection, keeps the account of those before idx.
LEMMA VisitPassed ==
  ASSUME IInv, NEW d \in Nat, Served(d), Passed(d), NEW t \in Transmitters, Visiting(t),
         NEW more \in {0, 1},
         tick' = [tick EXCEPT !.visited = Append(tick.visited, t),
                              !.ejected = IF more = 1 THEN tick.ejected \cup {t} ELSE tick.ejected],
         producers' = IF more = 1 THEN Remove(producers, t) ELSE producers
  PROVE  Passed(d + more)'
<1> DEFINE R == tick.roster
           E == tick.ejected
           F == tick'.ejected
           n == Len(R)
           i == idx + d + 1
<1>1. /\ IsArray(producers, Transmitters) /\ Distinct(producers) /\ tick \in Ticks /\ idx \in Nat
      /\ producers.num \in Nat
  BY DEF IInv, TypeOK, RegisteredOnce, IsArray
<1>2. tick'.roster = R /\ F = IF more = 1 THEN E \cup {t} ELSE E
  BY <1>1 DEF Ticks
<1>3. DOMAIN R = 1..n /\ n \in Nat
  BY <1>1 DEF Ticks
<1>4. /\ producers.num + d = n
      /\ \A j, k \in DOMAIN R : R[j] = R[k] => j = k
      /\ \A j \in Used(producers) : idx <= j => producers.buf[j] = R[j + 1 + d]
      /\ \A e \in E : \E k \in DOMAIN R : k <= idx + d /\ e = R[k]
      /\ \A k \in DOMAIN R : k = idx + d => R[k] \notin E
  BY DEF Served
<1>5. idx < producers.num /\ t = producers.buf[idx] /\ idx' = idx + 1 /\ idx \in Used(producers)
  BY <1>1 DEF Visiting, Used, IsArray
<1>6. \A j \in Used(producers) : j \in Nat /\ j < producers.num
  BY <1>1 DEF Used, IsArray
<1>7. \A j \in Used(producers) : j < idx =>
        \E k \in DOMAIN R : /\ k <= idx + d /\ producers.buf[j] = R[k] /\ j + 1 <= k
                            /\ k > 1 /\ R[k - 1] \in E => j + 1 < k
  BY DEF Passed
<1> HIDE DEF R, E, F, n
<1>8. i \in DOMAIN R /\ t = R[i] /\ i \in Nat /\ i > idx + d
  <2>1. i \in 1..n /\ i = idx + 1 + d
    <3>1. producers.num + d = n /\ d \in Nat
      BY <1>4
    <3> QED BY ONLY <1>1, <1>3, <1>5, <3>1
  <2> QED BY <1>1, <1>3, <1>4, <1>5, <2>1
\* Nobody before the producer visited follows it.
<1>9. \A k \in DOMAIN R : k <= i /\ k > 1 => (R[k - 1] \in F <=> R[k - 1] \in E)
  <2> SUFFICES ASSUME NEW k \in DOMAIN R, k <= i, k > 1 PROVE R[k - 1] /= t
    BY <1>2
  <2>1. k - 1 \in DOMAIN R /\ k - 1 /= i
    BY <1>3, <1>8
  <2> QED BY <1>4, <1>8, <2>1
<1>10. ASSUME NEW j \in Used(producers), j < idx
       PROVE  \E k \in DOMAIN R : /\ k <= i /\ producers.buf[j] = R[k] /\ j + 1 <= k
                                  /\ k > 1 /\ R[k - 1] \in F => j + 1 < k
  <2>1. PICK k \in DOMAIN R : /\ k <= idx + d /\ producers.buf[j] = R[k] /\ j + 1 <= k
                              /\ k > 1 /\ R[k - 1] \in E => j + 1 < k
    BY <1>7, <1>10
  <2>2. k <= i
    BY <1>1, <1>3, <2>1
  <2> QED BY <1>9, <2>1, <2>2
<1>11. CASE more = 0
  <2>1. producers' = producers /\ idx' + (d + more) = i
    BY <1>1, <1>5, <1>11
  <2> SUFFICES ASSUME NEW j \in Used(producers), j < idx + 1
               PROVE  \E k \in DOMAIN R : /\ k <= i /\ producers.buf[j] = R[k] /\ j + 1 <= k
                                          /\ k > 1 /\ R[k - 1] \in F => j + 1 < k
    BY <1>2, <1>5, <2>1 DEF Passed, R, F
  <2>2. CASE j < idx
    BY <1>10, <2>2
  <2>3. CASE j = idx
    <3>1. i > 1 => R[i - 1] \notin E
      <4>1. i - 1 = idx + d /\ (i > 1 => i - 1 \in DOMAIN R)
        BY <1>1, <1>3, <1>8
      <4> QED BY <1>4, <4>1
    <3>2. j + 1 <= i
      BY <1>1, <2>3
    <3>3. i > 1 => R[i - 1] \notin F
      BY <1>8, <1>9, <3>1
    <3>4. i <= i
      BY <1>8
    <3>5. i \in DOMAIN R /\ producers.buf[j] = R[i]
      BY <1>5, <1>8, <2>3
    <3> HIDE DEF i
    <3> QED BY <3>2, <3>3, <3>4, <3>5
  <2> QED BY <1>1, <1>6, <2>2, <2>3
<1>12. CASE more = 1
  <2>1. producers' = Remove(producers, t) /\ idx' + (d + more) = i + 1
    BY <1>1, <1>5, <1>12
  <2>2. /\ \A k \in Used(producers') : idx <= k =>
             k + 1 \in Used(producers) /\ producers'.buf[k] = producers.buf[k + 1]
        /\ \A k \in Used(producers') : k < idx =>
             k \in Used(producers) /\ producers'.buf[k] = producers.buf[k]
        /\ producers'.cap = producers.cap
    BY <1>1, <1>5, <2>1, RemovedSlot, RemovedBefore
  <2> SUFFICES ASSUME NEW j \in Used(producers'), j < idx + 1
               PROVE  \E k \in DOMAIN R : /\ k <= i + 1 /\ producers'.buf[j] = R[k] /\ j + 1 <= k
                                          /\ k > 1 /\ R[k - 1] \in F => j + 1 < k
    BY <1>2, <1>5, <2>1 DEF Passed, R, F
  <2>3. j \in Nat
    BY <1>1, <2>2 DEF Used, IsArray
  <2>4. CASE j < idx
    <3>1. PICK k \in DOMAIN R : /\ k <= i /\ producers.buf[j] = R[k] /\ j + 1 <= k
                                /\ k > 1 /\ R[k - 1] \in F => j + 1 < k
      BY <1>10, <2>2, <2>4
    <3>2. k <= i + 1
      BY <1>3, <1>8, <3>1
    <3> QED BY <2>2, <2>4, <3>1, <3>2
  \* Who follows the one ejected moves up into its slot.
  <2>5. CASE j = idx
    <3>1. idx + 1 \in Used(producers) /\ producers'.buf[j] = producers.buf[idx + 1]
      BY <1>1, <2>2, <2>5
    <3>2. producers.buf[idx + 1] = R[(idx + 1) + 1 + d]
      BY <1>1, <1>4, <3>1
    <3>3. (idx + 1) + 1 + d = i + 1
      BY <1>1
    <3>4. i + 1 \in DOMAIN R
      BY <1>1, <1>3, <1>4, <1>6, <1>8, <3>1
    <3>5. j + 1 < i + 1 /\ j + 1 <= i + 1 /\ i + 1 <= i + 1
      BY <1>1, <2>5
    <3>6. producers'.buf[j] = R[i + 1]
      BY <3>1, <3>2, <3>3
    <3> HIDE DEF i
    <3> QED BY <3>4, <3>5, <3>6
  <2> QED BY <1>1, <2>3, <2>4, <2>5
<1> QED BY <1>11, <1>12

\* At the start there is no tick.
LEMMA InitPlace == Init => PlaceInv
  BY DEF Init, PlaceInv, VisitedOrMovedUp

\* Nor does any other step disturb it.
LEMMA NextPlace == ASSUME IInv, TickInv, PlaceInv, [Next]_vars PROVE PlaceInv'
<1>0. /\ VisitedOrMovedUp /\ (mpc = "sum" => \E d \in Nat : Served(d) /\ Passed(d))
      /\ idx \in Nat /\ tick \in Ticks
  BY DEF PlaceInv, IInv, TypeOK
<1>1. ASSUME mpc' \notin {"sum", "write"} PROVE PlaceInv'
  BY <1>1 DEF PlaceInv, VisitedOrMovedUp
<1>2. ASSUME UNCHANGED <<mpc, tick, producers>>, mpc /= "sum" PROVE PlaceInv'
  BY <1>0, <1>2 DEF PlaceInv, VisitedOrMovedUp
<1>3. ASSUME UNCHANGED <<mpc, tick, idx, producers>> PROVE PlaceInv'
  BY <1>0, <1>3 DEF PlaceInv, VisitedOrMovedUp, Served, Passed
<1>4. CASE SystemCreate \/ SystemDestroy \/ MixerExit \/ TickEnd
  BY <1>1, <1>4 DEF SystemCreate, SystemDestroy, MixerExit, TickEnd, Finish
<1>5. CASE SystemClose \/ UNCHANGED vars
  BY <1>3, <1>5 DEF SystemClose, vars, mixVars, data
<1>6. CASE TickBegin
  <2>1. Served(0)'
    BY <1>6, BeginServed
  <2>2. mpc' = "sum" /\ idx' = 0 /\ producers' = producers
    BY <1>6 DEF TickBegin, TickFrom, data
  <2>3. Passed(0)'
    <3>1. \A j \in Used(producers') : ~(j < 0)
      BY <2>2 DEF Used, IInv, TypeOK, IsArray
    <3> QED BY <2>2, <3>1 DEF Passed
  <2> QED BY <2>1, <2>2, <2>3 DEF PlaceInv, VisitedOrMovedUp
<1>7. CASE SumDone
  <2>1. mpc = "sum" /\ idx >= producers.num /\ mpc' = "write" /\ tick' = tick /\ producers' = producers
    BY <1>7 DEF SumDone, SumEnd, data
  <2>2. PICK d \in Nat : Served(d) /\ Passed(d)
    BY <1>0, <2>1
  <2>3. DOMAIN tick.roster = 1..Len(tick.roster) /\ Len(tick.roster) \in Nat
    BY <1>0 DEF Ticks
  <2>4. producers.num \in Nat /\ IsArray(producers, Transmitters)
    BY DEF IInv, TypeOK, IsArray
  <2>5. \A k \in DOMAIN tick.roster : k <= idx + d
    BY <1>0, <2>1, <2>2, <2>3, <2>4 DEF Served
  <2>6. \A j \in Used(producers) : j < idx
    BY <1>0, <2>1, <2>4 DEF Used, IsArray
  <2>7. ASSUME NEW k \in DOMAIN tick.roster,
               ~\E j \in DOMAIN tick.visited : tick.visited[j] = tick.roster[k],
               NEW j \in Used(producers), producers.buf[j] = tick.roster[k]
        PROVE  j + 1 < k
    <3>1. k > 1 /\ tick.roster[k - 1] \in tick.ejected
      BY <2>2, <2>5, <2>7 DEF Served
    <3>2. PICK m \in DOMAIN tick.roster :
            /\ producers.buf[j] = tick.roster[m]
            /\ m > 1 /\ tick.roster[m - 1] \in tick.ejected => j + 1 < m
      BY <2>2, <2>6 DEF Passed
    <3>3. m = k
      BY <2>2, <2>7, <3>2 DEF Served
    <3> QED BY <3>1, <3>2, <3>3
  <2>8. VisitedOrMovedUp'
    BY <2>1, <2>7 DEF VisitedOrMovedUp
  <2> QED BY <2>1, <2>8 DEF PlaceInv
<1>8. ASSUME NEW t \in Transmitters, SumBlock(t) \/ SumNothing(t) \/ EjectAtEOF(t) PROVE PlaceInv'
  <2>1. mpc = "sum" /\ mpc' = "sum" /\ Visiting(t)
    BY <1>8 DEF SumBlock, SumNothing, EjectAtEOF, Visiting
  <2>2. PICK d \in Nat : Served(d) /\ Passed(d)
    BY <1>0, <2>1
  <2>3. ASSUME NEW more \in {0, 1},
               tick' = [tick EXCEPT !.visited = Append(tick.visited, t),
                                    !.ejected = IF more = 1 THEN tick.ejected \cup {t} ELSE tick.ejected],
               producers' = IF more = 1 THEN Remove(producers, t) ELSE producers
        PROVE  PlaceInv'
    <3>1. Served(d + more)'
      BY <2>1, <2>2, <2>3, VisitServed
    <3>2. Passed(d + more)'
      BY <2>1, <2>2, <2>3, VisitPassed
    <3>3. d + more \in Nat
      OBVIOUS
    <3> QED BY <2>1, <3>1, <3>2, <3>3 DEF PlaceInv, VisitedOrMovedUp
  <2>4. CASE Visited(t) /\ producers' = producers
    <3>0. tick' = [tick EXCEPT !.visited = Append(tick.visited, t), !.ejected = tick.ejected]
      BY <1>0, <2>4 DEF Visited, Ticks
    <3>1. tick' = [tick EXCEPT !.visited = Append(tick.visited, t),
                               !.ejected = IF 0 = 1 THEN tick.ejected \cup {t} ELSE tick.ejected]
      BY <3>0
    <3>2. producers' = IF 0 = 1 THEN Remove(producers, t) ELSE producers
      BY <2>4
    <3> QED BY <2>3, <3>1, <3>2
  <2>5. CASE Ejected(t) /\ producers' = Remove(producers, t)
    <3>0. tick' = [tick EXCEPT !.visited = Append(tick.visited, t),
                               !.ejected = tick.ejected \cup {t}]
      BY <2>5 DEF Ejected
    <3>1. tick' = [tick EXCEPT !.visited = Append(tick.visited, t),
                               !.ejected = IF 1 = 1 THEN tick.ejected \cup {t} ELSE tick.ejected]
      BY <3>0
    <3>2. producers' = IF 1 = 1 THEN Remove(producers, t) ELSE producers
      BY <2>5
    <3> QED BY <2>3, <3>1, <3>2
  <2> QED BY <1>8, <2>4, <2>5 DEF SumBlock, SumNothing, EjectAtEOF, RemoveProducerLocked
<1>9. ASSUME NEW r \in Receivers, WriteConsumer(r) PROVE PlaceInv'
  BY <1>2, <1>9 DEF WriteConsumer
<1>10. ASSUME NEW t \in Transmitters, TxStep(t) PROVE PlaceInv'
  <2>1. UNCHANGED <<mpc, tick, idx>>
    BY <1>10 DEF TxStep, OpenTransmitter, AddProducer, Send, CloseTransmitter, TerminateTransmitter,
                TerminateRemove, FinalizeTransmitter, FreeRemove, FreeEncoder, FreeTransmitter,
                txStill, mixVars
  <2>2. producers' = producers \/ mpc \notin {"sum", "write"}
    BY <1>10 DEF TxStep, OpenTransmitter, AddProducer, Send, CloseTransmitter, TerminateTransmitter,
                TerminateRemove, FinalizeTransmitter, FreeRemove, FreeEncoder, FreeTransmitter,
                LockFree
  <2> QED BY <1>1, <1>3, <2>1, <2>2
<1>11. ASSUME NEW r \in Receivers, RxStep(r) PROVE PlaceInv'
  BY <1>3, <1>11 DEF RxStep, OpenReceiver, AddConsumer, Recv, CloseReceiver, CloseRemove,
     FinalizeReceiver, FreeRemoveConsumer, FreeReceiver, rxStill, mixVars
<1> QED BY <1>4, <1>5, <1>6, <1>7, <1>8, <1>9, <1>10, <1>11 DEF Next, Mixer

\* An ejection may cost the next producer its turn, but moves it up in the array.
THEOREM SkippedMovesUp == Spec => []VisitedOrMovedUp
<1>1. PlaceInv => VisitedOrMovedUp
  BY DEF PlaceInv
<1>2. Init => IInv /\ TickInv /\ PlaceInv
  BY InitInv, InitTick, InitPlace
<1>3. IInv /\ TickInv /\ PlaceInv /\ [Next]_vars => (IInv /\ TickInv /\ PlaceInv)'
  BY NextInv, NextTick, NextPlace
<1> QED BY <1>1, <1>2, <1>3, PTL DEF Spec

\* The mixer's steps from here to the end of its tick, when it lets the mutex go.
InTick == mpc \in {"sum", "write"}
StillToGo(a) == IF idx < a.num THEN a.num - idx ELSE 0
StepsLeft ==
  CASE mpc = "sum"   -> StillToGo(producers) + consumers.num + 2
    [] mpc = "write" -> StillToGo(consumers) + 1
    [] OTHER         -> 0

\* A tick takes at most one step for each producer and each consumer and two more, whatever is
\* ejected on the way and whatever calls wait for the mutex meanwhile.
TicksEnd ==
  [][/\ mpc = "idle" /\ mpc' = "sum" => StepsLeft' = producers.num + consumers.num + 2
     /\ InTick => (StepsLeft' < StepsLeft \/ UNCHANGED <<mpc, idx, producers, consumers>>)]_vars

\* Nor is the mixer ever stuck in the middle of one: the slot it has come to holds a client.
MixerGoesOn ==
  /\ mpc = "sum" /\ idx < producers.num =>
       \E t \in Transmitters :
         t = producers.buf[idx] /\ (enc[t].queue /= <<>> \/ NothingReady(enc[t]) \/ AtEOF(enc[t]))
  /\ mpc = "write" /\ idx < consumers.num => \E r \in Receivers : r = consumers.buf[idx]

\* The mixer never holds the mutex without a next step to take.
THEOREM MixerAlwaysGoesOn == Spec => []MixerGoesOn
<1>1. IInv => MixerGoesOn
  <2> SUFFICES ASSUME IInv PROVE MixerGoesOn
    OBVIOUS
  <2>1. idx \in Nat /\ IsArray(producers, Transmitters) /\ IsArray(consumers, Receivers)
    BY DEF IInv, TypeOK
  <2>2. ASSUME idx < producers.num
        PROVE  producers.buf[idx] \in Transmitters /\ enc[producers.buf[idx]].closed \in BOOLEAN
    <3>1. idx \in Used(producers)
      BY <2>1, <2>2 DEF Used, IsArray
    <3>2. producers.buf[idx] \in Transmitters
      BY <3>1 DEF Live, IInv, NoDanglingRegistration
    <3> QED BY <3>2 DEF IInv, TypeOK, Encoders
  <2>3. ASSUME idx < consumers.num PROVE consumers.buf[idx] \in Receivers
    <3>1. idx \in Used(consumers)
      BY <2>1, <2>3 DEF Used, IsArray
    <3> QED BY <3>1 DEF Live, IInv, NoDanglingRegistration
  <2> QED BY <2>2, <2>3 DEF MixerGoesOn, NothingReady, AtEOF
<1> QED BY <1>1, InitInv, NextInv, PTL DEF Spec

\* Each of its steps in a tick shortens the tick, and nobody else's lengthens it.
LEMMA NextShortens ==
  ASSUME IInv, Next
  PROVE  /\ mpc = "idle" /\ mpc' = "sum" => StepsLeft' = producers.num + consumers.num + 2
         /\ InTick => (StepsLeft' < StepsLeft \/ UNCHANGED <<mpc, idx, producers, consumers>>)
<1>0. /\ idx \in Nat /\ producers.num \in Nat /\ consumers.num \in Nat
      /\ IsArray(producers, Transmitters) /\ Distinct(producers)
  BY DEF IInv, TypeOK, IsArray, RegisteredOnce
<1>1. CASE SystemCreate
  <2>1. mpc' = "idle"
    BY <1>1 DEF SystemCreate
  <2>2. StepsLeft' = 0 /\ (InTick => 0 < StepsLeft)
    BY <1>0, <2>1 DEF StepsLeft, InTick, StillToGo
  <2> QED BY <2>1, <2>2
<1>9. CASE SystemClose \/ SystemDestroy \/ MixerExit
  BY <1>9 DEF SystemClose, SystemDestroy, MixerExit, InTick, LockFree, mixVars, data
<1>2. CASE TickBegin
  <2>1. /\ mpc = "idle" /\ mpc' = "sum" /\ idx' = 0
        /\ producers'.num = producers.num /\ consumers'.num = consumers.num
    BY <1>2 DEF TickBegin, TickFrom, data
  <2>2. StillToGo(producers)' = producers.num
    BY <1>0, <2>1 DEF StillToGo
  <2> QED BY <2>1, <2>2 DEF StepsLeft, InTick
<1>3. CASE SumDone
  <2>1. /\ mpc = "sum" /\ mpc' = "write" /\ idx' = 0 /\ consumers'.num = consumers.num
        /\ ~(idx < producers.num)
    BY <1>0, <1>3 DEF SumDone, SumEnd, data
  <2>2. StillToGo(producers) = 0 /\ StillToGo(consumers)' = consumers.num
    BY <1>0, <2>1 DEF StillToGo
  <2>3. StepsLeft = consumers.num + 2 /\ StepsLeft' = consumers.num + 1
    BY <1>0, <2>1, <2>2 DEF StepsLeft
  <2> QED BY <1>0, <2>1, <2>3
<1>4. CASE TickEnd
  <2>1. mpc = "write" /\ mpc' = "idle" /\ ~(idx < consumers.num)
    BY <1>0, <1>4 DEF TickEnd, Finish
  <2>2. StepsLeft = 1 /\ StepsLeft' = 0
    BY <2>1 DEF StepsLeft, StillToGo
  <2> QED BY <2>1, <2>2
<1>5. ASSUME NEW t \in Transmitters, SumBlock(t) \/ SumNothing(t) \/ EjectAtEOF(t)
      PROVE  mpc = "sum" /\ mpc' = "sum" /\ StepsLeft' < StepsLeft
  <2>1. /\ mpc = "sum" /\ mpc' = "sum" /\ idx < producers.num /\ t = producers.buf[idx]
        /\ idx' = idx + 1 /\ consumers' = consumers
        /\ producers' = producers \/ producers' = Remove(producers, t)
    BY <1>5 DEF SumBlock, SumNothing, EjectAtEOF, Visiting, RemoveProducerLocked
  <2>2. producers'.num \in {producers.num, producers.num - 1}
    <3>1. idx \in Used(producers)
      BY <1>0, <2>1 DEF Used, IsArray
    <3> QED BY <1>0, <2>1, <3>1, RemovedSlot
  <2>3. StillToGo(producers)' < StillToGo(producers) /\ StillToGo(producers)' \in Nat
        /\ StillToGo(producers) \in Nat
    BY <1>0, <2>1, <2>2 DEF StillToGo
  <2>4. /\ StepsLeft = StillToGo(producers) + consumers.num + 2
        /\ StepsLeft' = StillToGo(producers)' + consumers.num + 2
    BY <2>1 DEF StepsLeft
  <2> HIDE DEF StillToGo
  <2> QED BY <1>0, <2>1, <2>3, <2>4
<1>6. ASSUME NEW r \in Receivers, WriteConsumer(r)
      PROVE  mpc = "write" /\ mpc' = "write" /\ StepsLeft' < StepsLeft
  <2>1. /\ mpc = "write" /\ mpc' = "write" /\ idx < consumers.num
        /\ idx' = idx + 1 /\ consumers' = consumers
    BY <1>6 DEF WriteConsumer
  <2>2. StillToGo(consumers)' < StillToGo(consumers) /\ StillToGo(consumers)' \in Nat
        /\ StillToGo(consumers) \in Nat
    BY <1>0, <2>1 DEF StillToGo
  <2>3. StepsLeft = StillToGo(consumers) + 1 /\ StepsLeft' = StillToGo(consumers)' + 1
    BY <2>1 DEF StepsLeft
  <2> QED BY <2>1, <2>2, <2>3
<1>7. ASSUME NEW t \in Transmitters, TxStep(t)
      PROVE  UNCHANGED <<mpc, idx, consumers>> /\ (InTick => producers' = producers)
  BY <1>7 DEF TxStep, OpenTransmitter, AddProducer, Send, CloseTransmitter, TerminateTransmitter,
              TerminateRemove, FinalizeTransmitter, FreeRemove, FreeEncoder, FreeTransmitter,
              txStill, mixVars, LockFree, InTick
<1>8. ASSUME NEW r \in Receivers, RxStep(r)
      PROVE  UNCHANGED <<mpc, idx, producers>> /\ (InTick => consumers' = consumers)
  BY <1>8 DEF RxStep, OpenReceiver, AddConsumer, Recv, CloseReceiver, CloseRemove,
              FinalizeReceiver, FreeRemoveConsumer, FreeReceiver, rxStill, mixVars, LockFree, InTick
<1> QED BY <1>1, <1>2, <1>3, <1>4, <1>5, <1>6, <1>7, <1>8, <1>9 DEF Next, Mixer, InTick

\* The mutex is given back after as many steps as there are clients, and two.
THEOREM EveryTickEnds == Spec => TicksEnd
<1> DEFINE Short ==
      /\ mpc = "idle" /\ mpc' = "sum" => StepsLeft' = producers.num + consumers.num + 2
      /\ InTick => (StepsLeft' < StepsLeft \/ UNCHANGED <<mpc, idx, producers, consumers>>)
<1>1. IInv /\ [Next]_vars => [Short]_vars
  BY NextShortens
<1> HIDE DEF Short
<1>2. Spec => [][Short]_vars
  BY <1>1, InitInv, NextInv, PTL DEF Spec
<1> QED BY <1>2 DEF TicksEnd, Short

-----------------------------------------------------------------------------
(* What the owner of a transmitter is promised.                             *)

\* What is being made is open for frames, only what is open is terminated, and a system that
\* nobody closes early outlives its transmitters.
OwnersInv ==
  /\ \A t \in Transmitters : tx[t] = "created" => ~enc[t].closed
  /\ \A t \in Transmitters : txterm[t] => tx[t] = "open"
  /\ sys /= "running" => \A t \in Transmitters : tx[t] = "none"

LEMMA InitOwners == Init => OwnersInv
  BY DEF Init, OwnersInv

LEMMA NextOwners ==
  ASSUME ~EarlyClose, IInv, OwnersInv, [Next]_vars
  PROVE  OwnersInv'
<1> USE DEF OwnersInv
<1>0. TypeOK
  BY DEF IInv
<1>1. CASE SystemCreate
  BY <1>1 DEF SystemCreate, txVars
<1>2. CASE SystemClose
  BY <1>2 DEF SystemClose, Clients, data, txVars
<1>3. CASE SystemDestroy
  BY <1>3 DEF SystemDestroy, data, txVars
<1>4. CASE Mixer
  <2>1. CASE MixerExit \/ TickBegin \/ SumDone \/ TickEnd
    BY <1>4, <2>1 DEF MixerExit, TickBegin, TickFrom, SumDone, SumEnd, TickEnd, Finish, data, txVars
  <2>2. CASE \E t \in Transmitters : SumBlock(t) \/ SumNothing(t) \/ EjectAtEOF(t)
    <3>1. PICK t \in Transmitters : SumBlock(t) \/ SumNothing(t) \/ EjectAtEOF(t)
      BY <2>2
    <3>2. UNCHANGED <<sys, tx, txterm>>
      BY <3>1 DEF SumBlock, SumNothing, EjectAtEOF, Visiting, txVars
    <3>3. \A u \in Transmitters : enc'[u].closed = enc[u].closed
      <4>1. CASE SumBlock(t)
        <5>1. enc' = [enc EXCEPT ![t] = AfterBlock(@)]
          BY <4>1 DEF SumBlock
        <5>2. AfterBlock(enc[t]).closed = enc[t].closed
          BY <1>0 DEF AfterBlock, TypeOK, Encoders
        <5> QED BY <1>0, <5>1, <5>2 DEF TypeOK
      <4>2. CASE SumNothing(t) \/ EjectAtEOF(t)
        BY <4>2 DEF SumNothing, EjectAtEOF
      <4> QED BY <3>1, <4>1, <4>2
    <3> QED BY <3>2, <3>3
  <2>3. CASE \E r \in Receivers : WriteConsumer(r)
    BY <2>3 DEF WriteConsumer, txVars
  <2> QED BY <1>4, <2>1, <2>2, <2>3 DEF Mixer
<1>5. CASE \E t \in Transmitters : TxStep(t)
  <2>1. PICK t \in Transmitters : TxStep(t)
    BY <1>5
  <2> USE DEF txStill, txVars, TypeOK
  <2>2. CASE OpenTransmitter(t)
    BY <1>0, <2>2 DEF OpenTransmitter, NewEncoder
  <2>3. CASE AddProducer(t)
    BY <1>0, <2>3 DEF AddProducer
  <2>4. CASE Send(t)
    BY <1>0, <2>4 DEF Send
  <2>5. CASE CloseTransmitter(t)
    BY <1>0, <2>5 DEF CloseTransmitter
  <2>6. CASE TerminateTransmitter(t)
    BY <1>0, <2>6 DEF TerminateTransmitter
  <2>7. CASE TerminateRemove(t)
    BY <1>0, <2>7 DEF TerminateRemove
  <2>8. CASE FinalizeTransmitter(t)
    BY <1>0, <2>8 DEF FinalizeTransmitter
  <2>9. CASE FreeRemove(t)
    BY <1>0, <2>9 DEF FreeRemove
  <2>10. CASE FreeEncoder(t)
    BY <1>0, <2>10 DEF FreeEncoder
  <2>11. CASE FreeTransmitter(t)
    BY <1>0, <2>11 DEF FreeTransmitter
  <2> QED BY <2>1, <2>2, <2>3, <2>4, <2>5, <2>6, <2>7, <2>8, <2>9, <2>10, <2>11 DEF TxStep
<1>6. CASE \E r \in Receivers : RxStep(r)
  BY <1>6 DEF RxStep, OpenReceiver, AddConsumer, Recv, CloseReceiver, CloseRemove, FinalizeReceiver,
       FreeRemoveConsumer, FreeReceiver, rxStill, txVars
<1>7. CASE UNCHANGED vars
  BY <1>7 DEF vars, data, txVars
<1> QED BY <1>1, <1>2, <1>3, <1>4, <1>5, <1>6, <1>7 DEF Next

\* How a change of one encoder, or of one stage, shows in the sets.
LEMMA EncoderSets ==
  ASSUME TypeOK, NEW t \in Transmitters, NEW e \in Encoders, enc' = [enc EXCEPT ![t] = e]
  PROVE  /\ Waiting' = IF e.queue = <<>> THEN Waiting \ {t} ELSE Waiting \cup {t}
         /\ Ended' = IF e.closed THEN Ended \cup {t} ELSE Ended \ {t}
<1>1. \A u \in Transmitters : enc'[u] = IF u = t THEN e ELSE enc[u]
  BY DEF TypeOK
<1>2. Waiting' = {u \in Transmitters : enc'[u].queue /= <<>>}
  BY DEF Waiting
<1>3. Ended' = {u \in Transmitters : enc'[u].closed}
  BY DEF Ended
<1> QED BY <1>1, <1>2, <1>3 DEF Waiting, Ended

LEMMA StageSets ==
  ASSUME TypeOK, NEW t \in Transmitters, UNCHANGED txterm
  PROVE  /\ \A s \in {"none", "created", "freeing", "removed", "encfreed"} :
              tx' = [tx EXCEPT ![t] = s] => Held' = Held \cup {t}
         /\ tx' = [tx EXCEPT ![t] = "open"] /\ ~txterm[t] => Held' = Held \ {t}
<1>1. ASSUME NEW s, tx' = [tx EXCEPT ![t] = s]
      PROVE  \A u \in Transmitters : tx'[u] = IF u = t THEN s ELSE tx[u]
  BY <1>1 DEF TypeOK
<1>2. Held' = {u \in Transmitters : tx'[u] /= "open" \/ txterm[u]}
  BY DEF Held
<1> QED BY <1>1, <1>2 DEF Held

LEMMA UnchangedSets ==
  /\ UNCHANGED enc => UNCHANGED <<Waiting, Ended>>
  /\ UNCHANGED <<tx, txterm>> => UNCHANGED Held
  /\ UNCHANGED producers => UNCHANGED Live(producers)
  BY DEF Waiting, Ended, Held, Live, Used

LEMMA InitSource == Init => Playing!SourceInit
<1>1. IsArray(EmptyArray(InitialCap), Transmitters) /\ Live(EmptyArray(InitialCap)) = {}
  BY EmptyArrayIsArray
<1> QED BY <1>1 DEF Init, Playing!SourceInit, Waiting, Ended, Held, NewEncoder

\* What the mixer does to a source.
LEMMA MixerSource ==
  ASSUME IInv, NEW t \in Transmitters, SumBlock(t) \/ SumNothing(t) \/ EjectAtEOF(t)
  PROVE  Playing!SourceStep(t) \/ UNCHANGED Playing!sourceVars
<1>1. TypeOK /\ t \in Live(producers) /\ UNCHANGED Held
  <2>1. idx \in Used(producers) /\ t = producers.buf[idx] /\ UNCHANGED <<tx, txterm>>
    BY DEF SumBlock, SumNothing, EjectAtEOF, Visiting, Used, IInv, TypeOK, IsArray, txVars
  <2> QED BY <2>1, UnchangedSets DEF Live, IInv
<1>2. CASE SumBlock(t)
  <2>1. UNCHANGED Live(producers) /\ enc' = [enc EXCEPT ![t] = AfterBlock(@)] /\ enc[t].queue /= <<>>
    BY <1>2, UnchangedSets DEF SumBlock
  <2>2. AfterBlock(enc[t]) \in Encoders /\ AfterBlock(enc[t]).closed = enc[t].closed
    BY <1>1, <2>1, AfterBlockType DEF TypeOK, AfterBlock, Encoders
  <2>3. t \in Waiting /\ (t \in Ended <=> enc[t].closed)
    BY <2>1 DEF Waiting, Ended
  <2> DEFINE e == AfterBlock(enc[t])
  <2>4. /\ Waiting' = IF e.queue = <<>> THEN Waiting \ {t} ELSE Waiting \cup {t}
        /\ Ended' = IF e.closed THEN Ended \cup {t} ELSE Ended \ {t}
    <3>1. enc' = [enc EXCEPT ![t] = e] /\ e \in Encoders
      BY <2>1, <2>2
    <3> HIDE DEF e
    <3> QED BY <1>1, <3>1, EncoderSets
  <2>5. Ended' = Ended
    BY <2>2, <2>3, <2>4
  <2>6. Waiting' \in {Waiting, Waiting \ {t}}
    <3> HIDE DEF e
    <3> QED BY <2>3, <2>4
  <2> QED BY <1>1, <2>1, <2>3, <2>5, <2>6 DEF Playing!SourceStep, Playing!Pull
<1>3. CASE SumNothing(t)
  BY <1>1, <1>3, UnchangedSets DEF SumNothing, Playing!sourceVars
<1>4. CASE EjectAtEOF(t)
  <2>1. producers' = Remove(producers, t) /\ AtEOF(enc[t]) /\ UNCHANGED <<Waiting, Ended>>
    BY <1>4, UnchangedSets DEF EjectAtEOF, RemoveProducerLocked
  <2>2. Live(producers)' = Live(producers) \ {t}
    BY <2>1, RemoveLive DEF IInv, TypeOK, RegisteredOnce
  <2>3. t \in Ended /\ t \notin Waiting
    BY <2>1 DEF AtEOF, Ended, Waiting
  <2> QED BY <1>1, <2>1, <2>2, <2>3 DEF Playing!SourceStep, Playing!Drop
<1> QED BY <1>2, <1>3, <1>4

\* What its owner does to it.
LEMMA OwnerSource ==
  ASSUME IInv, OwnersInv, NEW t \in Transmitters, TxStep(t)
  PROVE  Playing!SourceStep(t) \/ UNCHANGED Playing!sourceVars
<1> USE DEF txStill, txVars
<1>0. NewEncoder \in Encoders
  BY DEF NewEncoder, Encoders
<1>1. TypeOK /\ enc[t] \in Encoders /\ NewEncoder \in Encoders
  BY <1>0 DEF IInv, TypeOK
<1>2. t \in Live(producers) => tx[t] \in {"open", "freeing"}
  BY DEF IInv, NoDanglingRegistration
<1>3. /\ t \in Held <=> tx[t] /= "open" \/ txterm[t]
      /\ t \in Ended <=> enc[t].closed
      /\ t \in Waiting <=> enc[t].queue /= <<>>
  BY DEF Held, Ended, Waiting
<1>4. producers' = Remove(producers, t) => Live(producers)' = Live(producers) \ {t}
  BY RemoveLive DEF IInv, TypeOK, RegisteredOnce
<1>5. CASE OpenTransmitter(t) \/ FreeEncoder(t)
  <2>1. /\ enc' = [enc EXCEPT ![t] = NewEncoder] /\ UNCHANGED <<producers, txterm>>
        /\ tx[t] \in {"none", "removed"}
        /\ \E s \in {"created", "encfreed"} : tx' = [tx EXCEPT ![t] = s]
    BY <1>5 DEF OpenTransmitter, FreeEncoder
  <2>2. Waiting' = Waiting \ {t} /\ Ended' = Ended \ {t}
    BY <1>1, <2>1, EncoderSets DEF NewEncoder
  <2>3. Held' = Held \cup {t}
    <3>1. PICK s \in {"created", "encfreed"} : tx' = [tx EXCEPT ![t] = s]
      BY <2>1
    <3> QED BY <1>1, <2>1, <3>1, StageSets
  <2>4. t \in Held /\ t \notin Live(producers) /\ UNCHANGED Live(producers)
    BY <1>2, <1>3, <2>1, UnchangedSets
  <2>5. UNCHANGED Held
    BY <2>3, <2>4
  <2> QED BY <2>2, <2>4, <2>5 DEF Playing!SourceStep, Playing!Make
<1>6. CASE AddProducer(t)
  <2>1. /\ tx[t] = "created" /\ ~enc[t].closed /\ ~txterm[t]
        /\ tx' = [tx EXCEPT ![t] = "open"] /\ UNCHANGED <<txterm, enc>>
        /\ producers' = Add(producers, t)
    BY <1>6 DEF AddProducer, OwnersInv
  <2>2. Live(producers)' = Live(producers) \cup {t}
    BY <2>1, AddLive DEF IInv, TypeOK
  <2>3. Held' = Held \ {t}
    BY <1>1, <2>1, StageSets
  <2>4. UNCHANGED <<Waiting, Ended>>
    BY <2>1, UnchangedSets
  <2> QED BY <1>2, <1>3, <2>1, <2>2, <2>3, <2>4 DEF Playing!SourceStep, Playing!Begin
<1>7. CASE Send(t)
  <2> DEFINE e == [enc[t] EXCEPT !.queue = Append(enc[t].queue, sent[t] + 1)]
  <2>1. /\ enc' = [enc EXCEPT ![t] = e] /\ ~enc[t].closed /\ UNCHANGED <<producers, tx, txterm>>
    BY <1>1, <1>7 DEF Send, TypeOK
  <2>2. enc[t].queue \in Seq(Nat) /\ sent[t] + 1 \in Nat
    BY <1>1 DEF TypeOK, Encoders
  <2>3. Append(enc[t].queue, sent[t] + 1) \in Seq(Nat) /\ Append(enc[t].queue, sent[t] + 1) /= <<>>
    <3> HIDE DEF e
    <3> QED BY ONLY <2>2
  <2>4. e \in Encoders
    BY <1>1, <2>3, QueuedEncoder
  <2>5. e.queue /= <<>> /\ e.closed = enc[t].closed
    BY <1>1, <2>3 DEF Encoders
  <2> HIDE DEF e
  <2>6. Waiting' = Waiting \cup {t} /\ Ended' = Ended \ {t}
    BY <1>1, <2>1, <2>4, <2>5, EncoderSets
  <2>7. UNCHANGED <<Live(producers), Held>>
    BY <2>1, UnchangedSets
  <2>8. UNCHANGED Ended /\ t \notin Ended
    BY <1>3, <2>1, <2>6
  <2> QED BY <2>6, <2>7, <2>8 DEF Playing!SourceStep, Playing!Offer
<1>8. CASE CloseTransmitter(t) \/ TerminateTransmitter(t)
  <2> DEFINE e == [enc[t] EXCEPT !.closed = TRUE]
  <2>1. /\ enc' = [enc EXCEPT ![t] = e] /\ UNCHANGED <<producers, tx>> /\ tx[t] = "open"
        /\ txterm' = txterm \/ txterm' = [txterm EXCEPT ![t] = TRUE]
    BY <1>1, <1>8 DEF CloseTransmitter, TerminateTransmitter, TypeOK
  <2>2. e \in Encoders /\ e.closed /\ e.queue = enc[t].queue
    BY <1>1, ClosedEncoder DEF Encoders
  <2> HIDE DEF e
  <2>3. Ended' = Ended \cup {t}
    BY <1>1, <2>1, <2>2, EncoderSets
  <2>6. Waiting' = IF e.queue = <<>> THEN Waiting \ {t} ELSE Waiting \cup {t}
    BY <1>1, <2>1, <2>2, EncoderSets
  <2>7. UNCHANGED Waiting
    BY <1>3, <2>2, <2>6
  <2>4. Held' \in {Held, Held \cup {t}}
    BY <1>1, <2>1 DEF Held, TypeOK
  <2>5. UNCHANGED Live(producers)
    BY <2>1, UnchangedSets
  <2> QED BY <2>3, <2>4, <2>5, <2>7 DEF Playing!SourceStep, Playing!End
<1>9. CASE TerminateRemove(t)
  <2>1. /\ txterm[t] /\ producers' = Remove(producers, t) /\ UNCHANGED <<tx, enc>>
        /\ txterm' = [txterm EXCEPT ![t] = FALSE] /\ tx[t] = "open"
    BY <1>9 DEF TerminateRemove, RemoveProducerLocked, OwnersInv
  <2>2. Held' = Held \ {t}
    BY <1>1, <2>1 DEF Held, TypeOK
  <2>3. UNCHANGED <<Waiting, Ended>>
    BY <2>1, UnchangedSets
  <2> QED BY <1>3, <1>4, <2>1, <2>2, <2>3 DEF Playing!SourceStep, Playing!Cut
<1>10. CASE FinalizeTransmitter(t)
  <2>1. tx' = [tx EXCEPT ![t] = "freeing"] /\ UNCHANGED <<txterm, enc, producers>>
    BY <1>10 DEF FinalizeTransmitter
  <2>2. Held' = Held \cup {t}
    BY <1>1, <2>1, StageSets
  <2>3. UNCHANGED <<Live(producers), Waiting, Ended>>
    BY <2>1, UnchangedSets
  <2> QED BY <2>2, <2>3 DEF Playing!SourceStep, Playing!TakeBack
<1>11. CASE FreeRemove(t)
  <2>1. /\ tx[t] = "freeing" /\ tx' = [tx EXCEPT ![t] = "removed"] /\ UNCHANGED <<txterm, enc>>
        /\ producers' = Remove(producers, t)
    BY <1>11 DEF FreeRemove, RemoveProducerLocked
  <2>2. Held' = Held \cup {t} /\ t \in Held
    BY <1>1, <1>3, <2>1, StageSets
  <2>3. UNCHANGED Held
    BY <2>2
  <2>4. UNCHANGED <<Waiting, Ended>>
    BY <2>1, UnchangedSets
  <2> QED BY <1>4, <2>1, <2>2, <2>3, <2>4 DEF Playing!SourceStep, Playing!Cut
<1>12. CASE FreeTransmitter(t)
  <2>1. /\ tx[t] = "encfreed" /\ tx' = [tx EXCEPT ![t] = "none"] /\ UNCHANGED <<txterm, enc, producers>>
    BY <1>12 DEF FreeTransmitter
  <2>2. Held' = Held \cup {t} /\ t \in Held
    BY <1>1, <1>3, <2>1, StageSets
  <2>3. UNCHANGED Held
    BY <2>2
  <2> QED BY <2>1, <2>3, UnchangedSets DEF Playing!sourceVars
<1> QED BY <1>5, <1>6, <1>7, <1>8, <1>9, <1>10, <1>11, <1>12 DEF TxStep

LEMMA NextSource ==
  ASSUME ~EarlyClose, IInv, OwnersInv, [Next]_vars
  PROVE  (\E t \in Transmitters : Playing!SourceStep(t)) \/ UNCHANGED Playing!sourceVars
<1>1. CASE SystemCreate
  <2>1. Live(producers) = {}
    BY <1>1 DEF SystemCreate, OwnersInv, IInv, NoDanglingRegistration
  <2>2. Live(producers)' = {}
    <3>1. IsArray(EmptyArray(InitialCap), Transmitters) /\ Live(EmptyArray(InitialCap)) = {}
      BY EmptyArrayIsArray
    <3>2. producers' = EmptyArray(InitialCap)
      BY <1>1 DEF SystemCreate
    <3> QED BY <3>1, <3>2
  <2>3. UNCHANGED <<enc, tx, txterm>>
    BY <1>1 DEF SystemCreate, txVars
  <2> QED BY <2>1, <2>2, <2>3, UnchangedSets DEF Playing!sourceVars
<1>2. CASE \E t \in Transmitters : SumBlock(t) \/ SumNothing(t) \/ EjectAtEOF(t)
  BY <1>2, MixerSource
<1>3. CASE \E t \in Transmitters : TxStep(t)
  BY <1>3, OwnerSource
<1>4. CASE \/ UNCHANGED vars \/ SystemClose \/ SystemDestroy
           \/ MixerExit \/ TickBegin \/ SumDone \/ TickEnd
           \/ \E r \in Receivers : WriteConsumer(r) \/ RxStep(r)
  <2>1. UNCHANGED <<producers, enc, tx, txterm>>
    <3>1. CASE UNCHANGED vars \/ SystemClose \/ SystemDestroy
      BY <3>1 DEF vars, data, txVars, SystemClose, SystemDestroy
    <3>2. CASE MixerExit \/ TickBegin \/ SumDone \/ TickEnd
      BY <3>2 DEF MixerExit, TickBegin, TickFrom, SumDone, SumEnd, TickEnd, Finish, data, txVars
    <3>3. CASE \E r \in Receivers : WriteConsumer(r) \/ RxStep(r)
      BY <3>3 DEF WriteConsumer, RxStep, OpenReceiver, AddConsumer, Recv, CloseReceiver, CloseRemove,
           FinalizeReceiver, FreeRemoveConsumer, FreeReceiver, rxStill, txVars
    <3> QED BY <1>4, <3>1, <3>2, <3>3
  <2> QED BY <2>1, UnchangedSets DEF Playing!sourceVars
<1> QED BY <1>1, <1>2, <1>3, <1>4 DEF Next, Mixer

\* Unless the system is closed under its clients, the mixer, whatever it does to its array, and
\* its owners together treat each transmitter as Source says: it is pulled from until it is
\* closed and drained, and no longer, or else cut off by its owner.
THEOREM LoopbackIsSource == ASSUME ~EarlyClose PROVE Spec => ImplementsSource
<1>1. Init => IInv /\ OwnersInv /\ Playing!SourceInit
  BY InitInv, InitOwners, InitSource
<1>2. IInv /\ OwnersInv /\ [Next]_vars => IInv' /\ OwnersInv'
  BY NextInv, NextOwners
<1>3. IInv /\ OwnersInv /\ [Next]_vars => [Playing!SourceNext]_(Playing!sourceVars)
  BY NextSource DEF Playing!SourceNext
<1> QED BY <1>1, <1>2, <1>3, PTL DEF Spec, ImplementsSource, Playing!SourceSpec
=============================================================================
