------------------------------ MODULE Loopback ------------------------------
(***************************************************************************)
(* The loopback audio system (loopback.c): one mixer thread that, every    *)
(* tick and with the mutex held, sums a block from each registered         *)
(* producer and hands the sum to each registered consumer; and the frame   *)
(* transmitters and receivers (transmitter.c, receiver.c) whose owners     *)
(* register, close, terminate and free them from threads of their own.     *)
(*                                                                         *)
(* A transmitter t stands for the object at one address: its encoder and   *)
(* its producer.  After it is freed the address may be handed out again.   *)
(* A frame is the number t gave it.  A frame takes FrameBlocks blocks of   *)
(* audio, so it spans several ticks.                                       *)
(***************************************************************************)
EXTENDS Naturals, Sequences, Functions, PtrArray

CONSTANTS Transmitters, Receivers,
          InitialCap,    \* producers_cap and consumers_cap at creation: 8
          FrameBlocks,   \* audio blocks per frame
          QueueLimit,    \* frames an encoder's queue holds
          MaxFrames,     \* bound on the frames sent, by all transmitters together
          EarlyClose     \* QuietSystem.close() while clients still exist?

ASSUME LoopbackAssumption ==
  /\ InitialCap \in Nat \ {0}
  /\ FrameBlocks \in Nat \ {0}
  /\ QueueLimit \in Nat /\ MaxFrames \in Nat
  /\ EarlyClose \in BOOLEAN
  /\ NULL \notin Transmitters \cup Receivers
  /\ Uninit \notin Transmitters \cup Receivers

VARIABLES
  sys,         \* the loopback system: "none", "running" or "closing" (is_closed)
  mpc,         \* the mixer: "idle" (asleep), "sum", "write", "exited", "none"
  idx,         \* its loop index i
  producers,   \* l->producers, num_producers, producers_cap
  consumers,   \* l->consumers, num_consumers, consumers_cap
  mix,         \* the blocks summed into sample_stereo_buffer this tick
  tx,          \* how far each transmitter's open or free has got
  txterm,      \* TRUE between the two halves of a transmitter's terminate
  enc,         \* the encoder of each transmitter
  sent,        \* frames each transmitter has queued so far
  aired,       \* the last frame of each transmitter that went out whole
  rx,          \* how far each receiver's open or free has got
  rxterm,      \* TRUE between the two halves of a receiver's close
  dec,         \* the decoder of each receiver
  heard,       \* history: the frames each receiver decoded, by sender
  tick         \* history of the tick under way: who was there, visited, ejected

mixVars == <<mpc, idx, mix, tick>>
txVars == <<tx, txterm, sent>>
rxVars == <<rx, rxterm>>
data == <<producers, consumers, txVars, enc, aired, rxVars, dec, heard>>
vars == <<sys, mixVars, data>>

-----------------------------------------------------------------------------
(* The encoder and the decoder of libquiet, as quiet.h documents them and   *)
(* as transmitter.c and receiver.c use them.                                *)

Blocks == [tx : Transmitters, frame : Nat, part : 1..FrameBlocks]

Encoders == [closed : BOOLEAN, queue : Seq(Nat), part : 1..FrameBlocks]
Decoders == [closed : BOOLEAN, queue : Seq(Blocks), hearing : SUBSET Blocks]

\* quiet_encoder_create: an open queue.  part is the head frame's next block.
NewEncoder == [closed |-> FALSE, queue |-> <<>>, part |-> 1]
NewDecoder == [closed |-> FALSE, queue |-> <<>>, hearing |-> {}]

\* quiet_encoder_emit returns 0 only when no frame is left and none can come.
AtEOF(e) == e.closed /\ e.queue = <<>>
NothingReady(e) == ~e.closed /\ e.queue = <<>>

LastBlock(e) == e.part = FrameBlocks

\* Mutant: a frame that went out stays at the head of the queue.
AfterBlockRepeats(e) == [e EXCEPT !.part = IF LastBlock(e) THEN 1 ELSE @ + 1]

AfterBlock(e) ==
  IF LastBlock(e) THEN [e EXCEPT !.queue = Tail(@), !.part = 1]
                  ELSE [e EXCEPT !.part = @ + 1]

\* A block carries a frame on if it is its first or follows the one just heard.
CarriesOn(d, b) ==
  b.part = 1 \/ \E h \in d.hearing : h = [b EXCEPT !.part = b.part - 1]

\* The frames a decoder recovers from a tick's mix, none or one: its blocks must
\* reach the decoder unmixed and in successive ticks.
Unmixed(d, m) == {b \in m : m = {b} /\ CarriesOn(d, b)}
Recovered(d, m) ==
  IF d.closed THEN {} ELSE {b \in Unmixed(d, m) : b.part = FrameBlocks}

\* The frame of t among those recovered, as a sequence.
FramesFrom(t, bs) ==
  IF \E b \in bs : b.tx = t THEN <<(CHOOSE b \in bs : b.tx = t).frame>> ELSE <<>>

\* quiet_decoder_consume: a closed decoder enqueues nothing more.
AfterConsume(d, m) ==
  [d EXCEPT !.hearing = {b \in Unmixed(d, m) : b.part < FrameBlocks},
            !.queue = IF Recovered(d, m) = {} THEN @
                      ELSE Append(@, CHOOSE b \in Recovered(d, m) : TRUE)]

-----------------------------------------------------------------------------
(* Creating and destroying the loopback system.                             *)

Ticks == [roster : Seq(Transmitters), visited : Seq(Transmitters), ejected : SUBSET Transmitters]
NoTick == [roster |-> <<>>, visited |-> <<>>, ejected |-> {}]

Init ==
  /\ sys = "none" /\ mpc = "none" /\ idx = 0 /\ mix = {} /\ tick = NoTick
  /\ producers = EmptyArray(InitialCap)
  /\ consumers = EmptyArray(InitialCap)
  /\ tx = [t \in Transmitters |-> "none"]
  /\ txterm = [t \in Transmitters |-> FALSE]
  /\ enc = [t \in Transmitters |-> NewEncoder]
  /\ sent = [t \in Transmitters |-> 0]
  /\ aired = [t \in Transmitters |-> 0]
  /\ rx = [r \in Receivers |-> "none"]
  /\ rxterm = [r \in Receivers |-> FALSE]
  /\ dec = [r \in Receivers |-> NewDecoder]
  /\ heard = [r \in Receivers |-> [t \in Transmitters |-> <<>>]]

\* The mixer holds the mutex from the start of a tick to its end; every other
\* critical section is a single step, so the mutex is free between ticks.
LockFree == sys /= "none" /\ mpc \notin {"sum", "write"}

Clients == {t \in Transmitters : tx[t] /= "none"} \cup {r \in Receivers : rx[r] /= "none"}

\* quiet_loopback_system_create: fresh arrays, and the mixer thread starts.
SystemCreate ==
  /\ sys = "none"
  /\ sys' = "running" /\ mpc' = "idle"
  /\ producers' = EmptyArray(InitialCap)
  /\ consumers' = EmptyArray(InitialCap)
  /\ UNCHANGED <<idx, mix, tick, txVars, enc, aired, rxVars, dec, heard>>

\* loopback_close, the first half of quiet_loopback_system_destroy.
SystemClose ==
  /\ sys = "running" /\ LockFree
  /\ EarlyClose \/ Clients = {}
  /\ sys' = "closing"
  /\ UNCHANGED <<mixVars, data>>

\* pthread_join returns once the mixer has exited; loopback_destroy frees all.
SystemDestroy ==
  /\ sys = "closing" /\ mpc = "exited"
  /\ sys' = "none" /\ mpc' = "none"
  /\ UNCHANGED <<idx, mix, tick, data>>

-----------------------------------------------------------------------------
(* The mixer thread (loopback_thread).                                      *)

\* The array as a sequence, for the history variable tick.
Contents(a) == [k \in 1..a.num |-> a.buf[k - 1]]

MixerExit ==
  /\ mpc = "idle" /\ LockFree /\ sys = "closing"
  /\ mpc' = "exited"
  /\ UNCHANGED <<sys, idx, mix, tick, data>>

TickFrom(i) ==
  /\ mpc = "idle" /\ LockFree
  /\ mpc' = "sum" /\ idx' = i /\ mix' = {}
  /\ tick' = [roster |-> Contents(producers), visited |-> <<>>, ejected |-> {}]
  /\ UNCHANGED <<sys, data>>

\* Mutants: the loop starts at the second producer; is_closed is not looked at.
TickBeginOffByOne == TickFrom(1) /\ sys = "running"
TickBeginAnyway == TickFrom(0)

TickBegin == TickFrom(0) /\ sys = "running"

RemoveProducerLocked(t) == producers' = Remove(producers, t)

Visiting(t) ==
  /\ mpc = "sum" /\ idx < producers.num
  /\ t = producers.buf[idx]
  /\ idx' = idx + 1
  /\ UNCHANGED <<sys, mpc, consumers, txVars, rxVars, dec, heard>>

Visited(t) == tick' = [tick EXCEPT !.visited = Append(@, t)]
Ejected(t) == tick' = [tick EXCEPT !.visited = Append(@, t), !.ejected = @ \cup {t}]

\* written > 0: the producer had audio, which is added to the mix.
SumBlock(t) ==
  /\ Visiting(t) /\ Visited(t)
  /\ enc[t].queue /= <<>>
  /\ mix' = mix \cup {[tx |-> t, frame |-> Head(enc[t].queue), part |-> enc[t].part]}
  /\ enc' = [enc EXCEPT ![t] = AfterBlock(@)]
  /\ aired' = IF LastBlock(enc[t]) THEN [aired EXCEPT ![t] = Head(enc[t].queue)] ELSE aired
  /\ UNCHANGED producers

\* written < 0: nothing ready now, more could be later.
SumNothing(t) ==
  /\ Visiting(t) /\ Visited(t)
  /\ NothingReady(enc[t])
  /\ UNCHANGED <<mix, enc, aired, producers>>

\* Mutants: "written <= 0" ejects, so a producer with nothing ready is thrown out;
\* the end of the stream is treated as silence.
EjectWhenStarved(t) ==
  /\ Visiting(t) /\ Ejected(t) /\ enc[t].queue = <<>>
  /\ RemoveProducerLocked(t) /\ UNCHANGED <<mix, enc, aired>>
EjectNobody(t) ==
  /\ Visiting(t) /\ Visited(t) /\ AtEOF(enc[t])
  /\ UNCHANGED <<mix, enc, aired, producers>>

\* written = 0: the producer is done, and is removed from the very array the
\* loop is walking, so that the slot the next index names has moved on by one.
EjectAtEOF(t) ==
  /\ Visiting(t) /\ Ejected(t)
  /\ AtEOF(enc[t])
  /\ RemoveProducerLocked(t)
  /\ UNCHANGED <<mix, enc, aired>>

SumEnd(first) ==
  /\ mpc = "sum" /\ idx >= producers.num
  /\ mpc' = "write" /\ idx' = first
  /\ UNCHANGED <<sys, mix, tick, data>>

\* Mutant: the loop over the consumers starts at the second one.
SumDoneOffByOne == SumEnd(1)

SumDone == SumEnd(0)

WriteConsumer(r) ==
  /\ mpc = "write" /\ idx < consumers.num
  /\ r = consumers.buf[idx]
  /\ idx' = idx + 1
  /\ dec' = [dec EXCEPT ![r] = AfterConsume(@, mix)]
  /\ heard' = [heard EXCEPT ![r] =
       [t \in Transmitters |->
          @[t] \o FramesFrom(t, Recovered(dec[r], mix))]]
  /\ UNCHANGED <<sys, mpc, mix, tick, producers, consumers, txVars, enc, aired, rxVars>>

Finish(pc) ==
  /\ mpc = "write" /\ idx >= consumers.num
  /\ mpc' = pc /\ idx' = 0 /\ mix' = {} /\ tick' = NoTick
  /\ UNCHANGED <<sys, data>>

\* Mutant: the next tick begins without the mutex having been released.
TickEndLocked == Finish("sum")

TickEnd == Finish("idle")

-----------------------------------------------------------------------------
(* A transmitter's owners: its constructor, the threads that send on it,    *)
(* close it or terminate it, and the finalizer, which runs when no thread   *)
(* is inside a call on the object.                                          *)

txStill == <<sys, mixVars, consumers, rxVars, dec, heard>>

\* android_encoder_create, up to the registration: the encoder and the producer.
OpenTransmitter(t) ==
  /\ sys = "running" /\ tx[t] = "none"
  /\ tx' = [tx EXCEPT ![t] = "created"]
  /\ enc' = [enc EXCEPT ![t] = NewEncoder]
  /\ UNCHANGED <<txStill, producers, txterm, sent, aired>>

AddProducer(t) ==
  /\ tx[t] = "created" /\ LockFree
  /\ producers' = Add(producers, t)
  /\ tx' = [tx EXCEPT ![t] = "open"]
  /\ UNCHANGED <<txStill, txterm, enc, sent, aired>>

\* nativeSend that queues its frame.  One that finds the queue closed or full
\* throws and changes nothing.
Send(t) ==
  /\ tx[t] = "open" /\ ~enc[t].closed
  /\ Len(enc[t].queue) < QueueLimit /\ SumFunction(sent) < MaxFrames
  /\ sent' = [sent EXCEPT ![t] = @ + 1]
  /\ enc' = [enc EXCEPT ![t].queue = Append(@, sent[t] + 1)]
  /\ UNCHANGED <<txStill, producers, tx, txterm, aired>>

\* android_encoder_terminate with urgency 0: the queue is closed, and that is all.
CloseTransmitter(t) ==
  /\ tx[t] = "open"
  /\ enc' = [enc EXCEPT ![t].closed = TRUE]
  /\ UNCHANGED <<txStill, producers, txVars, aired>>

\* With urgency 1 the queue is closed and the producer then pulled at once.
TerminateTransmitter(t) ==
  /\ tx[t] = "open"
  /\ enc' = [enc EXCEPT ![t].closed = TRUE]
  /\ txterm' = [txterm EXCEPT ![t] = TRUE]
  /\ UNCHANGED <<txStill, producers, tx, sent, aired>>

TerminateRemove(t) ==
  /\ txterm[t] /\ LockFree
  /\ RemoveProducerLocked(t)
  /\ txterm' = [txterm EXCEPT ![t] = FALSE]
  /\ UNCHANGED <<txStill, tx, enc, sent, aired>>

FinalizeTransmitter(t) ==
  /\ tx[t] = "open" /\ ~txterm[t]
  /\ tx' = [tx EXCEPT ![t] = "freeing"]
  /\ UNCHANGED <<txStill, producers, txterm, enc, sent, aired>>

\* Mutant: a closed transmitter is taken to have been ejected already.
FreeRemoveUnlessClosed(t) ==
  /\ tx[t] = "freeing" /\ LockFree
  /\ IF enc[t].closed THEN UNCHANGED producers ELSE RemoveProducerLocked(t)
  /\ tx' = [tx EXCEPT ![t] = "removed"]
  /\ UNCHANGED <<txStill, txterm, enc, sent, aired>>

\* android_encoder_destroy: remove, then destroy the encoder, then the rest.
FreeRemove(t) ==
  /\ tx[t] = "freeing" /\ LockFree
  /\ RemoveProducerLocked(t)
  /\ tx' = [tx EXCEPT ![t] = "removed"]
  /\ UNCHANGED <<txStill, txterm, enc, sent, aired>>

FreeEncoder(t) ==
  /\ tx[t] = "removed"
  /\ tx' = [tx EXCEPT ![t] = "encfreed"]
  /\ enc' = [enc EXCEPT ![t] = NewEncoder]
  /\ UNCHANGED <<txStill, producers, txterm, sent, aired>>

FreeTransmitter(t) ==
  /\ tx[t] = "encfreed"
  /\ tx' = [tx EXCEPT ![t] = "none"]
  /\ UNCHANGED <<txStill, producers, txterm, enc, sent, aired>>

-----------------------------------------------------------------------------
(* A receiver's owners.                                                     *)

rxStill == <<sys, mixVars, producers, txVars, enc, aired, heard>>

OpenReceiver(r) ==
  /\ sys = "running" /\ rx[r] = "none"
  /\ rx' = [rx EXCEPT ![r] = "created"]
  /\ dec' = [dec EXCEPT ![r] = NewDecoder]
  /\ UNCHANGED <<rxStill, consumers, rxterm>>

AddConsumer(r) ==
  /\ rx[r] = "created" /\ LockFree
  /\ consumers' = Add(consumers, r)
  /\ rx' = [rx EXCEPT ![r] = "open"]
  /\ UNCHANGED <<rxStill, rxterm, dec>>

\* nativeRecv that returns a frame; otherwise it throws and changes nothing.
Recv(r) ==
  /\ rx[r] = "open" /\ dec[r].queue /= <<>>
  /\ dec' = [dec EXCEPT ![r].queue = Tail(@)]
  /\ UNCHANGED <<rxStill, consumers, rxVars>>

\* android_decoder_terminate: close the decoder, then pull the consumer.
CloseReceiver(r) ==
  /\ rx[r] = "open"
  /\ dec' = [dec EXCEPT ![r].closed = TRUE]
  /\ rxterm' = [rxterm EXCEPT ![r] = TRUE]
  /\ UNCHANGED <<rxStill, consumers, rx>>

CloseRemove(r) ==
  /\ rxterm[r] /\ LockFree
  /\ consumers' = Remove(consumers, r)
  /\ rxterm' = [rxterm EXCEPT ![r] = FALSE]
  /\ UNCHANGED <<rxStill, rx, dec>>

FinalizeReceiver(r) ==
  /\ rx[r] = "open" /\ ~rxterm[r]
  /\ rx' = [rx EXCEPT ![r] = "freeing"]
  /\ UNCHANGED <<rxStill, consumers, rxterm, dec>>

FreeRemoveConsumer(r) ==
  /\ rx[r] = "freeing" /\ LockFree
  /\ consumers' = Remove(consumers, r)
  /\ rx' = [rx EXCEPT ![r] = "removed"]
  /\ UNCHANGED <<rxStill, rxterm, dec>>

\* android_decoder_destroy: after the removal nothing else reaches the object.
FreeReceiver(r) ==
  /\ rx[r] = "removed"
  /\ rx' = [rx EXCEPT ![r] = "none"]
  /\ dec' = [dec EXCEPT ![r] = NewDecoder]
  /\ UNCHANGED <<rxStill, consumers, rxterm>>

-----------------------------------------------------------------------------
Mixer ==
  \/ MixerExit \/ TickBegin \/ SumDone \/ TickEnd
  \/ \E t \in Transmitters : SumBlock(t) \/ SumNothing(t) \/ EjectAtEOF(t)
  \/ \E r \in Receivers : WriteConsumer(r)

TxStep(t) ==
  \/ OpenTransmitter(t) \/ AddProducer(t) \/ Send(t) \/ CloseTransmitter(t)
  \/ TerminateTransmitter(t) \/ TerminateRemove(t)
  \/ FinalizeTransmitter(t) \/ FreeRemove(t) \/ FreeEncoder(t) \/ FreeTransmitter(t)

RxStep(r) ==
  \/ OpenReceiver(r) \/ AddConsumer(r) \/ Recv(r) \/ CloseReceiver(r) \/ CloseRemove(r)
  \/ FinalizeReceiver(r) \/ FreeRemoveConsumer(r) \/ FreeReceiver(r)

Next ==
  \/ SystemCreate \/ SystemClose \/ SystemDestroy
  \/ Mixer
  \/ \E t \in Transmitters : TxStep(t)
  \/ \E r \in Receivers : RxStep(r)

Spec == Init /\ [][Next]_vars

\* The mixer thread keeps running, a call that waits for the mutex gets it in one
\* of the gaps the mixer leaves while it sleeps, and a call under way goes on.
\* Nobody has to open, send, close or finalize anything.
Fairness ==
  /\ WF_vars(Mixer) /\ WF_vars(SystemDestroy)
  /\ \A t \in Transmitters :
       /\ SF_vars(AddProducer(t)) /\ SF_vars(TerminateRemove(t)) /\ SF_vars(FreeRemove(t))
       /\ WF_vars(FreeEncoder(t)) /\ WF_vars(FreeTransmitter(t))
  /\ \A r \in Receivers :
       /\ SF_vars(AddConsumer(r)) /\ SF_vars(CloseRemove(r)) /\ SF_vars(FreeRemoveConsumer(r))
       /\ WF_vars(FreeReceiver(r))

FairSpec == Spec /\ Fairness

-----------------------------------------------------------------------------
(* Safety.                                                                  *)

\* Every variable has its type.
TypeOK ==
  /\ sys \in {"none", "running", "closing"}
  /\ mpc \in {"none", "idle", "sum", "write", "exited"}
  /\ idx \in Nat
  /\ IsArray(producers, Transmitters) /\ IsArray(consumers, Receivers)
  /\ mix \subseteq Blocks
  /\ tx \in [Transmitters -> {"none", "created", "open", "freeing", "removed", "encfreed"}]
  /\ txterm \in [Transmitters -> BOOLEAN]
  /\ enc \in [Transmitters -> Encoders]
  /\ sent \in [Transmitters -> Nat] /\ aired \in [Transmitters -> Nat]
  /\ rx \in [Receivers -> {"none", "created", "open", "freeing", "removed"}]
  /\ rxterm \in [Receivers -> BOOLEAN]
  /\ dec \in [Receivers -> Decoders]
  /\ heard \in [Receivers -> [Transmitters -> Seq(Nat)]]
  /\ tick \in Ticks

\* Whatever the mixer can reach is alive: a registered producer's encoder has not
\* been freed and a registered consumer's decoder has not, whichever of the owner's
\* close, terminate and free, and of the mixer's own ejection, happened in between.
NoDanglingRegistration ==
  /\ \A t \in Live(producers) : t \in Transmitters /\ tx[t] \in {"open", "freeing"}
  /\ \A r \in Live(consumers) : r \in Receivers /\ rx[r] \in {"open", "freeing"}

\* A transmitter or receiver is registered at most once, so that a removal, which
\* stops at the first match, leaves no second entry behind.
RegisteredOnce == Distinct(producers) /\ Distinct(consumers)

\* What one tick serves: nobody twice, and of those registered when it began exactly
\* the ones are left out whose predecessor was ejected in this same tick, because
\* the ejection moved them into the slot the loop had just left.
TickService ==
  mpc = "write" =>
    /\ \A j, k \in DOMAIN tick.visited : tick.visited[j] = tick.visited[k] => j = k
    /\ \A k \in DOMAIN tick.roster :
         (\E j \in DOMAIN tick.visited : tick.visited[j] = tick.roster[k])
           <=> ~(k > 1 /\ tick.roster[k - 1] \in tick.ejected)

\* Each receiver decodes a transmitter's frames in the order they were sent, each at
\* most once, and none that did not go out whole: neither ejection, nor a frame cut
\* short by a free, nor the reuse of an address, delivers a frame late or twice.
DecodedInOrder ==
  \A r \in Receivers :
    /\ \A t \in Transmitters :
         /\ \A j, k \in DOMAIN heard[r][t] : j < k => heard[r][t][j] < heard[r][t][k]
         /\ \A k \in DOMAIN heard[r][t] : heard[r][t][k] <= aired[t]
         /\ aired[t] <= sent[t]
    /\ \A j, k \in DOMAIN dec[r].queue :
         LET f == dec[r].queue[j]
             g == dec[r].queue[k]
         IN  j < k /\ f.tx = g.tx => f.frame < g.frame

\* A producer leaves the mixer only when it is closed and has played everything it
\* had queued, or because its owner terminates or frees it.
OnlyDrainedEjected ==
  [][sys' = sys => \A t \in Transmitters :
       t \in Live(producers) /\ t \notin Live(producers') =>
         AtEOF(enc[t]) \/ txterm[t] \/ tx[t] = "freeing"]_vars

\* The comment of android_encoder_destroy: the removal is "a safe call always".  It
\* locks the mutex of the loopback system, so that system must still exist.
SafeCallAlways ==
  /\ \A t \in Transmitters : tx[t] = "freeing" \/ txterm[t] => sys /= "none"
  /\ \A r \in Receivers : rx[r] = "freeing" \/ rxterm[r] => sys /= "none"

\* The mixer with its array, its mutex and its per-block work is such a medium:
\* frames go on the air in order, and each is heard at most once, by whoever
\* listens at that moment, before the next one of its transmitter goes out.
Abstract == INSTANCE Medium
ImplementsMedium == Abstract!MediumSpec

\* To the owner of a transmitter the mixer is an audio system as in Source, as long as
\* the system outlives its clients.
Waiting == {t \in Transmitters : enc[t].queue /= <<>>}
Ended == {t \in Transmitters : enc[t].closed}
Held == {t \in Transmitters : tx[t] /= "open" \/ txterm[t]}
Playing == INSTANCE Source WITH
  Sources <- Transmitters, on <- Live(producers), waiting <- Waiting, ended <- Ended, held <- Held
ImplementsSource == Playing!SourceSpec

-----------------------------------------------------------------------------
(* Liveness, under FairSpec.                                                *)

Registered(t) == t \in Live(producers)

\* The comment of android_encoder_terminate: closing a transmitter is enough for the
\* loopback to detect EOF and eject its producer, whatever the others do.
CloseEjects == \A t \in Transmitters : (Registered(t) /\ enc[t].closed) ~> ~Registered(t)

Queued(t, n) == \E k \in DOMAIN enc[t].queue : enc[t].queue[k] = n

\* A queued frame goes out, though ejections may skip its producer for some ticks.
FramesGoOut ==
  \A t \in Transmitters : \A n \in 1..MaxFrames :
    (Registered(t) /\ Queued(t, n)) ~> (aired[t] >= n \/ ~Registered(t))

\* A lone transmitter is heard: a frame it has not begun when a receiver listens
\* is decoded by that receiver, unless one of the two goes away first.
NotBegun(t, n) ==
  \E k \in DOMAIN enc[t].queue : enc[t].queue[k] = n /\ (k > 1 \/ enc[t].part = 1)
LoneSenderHeard ==
  \A t \in Transmitters : \A r \in Receivers : \A n \in 1..MaxFrames :
    (Registered(t) /\ r \in Live(consumers) /\ NotBegun(t, n) /\ ~dec[r].closed)
      ~> ((\E k \in DOMAIN heard[r][t] : heard[r][t][k] = n)
          \/ ~Registered(t) \/ r \notin Live(consumers) \/ dec[r].closed)

\* Every open, terminate, close and free that started comes back.
CallsReturn ==
  /\ \A t \in Transmitters :
       /\ tx[t] = "created" ~> tx[t] /= "created"
       /\ txterm[t] ~> ~txterm[t]
       /\ tx[t] = "freeing" ~> tx[t] = "none"
  /\ \A r \in Receivers :
       /\ rxterm[r] ~> ~rxterm[r]
       /\ rx[r] \in {"created", "freeing"} ~> rx[r] \in {"none", "open"}

\* Closing the system lets the mixer exit, join return and the memory go.
ShutdownCompletes == sys = "closing" ~> sys = "none"
=============================================================================
