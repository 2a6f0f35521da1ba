---------------------------- MODULE OpenSLPlayer ----------------------------
(***************************************************************************)
(* A transmitter that plays through the sound card: transmitter.c without  *)
(* the loopback, and the player half of opensl.c.  OpenSL plays a queue of *)
(* at most NumBuf buffers; each time one has been played its callback, on  *)
(* OpenSL's own thread, asks the encoder for a block, converts it into the *)
(* next buffer of the ring and enqueues that.  Meanwhile the constructor,  *)
(* the threads that send, close or terminate, and the finalizer run.       *)
(*                                                                         *)
(* A block of audio is the number it has in the encoder's stream, so that  *)
(* the encoder's queue is out+1 .. sent; 0 is a block of silence.          *)
(***************************************************************************)
EXTENDS Naturals, Sequences

CONSTANTS NumBuf,        \* producer->num_buf
          QueueLimit,    \* blocks the encoder's queue holds
          MaxBlocks      \* bound on the blocks sent on one transmitter

ASSUME PlayerAssumption ==
  /\ NumBuf \in Nat \ {0}
  /\ QueueLimit \in Nat /\ MaxBlocks \in Nat

VARIABLES
  stage,     \* how far the constructor or the destruction has got
  primed,    \* callbacks made by quiet_opensl_create_player so far
  object,    \* does the OpenSL player object exist?
  play,      \* its play state: "STOPPED", "PLAYING" or, asked to stop, "STOPPING"
  queue,     \* OpenSL's queue: the ring indices of the buffers enqueued
  bufs,      \* producer->buf: the block in each buffer
  buf_idx,   \* producer->buf_idx
  cb,        \* the callback: "idle", "called", "fill" or "eof"
  scratch,   \* producer->scratch: the block the callback is converting
  closed,    \* has quiet_encoder_close been called?
  sent,      \* blocks the encoder was given
  out,       \* the last block the encoder emitted
  term,      \* a terminate call: "idle", "stop" or "poll"
  played,    \* history: the last block that was played
  refused,   \* history: has OpenSL refused a buffer of this player?
  failed     \* history: did the last SetPlayState(STOPPED) fail?

ringVars == <<queue, bufs, buf_idx, cb, scratch>>
encVars == <<closed, sent, out>>
pastVars == <<played, refused, failed>>
vars == <<stage, primed, object, play, ringVars, encVars, term, pastVars>>

Ring == 0..(NumBuf - 1)

Init ==
  /\ stage = "none" /\ primed = 0 /\ object = FALSE /\ play = "STOPPED"
  /\ queue = <<>> /\ bufs = [i \in Ring |-> 0] /\ buf_idx = 0
  /\ cb = "idle" /\ scratch = 0
  /\ closed = FALSE /\ sent = 0 /\ out = 0
  /\ term = "idle" /\ played = 0 /\ refused = FALSE /\ failed = FALSE

-----------------------------------------------------------------------------
(* The constructor: android_encoder_create, quiet_opensl_create_player.     *)

\* The encoder and the producer, whose buffers hold nothing yet.
Allocate ==
  /\ stage = "none"
  /\ stage' = "allocated" /\ primed' = 0
  /\ bufs' = [i \in Ring |-> 0] /\ buf_idx' = 0 /\ scratch' = 0
  /\ closed' = FALSE /\ sent' = 0 /\ out' = 0
  /\ played' = 0 /\ refused' = FALSE /\ failed' = FALSE
  /\ UNCHANGED <<object, play, queue, cb, term>>

CreateAudioPlayer ==
  /\ stage = "allocated"
  /\ stage' = "object" /\ object' = TRUE
  /\ UNCHANGED <<primed, play, ringVars, encVars, term, pastVars>>

\* Realize, the interfaces and the callback, any of which may fail instead.
RegisterCallback ==
  /\ stage = "object"
  /\ stage' = "priming"
  /\ UNCHANGED <<primed, object, play, ringVars, encVars, term, pastVars>>

\* The callback is run once for each buffer before playback starts.
Prime ==
  /\ stage = "priming" /\ primed < NumBuf /\ cb = "idle"
  /\ primed' = primed + 1 /\ cb' = "called"
  /\ UNCHANGED <<stage, object, play, queue, bufs, buf_idx, scratch, encVars, term, pastVars>>

StartPlaying ==
  /\ stage = "priming" /\ primed = NumBuf /\ cb = "idle"
  /\ stage' = "open" /\ play' = "PLAYING"
  /\ UNCHANGED <<primed, object, ringVars, encVars, term, pastVars>>

\* An OpenSL call failed: the constructor destroys what there is and throws.
CreateFails ==
  /\ \/ stage \in {"allocated", "object"}
     \/ stage = "priming" /\ cb = "idle" /\ primed \in {0, NumBuf}
  /\ stage' = "freeing"
  /\ UNCHANGED <<primed, object, play, ringVars, encVars, term, pastVars>>

-----------------------------------------------------------------------------
(* OpenSL's thread, and playback_callback on it.                            *)

\* A buffer has been played: OpenSL takes it off its queue and calls back.
BufferDone ==
  /\ play /= "STOPPED" /\ queue /= <<>> /\ cb = "idle"
  /\ queue' = Tail(queue) /\ cb' = "called"
  /\ played' = IF bufs[Head(queue)] = 0 THEN played ELSE bufs[Head(queue)]
  /\ UNCHANGED <<stage, primed, object, play, bufs, buf_idx, scratch, encVars, term, refused, failed>>

ProduceBlock ==
  /\ cb = "called" /\ out < sent
  /\ out' = out + 1 /\ scratch' = out + 1 /\ cb' = "fill"
  /\ UNCHANGED <<stage, primed, object, play, queue, bufs, buf_idx, closed, sent, term, pastVars>>

\* written < 0: no frames ready, a full block of silence is written.
ProduceSilence ==
  /\ cb = "called" /\ out = sent /\ ~closed
  /\ scratch' = 0 /\ cb' = "fill"
  /\ UNCHANGED <<stage, primed, object, play, queue, bufs, buf_idx, encVars, term, pastVars>>

ProduceEOF ==
  /\ cb = "called" /\ out = sent /\ closed
  /\ cb' = "eof"
  /\ UNCHANGED <<stage, primed, object, play, queue, bufs, buf_idx, scratch, encVars, term, pastVars>>

\* Convert and Enqueue.  buf_idx moves on whether or not Enqueue succeeded: its
\* result is looked at but nothing is done about it.
NextIdx == (buf_idx + 1) % NumBuf

FillWith(enqueued, next) ==
  /\ cb = "fill"
  /\ bufs' = [bufs EXCEPT ![buf_idx] = scratch]
  /\ \/ /\ Len(queue) < NumBuf
        /\ queue' = Append(queue, enqueued) /\ refused' = refused
     \/ queue' = queue /\ refused' = TRUE
  /\ buf_idx' = next /\ cb' = "idle"
  /\ UNCHANGED <<stage, primed, object, play, scratch, encVars, term, played, failed>>

\* Mutants: buf_idx stays; does not wrap around; is moved on before the Enqueue.
FillStays == FillWith(buf_idx, buf_idx)
FillNoWrap == FillWith(buf_idx, buf_idx + 1)
FillEnqueuesNext == FillWith(NextIdx, NextIdx)

Fill == FillWith(buf_idx, NextIdx)

\* SetPlayState(STOPPED): OpenSL agrees, and a player that plays stops some time after;
\* or it does not.
Stopping == IF play = "PLAYING" THEN "STOPPING" ELSE play
SetStopped ==
  \/ play' = Stopping /\ failed' = FALSE
  \/ play' = play /\ failed' = TRUE

StopAtEOF(count) ==
  /\ cb = "eof" /\ cb' = "idle"
  /\ IF Len(queue) <= count THEN SetStopped ELSE UNCHANGED <<play, failed>>
  /\ UNCHANGED <<stage, primed, object, queue, bufs, buf_idx, scratch, encVars, term, played, refused>>

\* Mutants: the player is stopped with one buffer left to play; the end of the stream
\* does not stop it.
EOFStopsEarly == StopAtEOF(1)
EOFNeverStops ==
  /\ cb = "eof" /\ cb' = "idle"
  /\ UNCHANGED <<stage, primed, object, play, queue, bufs, buf_idx, scratch, encVars, term, pastVars>>

\* The end of the stream is seen once for each buffer in flight; nothing more is
\* enqueued, and the last one, which leaves the queue empty, stops the player.  The
\* result of that SetPlayState is not looked at.
EOF == StopAtEOF(0)

\* External: the player has come to the stop OpenSL agreed to.
Halt ==
  /\ play = "STOPPING"
  /\ play' = "STOPPED"
  /\ UNCHANGED <<stage, primed, object, ringVars, encVars, term, pastVars>>

-----------------------------------------------------------------------------
(* The owners.                                                              *)

Send ==
  /\ stage = "open" /\ ~closed
  /\ sent < MaxBlocks /\ sent - out < QueueLimit
  /\ sent' = sent + 1
  /\ UNCHANGED <<stage, primed, object, play, ringVars, closed, out, term, pastVars>>

\* nativeClose, or nativeTerminate with urgency 0.
Close ==
  /\ stage = "open"
  /\ closed' = TRUE
  /\ UNCHANGED <<stage, primed, object, play, ringVars, sent, out, term, pastVars>>

\* nativeTerminate with urgency 1 then stops the player, and waits until it has.
Terminate ==
  /\ stage = "open" /\ term = "idle"
  /\ closed' = TRUE /\ term' = "stop"
  /\ UNCHANGED <<stage, primed, object, play, ringVars, sent, out, pastVars>>

StopWith(onFailure) ==
  /\ term = "stop"
  /\ SetStopped
  /\ term' = IF failed' THEN onFailure ELSE "poll"
  /\ UNCHANGED <<stage, primed, object, ringVars, encVars, played, refused>>

\* Mutant: the state is polled although SetPlayState failed.
StopPlayerUnchecked == StopWith("poll")

\* SetPlayState(STOPPED), whose failure is returned to a caller that ignores it.
StopPlayer == StopWith("idle")

\* GetPlayState is called until it says STOPPED, or fails, which ends the loop too.
PollStopped ==
  /\ term = "poll" /\ play = "STOPPED"
  /\ term' = "idle"
  /\ UNCHANGED <<stage, primed, object, play, ringVars, encVars, pastVars>>

PollFails ==
  /\ term = "poll"
  /\ term' = "idle"
  /\ UNCHANGED <<stage, primed, object, play, ringVars, encVars, pastVars>>

Finalize ==
  /\ stage = "open" /\ term = "idle"
  /\ stage' = "freeing"
  /\ UNCHANGED <<primed, object, play, ringVars, encVars, term, pastVars>>

\* android_encoder_destroy: the player first.  Destroy of an OpenSL object returns
\* when no callback is running and none can run any more.
DestroyPlayer ==
  /\ stage = "freeing" /\ cb = "idle"
  /\ stage' = "noplayer" /\ object' = FALSE /\ play' = "STOPPED" /\ queue' = <<>>
  /\ UNCHANGED <<primed, bufs, buf_idx, cb, scratch, encVars, term, pastVars>>

\* Mutant: the encoder is destroyed before the player.
DestroyEncoderFirst ==
  /\ stage \in {"noplayer", "freeing"}
  /\ stage' = "noencoder"
  /\ UNCHANGED <<primed, object, play, ringVars, encVars, term, pastVars>>

DestroyEncoder ==
  /\ stage = "noplayer"
  /\ stage' = "noencoder"
  /\ UNCHANGED <<primed, object, play, ringVars, encVars, term, pastVars>>

DestroyProducer ==
  /\ stage = "noencoder"
  /\ stage' = "none"
  /\ UNCHANGED <<primed, object, play, ringVars, encVars, term, pastVars>>

-----------------------------------------------------------------------------
Callback == ProduceBlock \/ ProduceSilence \/ ProduceEOF \/ Fill \/ EOF
Construct == Allocate \/ CreateAudioPlayer \/ RegisterCallback \/ Prime \/ StartPlaying
Terminating == StopPlayer \/ PollStopped \/ PollFails
Destroy == DestroyPlayer \/ DestroyEncoder \/ DestroyProducer
User == Send \/ Close \/ Terminate \/ Finalize

Next ==
  Construct \/ CreateFails \/ BufferDone \/ Callback \/ Halt \/ User \/ Terminating \/ Destroy

Spec == Init /\ [][Next]_vars

\* A playing sound card plays on, and stops once it has agreed to; a callback or a call
\* under way goes on.  Nobody has to open, send, close or finalize, and no OpenSL call
\* has to fail, or to succeed.
Fairness ==
  /\ WF_vars(BufferDone) /\ WF_vars(Callback) /\ WF_vars(Halt)
  /\ WF_vars(StopPlayer) /\ WF_vars(PollStopped) /\ SF_vars(Destroy)

FairSpec == Spec /\ Fairness

-----------------------------------------------------------------------------
(* Properties.                                                              *)

TypeOK ==
  /\ stage \in {"none", "allocated", "object", "priming", "open",
                "freeing", "noplayer", "noencoder"}
  /\ primed \in 0..NumBuf /\ object \in BOOLEAN
  /\ play \in {"STOPPED", "PLAYING", "STOPPING"}
  /\ queue \in Seq(Ring) /\ Len(queue) <= NumBuf
  /\ bufs \in [Ring -> Nat] /\ buf_idx \in Ring
  /\ cb \in {"idle", "called", "fill", "eof"} /\ scratch \in Nat
  /\ closed \in BOOLEAN /\ sent \in Nat /\ out \in 0..sent
  /\ term \in {"idle", "stop", "poll"} /\ played \in Nat
  /\ refused \in BOOLEAN /\ failed \in BOOLEAN

\* The callback converts into a buffer the sound card is not reading: the one at
\* buf_idx is never on OpenSL's queue when there is a block to put in it, even after
\* OpenSL refused a buffer, which the callback ignores.
NeverOverwritten == cb \in {"called", "fill"} => \A k \in DOMAIN queue : queue[k] /= buf_idx

\* The callback never runs on an encoder or a producer that has been freed.
CallbackAlive == cb /= "idle" => object /\ stage \in {"priming", "open", "freeing"}

\* The blocks OpenSL has on its queue and the one the callback has in hand, silence
\* among them.
InFlight ==
  [k \in DOMAIN queue |-> bufs[queue[k]]] \o (IF cb = "fill" THEN <<scratch>> ELSE <<>>)

\* Until OpenSL refuses a buffer or the player is torn down, they are the blocks the
\* encoder emitted that were not played yet: each once, in order, none overwritten,
\* whatever silence there is in between.
NothingLost ==
  ~refused /\ stage \in {"priming", "open", "freeing"} =>
    /\ {InFlight[k] : k \in DOMAIN InFlight} \ {0} = (played + 1)..out
    /\ \A j, k \in DOMAIN InFlight :
         j < k /\ InFlight[j] /= 0 /\ InFlight[k] /= 0 => InFlight[j] < InFlight[k]

\* Until OpenSL refuses a buffer, the player is a pipe from the encoder to the
\* loudspeaker: whatever silence is put in between, no block is passed over or left
\* behind for more than one round of the ring.
Loudspeaker ==
  INSTANCE Pipe WITH Capacity <- NumBuf,
                     in <- IF refused THEN 0 ELSE out,
                     out <- IF refused THEN 0 ELSE played
ImplementsPipe == Loudspeaker!PipeSpec

\* opensl.c's comment on the end of the stream: the callback stops the player only
\* when everything has flushed, that is, every block sent has been played.
StopsFlushed ==
  [][(cb = "eof" /\ cb' = "idle" /\ play = "PLAYING" /\ play' /= "PLAYING")
       => queue = <<>> /\ (refused \/ played = sent)]_vars

\* To the owner of the one transmitter the player is an audio system as in Source.  It is
\* in hand while it is made or freed, while a terminate stops it, and until it has
\* stopped if there were blocks left that the terminate cut off.
When(b) == {s \in {"player"} : b}
Speaking == When(play /= "STOPPED" \/ (cb /= "idle" /\ stage /= "priming"))
Waiting == When(out < sent)
Ended == When(closed)
Held == When(stage /= "open" \/ term = "stop" \/ (play /= "PLAYING" /\ out < sent))
Playing == INSTANCE Source WITH
  Sources <- {"player"}, on <- Speaking, waiting <- Waiting, ended <- Ended, held <- Held
ImplementsSource == Playing!SourceSpec

\* A player that nothing brings to a stop any more: no buffer is left to call back for,
\* because OpenSL refused some, or refused to stop when the last one was played.
Starved == play = "PLAYING" /\ queue = <<>> /\ cb = "idle" /\ (refused \/ failed)

\* transmitter.c's comment: a closed transmitter's callback stops the player once it
\* has drained its own queue, unless that leaves it starved.
CloseStops == (stage = "open" /\ closed) ~> (play = "STOPPED" \/ Starved)

\* A call that stops the player returns: the loop that polls for the end of playback has
\* no limit, and is entered only after OpenSL has agreed to stop.
StopReturns == term /= "idle" ~> term = "idle"
=============================================================================
