--------------------------- MODULE OpenSLRecorder ---------------------------
(***************************************************************************)
(* A receiver that listens through the microphone: receiver.c without the  *)
(* loopback, and the recorder half of opensl.c.  OpenSL records into the   *)
(* buffers enqueued with it, as many frames as each Enqueue asked for, and *)
(* calls back once for each buffer it has filled.  The callback does not   *)
(* learn which: it takes the buffer at buf_idx, always num_frames of it,   *)
(* hands it to the decoder and enqueues it again.                          *)
(*                                                                         *)
(* A chunk is what one buffer records, numbered in the order of recording. *)
(***************************************************************************)
EXTENDS Naturals, Sequences

CONSTANTS NumBuf,        \* consumer->num_buf
          NumFrames,     \* consumer->num_frames
          MaxChunks      \* bound on the chunks recorded by one receiver

ASSUME RecorderAssumption ==
  /\ NumBuf \in Nat \ {0} /\ NumFrames \in Nat /\ NumBuf <= NumFrames
  /\ MaxChunks \in Nat

VARIABLES
  stage,     \* how far the constructor or the destruction has got
  primed,    \* buffers quiet_opensl_create_recorder has enqueued so far
  object,    \* does the OpenSL recorder object exist?
  record,    \* its record state: "STOPPED", "RECORDING" or, asked to stop, "STOPPING"
  queue,     \* OpenSL's queue: the ring index and the frames asked for
  bufs,      \* consumer->buf: the chunk in each buffer and its frames
  buf_idx,   \* consumer->buf_idx
  pending,   \* buffers filled whose callback has not run yet
  cb,        \* the callback: "idle", "called" or "requeue"
  closed,    \* has quiet_decoder_close been called?
  term,      \* a close call: "idle", "stop" or "poll"
  captured,  \* chunks recorded
  consumed,  \* history: the last chunk handed to the decoder
  refused,   \* history: has the callback been refused an Enqueue?
  failed     \* history: did the last SetRecordState(STOPPED) fail?

ringVars == <<queue, bufs, buf_idx, pending, cb, captured, consumed, refused>>
vars == <<stage, primed, object, record, ringVars, closed, term, failed>>

Ring == 0..(NumBuf - 1)

\* A buffer fresh from malloc holds no chunk.
EmptyRing == [i \in Ring |-> [chunk |-> 0, frames |-> 0]]

Init ==
  /\ stage = "none" /\ primed = 0 /\ object = FALSE /\ record = "STOPPED"
  /\ queue = <<>> /\ bufs = EmptyRing /\ buf_idx = 0 /\ pending = 0 /\ cb = "idle"
  /\ captured = 0 /\ consumed = 0 /\ refused = FALSE
  /\ closed = FALSE /\ term = "idle" /\ failed = FALSE

-----------------------------------------------------------------------------
(* The constructor: android_decoder_create, quiet_opensl_create_recorder.   *)

\* The decoder and the consumer.
Allocate ==
  /\ stage = "none"
  /\ stage' = "allocated" /\ primed' = 0
  /\ bufs' = EmptyRing /\ buf_idx' = 0
  /\ captured' = 0 /\ consumed' = 0 /\ refused' = FALSE
  /\ closed' = FALSE /\ failed' = FALSE
  /\ UNCHANGED <<object, record, queue, pending, cb, term>>

CreateAudioRecorder ==
  /\ stage = "allocated"
  /\ stage' = "object" /\ object' = TRUE
  /\ UNCHANGED <<primed, record, ringVars, closed, term, failed>>

\* Realize, the interfaces and the callback, any of which may fail instead.
RegisterCallback ==
  /\ stage = "object"
  /\ stage' = "priming"
  /\ UNCHANGED <<primed, object, record, ringVars, closed, term, failed>>

\* Every buffer is enqueued, with room for num_buf frames rather than num_frames.
Prime ==
  /\ stage = "priming" /\ primed < NumBuf
  /\ primed' = primed + 1
  /\ queue' = Append(queue, [buf |-> primed, frames |-> NumBuf])
  /\ UNCHANGED <<stage, object, record, bufs, buf_idx, pending, cb, captured, consumed,
                 refused, closed, term, failed>>

StartRecording ==
  /\ stage = "priming" /\ primed = NumBuf
  /\ stage' = "open" /\ record' = "RECORDING"
  /\ UNCHANGED <<primed, object, ringVars, closed, term, failed>>

\* An OpenSL call failed: the constructor destroys what there is and throws.
CreateFails ==
  /\ stage \in {"allocated", "object", "priming"}
  /\ stage' = "freeing"
  /\ UNCHANGED <<primed, object, record, ringVars, closed, term, failed>>

-----------------------------------------------------------------------------
(* OpenSL's recording, and record_callback on its thread.                   *)

\* The buffer at the head of the queue is full; a recorder asked to stop may fill some more.
BufferFilled ==
  /\ record /= "STOPPED" /\ queue /= <<>> /\ captured < MaxChunks
  /\ captured' = captured + 1
  /\ bufs' = [bufs EXCEPT ![Head(queue).buf] =
                [chunk |-> captured + 1, frames |-> Head(queue).frames]]
  /\ queue' = Tail(queue) /\ pending' = pending + 1
  /\ UNCHANGED <<stage, primed, object, record, buf_idx, cb, consumed, refused,
                 closed, term, failed>>

CallBack ==
  /\ pending > 0 /\ cb = "idle" /\ object
  /\ pending' = pending - 1 /\ cb' = "called"
  /\ UNCHANGED <<stage, primed, object, record, queue, bufs, buf_idx, captured, consumed,
                 refused, closed, term, failed>>

\* Convert the buffer, and have the decoder consume it.
Consume ==
  /\ cb = "called"
  /\ consumed' = bufs[buf_idx].chunk
  /\ cb' = "requeue"
  /\ UNCHANGED <<stage, primed, object, record, queue, bufs, buf_idx, pending, captured,
                 refused, closed, term, failed>>

\* buf_idx moves on whether or not Enqueue succeeded: its result is looked at but
\* nothing is done about it.
RequeueWith(next) ==
  /\ cb = "requeue"
  /\ \/ /\ queue' = Append(queue, [buf |-> buf_idx, frames |-> NumFrames])
        /\ refused' = refused
     \/ queue' = queue /\ refused' = TRUE
  /\ buf_idx' = next /\ cb' = "idle"
  /\ UNCHANGED <<stage, primed, object, record, bufs, pending, captured, consumed, closed, term, failed>>

\* Mutants: buf_idx stays; runs backwards; or does not wrap around.
RequeueStays == RequeueWith(buf_idx)
RequeueBackwards == RequeueWith((buf_idx + NumBuf - 1) % NumBuf)
RequeueNoWrap == RequeueWith(buf_idx + 1)

Requeue == RequeueWith((buf_idx + 1) % NumBuf)

-----------------------------------------------------------------------------
(* The owners.                                                              *)

\* Mutant: the recorder is left running, as the player is by a close.
CloseDecoderOnly ==
  /\ stage = "open" /\ term = "idle"
  /\ closed' = TRUE /\ term' = term
  /\ UNCHANGED <<stage, primed, object, record, ringVars, failed>>

\* android_decoder_terminate: close the decoder, stop the recorder, wait until it has.
Close ==
  /\ stage = "open" /\ term = "idle"
  /\ closed' = TRUE /\ term' = "stop"
  /\ UNCHANGED <<stage, primed, object, record, ringVars, failed>>

\* SetRecordState(STOPPED): OpenSL agrees, and a recorder that records stops some time
\* after; or it does not.
SetStopped ==
  \/ /\ record' = IF record = "RECORDING" THEN "STOPPING" ELSE record
     /\ failed' = FALSE
  \/ record' = record /\ failed' = TRUE

StopWith(onFailure) ==
  /\ term = "stop"
  /\ SetStopped
  /\ term' = IF failed' THEN onFailure ELSE "poll"
  /\ UNCHANGED <<stage, primed, object, ringVars, closed>>

\* Mutant: the state is polled although SetRecordState failed.
StopRecorderUnchecked == StopWith("poll")

\* The failure is returned to a caller that ignores it: the recorder records on.
StopRecorder == StopWith("idle")

\* External: the recorder has come to the stop OpenSL agreed to.
Halt ==
  /\ record = "STOPPING"
  /\ record' = "STOPPED"
  /\ UNCHANGED <<stage, primed, object, ringVars, closed, term, failed>>

\* GetRecordState is called until it says STOPPED, or fails, which ends the loop too.
PollStopped ==
  /\ term = "poll" /\ record = "STOPPED"
  /\ term' = "idle"
  /\ UNCHANGED <<stage, primed, object, record, ringVars, closed, failed>>

PollFails ==
  /\ term = "poll"
  /\ term' = "idle"
  /\ UNCHANGED <<stage, primed, object, record, ringVars, closed, failed>>

Finalize ==
  /\ stage = "open" /\ term = "idle"
  /\ stage' = "freeing"
  /\ UNCHANGED <<primed, object, record, ringVars, closed, term, failed>>

\* android_decoder_destroy: the recorder first.  Destroy of an OpenSL object returns
\* when no callback is running and none can run any more.
DestroyRecorder ==
  /\ stage = "freeing" /\ cb = "idle"
  /\ stage' = "norecorder" /\ object' = FALSE /\ record' = "STOPPED"
  /\ queue' = <<>> /\ pending' = 0
  /\ UNCHANGED <<primed, bufs, buf_idx, cb, captured, consumed, refused, closed, term, failed>>

\* Mutant: the decoder is destroyed before the recorder.
DestroyDecoderFirst ==
  /\ stage \in {"norecorder", "freeing"}
  /\ stage' = "nodecoder"
  /\ UNCHANGED <<primed, object, record, ringVars, closed, term, failed>>

DestroyDecoder ==
  /\ stage = "norecorder"
  /\ stage' = "nodecoder"
  /\ UNCHANGED <<primed, object, record, ringVars, closed, term, failed>>

DestroyConsumer ==
  /\ stage = "nodecoder"
  /\ stage' = "none"
  /\ UNCHANGED <<primed, object, record, ringVars, closed, term, failed>>

-----------------------------------------------------------------------------
Callback == CallBack \/ Consume \/ Requeue
Construct ==
  Allocate \/ CreateAudioRecorder \/ RegisterCallback \/ Prime \/ StartRecording \/ CreateFails
Closing == StopRecorder \/ PollStopped \/ PollFails
Destroy == DestroyRecorder \/ DestroyDecoder \/ DestroyConsumer

Next ==
  Construct \/ BufferFilled \/ Callback \/ Halt \/ Close \/ Closing \/ Finalize \/ Destroy

Spec == Init /\ [][Next]_vars

\* A microphone records on, and stops once it has agreed to; a callback or a call under
\* way goes on.  Nobody has to open, close or finalize, and no OpenSL call has to fail, or
\* to succeed.
Fairness ==
  /\ WF_vars(BufferFilled) /\ WF_vars(Callback) /\ WF_vars(Halt)
  /\ WF_vars(StopRecorder) /\ WF_vars(PollStopped) /\ SF_vars(Destroy)

FairSpec == Spec /\ Fairness

-----------------------------------------------------------------------------
(* Properties.                                                              *)

TypeOK ==
  /\ stage \in {"none", "allocated", "object", "priming", "open",
                "freeing", "norecorder", "nodecoder"}
  /\ primed \in 0..NumBuf /\ object \in BOOLEAN
  /\ record \in {"STOPPED", "RECORDING", "STOPPING"}
  /\ queue \in Seq([buf : Ring, frames : Nat])
  /\ bufs \in [Ring -> [chunk : Nat, frames : Nat]] /\ buf_idx \in Ring
  /\ pending \in 0..NumBuf /\ cb \in {"idle", "called", "requeue"}
  /\ closed \in BOOLEAN /\ term \in {"idle", "stop", "poll"}
  /\ captured \in Nat /\ consumed \in Nat
  /\ refused \in BOOLEAN /\ failed \in BOOLEAN

\* While the decoder reads a buffer the microphone cannot be writing it: the buffer at
\* buf_idx is not on OpenSL's queue, even after OpenSL has refused an Enqueue.
NeverOverwritten ==
  (cb /= "idle" \/ pending > 0) => \A k \in DOMAIN queue : queue[k].buf /= buf_idx

\* No buffer is mislaid unless OpenSL refuses it: each is with OpenSL, waiting for its
\* callback or in the callback's hands, so that the microphone never runs dry for good.
NoneMislaid ==
  stage = "open" /\ ~refused =>
    /\ Len(queue) + pending + (IF cb = "idle" THEN 0 ELSE 1) = NumBuf
    /\ \A j, k \in DOMAIN queue : queue[j].buf = queue[k].buf => j = k

\* The callback never runs on a decoder or a consumer that has been freed.
CallbackAlive == cb /= "idle" => object /\ stage \in {"open", "freeing"}

\* quiet-jni.h: num_frames is "the number of frames in each buf", and it is what the
\* callback hands to the decoder; all of them should come from the microphone.
WholeBuffersConsumed == cb = "called" => bufs[buf_idx].frames = NumFrames

\* Until OpenSL refuses a buffer, the recorder is a pipe from the microphone to the
\* decoder: the chunks are decoded in the order of recording, each once.
Microphone ==
  INSTANCE Pipe WITH Capacity <- NumBuf,
                     in <- IF refused THEN 0 ELSE captured,
                     out <- IF refused THEN 0 ELSE consumed
ImplementsPipe == Microphone!PipeSpec

\* receiver.c's close, which closes the decoder, stops the recorder too: no microphone is
\* left recording for a closed decoder, whatever buffers and callbacks are on their way.
\* A stop that fails is excepted, as receiver.c ignores its result.
CloseStops == (stage = "open" /\ closed) ~> (record = "STOPPED" \/ failed)

\* A close returns: the loop that polls for the end of recording has no limit, and is
\* entered only after OpenSL has agreed to stop.
CloseReturns == term /= "idle" ~> term = "idle"
=============================================================================
