-------------------------- MODULE NetworkInterface --------------------------
(***************************************************************************)
(* Network interfaces (network_interface.c, BaseNetworkInterface.java): an *)
(* interface of the IP stack whose sound goes out by a producer and comes  *)
(* in by a consumer, on the loopback or through a player and a recorder of *)
(* OpenSL; and the registry of interfaces that sockets look at.            *)
(*                                                                         *)
(* The mixer and the callback of OpenSL, which the modules Loopback and    *)
(* OpenSLPlayer show step by step, are single steps here: they pull what   *)
(* the stack has queued, and drop a source that has come to its end.  So   *)
(* is a stop that OpenSL agrees to.  What may go wrong on OpenSL's side is *)
(* here as well: a stop that is refused, of which no caller looks at the   *)
(* result, and a buffer that is refused, after which no callback follows.  *)
(*                                                                         *)
(* The finalizer is commented out and nativeFree never called, so that an  *)
(* interface is never freed, and an identifier stands for one object only. *)
(***************************************************************************)
EXTENDS Naturals, PtrArray

CONSTANTS Interfaces,
          Audio,         \* the audio systems they are made on
          InitialCap     \* producers_cap and consumers_cap at creation: 8

ASSUME InterfaceAssumption ==
  /\ Audio \subseteq {"loopback", "opensl"}
  /\ InitialCap \in Nat \ {0}
  /\ NULL \notin Interfaces /\ Uninit \notin Interfaces

VARIABLES
  registry,    \* BaseNetworkInterface.interfaces
  producers,   \* the loopback's producers
  consumers,   \* and consumers
  player,      \* the player of each interface on OpenSL: "none", "playing", "stopped",
               \* or "starved", which plays but whose callback is not called any more
  recorder,    \* its recorder: "none", "recording", "stopped", or "stuck", which OpenSL
               \* refused to stop
  stage,       \* how far each interface's constructor has got
  audio,       \* which audio system it is made on
  call,        \* a close or terminate under way: "idle" or what it did last
  urgent,      \* was that call a terminate with urgency 1?
  queued,      \* has the IP stack frames to send on the interface?
  eof,         \* has quiet_lwip_close been called?
  terminated   \* history: has terminate been called?

soundVars == <<producers, consumers, player, recorder>>
callVars == <<call, urgent, terminated>>
stackVars == <<queued, eof>>
interfaceVars == <<registry, soundVars, stage, audio, callVars, stackVars>>

InterfaceInit ==
  /\ registry = {}
  /\ producers = EmptyArray(InitialCap) /\ consumers = EmptyArray(InitialCap)
  /\ player = [i \in Interfaces |-> "none"] /\ recorder = [i \in Interfaces |-> "none"]
  /\ stage = [i \in Interfaces |-> "new"] /\ audio \in [Interfaces -> Audio]
  /\ call = [i \in Interfaces |-> "idle"] /\ urgent = [i \in Interfaces |-> FALSE]
  /\ queued = [i \in Interfaces |-> FALSE] /\ eof = [i \in Interfaces |-> FALSE]
  /\ terminated = [i \in Interfaces |-> FALSE]

-----------------------------------------------------------------------------
(* The constructor: nativeOpen, lwip_android_create, addInterface.          *)

Becomes(i, from, to) == stage[i] = from /\ stage' = [stage EXCEPT ![i] = to]
unopened == <<registry, audio, callVars, eof>>

\* The hardware address is not six bytes long, which is found out before anything
\* else is done.
RejectConfig(i) ==
  /\ Becomes(i, "new", "thrown")
  /\ UNCHANGED <<unopened, queued, soundVars>>

CreateInterface(i) ==
  /\ Becomes(i, "new", "created")
  /\ UNCHANGED <<unopened, queued, soundVars>>

\* quiet_lwip_create fails: lwip_android_destroy then reads is_loopback, player,
\* recorder, consumer and producer, which malloc left as they were, and follows them.
CreateInterfaceFails(i) ==
  /\ Becomes(i, "new", "thrown") \/ Becomes(i, "new", "crashed")
  /\ UNCHANGED <<unopened, queued, soundVars>>

AddProducer(i) ==
  /\ audio[i] = "loopback" /\ Becomes(i, "created", "speaking")
  /\ producers' = Add(producers, i)
  /\ UNCHANGED <<unopened, queued, consumers, player, recorder>>

AddConsumer(i) ==
  /\ audio[i] = "loopback" /\ Becomes(i, "speaking", "connected")
  /\ consumers' = Add(consumers, i)
  /\ UNCHANGED <<unopened, queued, producers, player, recorder>>

CreatePlayer(i) ==
  /\ audio[i] = "opensl" /\ Becomes(i, "created", "speaking")
  /\ player' = [player EXCEPT ![i] = "playing"]
  /\ UNCHANGED <<unopened, queued, producers, consumers, recorder>>

\* The half-made player is destroyed, and so is the recorder, which was never set.
CreatePlayerFails(i) ==
  /\ audio[i] = "opensl"
  /\ Becomes(i, "created", "thrown") \/ Becomes(i, "created", "crashed")
  /\ UNCHANGED <<unopened, queued, soundVars>>

CreateRecorder(i) ==
  /\ audio[i] = "opensl" /\ Becomes(i, "speaking", "connected")
  /\ recorder' = [recorder EXCEPT ![i] = "recording"]
  /\ UNCHANGED <<unopened, queued, producers, consumers, player>>

\* By now every field is set, and all is destroyed in order.
CreateRecorderFails(i) ==
  /\ audio[i] = "opensl" /\ Becomes(i, "speaking", "thrown")
  /\ player' = [player EXCEPT ![i] = "none"]
  /\ queued' = [queued EXCEPT ![i] = FALSE]
  /\ UNCHANGED <<unopened, producers, consumers, recorder>>

\* Mutant: autoip is invoked before the audio connections are set up.
AutoIPEarly(i) ==
  /\ Becomes(i, "created", "negotiating")
  /\ UNCHANGED <<unopened, queued, soundVars>>

\* No local address is configured: the interface negotiates one over the air.
AutoIP(i) ==
  /\ Becomes(i, "connected", "negotiating")
  /\ UNCHANGED <<unopened, queued, soundVars>>

AddInterface(i) ==
  /\ Becomes(i, "connected", "open") \/ Becomes(i, "negotiating", "open")
  /\ registry' = registry \cup {i}
  /\ UNCHANGED <<audio, callVars, stackVars, soundVars>>

-----------------------------------------------------------------------------
(* The IP stack, and the audio systems that pull from it.                   *)

Speaks(i) == i \in Live(producers) \/ player[i] \in {"playing", "starved"}
Listens(i) == i \in Live(consumers) \/ recorder[i] \in {"recording", "stuck"}
Pulled(i) == Speaks(i) /\ player[i] /= "starved"

still == <<registry, stage, audio, callVars, eof>>

\* The stack sends: an address request, a datagram, the end of a connection.
StackSends(i) ==
  /\ stage[i] \notin {"new", "thrown", "crashed"} /\ ~eof[i]
  /\ queued' = [queued EXCEPT ![i] = TRUE]
  /\ UNCHANGED <<still, soundVars>>

\* quiet_lwip_get_next_audio_packet, called until what was queued has gone out.
Pull(i) ==
  /\ Pulled(i) /\ queued[i]
  /\ queued' = [queued EXCEPT ![i] = FALSE]
  /\ UNCHANGED <<still, soundVars>>

\* It returns 0, once the stack is closed and nothing is queued: the mixer ejects the
\* producer, the callback stops the player.
EndOfStream(i) ==
  /\ Pulled(i) /\ eof[i] /\ ~queued[i]
  /\ producers' = Remove(producers, i)
  /\ player' = [player EXCEPT ![i] = IF @ = "playing" THEN "stopped" ELSE @]
  /\ UNCHANGED <<still, queued, consumers, recorder>>

\* The last buffer on OpenSL's queue has been played and no callback follows: Enqueue
\* refused the next one, or SetPlayState did not stop the player at the end of the
\* stream, and the callback looks at neither.
Starve(i) ==
  /\ player[i] = "playing"
  /\ player' = [player EXCEPT ![i] = "starved"]
  /\ UNCHANGED <<still, queued, producers, consumers, recorder>>

-----------------------------------------------------------------------------
(* close and terminate, one at a time on each interface.                    *)

\* close leaves the registry, and then goes on as terminate(0) does.
Close(i) ==
  /\ stage[i] = "open" /\ call[i] = "idle"
  /\ registry' = registry \ {i}
  /\ call' = [call EXCEPT ![i] = "entered"] /\ urgent' = [urgent EXCEPT ![i] = FALSE]
  /\ UNCHANGED <<soundVars, stage, audio, stackVars, terminated>>

\* terminate stays on the registry: sockets are still let through.
Terminate(i) ==
  /\ stage[i] = "open" /\ call[i] = "idle"
  /\ call' = [call EXCEPT ![i] = "entered"]
  /\ \E u \in BOOLEAN : urgent' = [urgent EXCEPT ![i] = u]
  /\ terminated' = [terminated EXCEPT ![i] = TRUE]
  /\ UNCHANGED <<registry, soundVars, stage, audio, stackVars>>

\* Mutant: the stack is not told.
StackStaysOpen(i) ==
  /\ call[i] = "entered"
  /\ call' = [call EXCEPT ![i] = "closed"]
  /\ UNCHANGED <<registry, soundVars, stage, audio, urgent, terminated, stackVars>>

CloseStack(i) ==
  /\ call[i] = "entered"
  /\ eof' = [eof EXCEPT ![i] = TRUE]
  /\ call' = [call EXCEPT ![i] = "closed"]
  /\ UNCHANGED <<registry, soundVars, stage, audio, urgent, terminated, queued>>

\* The result of quiet_opensl_stop_recorder is ignored.
StopListeningThen(i, next) ==
  /\ call[i] = "closed"
  /\ consumers' = Remove(consumers, i)
  /\ \E stop \in {"stopped", "stuck"} :
       recorder' = [recorder EXCEPT ![i] = IF @ \in {"recording", "stuck"} THEN stop ELSE @]
  /\ call' = [call EXCEPT ![i] = next]
  /\ UNCHANGED <<registry, producers, player, stage, audio, urgent, terminated, stackVars>>

\* Mutant: the urgency is not looked at.
StopListeningAtOnce(i) == StopListeningThen(i, "deaf")

StopListening(i) == StopListeningThen(i, IF urgent[i] THEN "deaf" ELSE "idle")

\* urgency 1: what is still queued is cut off, unless OpenSL refuses to stop the player.
StopSpeaking(i) ==
  /\ call[i] = "deaf"
  /\ producers' = Remove(producers, i)
  /\ \/ player' = [player EXCEPT ![i] = IF @ = "none" THEN @ ELSE "stopped"]
     \/ player' = player
  /\ call' = [call EXCEPT ![i] = "idle"]
  /\ UNCHANGED <<registry, consumers, recorder, stage, audio, urgent, terminated, stackVars>>

-----------------------------------------------------------------------------
Connecting(i) ==
  \/ RejectConfig(i) \/ CreateInterface(i) \/ CreateInterfaceFails(i)
  \/ AddProducer(i) \/ AddConsumer(i)
  \/ CreatePlayer(i) \/ CreatePlayerFails(i) \/ CreateRecorder(i) \/ CreateRecorderFails(i)
  \/ AutoIP(i) \/ AddInterface(i)

Sound(i) == Pull(i) \/ EndOfStream(i) \/ Starve(i)
Ending(i) == CloseStack(i) \/ StopListening(i) \/ StopSpeaking(i)

InterfaceStep(i) ==
  Connecting(i) \/ StackSends(i) \/ Sound(i) \/ Close(i) \/ Terminate(i) \/ Ending(i)

-----------------------------------------------------------------------------
(* Properties.                                                              *)

InterfaceTypeOK ==
  /\ registry \subseteq Interfaces
  /\ IsArray(producers, Interfaces) /\ IsArray(consumers, Interfaces)
  /\ player \in [Interfaces -> {"none", "playing", "starved", "stopped"}]
  /\ recorder \in [Interfaces -> {"none", "recording", "stuck", "stopped"}]
  /\ stage \in [Interfaces -> {"new", "created", "speaking", "connected", "negotiating",
                               "open", "thrown", "crashed"}]
  /\ audio \in [Interfaces -> Audio]
  /\ call \in [Interfaces -> {"idle", "entered", "closed", "deaf"}]
  /\ urgent \in [Interfaces -> BOOLEAN] /\ terminated \in [Interfaces -> BOOLEAN]
  /\ queued \in [Interfaces -> BOOLEAN] /\ eof \in [Interfaces -> BOOLEAN]

\* An interface that sockets find in the registry, and one that negotiates its address,
\* is with the audio system in both directions, whatever other interfaces do to the arrays
\* it shares with them, unless it was terminated, which leaves a dead interface in the
\* registry.  That OpenSL has starved its player it cannot know.
ListedWorks ==
  \A i \in Interfaces :
    stage[i] = "negotiating" \/ (i \in registry /\ ~terminated[i]) => Speaks(i) /\ Listens(i)

\* A close is graceful: what the stack had queued goes out, and only then, or when a
\* terminate asks for it at once, does the interface fall silent.
FallsSilentDrained ==
  [][\A i \in Interfaces :
       stage[i] = "open" /\ Speaks(i) /\ ~Speaks(i)' => ~queued[i] \/ urgent[i]]_interfaceVars

\* The single steps Pull and EndOfStream are those of an audio system as in Source, which
\* is what the modules Loopback and OpenSLPlayer, step by step, are as well.
Speaking == {i \in Interfaces : Speaks(i)}
Waiting == {i \in Interfaces : queued[i]}
Ended == {i \in Interfaces : eof[i]}
Held ==
  {i \in Interfaces : stage[i] \notin {"connected", "negotiating", "open"} \/ call[i] = "deaf"}
Playing == INSTANCE Source WITH
  Sources <- Interfaces, on <- Speaking, waiting <- Waiting, ended <- Ended, held <- Held
ImplementsSource == Playing!SourceSpec

\* Closing an interface is enough: although close leaves its producer or player alone,
\* in the end nothing of it is left in the audio system but what OpenSL did not let go
\* of: a player that it starved and a recorder that it refused to stop.
CloseSilences ==
  \A i \in Interfaces :
    call[i] /= "idle" ~>
      /\ call[i] = "idle"
      /\ ~Speaks(i) \/ player[i] = "starved"
      /\ ~Listens(i) \/ recorder[i] = "stuck"
=============================================================================
