# Quiet for Android in TLA+

`org.quietmodem.Quiet` sends data through sound. A Java library offers frame
transmitters, frame receivers and network interfaces with sockets; a C layer (JNI)
connects them to libquiet (the modem), quiet-lwip (an IP stack), and to one of two audio
systems: the phone's sound card through OpenSL ES, or an in-process *loopback* that mixes
what all transmitters say and plays it to all receivers.

This directory models that library. Paths below are relative to `src/quiet/src/main/`;
`jni/` is the C layer and `java/` the package `org.quietmodem.Quiet`.

## The system

| part | state | operations | talks to |
|---|---|---|---|
| **loopback** `jni/loopback.c` | arrays of producers and consumers with count and capacity, a mutex, `is_closed`, one mixer thread | create, add/remove producer/consumer, one tick (sum every producer, eject those at end of stream, write to every consumer, sleep), close, join, destroy | calls the encoder and decoder of every registered client, under its mutex |
| **frame transmitter** `jni/transmitter.c`, `BaseFrameTransmitter.java` | encoder (bounded queue, closed flag), producer (ring of buffers), player or loopback pointer | construct, send, close, terminate(urgency), finalize | the audio system pulls blocks from it |
| **frame receiver** `jni/receiver.c`, `BaseFrameReceiver.java` | decoder (queue, closed flag), consumer (ring of buffers), recorder or loopback pointer | construct, receive, close, finalize, statistics | the audio system pushes blocks to it |
| **OpenSL player** `jni/opensl.c` | OpenSL's buffer queue, ring index, play state | create, prime, callback, stop (polls), destroy | its callback runs on OpenSL's thread and pulls from the encoder |
| **OpenSL recorder** `jni/opensl.c` | the same for recording | create, enqueue all, callback, stop, destroy | its callback pushes into the decoder |
| **QuietSystem** `QuietSystem.java`, `jni/system.c` | the static instance; per system two flags and two native pointers | getSystem, initOpenSL, initLoopback, close | every client's constructor |
| **library loading** `QuietInit.java`, `JNI_OnLoad` in `jni/system.c` | two static flags; the library and the state of each class inside the JVM | init, lwipInit, JNI_OnLoad | the static initialiser of every class |
| **network interface** `jni/network_interface.c`, `BaseNetworkInterface.java` | an lwip interface, a producer and a consumer; a static registry | construct, close, terminate, registry | both audio systems; sockets look at the registry |
| **sockets** `jni/socket.c`, `server_socket.c`, `datagram_socket.c`, the two streams, their Java classes | lwip descriptors, held by a socket and by its two streams | create, bind, connect, listen, accept, read, write, shutdown, close | quiet-lwip |
| profiles, addresses, statistics, JNI caches | values set once | parse, copy | - |

What is hard here is concurrency and lifetime. Up to five kinds of threads meet in one
object: the constructor, threads that send, close or terminate, the finalizer, the mixer,
and OpenSL's callback thread. The mixer removes a producer from the array it is walking.
Memory is C memory, so an ordering mistake is not an exception but a freed pointer in
the mixer's array. Stops are eventual: a closed transmitter is *detected* by whoever
next pulls from it. `PROJECT.json` lists each such hazard at its line; correctness means:

* nothing that is freed stays registered, and nothing is registered twice;
* a tick serves everybody it should, once; ejection never starves anyone for good;
* frames are decoded in order, at most once, and never one that did not go out;
* the two rings of buffers behave like pipes, and no buffer is used from both sides;
* every close, terminate, free and shutdown ends, and closing is enough to stop;
* all clients share one system, whose audio systems are opened once and before use, and
  the libraries under it are loaded once, whichever class is used first;
* what sockets find in the registry of interfaces is with its audio system, and a closed
  interface falls silent in the end, after what it had queued, unless OpenSL refuses;
* no two sockets share a descriptor, and only what was left behind fills lwip's table;
* offsets and lengths from Java never reach outside an array.

## Modules

| module | stands for | |
|---|---|---|
| `PtrArray` | the growable pointer arrays of the loopback | operators |
| `Loopback` | loopback.c, and transmitters and receivers on it | state machine |
| `Medium` | what the loopback promises: a lossy broadcast medium | abstract specification |
| `OpenSLPlayer` | the player of opensl.c and a transmitter on it | state machine |
| `OpenSLRecorder` | the recorder of opensl.c and a receiver on it | state machine |
| `Pipe` | what a ring of buffers promises: a bounded FIFO | abstract specification |
| `QuietSystem` | QuietSystem.java, clients' constructors and finalizers | state machine |
| `QuietInit` | QuietInit.java, JNI_OnLoad, the JVM's class initialisation | state machine |
| `Startup` | `QuietInit` and `QuietSystem` joined | composition |
| `NetworkInterface` | network_interface.c, BaseNetworkInterface.java | state machine |
| `Sockets` | the three socket classes and lwip's table of descriptors | state machine |
| `Network` | sockets over interfaces | composition |
| `DatagramPacket` | the clamping of offsets and lengths, the window of a packet | operators, small state machine |
| `Pacing` | the pace of the mixer thread | small state machine |
| `Source` | what every audio system promises who plays through it | abstract specification |
| `PtrArrayProofs`, `LoopbackProofs`, `RingProofs`, `OpenSLPlayerProofs`, `OpenSLRecorderProofs`, `QuietSystemProofs`, `NetworkProofs`, `ArithmeticProofs` | theorems and proofs | |
| `MC*` | one for each machine that is run, instantiated by the `.cfg` files of the same name | |

**PtrArray.** An array is a record of its slots, the number in use and the capacity. It
keeps what C keeps: stale pointers beyond `num`, `NULL` where `calloc` or a removal put it,
`Uninit` where `realloc` left memory as it was. Both producers and consumers use it, as
their C code is the same text twice.

**Loopback.** A transmitter or a receiver is an address: freed and handed out again. The
mixer takes the mutex at `TickBegin` and gives it back at `TickEnd`; in between it is
at `idx` in the producers (`mpc = "sum"`) or consumers (`"write"`), one `produce` or
`consume` per step, so that a send, a receive or the first half of a close, none of which
take the mutex, can happen between any two. All other critical sections are
single steps that need `LockFree`. `terminate` and the receiver's `close` are two steps
(close the queue; remove under the mutex) and so can be overtaken by the
ejection. A free is four: remove, destroy the encoder, free the rest, and the address is
available. A finalizer runs only when no thread is inside the object (`~txterm`), which the JVM
guarantees as the calls hold the object. The encoder and decoder are libquiet's, modelled
from how the callbacks use them: `emit` returns audio, "nothing yet", or the end of the
stream only when the queue is closed *and* empty; a frame spans `FrameBlocks` blocks; a
block can be decoded only if it was alone in its tick and follows the one before it. `heard`
and `tick` are history variables. The constant `EarlyClose` allows `QuietSystem.close()` while
clients exist.

**OpenSLPlayer, OpenSLRecorder.** `stage` follows construction and destruction step by step,
including a failure after each OpenSL call. OpenSL itself is external: it plays (fills)
the head of its queue and then calls back on one thread; `Destroy` waits for a running callback;
`Enqueue` may be refused at any time (the code looks at the result and does nothing,
`// XXX`), and so may a stop. A stop that OpenSL agrees to takes effect some time later: the state is `"STOPPING"`
until the external step `Halt`, and `PollStopped` has to wait for it. `StopPlayer` and `StopRecorder` may fail,
and so may `GetPlayState` and `GetRecordState` in the loop (`PollFails`); each ends the call there, and none of the callers
(`transmitter.c:45`, `receiver.c:29`, `network_interface.c:51,63`) looks at the result. Nor does the callback when it stops its
own player (`opensl.c:147`). `failed` remembers a refused stop as `refused` does a refused buffer. The recorder may have filled several buffers before the first callback runs. The
player's callback is split at the calls it makes, so that a terminate or a close can fall in
between. Blocks are numbers; silence is 0.

**QuietSystem.** The class monitor and the object monitors are explicit, and each
constructor passes through `getSystem`, `initSystem` and `nativeOpen` in separate steps. OpenSL
or the client's own open may fail. `close()` is called by one further thread.

**QuietInit, Startup.** The first use of any class runs its static initialiser, which calls
`QuietInit.init()`, and for some classes `lwipInit()`. `init()` loads the library, and the JVM then calls
`JNI_OnLoad`, which looks up fields of one class after another and so runs *their* static initialisers,
in the middle of the first: a class can be initialised by its own use or nested in the loading that another's
use caused. The JVM's rules (one thread at a time initialises a class or loads the library, the thread
itself may pass, a class whose initialiser threw is unusable for good) are external. Four classes stand for all:
two of each kind, in the order of `JNI_OnLoad`. `Startup` lets a client get to `QuietSystem` only after that.

**NetworkInterface.** One object with a producer and a consumer (loopback) or a player and a recorder (OpenSL).
The constructor is followed step by step, with each failure; where the code destroys an object most of whose
fields it never set (`network_interface.c:80`), the outcome is "thrown" or "crashed". `close` takes the object off the registry and
goes on as `terminate(0)`, which removes the consumer only and relies on the end of the stream for
the producer. The mixer and the callback, shown step by step elsewhere, are the two single steps `Pull` and
`EndOfStream`, and a stop that OpenSL agrees to is one step, too. What OpenSL may refuse is kept: by `Starve` a player goes on playing but is
never pulled from again (the last callback was refused its buffer, or its stop), and a recorder that a close could not stop is
`"stuck"`. The arrays are those of `PtrArray`.

**Sockets, Network.** An object keeps its descriptor for as long as it lives, closed or not, and so do
its streams; lwip hands a free number out again. `madeFor` remembers whom lwip made each descriptor for, and
`stray` that a call on a closed object has reached somebody else's socket; from then on nothing is claimed.
Constructors that throw after `nativeCreate` leave their descriptor behind (`leaked`). The bind of a server socket goes on to
listen whether or not lwip bound it, and throws if either fails. Every call that only uses a
descriptor (read, write, options and so on) is the one action `Call`. `Network` asks the registry of `NetworkInterface` before a stream
or a server socket is made, as `Socket.java` and `ServerSocket.java` do; a datagram socket is made without.

**DatagramPacket.** The clamping that six native functions repeat word for word, as two operators, with the
unsigned wrap-around at an empty array; and the packet whose offset every receive moves on. (The C code adds and
compares in `jint` and `size_t`: arrays stay below 2^31 bytes, so that nothing else wraps around.)

**Pacing.** The arithmetic at the end of `loopback_thread` (`loopback.c:168-179`): a tick's work, the sleep, and the time kept
for the next tick, which was taken before the sleep.

**Source.** What `Loopback`, `OpenSLPlayer` and `NetworkInterface` have in common: a source is pulled from while it has
something to say, dropped once it has ended and said it all, and before that cut off by its owner only. Each of the three
modules says which of its sources are `on` (in the mixer's array; playing, or with a callback under way), `waiting` (something is left
in the encoder), `ended` (closed) and `held` (being made, terminated or freed, or not there at all), and `ImplementsSource` is the
claim that it keeps the promise. It is what makes the single steps `Pull` and `EndOfStream` of `NetworkInterface` stand for
the mixer and the callback. It is proved for all three; as a `PROPERTY` of `MCLoopbackSafety`, `MCOpenSLPlayer` or
`MCNetworkInterfaces` TLC agrees.

Definitions marked *Mutant* are the code with a plausible bug. No specification uses
them: each shows that one property would notice.

## What is checked

| run | instance | shows |
|---|---|---|
| `loopback_safety` | 2 transmitters, 1 receiver, capacity 1, 2 frames of 2 blocks, queues of 2 | types; nothing dangling; registered once; decoded in order; only the drained are ejected; implements `Medium` |
| `loopback_ticks` | 3 transmitters, capacity 1 (grows twice), no frames | `TickService`: a tick leaves out exactly those whose predecessor was ejected in it |
| `loopback_live` | 2 transmitters, 2 frames of 1 block, fairness | closing ejects; queued frames go out |
| `loopback_heard` | 1 transmitter, 1 receiver, 2 frames of 2 blocks, queue of 2, fairness | a lone sender is heard; calls return; the shutdown completes |
| `loopback_early_close` | 1 transmitter, 1 receiver, system closed early | *violation*, see below |
| `player` | 3 buffers, 5 blocks, queue of 2, fairness | `NeverOverwritten`, `NothingLost`, implements `Pipe`, stops only when flushed, closing stops unless OpenSL starves it, stop returns |
| `recorder` | 3 buffers of 4 frames, 8 chunks, fairness | `NeverOverwritten`, `NoneMislaid`, implements `Pipe`, closing stops unless OpenSL refuses, and returns |
| `recorder_whole` | the same | *violation*, see below |
| `system` (`Startup`) | 2 clients, 2 systems, close allowed, fairness | booted once, in whatever order; shared, opened once, used only when live; no deadlock of the monitors |
| `network` | 1 interface on the loopback, 2 sockets, 2 descriptors | no shared descriptor; the table is accounted for; who listens has a port |
| `network_interfaces` | 2 interfaces, each on the loopback or on OpenSL, no sockets, fairness | what is listed works; silence only when drained; closing silences all that OpenSL lets go of |
| `system_thrown` | 2 clients, 1 system | *violation*, see below |

**Bounds.** Two transmitters are enough for every pairwise race (ejection against a free, two
talking at once) and three for an ejection that shifts two others; capacity 1 rather than 8 makes
every second registration grow the array. A frame of two blocks is the least that can be cut short.
`MaxFrames` bounds the frames that all transmitters send together, over all lives of their addresses, as `sent` is not
reset by a free. Two are the least that have an order: both in one queue, the second after a free and a reuse of the address,
or one from each transmitter at once; the queue holds two. More than two are left to the proofs (`AlwaysDecodedInOrder`,
`RefinesMedium`), which hold for any number. `QueueLimit` bounds the encoder's queue (libquiet's own limit), `MaxBlocks` and `MaxChunks` let the rings of three go round more than once
and a half, `MaxSystems` bounds the systems ever made. Transmitters are interchangeable, and
`TransmitterSymmetry` and `SocketSymmetry` are used in runs without liveness only. Two sockets on two descriptors
are the least in which a number can be free, reused or exhausted; two interfaces make the arrays grow and shift under each other.
Interfaces and sockets meet in one place only, the question whether the registry is empty, so that one interface
is enough in the run with sockets, and none of the sockets' properties is about more. `CHECK_DEADLOCK FALSE` is
in the runs that really may stop: in those of `QuietSystem` and `Startup` when every thread has crashed, failed
to boot or (booted) closed for good, and in those of `Network` because interfaces are never freed and, once closed,
do nothing more.

**Fairness.** The mixer is a thread that is never blocked for long: weak fairness. Whoever waits for
the mutex gets strong fairness, because the mixer gives the mutex up every tick and sleeps after at least every
second (`OneOfTwoSleeps`); pthread mutexes promise no order, so this is about the sleep and
not about the lock. Java monitors are treated likewise: `Startup` has strong fairness for the constructors and
`close()`, and none for the boot. OpenSL keeps playing and
recording, comes to the stop it agreed to (`Halt`), and a `Destroy` that waits for callbacks gets its turn; no call of OpenSL's
has to succeed or to fail. `Network` has weak fairness for what the audio systems do
(`Pull`, `EndOfStream`, neither of which is enabled on a starved player) and for a `close` or `terminate` under way. Nobody is obliged to construct,
send, close, finalize or shut down.

`TickService` is worth a remark: ejecting a producer inside the loop (`loopback.c:160` with 118) moves its
successor into the slot just visited, so that one is skipped for a tick. The property says
this is all that happens, and `FramesGoOut` that it does not matter in the end.

**Disagreements** between the code and what the repository says of it:

* `recorder_whole` - `opensl.c:435` sizes the first round of recording buffers by `num_buf`
  where the callback uses `num_frames` (`:318`). The microphone fills 3 frames of each
  buffer, and the decoder is given 4096, the rest as malloc left it.
* `system_thrown` - "this just frees memory" says `BaseFrameReceiver.java:67-69` of the finalizer. An
  object whose constructor threw is finalized as well, and `nativeFree` dereferences the null pointer.
* `loopback_early_close` - "this should be a safe call always" says `transmitter.c:10-11` of the removal
  in a free. It locks a mutex that the public `QuietSystem.close()` may have destroyed.
  Nothing in the repository calls `close()`; the other runs assume it is called when no client
  exists, and without that they would not hold.

What the code does about a refusal is visible in what the properties except. `CloseStops` of the player excepts one that is
`Starved`: if OpenSL refuses every buffer, or the stop at the end of the stream, it never calls back and never stops. That of the recorder
excepts a stop that failed, after which a close has returned with the microphone on; and `CloseSilences` excepts both.

## What is proved

Every theorem holds for every value of the constants: any number of clients, buffers, descriptors, blocks and
frames, any capacity. `PROJECT.json` lists them. The assumptions are those the modules name: positive capacities and frame
lengths, and that `NULL`, `Uninit`, `None` are nobody's address.

**Loopback** (`LoopbackProofs`, over `PtrArrayProofs`). Five inductive invariants.

* `IInv`: that nothing dangles depends on a removal taking *all* occurrences
  of a pointer out of the array, which it does only if there is one; that there is one depends on
  a client being added only while it is not in the array, which holds because what is in the array is
  open or about to be freed and a client about to be added is not. So types, `NoDanglingRegistration` and
  `RegisteredOnce` are proved together. `PtrArrayProofs` has what they need: `AddLive` and `RemoveLive`.
* `InOrder` follows a frame: what is queued comes after what was aired (`QueuedInOrder`), what was heard is in order and was
  aired, what a decoder holds was heard (`HeardInOrder`), and (`MixedFresh`) a frame that the mix of this tick completes is
  the last that was aired, and those who are still to get this mix have not heard it. The last is
  why a receiver that is visited once in a tick hears nothing twice; that it *is* visited once needs `RegisteredOnce`.
  From it `DecodedInOrder`, and `RefinesMedium`: every step of the mixer and its clients is one of `Medium` or none.
* `TickInv` accounts for a tick under way: after `d` ejections the array from `idx` on is the roster from `idx + 1 + d`
  on, and what lies before has been visited unless its predecessor was ejected. It gives `TickService`, and needs that removing the
  entry in slot `i` moves just the later ones (`RemovedSlot`).
* `PlaceInv` adds where those before `idx` stand, compared with the roster taken when the tick began. No step of anybody moves a producer further from the front
  (`ProducersNeverMoveBack`), and one that a tick skips is nearer to it afterwards (`SkippedMovesUp`), so that the skipping
  comes to an end for each.
* `OwnersInv` says that what is being made is not closed, that only what is open is terminated, and that a system not closed
  early (`~EarlyClose`, assumed) outlives its transmitters. `LoopbackIsSource` needs it: freeing the arrays
  under the clients would silence them all.

`OnlyDrainedEjected` follows from `IInv` and the only two ways the array shrinks. Of the liveness of the mixer this is the part
without fairness: `EveryTickEnds` counts the steps left of a tick, which every step of the mixer lowers and no client raises,
and by `MixerAlwaysGoesOn` the mixer has a next step in each of them. That it takes it is the fairness that `CloseEjects`
and `FramesGoOut` are checked under.

**OpenSL** (`OpenSLPlayerProofs`, `OpenSLRecorderProofs`, over `RingProofs`). A buffer's *age* is how long ago the ring index
was at it, counted around the ring; `AgeNext` says what moving the index on does to all ages. The queue holds
buffers in the order of their ages (`InOrder`), so that the one the callback is about to fill is in it only if the queue is full;
`Staged` says it is not. `Carried` (player) and `Unbroken` (recorder) tie ages to the numbers of the blocks, which gives the refinements of
`Pipe` as long as OpenSL has refused no buffer. `NeverOverwritten` holds after a refusal, too, and so does `PlayerIsSource`.
`NothingLost` follows from `Carried` and a lemma that says what is on its way place by place (`FlightPlaces`). For a closed player, `PlayerNeverDry` says that there is always a buffer queued or a callback under way unless a buffer or a stop was refused,
and that who polls for the end was told that there will be one, and
`PlayerWindsDown` counts what these have left to do; this is the part of `CloseStops` and `StopReturns` without fairness.

**QuietSystem** (`QuietSystemProofs`). The invariant says what each monitor guards: that of the class the making of the instance
(`Getting`), that of a system its flags (`Holding`), where a flag is set exactly when what it stands for is native, or the thread
that is about to set it holds the monitor (`Opening`). `MonitorsNeverStuck` is the part of `CallsReturn` without
fairness: whoever waits for a monitor waits for a thread that can go on, as `close()` alone asks for a second monitor while it holds one. `StartupImplementsSystem` carries
the results over to `Startup`: the static initialisers only delay who gets there. For `StartupBootsOnce`, `BootInv` says at which class
the thread that loads the library is inside `JNI_OnLoad`, what that implies for the classes before and after it, and, as
long as no two threads use their first classes at the same time, that every initialiser under way is on that one thread.

**Network** (`NetworkProofs`). For interfaces `Staged` ties the arrays, the registry and the stages of each object together, over `ArraysOK` as in the
loopback, and `InterfacesAreSources` follows; for sockets `Own` and `Accounted` say, until a call goes astray, whose every descriptor is.

**Arithmetic** (`ArithmeticProofs`). The clamped window lies in the array for all integers, is the one asked for if that fits,
and for an empty array is the byte *before* it; receiving into a packet again and again overwrites nothing but the array's
last byte. Two ticks of the mixer take a period at least; one of two sleeps; with constant work only every second does, so that the mixer
takes two buffers from every producer in about the time it takes to play one. Nothing in the
repository depends on it: in the loopback transmitter and receiver are equally fast.
Both modules are proved about without a run, as their state is integers without bounds.

**Only model-checked**: liveness, as the prover does not do `ENABLED` and fairness: what closing and shutting down come
to in the end, that calls return, that frames go out and that a lone sender is heard. Every safety property of a passing run is a theorem.

## What is not modelled

* Samples. A block is one value; two blocks in one tick are unreadable, so the wrap-around in
  `loopback.c:136` is not visible.
* Blocking modes and time-outs of send and receive: they are handed to libquiet and lwip, and a call that would block is a
  call that has not happened.
* What sockets send and receive, their options and the state of a connection: inside lwip. `SocketInputStream.read`
  ignores the offset it is given and reads to the front of the array; this is about bytes.
* `isClosed()` of a closed socket whose number has been handed out again answers for the other one; tests
  (`SocketTest.java:161`, `DatagramTest.java:109`, `AutoIPTest.java:140`) ask it only while the number is free. It is the same
  `stray` use as any other call.
* Statistics, profiles, addresses and the JNI caches: values that are parsed, copied or looked up, with no state that changes
  after construction.
* libquiet, lwip and OpenSL beyond their use here. Of the lines under `src/`, some four in five are
  headers of these libraries, once for each processor; the code of this repository itself has about 4500, of which
  the modules above cover what runs concurrently or in stages.

## Plan

Done: all modules and runs above, all safety properties as theorems, the refinements of `Medium`, `Pipe` and `Source`, and
the part of the liveness that needs no fairness for the mixer, the player and the monitors. Left, in this order:

1. The same for the recorder and for the interfaces: that what a closing recorder waits for is always on its way, and that
   every step towards a silent interface is counted.
2. The state of a connection (connect, accept, the two half closes) if lwip's own part in it is given a specification.
