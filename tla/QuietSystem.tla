----------------------------- MODULE QuietSystem -----------------------------
(***************************************************************************)
(* QuietSystem.java: the one system all transmitters, receivers and        *)
(* network interfaces of a process share, the two audio systems it opens   *)
(* when first asked for them, and the constructors and finalizers of those *)
(* clients (BaseFrameTransmitter.java, BaseFrameReceiver.java, the Open    *)
(* and Free functions of system.c, transmitter.c and receiver.c).          *)
(*                                                                         *)
(* A client stands for one object and the thread that constructs it.       *)
(***************************************************************************)
EXTENDS Naturals

CONSTANTS Clients,
          Closer,      \* the thread that calls close()
          NULL,
          MaxSystems,  \* bound on the QuietSystem objects ever made
          MayClose     \* does anybody call close()?  Nothing in the repository does

ASSUME SystemAssumption ==
  /\ MaxSystems \in Nat \ {0}
  /\ Closer \notin Clients /\ NULL \notin Clients \cup {Closer} \cup 1..MaxSystems
  /\ MayClose \in BOOLEAN

VARIABLES
  instance,   \* QuietSystem.instance
  made,       \* QuietSystem objects made so far, named 1..made
  classLock,  \* who is in a static synchronized method
  lock,       \* who is in a synchronized method of each system
  flag,       \* init_opensl and init_loopback of each system
  native,     \* opensl_sys and loopback_sys of each native system
  opened,     \* history: how often each audio system was opened with success
  pc,         \* how far each client's life has got
  kind,       \* which audio system the client's initSystem asks for
  sysOf,      \* client.quietSystem
  closing,    \* close(): "idle", "entered" or "freed"
  closed      \* history: has close() ever been called?

Systems == 1..MaxSystems
Kinds == {"opensl", "loopback"}

vars == <<instance, made, classLock, lock, flag, native, opened, pc, kind, sysOf, closing, closed>>

Init ==
  /\ instance = NULL /\ made = 0 /\ classLock = NULL
  /\ lock = [s \in Systems |-> NULL]
  /\ flag = [s \in Systems |-> [k \in Kinds |-> FALSE]]
  /\ native = [s \in Systems |-> [k \in Kinds |-> "null"]]
  /\ opened = [s \in Systems |-> [k \in Kinds |-> 0]]
  /\ pc = [c \in Clients |-> "new"]
  /\ kind \in [Clients -> Kinds]
  /\ sysOf = [c \in Clients |-> NULL]
  /\ closing = "idle" /\ closed = FALSE

Goto(c, l) == pc' = [pc EXCEPT ![c] = l]

-----------------------------------------------------------------------------
(* QuietSystem.getSystem, under the lock of the class.                      *)

system == <<lock, flag, native, opened, kind, closing, closed>>

\* Mutant: getSystem is not synchronized.
EnterGetSystemUnlocked(c) ==
  /\ pc[c] = "new"
  /\ Goto(c, "get") /\ UNCHANGED <<instance, made, classLock, sysOf, system>>

EnterGetSystem(c) ==
  /\ pc[c] = "new" /\ classLock = NULL
  /\ classLock' = c /\ Goto(c, "get")
  /\ UNCHANGED <<instance, made, sysOf, system>>

GotWith(c, sys, holder) ==
  /\ pc[c] = "get"
  /\ sysOf' = [sysOf EXCEPT ![c] = sys]
  /\ classLock' = holder /\ Goto(c, "got")
  /\ UNCHANGED <<instance, made, system>>

\* Mutants: the lock of the class is kept; instance is not compared with null.
GotKeepsLock(c) == instance /= NULL /\ GotWith(c, instance, c)
GotAnything(c) == GotWith(c, instance, NULL)

Got(c) == instance /= NULL /\ GotWith(c, instance, NULL)

FindNone(c) ==
  /\ pc[c] = "get" /\ instance = NULL
  /\ Goto(c, "make") /\ UNCHANGED <<instance, made, classLock, sysOf, system>>

\* new QuietSystem(): nativeOpen is a calloc.
Make(c) ==
  /\ pc[c] = "make" /\ made < MaxSystems
  /\ made' = made + 1 /\ instance' = made + 1
  /\ Goto(c, "get") /\ UNCHANGED <<classLock, sysOf, system>>

-----------------------------------------------------------------------------
(* initOpenSL and initLoopback, under the lock of the system.               *)

getting == <<instance, made, classLock, kind, sysOf, closing, closed>>

\* Mutant: initOpenSL and initLoopback are not synchronized.
EnterInitUnlocked(c) ==
  /\ pc[c] = "got"
  /\ Goto(c, "init") /\ UNCHANGED <<getting, lock, flag, native, opened>>

EnterInit(c) ==
  /\ pc[c] = "got" /\ lock[sysOf[c]] = NULL
  /\ lock' = [lock EXCEPT ![sysOf[c]] = c]
  /\ Goto(c, "init") /\ UNCHANGED <<getting, flag, native, opened>>

Leave(c, l) ==
  /\ lock' = [lock EXCEPT ![sysOf[c]] = NULL]
  /\ Goto(c, l)

AlreadyInit(c) ==
  /\ pc[c] = "init" /\ flag[sysOf[c]][kind[c]]
  /\ Leave(c, "inited") /\ UNCHANGED <<getting, flag, native, opened>>

\* Mutant: the flag goes up before the work, as QuietInit's two flags do.
FlagBeforeNative(c) ==
  /\ pc[c] = "init" /\ ~flag[sysOf[c]][kind[c]]
  /\ flag' = [flag EXCEPT ![sysOf[c]][kind[c]] = TRUE]
  /\ Goto(c, "native") /\ UNCHANGED <<getting, lock, native, opened>>

\* nativeOpenOpenSL or nativeOpenLoopback is about to be called.
NotYetInit(c) ==
  /\ pc[c] = "init" /\ ~flag[sysOf[c]][kind[c]]
  /\ Goto(c, "native") /\ UNCHANGED <<getting, lock, flag, native, opened>>

NativeInit(c) ==
  /\ pc[c] = "native"
  /\ native' = [native EXCEPT ![sysOf[c]][kind[c]] = "live"]
  /\ opened' = [opened EXCEPT ![sysOf[c]][kind[c]] = @ + 1]
  /\ Goto(c, "flag") /\ UNCHANGED <<getting, lock, flag>>

\* The OpenSL engine that failed to start is destroyed, but the pointer to it stays.
\* The constructor throws.
NativeInitFails(c) ==
  /\ pc[c] = "native" /\ kind[c] = "opensl"
  /\ native' = [native EXCEPT ![sysOf[c]][kind[c]] = "dangling"]
  /\ Leave(c, "thrown") /\ UNCHANGED <<getting, flag, opened>>

SetFlag(c) ==
  /\ pc[c] = "flag"
  /\ flag' = [flag EXCEPT ![sysOf[c]][kind[c]] = TRUE]
  /\ Leave(c, "inited") /\ UNCHANGED <<getting, native, opened>>

-----------------------------------------------------------------------------
(* The client's own nativeOpen, and its finalizer.                          *)

still == <<getting, lock, flag, native, opened>>

Open(c) == pc[c] = "inited" /\ Goto(c, "open") /\ UNCHANGED still

\* It throws; the field for the pointer keeps its 0.
OpenFails(c) == pc[c] = "inited" /\ Goto(c, "thrown") /\ UNCHANGED still

FinalizeOpen(c) == pc[c] = "open" /\ Goto(c, "freed") /\ UNCHANGED still

\* An object whose constructor threw is finalized too: nativeFree reads through the
\* null pointer, and the process dies.
FinalizeThrown(c) == pc[c] = "thrown" /\ Goto(c, "crashed") /\ UNCHANGED still

\* Which object a name stands for does not matter once it is gone.
Renew(c) ==
  /\ pc[c] = "freed"
  /\ Goto(c, "new") /\ sysOf' = [sysOf EXCEPT ![c] = NULL]
  /\ UNCHANGED <<instance, made, classLock, system>>

-----------------------------------------------------------------------------
(* close(), under the lock of the system and then that of the class too.    *)

Idle == \A c \in Clients : pc[c] \in {"new", "freed"}

EnterClose ==
  /\ MayClose /\ closing = "idle" /\ Idle
  /\ instance \in 1..(MaxSystems - 1) /\ lock[instance] = NULL
  /\ lock' = [lock EXCEPT ![instance] = Closer]
  /\ closing' = "entered" /\ closed' = TRUE
  /\ UNCHANGED <<instance, made, classLock, flag, native, opened, pc, kind, sysOf>>

\* nativeClose frees both audio systems and the native system.
NativeClose ==
  /\ closing = "entered"
  /\ native' = [native EXCEPT ![instance] = [k \in Kinds |-> "dangling"]]
  /\ closing' = "freed"
  /\ UNCHANGED <<instance, made, classLock, lock, flag, opened, pc, kind, sysOf, closed>>

\* deleteSystem; then both locks are released.
DeleteSystem ==
  /\ closing = "freed" /\ classLock = NULL
  /\ instance' = NULL
  /\ lock' = [lock EXCEPT ![instance] = NULL]
  /\ closing' = "idle"
  /\ UNCHANGED <<made, classLock, flag, native, opened, pc, kind, sysOf, closed>>

-----------------------------------------------------------------------------
Constructor(c) ==
  \/ EnterGetSystem(c) \/ Got(c) \/ FindNone(c) \/ Make(c)
  \/ EnterInit(c) \/ AlreadyInit(c) \/ NotYetInit(c)
  \/ NativeInit(c) \/ NativeInitFails(c) \/ SetFlag(c) \/ Open(c) \/ OpenFails(c)

Close == NativeClose \/ DeleteSystem

Next ==
  \/ \E c \in Clients : Constructor(c) \/ FinalizeOpen(c) \/ FinalizeThrown(c) \/ Renew(c)
  \/ EnterClose \/ Close

Spec == Init /\ [][Next]_vars

-----------------------------------------------------------------------------
(* Properties.                                                              *)

TypeOK ==
  /\ instance \in Systems \cup {NULL} /\ made \in 0..MaxSystems
  /\ classLock \in Clients \cup {NULL}
  /\ lock \in [Systems -> Clients \cup {Closer, NULL}]
  /\ flag \in [Systems -> [Kinds -> BOOLEAN]]
  /\ native \in [Systems -> [Kinds -> {"null", "live", "dangling"}]]
  /\ opened \in [Systems -> [Kinds -> Nat]]
  /\ pc \in [Clients -> {"new", "get", "make", "got", "init", "native", "flag", "inited",
                         "open", "thrown", "freed", "crashed"}]
  /\ kind \in [Clients -> Kinds]
  /\ sysOf \in [Clients -> Systems \cup {NULL}]
  /\ \A c \in Clients : pc[c] \notin {"new", "get", "make"} => sysOf[c] \in Systems
  /\ closing \in {"idle", "entered", "freed"} /\ closed \in BOOLEAN

\* As long as nobody closes the system, a client that goes on to open, or is open, uses
\* an audio system that is there, even when another client's attempt to open it failed,
\* is under way, or was the first.
OpensOnLiveSystem ==
  ~closed => \A c \in Clients : pc[c] \in {"inited", "open"} => native[sysOf[c]][kind[c]] = "live"

\* No audio system is opened over one that is open already, which would orphan its
\* thread and the clients registered with it.
OpenedOnce == ~closed => \A s \in Systems : \A k \in Kinds : opened[s][k] <= 1

\* As long as nobody closes it, all clients share one system: a transmitter and a
\* receiver on the loopback hear each other whichever threads made them.
SharedSystem ==
  ~closed => \A c, d \in Clients : sysOf[c] /= NULL /\ sysOf[d] /= NULL => sysOf[c] = sysOf[d]

\* BaseFrameReceiver's comment on finalize(): it "just frees memory".
FinalizeJustFrees == \A c \in Clients : pc[c] /= "crashed"

\* A constructor returns or throws, and close() returns, whatever others do: the two
\* monitors are never taken in opposite orders.
Constructing(c) == pc[c] \in {"get", "make", "got", "init", "native", "flag", "inited"}
CallsReturn ==
  /\ \A c \in Clients : Constructing(c) ~> ~Constructing(c)
  /\ closing /= "idle" ~> closing = "idle"
=============================================================================
