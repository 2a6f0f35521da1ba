------------------------------ MODULE QuietInit ------------------------------
(***************************************************************************)
(* QuietInit.java and the static initialisers that call it: the first use  *)
(* of a class loads the libraries and initialises lwip, whichever class    *)
(* and thread that is.                                                     *)
(*                                                                         *)
(* Loading quiet-jni runs JNI_OnLoad, which looks up the fields of one     *)
(* class after another and thereby initialises them, inside the static     *)
(* initialiser that asked for the library.  The Java machine (external)    *)
(* lets one thread at a time initialise a class, or load the library, and  *)
(* has others wait; the thread itself passes.  The library's functions can *)
(* be called from when JNI_OnLoad is about to run.                         *)
(***************************************************************************)
EXTENDS Naturals, Sequences

CONSTANTS Threads, Nobody

\* Of the classes JNI_OnLoad initialises, in its order, some that stand for all: those
\* that call only init() and those that call lwipInit() too.
Cached == <<"QuietSystem", "InetAddress", "BaseFrameTransmitter", "BaseNetworkInterface">>
Classes == {Cached[n] : n \in 1..Len(Cached)}
LwipClasses == {"InetAddress", "BaseNetworkInterface"}

VARIABLES
  has_init, has_lwip_init,
  library,    \* "absent", "loading": JNI_OnLoad runs, "loaded"
  state,      \* of each class: "cold", "busy", "ready" or "broken"
  owner,      \* who initialises each busy class
  at,         \* the class JNI_OnLoad has got to
  where,      \* how far each thread has got
  mine,       \* the class whose first use the thread is in
  lwip_inits, \* history: how often lwip was initialised
  contended   \* history: has a thread used a class while another initialised one?

initVars == <<has_init, has_lwip_init, library, state, owner, at, where, mine,
              lwip_inits, contended>>

InitStart ==
  /\ has_init = FALSE /\ has_lwip_init = FALSE /\ library = "absent"
  /\ state = [c \in Classes |-> "cold"] /\ owner = [c \in Classes |-> Nobody]
  /\ at = 1
  /\ where = [t \in Threads |-> "out"] /\ mine = [t \in Threads |-> "QuietSystem"]
  /\ lwip_inits = 0 /\ contended = FALSE

Goes(t, w) == where' = [where EXCEPT ![t] = w]

\* A thread claims a class nobody has used yet.
Claim(t, c) ==
  /\ state[c] = "cold"
  /\ state' = [state EXCEPT ![c] = "busy"] /\ owner' = [owner EXCEPT ![c] = t]
Settle(c, s) ==
  /\ state' = [state EXCEPT ![c] = s] /\ owner' = [owner EXCEPT ![c] = Nobody]

\* Does another thread initialise a class?
Contends(t) ==
  contended' = (contended \/ \E u \in Threads \ {t} : where[u] \notin {"out", "booted", "failed"})

-----------------------------------------------------------------------------
(* The first use of a class, and init().                                    *)

flags == <<has_init, has_lwip_init>>
lib == <<library, at, lwip_inits>>
classVars == <<state, owner>>

Use(t, c) ==
  /\ where[t] = "out" /\ Claim(t, c)
  /\ Goes(t, "init") /\ mine' = [mine EXCEPT ![t] = c]
  /\ Contends(t) /\ UNCHANGED <<flags, lib>>

\* A class whose initialiser threw cannot be used any more.
UseBroken(t) ==
  /\ where[t] = "out" /\ \E c \in Classes : state[c] = "broken"
  /\ Goes(t, "failed") /\ UNCHANGED <<flags, lib, classVars, mine, contended>>

AlreadyInit(t) ==
  /\ where[t] = "init" /\ has_init
  /\ Goes(t, "lwip") /\ UNCHANGED <<flags, lib, classVars, mine, contended>>

NotYetInit(t) ==
  /\ where[t] = "init" /\ ~has_init
  /\ Goes(t, "set") /\ UNCHANGED <<flags, lib, classVars, mine, contended>>

SetInit(t) ==
  /\ where[t] = "set"
  /\ has_init' = TRUE
  /\ Goes(t, "load") /\ UNCHANGED <<has_lwip_init, lib, classVars, mine, contended>>

\* System.loadLibrary; six libraries without a JNI_OnLoad have gone before.
Load(t) ==
  /\ where[t] = "load" /\ library = "absent"
  /\ library' = "loading"
  /\ Goes(t, "onload") /\ UNCHANGED <<flags, at, lwip_inits, classVars, mine, contended>>

\* Another thread has loaded it.
Loaded(t) ==
  /\ where[t] = "load" /\ library = "loaded"
  /\ Goes(t, "lwip") /\ UNCHANGED <<flags, lib, classVars, mine, contended>>

-----------------------------------------------------------------------------
(* JNI_OnLoad.                                                              *)

OnLoad(t) == where[t] = "onload" /\ at <= Len(Cached)

\* The class is there, or this very thread is at it.
OnLoadSkips(t) ==
  /\ OnLoad(t)
  /\ state[Cached[at]] = "ready" \/ owner[Cached[at]] = t
  /\ at' = at + 1
  /\ UNCHANGED <<flags, library, lwip_inits, classVars, where, mine, contended>>

\* Its initialiser calls init(), which returns at once, and perhaps lwipInit().
OnLoadClaims(t) ==
  /\ OnLoad(t) /\ Claim(t, Cached[at])
  /\ Goes(t, "lwip") /\ UNCHANGED <<flags, lib, mine, contended>>

\* Every call after that is made with an exception pending.
OnLoadFails(t) ==
  /\ OnLoad(t) /\ state[Cached[at]] = "broken"
  /\ Goes(t, "failed") /\ UNCHANGED <<flags, lib, classVars, mine, contended>>

OnLoadReturns(t) ==
  /\ where[t] = "onload" /\ at > Len(Cached)
  /\ library' = "loaded"
  /\ Goes(t, "lwip") /\ UNCHANGED <<flags, at, lwip_inits, classVars, mine, contended>>

-----------------------------------------------------------------------------
(* lwipInit() and the end of a static initialiser, of the class a thread    *)
(* uses or, nested, of the class JNI_OnLoad has got to.                     *)

Nested(t) == at <= Len(Cached) /\ owner[Cached[at]] = t /\ Cached[at] /= mine[t]
Class(t) == IF Nested(t) THEN Cached[at] ELSE mine[t]

Finish(t) ==
  /\ Settle(Class(t), "ready")
  /\ Goes(t, IF Nested(t) THEN "onload" ELSE "out")

NoLwip(t) ==
  /\ where[t] = "lwip" /\ (Class(t) \notin LwipClasses \/ has_lwip_init)
  /\ Finish(t) /\ UNCHANGED <<flags, lib, mine, contended>>

\* Mutant: the flag is not looked at.
LwipAgain(t) ==
  /\ where[t] = "lwip" /\ Class(t) \in LwipClasses
  /\ Goes(t, "lwip set") /\ UNCHANGED <<flags, lib, classVars, mine, contended>>

NotYetLwip(t) ==
  /\ where[t] = "lwip" /\ Class(t) \in LwipClasses /\ ~has_lwip_init
  /\ Goes(t, "lwip set") /\ UNCHANGED <<flags, lib, classVars, mine, contended>>

SetLwip(t) ==
  /\ where[t] = "lwip set"
  /\ has_lwip_init' = TRUE
  /\ Goes(t, "lwip native") /\ UNCHANGED <<has_init, lib, classVars, mine, contended>>

NativeLWIPInit(t) ==
  /\ where[t] = "lwip native" /\ library /= "absent"
  /\ lwip_inits' = lwip_inits + 1
  /\ Finish(t) /\ UNCHANGED <<flags, library, at, mine, contended>>

\* UnsatisfiedLinkError, out of the static initialiser.
NativeMissing(t) ==
  /\ where[t] = "lwip native" /\ library = "absent"
  /\ Settle(Class(t), "broken") /\ Goes(t, "failed")
  /\ UNCHANGED <<flags, lib, mine, contended>>

-----------------------------------------------------------------------------
(* A client's class and QuietSystem have been used: the native calls of the *)
(* constructors can be made.                                                *)

ClassesReady(t) ==
  /\ where[t] = "out" /\ state["QuietSystem"] = "ready"
  /\ \E c \in {"BaseFrameTransmitter", "BaseNetworkInterface"} : state[c] = "ready"

Boots(t) ==
  /\ ClassesReady(t) /\ library /= "absent"
  /\ Goes(t, "booted") /\ Contends(t) /\ UNCHANGED <<flags, lib, classVars, mine>>

\* Its functions are not there, or the ids of fields they use are not yet.
BootsEarly(t) ==
  /\ ClassesReady(t) /\ library /= "loaded"
  /\ Goes(t, "failed") /\ Contends(t) /\ UNCHANGED <<flags, lib, classVars, mine>>

InitStep(t) ==
  \/ \E c \in Classes : Use(t, c)
  \/ UseBroken(t) \/ AlreadyInit(t) \/ NotYetInit(t) \/ SetInit(t) \/ Load(t) \/ Loaded(t)
  \/ OnLoadSkips(t) \/ OnLoadClaims(t) \/ OnLoadFails(t) \/ OnLoadReturns(t)
  \/ NoLwip(t) \/ NotYetLwip(t) \/ SetLwip(t) \/ NativeLWIPInit(t) \/ NativeMissing(t)
  \/ Boots(t) \/ BootsEarly(t)

-----------------------------------------------------------------------------
(* Properties.                                                              *)

\* Unless two threads use their first classes at the same time, whichever class comes
\* first and although JNI_OnLoad initialises the classes in the middle of it, a thread
\* gets to its constructors with the library and all classes complete and lwip
\* initialised exactly once, and none fails.
BootsOnce ==
  ~contended =>
    /\ lwip_inits <= 1
    /\ \A t \in Threads : where[t] /= "failed"
    /\ \A t \in Threads : where[t] = "booted" =>
         /\ library = "loaded" /\ lwip_inits = 1
         /\ \A c \in Classes : state[c] /= "cold" /\ state[c] /= "broken"
=============================================================================
