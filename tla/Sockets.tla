------------------------------- MODULE Sockets -------------------------------
(***************************************************************************)
(* The sockets (Socket.java, ServerSocket.java, DatagramSocket.java, the   *)
(* two streams of a Socket, and the C files of the same names) and the     *)
(* table of descriptors inside lwip that they name.                        *)
(*                                                                         *)
(* An object keeps the descriptor its constructor got, in itself and in    *)
(* its streams, for as long as it lives: closing it changes nothing in the *)
(* object.  No object has a finalizer.  A call on an object whose close    *)
(* another thread has finished, and a second close, are therefore ordinary *)
(* calls, on whatever the descriptor stands for by then.                   *)
(*                                                                         *)
(* What is sent and received is left out.  Whether an operation of lwip    *)
(* succeeds is open wherever the code allows for both.                     *)
(***************************************************************************)
EXTENDS Naturals

CONSTANTS SocketObjects,
          Fds,          \* lwip's descriptors
          None          \* no descriptor, no class, nobody

ASSUME SocketAssumption == None \notin Fds /\ None \notin SocketObjects

VARIABLES
  life,       \* "new": no object; how far its constructor, or its life, has got
  kind,       \* which of the three classes it is of
  fd,         \* its field fd, and those of its streams
  used,       \* lwip's table: the descriptors in use,
  bound,      \* those bound to a port,
  listening,  \* and those that listen
  madeFor,    \* history: the object each descriptor in use was made for
  leaked,     \* history: descriptors in use whose object is gone
  bindThrew,  \* history: descriptors in use on which a bind threw
  stray       \* history: has a call on a closed object reached another's socket?

table == <<used, bound, listening>>
socketVars == <<life, kind, fd, table, madeFor, leaked, bindThrew, stray>>

SocketKinds == {"stream", "server", "datagram"}
SocketInit ==
  /\ life = [s \in SocketObjects |-> "new"]
  /\ kind = [s \in SocketObjects |-> None]
  /\ fd = [s \in SocketObjects |-> None]
  /\ used = {} /\ bound = {} /\ listening = {}
  /\ madeFor = [f \in Fds |-> None]
  /\ leaked = {} /\ bindThrew = {} /\ stray = FALSE

Free == Fds \ used
Constructed(s) == life[s] \in {"open", "closed"}

-----------------------------------------------------------------------------
(* Constructors.  One that throws leaves no object; before it has a         *)
(* descriptor, as when there is no network interface, it leaves nothing.    *)

Turns(s, l, k, f) ==
  /\ life' = [life EXCEPT ![s] = l]
  /\ kind' = [kind EXCEPT ![s] = k]
  /\ fd' = [fd EXCEPT ![s] = f]
NoObject(s) == Turns(s, "new", None, None)

tableVars == <<table, madeFor, leaked, bindThrew, stray>>

\* A stream or server socket first asks whether there is a network interface.
Check(s, present) ==
  /\ life[s] = "new" /\ present
  /\ \E k \in {"stream", "server"} : Turns(s, "checked", k, None)
  /\ UNCHANGED tableVars

\* The name of the peer is looked up in vain, or there is no descriptor left.
CreateFails(s) ==
  /\ life[s] = "checked" /\ (kind[s] = "stream" \/ Free = {})
  /\ NoObject(s) /\ UNCHANGED tableVars

\* lwip_socket and lwip_accept: the object s of class k is given a descriptor.
Receives(s, k, l) ==
  \E f \in Free :
    /\ used' = used \cup {f}
    /\ madeFor' = [madeFor EXCEPT ![f] = s]
    /\ Turns(s, l, k, f)
    /\ UNCHANGED <<bound, listening>>

Create(s) ==
  /\ \/ life[s] = "checked" /\ Receives(s, kind[s], "created")
     \/ life[s] = "new" /\ Receives(s, "datagram", "created")
  /\ UNCHANGED <<leaked, bindThrew, stray>>

\* A bind of lwip, which binds no socket that listens, and the listen that a server
\* socket goes on to whether or not the bind succeeded.  nativeBind throws when one of the
\* two fails.
StartsListening(s) ==
  listening' = IF kind[s] = "server" THEN listening \cup {fd[s]} ELSE listening
GetsPort(s) == fd[s] \notin listening /\ bound' = bound \cup {fd[s]}
ListenFails(s) == kind[s] = "server" /\ UNCHANGED listening

Binds(s) ==
  /\ GetsPort(s) /\ StartsListening(s)
  /\ UNCHANGED <<used, bindThrew>>
BindThrows(s) ==
  /\ \/ UNCHANGED bound /\ (StartsListening(s) \/ ListenFails(s))
     \/ GetsPort(s) /\ ListenFails(s)
  /\ bindThrew' = bindThrew \cup {fd[s]}
  /\ UNCHANGED used

\* Some constructors bind the new descriptor.
ConstructorBinds(s) ==
  /\ life[s] = "created"
  /\ Binds(s)
  /\ UNCHANGED <<life, kind, fd, madeFor, leaked, stray>>

\* Mutant: the exception of a failed bind is lost.
ConstructorBindLost(s) ==
  /\ life[s] = "created"
  /\ StartsListening(s)
  /\ UNCHANGED <<life, kind, fd, used, bound, madeFor, leaked, bindThrew, stray>>

\* One whose bind throws leaves the descriptor as it is, and no object to close it by.
ConstructorBindFails(s) ==
  /\ life[s] = "created"
  /\ BindThrows(s) /\ NoObject(s)
  /\ leaked' = leaked \cup {fd[s]}
  /\ UNCHANGED <<madeFor, stray>>

\* So does one whose port is out of range or whose connect throws.
ConstructorFails(s) ==
  /\ life[s] = "created" /\ kind[s] /= "datagram"
  /\ NoObject(s)
  /\ leaked' = leaked \cup {fd[s]}
  /\ UNCHANGED <<table, madeFor, bindThrew, stray>>

ConstructorReturns(s) ==
  /\ life[s] = "created"
  /\ life' = [life EXCEPT ![s] = "open"]
  /\ UNCHANGED <<kind, fd, table, madeFor, leaked, bindThrew, stray>>

-----------------------------------------------------------------------------
(* Calls on an object that was constructed, closed or not.                  *)

\* The descriptor of a closed object stands for a socket made for another one.
Foreign(s) == fd[s] \in used /\ madeFor[fd[s]] /= s
Reaches(s) == stray' = (stray \/ Foreign(s))

Bind(s) ==
  /\ Constructed(s) /\ fd[s] \in used
  /\ Binds(s) \/ BindThrows(s)
  /\ Reaches(s)
  /\ UNCHANGED <<life, kind, fd, madeFor, leaked>>

\* Every other call: connect, read, write, shut down a direction, send, receive, a query
\* or an option.  One that finds the descriptor unused throws.
Call(s) ==
  /\ Constructed(s) /\ fd[s] \in used
  /\ Reaches(s)
  /\ UNCHANGED <<life, kind, fd, table, madeFor, leaked, bindThrew>>

\* Mutant: an accept that fails is not noticed.
AcceptUnchecked(s, u) ==
  /\ Constructed(s) /\ kind[s] = "server" /\ life[u] = "new"
  /\ Turns(u, "open", "stream", None)
  /\ Reaches(s)
  /\ UNCHANGED <<table, madeFor, leaked, bindThrew>>

\* accept: the connection gets a descriptor and an object of its own, which nobody
\* checked for interfaces.
Accept(s, u) ==
  /\ Constructed(s) /\ kind[s] = "server" /\ fd[s] \in listening
  /\ life[u] = "new" /\ Receives(u, "stream", "open")
  /\ Reaches(s)
  /\ UNCHANGED <<leaked, bindThrew>>

\* Mutant: close shuts both directions down, as the streams' close does one, and leaves
\* the descriptor.
CloseShutsDown(s) ==
  /\ Constructed(s)
  /\ life' = [life EXCEPT ![s] = "closed"]
  /\ Reaches(s)
  /\ UNCHANGED <<kind, fd, table, madeFor, leaked, bindThrew>>

\* lwip_close; on a descriptor that is not in use it fails, and only a Socket says so.
CloseSocket(s) ==
  /\ Constructed(s)
  /\ life' = [life EXCEPT ![s] = "closed"]
  /\ used' = used \ {fd[s]} /\ bound' = bound \ {fd[s]} /\ listening' = listening \ {fd[s]}
  /\ madeFor' = [madeFor EXCEPT ![fd[s]] = None]
  /\ bindThrew' = bindThrew \ {fd[s]} /\ leaked' = leaked \ {fd[s]}
  /\ Reaches(s)
  /\ UNCHANGED <<kind, fd>>

\* Mutant: a finalizer closes the descriptor, whether or not it has been closed.
DropCloses(s) ==
  /\ Constructed(s)
  /\ used' = used \ {fd[s]} /\ bound' = bound \ {fd[s]} /\ listening' = listening \ {fd[s]}
  /\ NoObject(s)
  /\ UNCHANGED <<madeFor, leaked, bindThrew, stray>>

\* The object is garbage, closed or not: nothing closes its descriptor.
Drop(s) ==
  /\ Constructed(s)
  /\ leaked' = IF life[s] = "open" THEN leaked \cup {fd[s]} ELSE leaked
  /\ NoObject(s)
  /\ UNCHANGED <<table, madeFor, bindThrew, stray>>

-----------------------------------------------------------------------------
\* The model ends where a call has gone astray: nothing is claimed of what comes after.
SocketStep(s, present) ==
  /\ ~stray
  /\ \/ Check(s, present) \/ Create(s) \/ CreateFails(s)
     \/ ConstructorBinds(s) \/ ConstructorBindFails(s) \/ ConstructorFails(s)
     \/ ConstructorReturns(s)
     \/ Bind(s) \/ Call(s) \/ CloseSocket(s) \/ Drop(s)
     \/ \E u \in SocketObjects : Accept(s, u)

-----------------------------------------------------------------------------
(* Properties.                                                              *)

SocketTypeOK ==
  /\ life \in [SocketObjects -> {"new", "checked", "created", "open", "closed"}]
  /\ kind \in [SocketObjects -> SocketKinds \cup {None}]
  /\ fd \in [SocketObjects -> Fds \cup {None}]
  /\ \A s \in SocketObjects : life[s] \in {"created", "open", "closed"} => fd[s] \in Fds
  /\ used \subseteq Fds /\ bound \subseteq used /\ listening \subseteq used
  /\ madeFor \in [Fds -> SocketObjects \cup {None}]
  /\ leaked \subseteq Fds /\ bindThrew \subseteq Fds /\ stray \in BOOLEAN

Holders == {s \in SocketObjects : life[s] \in {"created", "open"}}

\* Until a call on a closed object reaches the socket of another one, each object has
\* its descriptor for itself: no accept, constructor that throws, close or reuse of a
\* number makes two objects share a connection.
OwnDescriptor ==
  ~stray =>
    /\ \A s \in Holders : fd[s] \in used /\ madeFor[fd[s]] = s
    /\ \A s, u \in Holders : fd[s] = fd[u] => s = u

\* Until then, lwip's table holds exactly the sockets of the objects that are open or
\* being constructed and those that constructors that threw, or owners that forgot to
\* close, have left behind: nothing else fills it up.
TableAccounted ==
  ~stray => used = {fd[s] : s \in Holders} \cup leaked

\* Until then, a server socket that listens without a port has had a bind that threw:
\* its owner knows.
ListensOnPort ==
  ~stray => \A s \in Holders :
    fd[s] \in listening => fd[s] \in bound \/ fd[s] \in bindThrew
=============================================================================
