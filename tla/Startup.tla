------------------------------- MODULE Startup -------------------------------
(***************************************************************************)
(* From the first use of a class to the clients of the shared system: a    *)
(* thread gets to QuietSystem.getSystem only through the static            *)
(* initialisers of its client's class and of QuietSystem.                  *)
(***************************************************************************)
EXTENDS QuietSystem

VARIABLES has_init, has_lwip_init, library, state, owner, at, where, mine,
          lwip_inits, contended

Boot == INSTANCE QuietInit WITH Threads <- Clients, Nobody <- NULL

bootVars == <<has_init, has_lwip_init, library, state, owner, at, where, mine,
              lwip_inits, contended>>
startupVars == <<vars, bootVars>>

StartupInit == Init /\ Boot!InitStart

\* Whose classes are there, or who has passed them before.
Booted(c) == where[c] = "booted"

StartupNext ==
  \/ \E c \in Clients : Boot!InitStep(c) /\ UNCHANGED vars
  \/ Next /\ UNCHANGED bootVars
     /\ \A c \in Clients : pc'[c] /= pc[c] => Booted(c)

\* A monitor that is free again and again is got in the end, and a call under way
\* goes on; nobody has to use a class, construct a client or close the system.
StartupFairness ==
  /\ \A c \in Clients :
       SF_startupVars(pc[c] /= "new" /\ Constructor(c) /\ UNCHANGED bootVars)
  /\ SF_startupVars(Close /\ UNCHANGED bootVars)

StartupSpec == StartupInit /\ [][StartupNext]_startupVars /\ StartupFairness

BootsOnce == Boot!BootsOnce
=============================================================================
