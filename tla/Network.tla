------------------------------- MODULE Network -------------------------------
(***************************************************************************)
(* Network interfaces and the sockets that use them: a socket asks the     *)
(* registry for an interface before it is created, and never again.        *)
(***************************************************************************)
EXTENDS NetworkInterface, Sockets

networkVars == <<interfaceVars, socketVars>>

Init == InterfaceInit /\ SocketInit

\* getNetworkInterfaces().hasMoreElements()
Present == registry /= {}

Next ==
  \/ \E i \in Interfaces : InterfaceStep(i) /\ UNCHANGED socketVars
  \/ \E s \in SocketObjects : SocketStep(s, Present) /\ UNCHANGED interfaceVars

Spec == Init /\ [][Next]_networkVars

\* The mixer, and the callback as long as OpenSL calls it, go on pulling, and a close or
\* terminate under way goes on.  OpenSL does not have to refuse anything, nor to agree to
\* anything.
Fairness ==
  \A i \in Interfaces :
    /\ WF_networkVars(Pull(i) /\ UNCHANGED socketVars)
    /\ WF_networkVars(EndOfStream(i) /\ UNCHANGED socketVars)
    /\ WF_networkVars(Ending(i) /\ UNCHANGED socketVars)

FairSpec == Spec /\ Fairness

TypeOK == InterfaceTypeOK /\ SocketTypeOK
=============================================================================
