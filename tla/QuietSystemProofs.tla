-------------------------- MODULE QuietSystemProofs --------------------------
(***************************************************************************)
(* That the clients of QuietSystem share one system, that its audio        *)
(* systems are opened at most once and are there when a client opens on    *)
(* them, for any number of clients and systems; that no call waits for     *)
(* ever for a monitor; and that the library and lwip are there before,     *)
(* initialised once.                                                       *)
(***************************************************************************)
EXTENDS Startup, Sequences, TLAPS

-----------------------------------------------------------------------------
(* The inductive invariant.  Once close() has been called only the types    *)
(* are left of it.                                                          *)

\* The monitor of the class guards the making of the instance, and no client has another.
Getting ==
  /\ closing /= "idle" => closed
  /\ ~closed =>
       /\ \A c \in Clients : pc[c] \in {"get", "make"} => classLock = c
       /\ \A c \in Clients : pc[c] = "make" => instance = NULL
       /\ \A c \in Clients : sysOf[c] /= NULL => sysOf[c] = instance

\* The monitor of a system guards its flags, which stand for what is native.
Held(c) ==
  /\ pc[c] \in {"init", "native", "flag"} => lock[sysOf[c]] = c
  /\ pc[c] = "native" => ~flag[sysOf[c]][kind[c]]
  /\ pc[c] = "flag" => native[sysOf[c]][kind[c]] = "live"
  /\ pc[c] \in {"inited", "open"} => flag[sysOf[c]][kind[c]]
Holding == ~closed => \A c \in Clients : Held(c)

Opening ==
  ~closed => \A s \in Systems : \A k \in Kinds :
    /\ flag[s][k] => native[s][k] = "live"
    /\ opened[s][k] <= 1
    /\ opened[s][k] = 1 =>
         flag[s][k] \/ \E c \in Clients : pc[c] = "flag" /\ sysOf[c] = s /\ kind[c] = k

IInv == TypeOK /\ Getting /\ Holding /\ Opening

-----------------------------------------------------------------------------
\* What the update of one place of a table of systems and kinds does.
LEMMA Updated ==
  ASSUME NEW S, NEW K, NEW X, NEW f \in [S -> [K -> X]], NEW s \in S, NEW k \in K, NEW v \in X
  PROVE  /\ [f EXCEPT ![s][k] = v] \in [S -> [K -> X]]
         /\ [f EXCEPT ![s][k] = v][s][k] = v
         /\ \A t \in S : \A j \in K : t /= s \/ j /= k => [f EXCEPT ![s][k] = v][t][j] = f[t][j]
<1>1. [f[s] EXCEPT ![k] = v] \in [K -> X]
  OBVIOUS
<1>2. [f EXCEPT ![s][k] = v] = [f EXCEPT ![s] = [f[s] EXCEPT ![k] = v]]
  OBVIOUS
<1> QED BY <1>1, <1>2

LEMMA Names == NULL \notin Systems /\ NULL \notin Clients /\ Closer \notin Clients /\ MaxSystems \in Nat
  BY SystemAssumption DEF Systems

LEMMA InitInv == Init => IInv
<1> SUFFICES ASSUME Init PROVE IInv
  OBVIOUS
<1>1. TypeOK
  <2>1. flag \in [Systems -> [Kinds -> BOOLEAN]]
    BY Zenon DEF Init
  <2>2. /\ native \in [Systems -> [Kinds -> {"null", "live", "dangling"}]]
        /\ opened \in [Systems -> [Kinds -> Nat]]
        /\ lock \in [Systems -> Clients \cup {Closer, NULL}]
    BY DEF Init
  <2>3. /\ made \in 0..MaxSystems /\ instance \in Systems \cup {NULL}
        /\ classLock \in Clients \cup {NULL}
    BY SystemAssumption DEF Init
  <2>4. closed \in BOOLEAN
    BY Zenon DEF Init
  <2> QED BY <2>1, <2>2, <2>3, <2>4 DEF Init, TypeOK
<1>2. Getting /\ Holding /\ Opening
  BY DEF Init, Getting, Holding, Held, Opening
<1> QED BY <1>1, <1>2 DEF IInv

-----------------------------------------------------------------------------
(* One lemma per part of a constructor.                                     *)

LEMMA GetStep ==
  ASSUME IInv, NEW c \in Clients,
         EnterGetSystem(c) \/ Got(c) \/ FindNone(c) \/ Make(c)
  PROVE  IInv'
<1> USE Names DEF IInv
<1>1. TypeOK'
  <2>1. CASE EnterGetSystem(c)
    BY <2>1 DEF TypeOK, EnterGetSystem, Goto, system
  <2>2. CASE Got(c)
    BY <2>2 DEF TypeOK, Got, GotWith, Goto, system
  <2>3. CASE FindNone(c)
    BY <2>3 DEF TypeOK, FindNone, Goto, system
  <2>4. CASE Make(c)
    <3>1. made' \in 0..MaxSystems /\ instance' \in Systems
      BY <2>4 DEF TypeOK, Make, Systems
    <3> QED BY <2>4, <3>1 DEF TypeOK, Make, Goto, system
  <2> QED BY <2>1, <2>2, <2>3, <2>4
<1>2. Getting'
  <2>1. CASE EnterGetSystem(c)
    BY <2>1 DEF TypeOK, Getting, EnterGetSystem, Goto, system
  <2>2. CASE Got(c)
    BY <2>2 DEF TypeOK, Getting, Got, GotWith, Goto, system
  <2>3. CASE FindNone(c)
    BY <2>3 DEF TypeOK, Getting, FindNone, Goto, system
  <2>4. CASE Make(c)
    BY <2>4 DEF TypeOK, Getting, Make, Goto, system
  <2> QED BY <2>1, <2>2, <2>3, <2>4
<1>3. Holding'
  <2>1. CASE EnterGetSystem(c)
    BY <2>1 DEF TypeOK, Holding, Held, EnterGetSystem, Goto, system
  <2>2. CASE Got(c)
    BY <2>2 DEF TypeOK, Holding, Held, Got, GotWith, Goto, system
  <2>3. CASE FindNone(c)
    BY <2>3 DEF TypeOK, Holding, Held, FindNone, Goto, system
  <2>4. CASE Make(c)
    BY <2>4 DEF TypeOK, Holding, Held, Make, Goto, system
  <2> QED BY <2>1, <2>2, <2>3, <2>4
<1>4. Opening'
  BY DEF TypeOK, Opening, EnterGetSystem, Got, GotWith, FindNone, Make, Goto, system
<1> QED BY <1>1, <1>2, <1>3, <1>4

\* Entering and leaving a monitor, the flag and the native calls of a system.
LEMMA MonitorStep ==
  ASSUME IInv, NEW c \in Clients,
         EnterInit(c) \/ AlreadyInit(c) \/ NotYetInit(c)
  PROVE  IInv'
<1> USE Names DEF IInv, getting
<1>1. TypeOK'
  <2>1. CASE EnterInit(c)
    BY <2>1 DEF TypeOK, EnterInit, Goto
  <2>2. CASE AlreadyInit(c)
    BY <2>2 DEF TypeOK, AlreadyInit, Leave, Goto
  <2>3. CASE NotYetInit(c)
    BY <2>3 DEF TypeOK, NotYetInit, Goto
  <2> QED BY <2>1, <2>2, <2>3
<1>2. Getting'
  BY DEF TypeOK, Getting, EnterInit, AlreadyInit, NotYetInit, Leave, Goto
<1>3. Holding'
  <2> SUFFICES ASSUME ~closed', NEW d \in Clients PROVE Held(d)'
    BY DEF Holding
  <2>0. Held(d) /\ Held(c)
    BY DEF Holding, EnterInit, AlreadyInit, NotYetInit
  <2>1. CASE EnterInit(c)
    BY <2>0, <2>1 DEF TypeOK, Held, EnterInit, Goto
  <2>2. CASE AlreadyInit(c)
    BY <2>0, <2>2 DEF TypeOK, Held, AlreadyInit, Leave, Goto
  <2>3. CASE NotYetInit(c)
    BY <2>0, <2>3 DEF TypeOK, Held, NotYetInit, Goto
  <2> QED BY <2>1, <2>2, <2>3
<1>4. Opening'
  BY DEF TypeOK, Opening, EnterInit, AlreadyInit, NotYetInit, Leave, Goto
<1> QED BY <1>1, <1>2, <1>3, <1>4

LEMMA NativeInitStep ==
  ASSUME IInv, NEW c \in Clients, NativeInit(c)
  PROVE  IInv'
<1> DEFINE s == sysOf[c]
           k == kind[c]
<1>1. s \in Systems /\ k \in Kinds /\ opened[s][k] \in Nat
  BY DEF IInv, TypeOK, NativeInit
<1>2. /\ native' \in [Systems -> [Kinds -> {"null", "live", "dangling"}]]
      /\ native'[s][k] = "live"
      /\ \A t \in Systems : \A j \in Kinds : t /= s \/ j /= k => native'[t][j] = native[t][j]
  <2>1. native' = [native EXCEPT ![s][k] = "live"]
    BY DEF NativeInit
  <2>2. native \in [Systems -> [Kinds -> {"null", "live", "dangling"}]]
    BY DEF IInv, TypeOK
  <2> HIDE DEF s, k
  <2> QED BY <1>1, <2>1, <2>2, Updated
<1>3. /\ opened' \in [Systems -> [Kinds -> Nat]]
      /\ opened'[s][k] = opened[s][k] + 1
      /\ \A t \in Systems : \A j \in Kinds : t /= s \/ j /= k => opened'[t][j] = opened[t][j]
  <2>1. opened' = [opened EXCEPT ![s][k] = opened[s][k] + 1]
    BY DEF NativeInit
  <2>2. opened \in [Systems -> [Kinds -> Nat]] /\ opened[s][k] + 1 \in Nat
    BY <1>1 DEF IInv, TypeOK
  <2> HIDE DEF s, k
  <2> QED BY <1>1, <2>1, <2>2, Updated
<1>4. /\ pc' = [pc EXCEPT ![c] = "flag"]
      /\ UNCHANGED <<instance, made, classLock, kind, sysOf, closing, closed, lock, flag>>
      /\ pc[c] = "native"
  BY DEF NativeInit, Goto, getting
<1> USE DEF IInv
<1>5. TypeOK'
  BY <1>2, <1>3, <1>4 DEF TypeOK
<1>6. Getting'
  BY <1>4 DEF TypeOK, Getting
\* The lock keeps any other client from being about to open the same audio system.
<1>7. Holding'
  <2> SUFFICES ASSUME ~closed', NEW d \in Clients PROVE Held(d)'
    BY DEF Holding
  <2>0. Held(d) /\ Held(c)
    BY <1>4 DEF Holding, Held
  <2>1. CASE d = c
    BY <1>1, <1>2, <1>4, <2>0, <2>1 DEF TypeOK, Held
  <2>2. CASE d /= c
    <3>1. pc'[d] = pc[d] /\ sysOf'[d] = sysOf[d] /\ kind'[d] = kind[d]
      BY <1>4, <2>2 DEF TypeOK
    <3>2. pc[d] = "flag" => sysOf[d] \in Systems /\ kind[d] \in Kinds /\ sysOf[d] /= s
      BY <1>1, <1>4, <2>0, <2>2 DEF TypeOK, Held
    <3> QED BY <1>2, <1>4, <2>0, <3>1, <3>2 DEF Held
  <2> QED BY <2>1, <2>2
<1>8. Opening'
  <2>1. ~closed => opened[s][k] = 0
    <3> SUFFICES ASSUME ~closed PROVE opened[s][k] = 0
      OBVIOUS
    <3>1. ~flag[s][k] /\ lock[s] = c
      BY <1>4 DEF Holding, Held
    <3>2. \A d \in Clients : ~(pc[d] = "flag" /\ sysOf[d] = s)
      BY <1>4, <3>1 DEF Holding, Held
    <3>3. opened[s][k] /= 1 /\ opened[s][k] <= 1
      BY <1>1, <3>1, <3>2 DEF Opening
    <3> QED BY <1>1, <3>3
  <2>2. /\ pc'[c] = "flag" /\ sysOf'[c] = s /\ kind'[c] = k
        /\ \A d \in Clients : d /= c => pc'[d] = pc[d]
    BY <1>4 DEF TypeOK
  <2> SUFFICES ASSUME ~closed', NEW t \in Systems, NEW j \in Kinds
               PROVE  /\ flag'[t][j] => native'[t][j] = "live"
                      /\ opened'[t][j] <= 1
                      /\ opened'[t][j] = 1 =>
                           flag'[t][j] \/ \E d \in Clients : pc'[d] = "flag" /\ sysOf'[d] = t /\ kind'[d] = j
    BY DEF Opening
  <2> HIDE DEF s, k
  <2>3. CASE t = s /\ j = k
    BY <1>1, <1>2, <1>3, <1>4, <2>1, <2>2, <2>3
  <2>4. CASE t /= s \/ j /= k
    <3>1. flag'[t][j] = flag[t][j] /\ native'[t][j] = native[t][j] /\ opened'[t][j] = opened[t][j]
      BY <1>2, <1>3, <1>4, <2>4
    <3>2. ASSUME NEW d \in Clients, pc[d] = "flag", sysOf[d] = t, kind[d] = j
          PROVE  pc'[d] = "flag" /\ sysOf'[d] = t /\ kind'[d] = j
      BY <1>4, <2>2, <3>2
    <3> QED BY <1>4, <3>1, <3>2 DEF Opening
  <2> QED BY <2>3, <2>4
<1> QED BY <1>5, <1>6, <1>7, <1>8

LEMMA NativeInitFailsStep ==
  ASSUME IInv, NEW c \in Clients, NativeInitFails(c)
  PROVE  IInv'
<1> DEFINE s == sysOf[c]
           k == kind[c]
<1>1. s \in Systems /\ k \in Kinds
  BY DEF IInv, TypeOK, NativeInitFails
<1>2. /\ native' \in [Systems -> [Kinds -> {"null", "live", "dangling"}]]
      /\ \A t \in Systems : \A j \in Kinds : t /= s \/ j /= k => native'[t][j] = native[t][j]
  <2>1. native' = [native EXCEPT ![s][k] = "dangling"]
    BY DEF NativeInitFails
  <2>2. native \in [Systems -> [Kinds -> {"null", "live", "dangling"}]]
    BY DEF IInv, TypeOK
  <2> HIDE DEF s, k
  <2> QED BY <1>1, <2>1, <2>2, Updated
<1>3. /\ pc' = [pc EXCEPT ![c] = "thrown"]
      /\ lock' = [lock EXCEPT ![s] = NULL]
      /\ UNCHANGED <<instance, made, classLock, kind, sysOf, closing, closed, flag, opened>>
      /\ pc[c] = "native"
  BY DEF NativeInitFails, Leave, Goto, getting
<1> USE Names DEF IInv
<1>4. TypeOK'
  BY <1>1, <1>2, <1>3 DEF TypeOK
<1>5. Getting'
  BY <1>3 DEF TypeOK, Getting
<1>6. Holding'
  <2> SUFFICES ASSUME ~closed', NEW d \in Clients PROVE Held(d)'
    BY DEF Holding
  <2>0. Held(d) /\ Held(c)
    BY <1>3 DEF Holding, Held
  <2>1. CASE d = c
    BY <1>1, <1>2, <1>3, <2>0, <2>1 DEF TypeOK, Held
  <2>2. CASE d /= c
    <3>1. pc'[d] = pc[d] /\ sysOf'[d] = sysOf[d] /\ kind'[d] = kind[d]
      BY <1>3, <2>2 DEF TypeOK
    <3>2. pc[d] \in {"init", "native", "flag"} =>
            sysOf[d] \in Systems /\ kind[d] \in Kinds /\ sysOf[d] /= s
      BY <1>1, <1>3, <2>0, <2>2 DEF TypeOK, Held
    <3>3. pc[d] \in {"init", "native", "flag"} => lock'[sysOf[d]] = lock[sysOf[d]]
      BY <1>1, <1>3, <3>2 DEF TypeOK
    <3>4. pc[d] \in {"inited", "open"} => sysOf[d] \in Systems /\ kind[d] \in Kinds
      BY DEF TypeOK
    <3> QED BY <1>2, <1>3, <2>0, <3>1, <3>2, <3>3, <3>4 DEF Held
  <2> QED BY <2>1, <2>2
<1>7. Opening'
  <2>1. ~closed => ~flag[s][k]
    BY <1>1, <1>3 DEF Holding, Held
  <2>2. \A d \in Clients : pc[d] = "flag" => pc'[d] = "flag"
    BY <1>3 DEF TypeOK
  <2> QED BY <1>1, <1>2, <1>3, <2>1, <2>2 DEF Opening
<1> QED BY <1>4, <1>5, <1>6, <1>7

LEMMA SetFlagStep ==
  ASSUME IInv, NEW c \in Clients, SetFlag(c)
  PROVE  IInv'
<1> DEFINE s == sysOf[c]
           k == kind[c]
<1>1. s \in Systems /\ k \in Kinds
  BY DEF IInv, TypeOK, SetFlag
<1>2. /\ flag' \in [Systems -> [Kinds -> BOOLEAN]]
      /\ flag'[s][k]
      /\ \A t \in Systems : \A j \in Kinds : t /= s \/ j /= k => flag'[t][j] = flag[t][j]
  <2>1. PICK v \in BOOLEAN : v = TRUE
    OBVIOUS
  <2>2. flag' = [flag EXCEPT ![s][k] = v]
    BY <2>1, Zenon DEF SetFlag
  <2>3. flag \in [Systems -> [Kinds -> BOOLEAN]]
    BY DEF IInv, TypeOK
  <2> HIDE DEF s, k
  <2>4. flag'[s][k] = v
    BY ONLY <1>1, <2>2, <2>3, v \in BOOLEAN, Updated
  <2>5. flag' \in [Systems -> [Kinds -> BOOLEAN]]
    BY ONLY <1>1, <2>2, <2>3, v \in BOOLEAN, Updated
  <2>6. \A t \in Systems : \A j \in Kinds : t /= s \/ j /= k => flag'[t][j] = flag[t][j]
    BY ONLY <1>1, <2>2, <2>3, v \in BOOLEAN, Updated
  <2>7. flag'[s][k]
    BY ONLY <2>1, <2>4, Zenon
  <2> QED BY <2>5, <2>6, <2>7
<1>3. /\ pc' = [pc EXCEPT ![c] = "inited"]
      /\ lock' = [lock EXCEPT ![s] = NULL]
      /\ UNCHANGED <<instance, made, classLock, kind, sysOf, closing, closed, native, opened>>
      /\ pc[c] = "flag"
  BY DEF SetFlag, Leave, Goto, getting
<1> USE Names DEF IInv
<1>4. TypeOK'
  BY <1>1, <1>2, <1>3 DEF TypeOK
<1>5. Getting'
  BY <1>3 DEF TypeOK, Getting
<1>6. Holding'
  <2> SUFFICES ASSUME ~closed', NEW d \in Clients PROVE Held(d)'
    BY DEF Holding
  <2>0. Held(d) /\ Held(c)
    BY <1>3 DEF Holding, Held
  <2>1. CASE d = c
    BY <1>1, <1>2, <1>3, <2>0, <2>1 DEF TypeOK, Held
  <2>2. CASE d /= c
    <3>1. pc'[d] = pc[d] /\ sysOf'[d] = sysOf[d] /\ kind'[d] = kind[d]
      BY <1>3, <2>2 DEF TypeOK
    <3>2. pc[d] \in {"init", "native", "flag"} =>
            sysOf[d] \in Systems /\ kind[d] \in Kinds /\ sysOf[d] /= s
      BY <1>1, <1>3, <2>0, <2>2 DEF TypeOK, Held
    <3>3. pc[d] \in {"init", "native", "flag"} => lock'[sysOf[d]] = lock[sysOf[d]]
      BY <1>1, <1>3, <3>2 DEF TypeOK
    <3>4. pc[d] \in {"inited", "open"} => sysOf[d] \in Systems /\ kind[d] \in Kinds
      BY DEF TypeOK
    <3> QED BY <1>2, <1>3, <2>0, <3>1, <3>2, <3>3, <3>4 DEF Held
  <2> QED BY <2>1, <2>2
<1>7. Opening'
  <2>1. ~closed => native[s][k] = "live"
    BY <1>3 DEF Holding, Held
  <2>2. \A d \in Clients : d /= c /\ pc[d] = "flag" => pc'[d] = "flag"
    BY <1>3 DEF TypeOK
  <2> SUFFICES ASSUME ~closed', NEW t \in Systems, NEW j \in Kinds
               PROVE  /\ flag'[t][j] => native'[t][j] = "live"
                      /\ opened'[t][j] <= 1
                      /\ opened'[t][j] = 1 =>
                           flag'[t][j] \/ \E d \in Clients : pc'[d] = "flag" /\ sysOf'[d] = t /\ kind'[d] = j
    BY DEF Opening
  <2>3. CASE t = s /\ j = k
    BY <1>1, <1>2, <1>3, <2>1, <2>3 DEF Opening
  <2>4. CASE t /= s \/ j /= k
    <3>1. flag'[t][j] = flag[t][j]
      BY <1>2, <2>4
    <3> QED BY <1>3, <2>2, <2>4, <3>1 DEF Opening
  <2> QED BY <2>3, <2>4
<1> QED BY <1>4, <1>5, <1>6, <1>7

\* The rest of a client's life touches no system.
LEMMA LifeStep ==
  ASSUME IInv, NEW c \in Clients,
         Open(c) \/ OpenFails(c) \/ FinalizeOpen(c) \/ FinalizeThrown(c) \/ Renew(c)
  PROVE  IInv'
<1> USE Names DEF IInv, getting, still, system
<1>1. TypeOK'
  BY DEF TypeOK, Open, OpenFails, FinalizeOpen, FinalizeThrown, Renew, Goto
<1>2. Getting'
  <2>1. UNCHANGED <<instance, made, classLock, closing, closed>>
    BY DEF Open, OpenFails, FinalizeOpen, FinalizeThrown, Renew
  <2>2. \A d \in Clients : pc'[d] \in {"get", "make"} => pc'[d] = pc[d]
    BY DEF TypeOK, Open, OpenFails, FinalizeOpen, FinalizeThrown, Renew, Goto
  <2>3. \A d \in Clients : sysOf'[d] = sysOf[d] \/ sysOf'[d] = NULL
    BY DEF TypeOK, Open, OpenFails, FinalizeOpen, FinalizeThrown, Renew
  <2> QED BY <2>1, <2>2, <2>3 DEF Getting
<1>3. Holding'
  BY DEF TypeOK, Holding, Held, Open, OpenFails, FinalizeOpen, FinalizeThrown, Renew, Goto
<1>4. Opening'
  <2>1. UNCHANGED <<flag, native, opened, kind, closed>>
    BY DEF Open, OpenFails, FinalizeOpen, FinalizeThrown, Renew
  <2>2. \A d \in Clients : pc[d] = "flag" => pc'[d] = "flag" /\ sysOf'[d] = sysOf[d]
    BY DEF TypeOK, Open, OpenFails, FinalizeOpen, FinalizeThrown, Renew, Goto
  <2> QED BY <2>1, <2>2 DEF Opening
<1> QED BY <1>1, <1>2, <1>3, <1>4

LEMMA CloseStep == IInv /\ (EnterClose \/ Close) => IInv'
<1> SUFFICES ASSUME IInv, EnterClose \/ Close PROVE IInv'
  OBVIOUS
<1> USE Names DEF IInv
<1>1. closed'
  BY DEF EnterClose, Close, NativeClose, DeleteSystem, Getting
<1>2. TypeOK'
  <2>1. CASE EnterClose
    BY <2>1 DEF TypeOK, EnterClose
  <2>2. CASE NativeClose
    <3>1. [k \in Kinds |-> "dangling"] \in [Kinds -> {"null", "live", "dangling"}]
      OBVIOUS
    <3> QED BY <2>2, <3>1 DEF TypeOK, NativeClose
  <2>3. CASE DeleteSystem
    BY <2>3 DEF TypeOK, DeleteSystem
  <2> QED BY <2>1, <2>2, <2>3 DEF Close
<1> QED BY <1>1, <1>2 DEF Getting, Holding, Held, Opening

LEMMA NextInv == IInv /\ [Next]_vars => IInv'
<1> SUFFICES ASSUME IInv, [Next]_vars PROVE IInv'
  OBVIOUS
<1>1. CASE UNCHANGED vars
  BY <1>1 DEF vars, IInv, TypeOK, Getting, Holding, Held, Opening
<1>2. ASSUME NEW c \in Clients, Constructor(c) PROVE IInv'
  BY <1>2, GetStep, MonitorStep, NativeInitStep, NativeInitFailsStep, SetFlagStep, LifeStep
     DEF Constructor
<1>3. ASSUME NEW c \in Clients, FinalizeOpen(c) \/ FinalizeThrown(c) \/ Renew(c) PROVE IInv'
  BY <1>3, LifeStep
<1>4. CASE EnterClose \/ Close
  BY <1>4, CloseStep
<1> QED BY <1>1, <1>2, <1>3, <1>4 DEF Next

-----------------------------------------------------------------------------
\* The state of the system, its monitors and its clients has its types.
THEOREM TypeCorrect == Spec => []TypeOK
<1>1. IInv => TypeOK
  BY DEF IInv
<1> QED BY <1>1, InitInv, NextInv, PTL DEF Spec

\* Until the system is closed all clients have the same one.
THEOREM AllShareOne == Spec => []SharedSystem
<1>1. IInv => SharedSystem
  BY DEF IInv, Getting, SharedSystem
<1> QED BY <1>1, InitInv, NextInv, PTL DEF Spec

\* Until it is closed no audio system is opened a second time.
THEOREM AlwaysOpenedOnce == Spec => []OpenedOnce
<1>1. IInv => OpenedOnce
  BY DEF IInv, Opening, OpenedOnce
<1> QED BY <1>1, InitInv, NextInv, PTL DEF Spec

\* Until it is closed a client opens on an audio system that is there.
THEOREM AlwaysOnLiveSystem == Spec => []OpensOnLiveSystem
<1>1. IInv => OpensOnLiveSystem
  <2> SUFFICES ASSUME IInv, ~closed, NEW c \in Clients, pc[c] \in {"inited", "open"}
               PROVE  native[sysOf[c]][kind[c]] = "live"
    BY DEF OpensOnLiveSystem
  <2>1. sysOf[c] \in Systems /\ kind[c] \in Kinds
    BY DEF IInv, TypeOK
  <2> QED BY <2>1 DEF IInv, Holding, Held, Opening
<1> QED BY <1>1, InitInv, NextInv, PTL DEF Spec

\* The path to the constructors through the static initialisers only delays them: the
\* system behind it is this one, so that all of the above holds for it too.
THEOREM StartupImplementsSystem == StartupSpec => Spec
<1>1. StartupInit => Init
  BY DEF StartupInit
<1>2. [StartupNext]_startupVars => [Next]_vars
  <2>1. StartupNext => Next \/ UNCHANGED vars
    BY DEF StartupNext
  <2>2. UNCHANGED startupVars => UNCHANGED vars
    BY DEF startupVars
  <2> QED BY <2>1, <2>2
<1> QED BY <1>1, <1>2, PTL DEF StartupSpec, Spec

-----------------------------------------------------------------------------
(* That no call waits for ever for a monitor: the part of CallsReturn that  *)
(* is an invariant.  Unlike IInv, this one survives close().                *)

\* Who holds which monitor, and which instance there is, whether or not close() has been called.
Monitors ==
  /\ \A c \in Clients : pc[c] \in {"get", "make"} <=> classLock = c
  /\ \A c \in Clients : \A s \in Systems :
       lock[s] = c <=> pc[c] \in {"init", "native", "flag"} /\ sysOf[c] = s
  /\ \A s \in Systems : lock[s] = Closer <=> closing /= "idle" /\ s = instance
  /\ (closing /= "idle" => instance \in Systems /\ instance < MaxSystems)
  /\ \A c \in Clients : pc[c] = "make" => instance = NULL
  /\ IF instance = NULL THEN made < MaxSystems ELSE instance = made

\* The guards of the next step of a constructor, and of close().
CanGoOn(c) ==
  \/ pc[c] \in {"get", "init", "native", "flag", "inited"}
  \/ pc[c] = "make" /\ made < MaxSystems
  \/ pc[c] = "got" /\ lock[sysOf[c]] = NULL
CloseCanGoOn == closing = "entered" \/ (closing = "freed" /\ classLock = NULL)

\* Whatever calls are under way, close() among them, one of them can take its next step: close()
\* alone waits for a monitor while it holds another, and who holds that one waits for none.
NeverStuck ==
  (\E c \in Clients : Constructing(c)) \/ closing /= "idle" =>
    (\E c \in Clients : CanGoOn(c)) \/ CloseCanGoOn

\* At the start every monitor is free.
LEMMA InitMonitors == Init => Monitors
  BY SystemAssumption DEF Init, Monitors, Systems

\* getSystem takes and leaves the monitor of the class.
LEMMA MonitorsGet ==
  ASSUME TypeOK, Monitors, NEW c \in Clients,
         EnterGetSystem(c) \/ Got(c) \/ FindNone(c) \/ Make(c)
  PROVE  Monitors'
<1> USE Names DEF TypeOK, Monitors, Goto, system
<1>1. CASE EnterGetSystem(c)
  BY <1>1 DEF EnterGetSystem
<1>2. CASE Got(c)
  BY <1>2 DEF Got, GotWith
<1>3. CASE FindNone(c)
  BY <1>3 DEF FindNone
<1>4. CASE Make(c)
  BY <1>4 DEF Make, Systems
<1> QED BY <1>1, <1>2, <1>3, <1>4

\* initOpenSL and initLoopback take and leave the monitor of a system.
LEMMA MonitorsInit ==
  ASSUME TypeOK, Monitors, NEW c \in Clients,
         \/ EnterInit(c) \/ AlreadyInit(c) \/ NotYetInit(c)
         \/ NativeInit(c) \/ NativeInitFails(c) \/ SetFlag(c)
  PROVE  Monitors'
<1> DEFINE locked == {"init", "native", "flag"}
<1>1. /\ pc[c] \in {"got", "init", "native", "flag"} /\ sysOf[c] \in Systems
      /\ UNCHANGED <<instance, made, classLock, sysOf, closing>>
      /\ \E l \in {"init", "native", "flag", "inited", "thrown"} : pc' = [pc EXCEPT ![c] = l]
  BY DEF TypeOK, EnterInit, AlreadyInit, NotYetInit, NativeInit, NativeInitFails, SetFlag, Leave, Goto, getting
<1>2. /\ pc'[c] \notin {"get", "make"} /\ \A d \in Clients : d /= c => pc'[d] = pc[d]
  BY <1>1 DEF TypeOK
<1>3. \/ pc[c] \in locked /\ pc'[c] \in locked /\ lock' = lock
      \/ /\ pc[c] \notin locked /\ pc'[c] \in locked /\ lock[sysOf[c]] = NULL
         /\ lock' = [lock EXCEPT ![sysOf[c]] = c]
      \/ /\ pc[c] \in locked /\ pc'[c] \notin locked /\ lock' = [lock EXCEPT ![sysOf[c]] = NULL]
  BY DEF TypeOK, EnterInit, AlreadyInit, NotYetInit, NativeInit, NativeInitFails, SetFlag, Leave, Goto
<1>4. lock \in [Systems -> Clients \cup {Closer, NULL}]
  BY DEF TypeOK
<1>5. \A d \in Clients : \A s \in Systems : lock'[s] = d <=> pc'[d] \in locked /\ sysOf[d] = s
  <2>1. \A d \in Clients : \A s \in Systems : lock[s] = d <=> pc[d] \in locked /\ sysOf[d] = s
    BY DEF Monitors
  <2> QED BY ONLY <1>1, <1>2, <1>3, <1>4, <2>1, Names
<1>6. \A s \in Systems : lock'[s] = Closer <=> closing /= "idle" /\ s = instance
  <2>1. \A s \in Systems : lock[s] = Closer <=> closing /= "idle" /\ s = instance
    BY DEF Monitors
  <2>2. lock[sysOf[c]] /= Closer
    <3>1. pc[c] \in locked => lock[sysOf[c]] = c
      BY <1>1 DEF Monitors
    <3> QED BY <1>3, <3>1, Names, SystemAssumption
  <2>3. \A s \in Systems : lock'[s] = Closer <=> lock[s] = Closer
    BY ONLY <1>1, <1>3, <1>4, <2>2, Names, SystemAssumption
  <2> QED BY <2>1, <2>3
<1> QED BY <1>1, <1>2, <1>5, <1>6 DEF Monitors

\* Opening and finalizing a client takes none.
LEMMA MonitorsUse ==
  ASSUME TypeOK, Monitors, NEW c \in Clients,
         Open(c) \/ OpenFails(c) \/ FinalizeOpen(c) \/ FinalizeThrown(c) \/ Renew(c)
  PROVE  Monitors'
<1> USE Names DEF TypeOK, Monitors, Goto, getting, still, system
<1>1. CASE Open(c) \/ OpenFails(c)
  BY <1>1 DEF Open, OpenFails
<1>2. CASE FinalizeOpen(c) \/ FinalizeThrown(c)
  BY <1>2 DEF FinalizeOpen, FinalizeThrown
<1>3. CASE Renew(c)
  BY <1>3 DEF Renew
<1> QED BY <1>1, <1>2, <1>3

\* close() takes a system's monitor, and that of the class for its last step.
LEMMA MonitorsClose ==
  ASSUME TypeOK, Monitors, EnterClose \/ NativeClose \/ DeleteSystem
  PROVE  Monitors'
<1> USE Names, SystemAssumption DEF TypeOK, Monitors
<1>1. CASE EnterClose
  BY <1>1 DEF EnterClose, Systems
<1>2. CASE NativeClose
  BY <1>2 DEF NativeClose
<1>3. CASE DeleteSystem
  BY <1>3 DEF DeleteSystem, Systems
<1> QED BY <1>1, <1>2, <1>3

\* The monitors of QuietSystem never make each other's holders wait, before and after a close().
THEOREM MonitorsNeverStuck == Spec => []NeverStuck
<1>1. TypeOK /\ Monitors /\ [Next]_vars => Monitors'
  <2> SUFFICES ASSUME TypeOK, Monitors, [Next]_vars PROVE Monitors'
    OBVIOUS
  <2>1. CASE UNCHANGED vars
    BY <2>1 DEF vars, Monitors
  <2>2. CASE Next
    BY <2>2, MonitorsGet, MonitorsInit, MonitorsUse, MonitorsClose DEF Next, Constructor, Close
  <2> QED BY <2>1, <2>2
<1>2. TypeOK /\ Monitors => NeverStuck
  <2> SUFFICES ASSUME TypeOK, Monitors, ~CloseCanGoOn, \A c \in Clients : ~CanGoOn(c)
               PROVE  closing = "idle" /\ \A c \in Clients : ~Constructing(c)
    BY DEF NeverStuck
  <2>1. \A c \in Clients : pc[c] \notin {"get", "make", "init", "native", "flag", "inited"}
    BY DEF CanGoOn, Monitors
  <2>2. classLock = NULL
    BY <2>1 DEF Monitors, TypeOK
  <2>3. closing = "idle"
    BY <2>2 DEF TypeOK, CloseCanGoOn
  <2>4. ASSUME NEW c \in Clients, pc[c] = "got" PROVE FALSE
    <3>1. sysOf[c] \in Systems
      BY <2>4 DEF TypeOK
    <3>2. lock[sysOf[c]] \in Clients \cup {Closer, NULL}
      BY <3>1 DEF TypeOK
    <3>3. lock[sysOf[c]] \notin Clients
      BY <2>1, <3>1 DEF Monitors
    <3>4. lock[sysOf[c]] /= Closer
      BY <2>3, <3>1 DEF Monitors
    <3> QED BY <2>4, <3>2, <3>3, <3>4 DEF CanGoOn
  <2> QED BY <2>1, <2>3, <2>4 DEF Constructing
<1> QED BY InitMonitors, TypeCorrect, <1>1, <1>2, PTL DEF Spec

-----------------------------------------------------------------------------
(* The static initialisers.  A thread that is alone in its first use of a   *)
(* class finds, of the classes of JNI_OnLoad, those behind it ready and     *)
(* those before it untouched, so that each is initialised once and lwip     *)
(* with the first that asks for it, while the library is being loaded.      *)

\* Who is in the middle of its first use of a class.
Booting(t) == where[t] \notin {"out", "booted", "failed"}

\* Before the first use of a class, and once it is over.
Untouched ==
  /\ ~has_init /\ ~has_lwip_init /\ library = "absent" /\ at = 1 /\ lwip_inits = 0
  /\ \A d \in Boot!Classes : state[d] = "cold" /\ owner[d] = NULL
Complete ==
  /\ has_lwip_init /\ library = "loaded" /\ lwip_inits = 1
  /\ \A d \in Boot!Classes : state[d] = "ready"

\* The class JNI_OnLoad is about when the thread initialises it in the middle of its own.
AtOther(t) == at \in 1..4 /\ Boot!Cached[at] /= mine[t] /\ owner[Boot!Cached[at]] = t

\* Of the classes other than the one a thread uses, JNI_OnLoad has initialised those
\* before at, and none after it.
Behind(t) ==
  \A n \in 1..4 : Boot!Cached[n] /= mine[t] =>
    /\ n < at => state[Boot!Cached[n]] = "ready"
    /\ n > at => state[Boot!Cached[n]] = "cold"
    /\ owner[Boot!Cached[n]] = t => n = at /\ state[Boot!Cached[n]] = "busy"

\* How far a thread that is alone has got.
Stage(t) ==
  /\ where[t] \in {"init", "set", "load"} =>
       /\ library = "absent" /\ at = 1 /\ ~has_lwip_init /\ ~AtOther(t)
       /\ where[t] /= "load" => ~has_init
       /\ Boot!Cached[1] /= mine[t] => state[Boot!Cached[1]] = "cold"
  /\ where[t] = "onload" =>
       /\ library = "loading" /\ ~AtOther(t)
       /\ at <= 4 /\ Boot!Cached[at] /= mine[t] => state[Boot!Cached[at]] \in {"cold", "ready"}
  /\ where[t] = "lwip" => IF at <= 4 THEN library = "loading" /\ AtOther(t) ELSE library = "loaded"
  /\ where[t] \in {"lwip set", "lwip native"} =>
       library = "loading" /\ AtOther(t) /\ (has_lwip_init <=> where[t] = "lwip native")

Alone(t) ==
  /\ state[mine[t]] = "busy" /\ owner[mine[t]] = t
  /\ Stage(t) /\ Behind(t)
  /\ lwip_inits = IF has_lwip_init /\ where[t] /= "lwip native" THEN 1 ELSE 0
  /\ \A d \in Boot!LwipClasses : d /= mine[t] /\ state[d] = "ready" => has_lwip_init

BootTypeOK ==
  /\ state \in [Boot!Classes -> {"cold", "busy", "ready", "broken"}]
  /\ owner \in [Boot!Classes -> Clients \cup {NULL}]
  /\ where \in [Clients -> {"out", "init", "set", "load", "onload", "lwip", "lwip set",
                            "lwip native", "booted", "failed"}]
  /\ mine \in [Clients -> Boot!Classes]
  /\ at \in 1..5 /\ lwip_inits \in Nat

BootInv ==
  /\ BootTypeOK
  /\ ~contended =>
       /\ \A t, u \in Clients : Booting(t) /\ Booting(u) => t = u
       /\ \A t \in Clients : Booting(t) => Alone(t)
       /\ \A t \in Clients : where[t] /= "failed"
       /\ (\A t \in Clients : ~Booting(t)) => Untouched \/ Complete
       /\ (\E t \in Clients : where[t] = "booted") => Complete

\* The classes JNI_OnLoad initialises, by number and by name.
LEMMA ClassNames ==
  /\ Boot!Cached[1] = "QuietSystem" /\ Boot!Cached[2] = "InetAddress"
  /\ Boot!Cached[3] = "BaseFrameTransmitter" /\ Boot!Cached[4] = "BaseNetworkInterface"
  /\ Len(Boot!Cached) = 4 /\ \A n \in 1..4 : Boot!Cached[n] \in Boot!Classes
  /\ Boot!Classes = {"QuietSystem", "InetAddress", "BaseFrameTransmitter", "BaseNetworkInterface"}
  /\ Boot!LwipClasses = {"InetAddress", "BaseNetworkInterface"}
<1>1. /\ Boot!Cached[1] = "QuietSystem" /\ Boot!Cached[2] = "InetAddress"
      /\ Boot!Cached[3] = "BaseFrameTransmitter" /\ Boot!Cached[4] = "BaseNetworkInterface"
      /\ Len(Boot!Cached) = 4
  BY DEF Boot!Cached
<1>2. 1..4 = {1, 2, 3, 4}
  OBVIOUS
<1> QED BY <1>1, <1>2 DEF Boot!Classes, Boot!LwipClasses

\* While JNI_OnLoad has not gone past the last of them, it is at a class.
LEMMA CachedAt ==
  ASSUME at \in 1..5, at <= Len(Boot!Cached)
  PROVE  at \in 1..4 /\ Boot!Cached[at] \in Boot!Classes
<1>1. at \in 1..4
  BY ClassNames
<1> QED BY <1>1, ClassNames

\* Past the last of them it has done all four.
LEMMA CachedAll ==
  ASSUME at \in 1..5, at > Len(Boot!Cached)
  PROVE  at = 5
<1>1. Len(Boot!Cached) = 4
  BY ClassNames
<1> QED BY ONLY <1>1, at \in 1..5, at > Len(Boot!Cached)

\* At the start no class has been used.
LEMMA InitBoot == Boot!InitStart => BootInv
<1> SUFFICES ASSUME Boot!InitStart PROVE BootInv
  OBVIOUS
<1>1. BootTypeOK
  BY ClassNames DEF Boot!InitStart, BootTypeOK
<1>2. Untouched
  BY DEF Boot!InitStart, Untouched
<1>3. \A t \in Clients : where[t] = "out"
  BY DEF Boot!InitStart
<1> QED BY <1>1, <1>2, <1>3 DEF BootInv, Booting

\* A step keeps the types, contended or not.
LEMMA BootTyped ==
  ASSUME BootTypeOK, NEW t \in Clients, Boot!InitStep(t)
  PROVE  BootTypeOK'
<1> USE DEF BootTypeOK, Boot!Goes
<1>0. Boot!Class(t) \in Boot!Classes
  BY CachedAt DEF Boot!Class, Boot!Nested
<1>1. ASSUME NEW c \in Boot!Classes, Boot!Use(t, c) PROVE BootTypeOK'
  BY <1>1 DEF Boot!Use, Boot!Claim, Boot!flags, Boot!lib
<1>2. CASE Boot!UseBroken(t) \/ Boot!AlreadyInit(t) \/ Boot!NotYetInit(t) \/ Boot!SetInit(t)
  BY <1>2 DEF Boot!UseBroken, Boot!AlreadyInit, Boot!NotYetInit, Boot!SetInit, Boot!flags, Boot!lib, Boot!classVars
<1>3. CASE Boot!Load(t) \/ Boot!Loaded(t) \/ Boot!OnLoadFails(t) \/ Boot!OnLoadReturns(t)
  BY <1>3 DEF Boot!Load, Boot!Loaded, Boot!OnLoadFails, Boot!OnLoadReturns, Boot!flags, Boot!lib, Boot!classVars
<1>9. CASE Boot!OnLoadSkips(t)
  <2>1. at' \in 1..5
    <3>1. at \in 1..5 /\ at <= Len(Boot!Cached) /\ at' = at + 1
      BY <1>9 DEF Boot!OnLoadSkips, Boot!OnLoad
    <3>2. at \in 1..4
      BY <3>1, CachedAt
    <3> QED BY ONLY <3>1, <3>2
  <2> QED BY <1>9, <2>1 DEF Boot!OnLoadSkips, Boot!classVars
<1>4. CASE Boot!OnLoadClaims(t)
  <2>1. Boot!Cached[at] \in Boot!Classes
    BY <1>4, CachedAt DEF Boot!OnLoadClaims, Boot!OnLoad
  <2> QED BY <1>4, <2>1 DEF Boot!OnLoadClaims, Boot!Claim, Boot!flags, Boot!lib
<1>5. CASE Boot!NoLwip(t) \/ Boot!NativeLWIPInit(t)
  <2>1. UNCHANGED <<mine, at>> /\ lwip_inits' \in Nat
    <3>1. UNCHANGED <<mine, at>> /\ (lwip_inits' = lwip_inits \/ lwip_inits' = lwip_inits + 1)
      BY <1>5 DEF Boot!NoLwip, Boot!NativeLWIPInit, Boot!lib
    <3>2. lwip_inits \in Nat
      OBVIOUS
    <3> QED BY ONLY <3>1, <3>2
  <2>2. /\ state' = [state EXCEPT ![Boot!Class(t)] = "ready"]
        /\ owner' = [owner EXCEPT ![Boot!Class(t)] = NULL]
        /\ \/ where' = [where EXCEPT ![t] = "onload"]
           \/ where' = [where EXCEPT ![t] = "out"]
    BY <1>5 DEF Boot!NoLwip, Boot!NativeLWIPInit, Boot!Finish, Boot!Settle
  <2> QED BY <1>0, <2>1, <2>2
<1>6. CASE Boot!NotYetLwip(t) \/ Boot!SetLwip(t)
  BY <1>6 DEF Boot!NotYetLwip, Boot!SetLwip, Boot!flags, Boot!lib, Boot!classVars
<1>7. CASE Boot!NativeMissing(t)
  BY <1>0, <1>7 DEF Boot!NativeMissing, Boot!Settle, Boot!flags, Boot!lib
<1>8. CASE Boot!Boots(t) \/ Boot!BootsEarly(t)
  BY <1>8 DEF Boot!Boots, Boot!BootsEarly, Boot!flags, Boot!lib, Boot!classVars
<1> QED BY <1>1, <1>2, <1>3, <1>4, <1>5, <1>6, <1>7, <1>8, <1>9 DEF Boot!InitStep

\* No class is on the list twice.
LEMMA CachedOnce == \A m, n \in 1..4 : Boot!Cached[m] = Boot!Cached[n] => m = n
<1>1. 1..4 = {1, 2, 3, 4}
  OBVIOUS
<1> QED BY <1>1, ClassNames

\* Every class modelled is on the list.
LEMMA ClassIsCached == \A d \in Boot!Classes : \E n \in 1..4 : Boot!Cached[n] = d
<1>1. 1 \in 1..4 /\ 2 \in 1..4 /\ 3 \in 1..4 /\ 4 \in 1..4
  OBVIOUS
<1> QED BY <1>1, ClassNames

\* A thread that is alone finds every class untouched, ready or its own.
LEMMA NoneBroken ==
  ASSUME BootTypeOK, NEW t \in Clients, Booting(t), Alone(t)
  PROVE  \A d \in Boot!Classes : state[d] /= "broken"
<1> SUFFICES ASSUME NEW d \in Boot!Classes PROVE state[d] /= "broken"
  OBVIOUS
<1>1. PICK n \in 1..4 : Boot!Cached[n] = d
  BY ClassIsCached
<1>2. CASE d = mine[t]
  BY <1>2 DEF Alone
<1>3. CASE d /= mine[t] /\ n /= at
  <2>1. at \in 1..5
    BY DEF BootTypeOK
  <2>2. n < at \/ n > at
    BY <1>3, <2>1
  <2>3. n < at => state[d] = "ready"
    BY <1>1, <1>3 DEF Alone, Behind
  <2>4. n > at => state[d] = "cold"
    BY <1>1, <1>3 DEF Alone, Behind
  <2> QED BY <2>2, <2>3, <2>4
<1>4. CASE d /= mine[t] /\ n = at
  <2>1. where[t] \in {"init", "set", "load", "onload", "lwip", "lwip set", "lwip native"}
    BY DEF BootTypeOK, Booting
  <2>2. AtOther(t) => state[d] = "busy"
    BY <1>1, <1>4 DEF Alone, Behind, AtOther
  <2>3. at <= 4
    BY <1>4
  <2> QED BY <1>1, <1>4, <2>1, <2>2, <2>3 DEF Alone, Stage
<1> QED BY <1>2, <1>3, <1>4

\* JNI_OnLoad cannot end with lwip not initialised.
LEMMA LwipByThen ==
  ASSUME BootTypeOK, NEW t \in Clients, Alone(t), at = 5
  PROVE  has_lwip_init /\ \A d \in Boot!Classes : d /= mine[t] => state[d] = "ready"
<1>1. \A d \in Boot!Classes : d /= mine[t] => state[d] = "ready"
  <2> SUFFICES ASSUME NEW d \in Boot!Classes, d /= mine[t] PROVE state[d] = "ready"
    OBVIOUS
  <2>1. PICK n \in 1..4 : Boot!Cached[n] = d
    BY ClassIsCached
  <2>2. n < at
    BY <2>1
  <2> QED BY <2>1, <2>2 DEF Alone, Behind
<1>2. PICK d \in Boot!LwipClasses : d /= mine[t]
  BY ClassNames
<1>3. d \in Boot!Classes
  BY <1>2, ClassNames
<1> QED BY <1>1, <1>2, <1>3 DEF Alone

\* init(): the thread goes on, alone, to the library and back from it.
LEMMA BeforeOnLoad ==
  ASSUME BootTypeOK, NEW t \in Clients, Alone(t),
         \/ Boot!AlreadyInit(t) \/ Boot!NotYetInit(t) \/ Boot!SetInit(t)
         \/ Boot!Load(t) \/ Boot!Loaded(t) \/ Boot!OnLoadReturns(t)
  PROVE  Alone(t)' /\ Booting(t)'
<1>1. where \in [Clients -> {"out", "init", "set", "load", "onload", "lwip", "lwip set",
                            "lwip native", "booted", "failed"}] /\ at \in 1..5
  BY DEF BootTypeOK
<1> USE <1>1 DEF Alone, Stage, Behind, AtOther, Booting, Boot!Goes, Boot!flags, Boot!lib, Boot!classVars
<1>2. ~Boot!AlreadyInit(t) /\ ~Boot!Loaded(t)
  BY DEF Boot!AlreadyInit, Boot!Loaded
<1>3. CASE Boot!NotYetInit(t)
  BY <1>3 DEF Boot!NotYetInit
<1>4. CASE Boot!SetInit(t)
  BY <1>4 DEF Boot!SetInit
<1>5. CASE Boot!Load(t)
  BY <1>5 DEF Boot!Load
<1>6. CASE Boot!OnLoadReturns(t)
  <2>1. at > Len(Boot!Cached) /\ where[t] = "onload"
    BY <1>6 DEF Boot!OnLoadReturns
  <2>2. at = 5
    BY <1>1, <2>1, CachedAll
  <2>3. /\ library' = "loaded" /\ where' = [where EXCEPT ![t] = "lwip"]
        /\ UNCHANGED <<has_init, has_lwip_init, at, lwip_inits, state, owner, mine>>
    BY <1>6 DEF Boot!OnLoadReturns
  <2>4. where'[t] = "lwip"
    BY <1>1, <2>3
  <2>5. Stage(t)'
    <3>1. ~(at' <= 4)
      BY ONLY <2>2, <2>3
    <3> QED BY ONLY <2>3, <2>4, <3>1 DEF Stage
  <2>6. Behind(t)'
    BY ONLY Behind(t), <2>3 DEF Behind
  <2> QED BY ONLY Alone(t), <2>1, <2>3, <2>4, <2>5, <2>6 DEF Alone, Booting
<1> QED BY <1>2, <1>3, <1>4, <1>5, <1>6

\* JNI_OnLoad passes a class that is there or the thread's own, or begins on the next.
LEMMA OnLoadGoesOn ==
  ASSUME BootTypeOK, NEW t \in Clients, Alone(t),
         Boot!OnLoadSkips(t) \/ Boot!OnLoadClaims(t) \/ Boot!OnLoadFails(t)
  PROVE  Alone(t)' /\ Booting(t)'
<1> DEFINE c == Boot!Cached[at]
<1>1. /\ where[t] = "onload" /\ at \in 1..4 /\ c \in Boot!Classes
      /\ library = "loading" /\ ~AtOther(t)
      /\ c /= mine[t] => owner[c] /= t /\ state[c] \in {"cold", "ready"}
      /\ state[mine[t]] = "busy" /\ owner[mine[t]] = t
  <2>1. where[t] = "onload" /\ at <= Len(Boot!Cached) /\ at \in 1..5
    BY DEF BootTypeOK, Boot!OnLoadSkips, Boot!OnLoadClaims, Boot!OnLoadFails, Boot!OnLoad
  <2>2. at \in 1..4 /\ c \in Boot!Classes
    BY <2>1, CachedAt
  <2>3. at <= 4
    BY <2>2
  <2> QED BY <2>1, <2>2, <2>3 DEF Alone, Stage, AtOther
<1>2. /\ where \in [Clients -> {"out", "init", "set", "load", "onload", "lwip", "lwip set",
                            "lwip native", "booted", "failed"}]
      /\ state \in [Boot!Classes -> {"cold", "busy", "ready", "broken"}]
      /\ owner \in [Boot!Classes -> Clients \cup {NULL}]
      /\ mine[t] \in Boot!Classes
  BY DEF BootTypeOK
<1>3. ~Boot!OnLoadFails(t)
  BY <1>1 DEF Boot!OnLoadFails
<1>4. \A n \in 1..4 : Boot!Cached[n] \in Boot!Classes /\ (Boot!Cached[n] = c => n = at)
  BY <1>1, CachedOnce, ClassNames
<1>5. CASE Boot!OnLoadSkips(t)
  <2>1. /\ at' = at + 1
        /\ UNCHANGED <<has_init, has_lwip_init, library, lwip_inits, state, owner, where, mine>>
        /\ c = mine[t] \/ state[c] = "ready"
    BY <1>1, <1>5 DEF Boot!OnLoadSkips, Boot!flags, Boot!classVars
  <2>2. \A n \in 1..4 : Boot!Cached[n] /= mine[t] =>
          /\ n < at + 1 => state[Boot!Cached[n]] = "ready"
          /\ n >= at + 1 => state[Boot!Cached[n]] = "cold"
          /\ owner[Boot!Cached[n]] /= t
    <3> SUFFICES ASSUME NEW n \in 1..4, Boot!Cached[n] /= mine[t]
                 PROVE  /\ n < at + 1 => state[Boot!Cached[n]] = "ready"
                        /\ n >= at + 1 => state[Boot!Cached[n]] = "cold"
                        /\ owner[Boot!Cached[n]] /= t
      OBVIOUS
    <3>1. /\ n < at => state[Boot!Cached[n]] = "ready"
          /\ n > at => state[Boot!Cached[n]] = "cold"
          /\ owner[Boot!Cached[n]] = t => n = at
      BY DEF Alone, Behind
    <3>2. n = at => state[Boot!Cached[n]] = "ready" /\ owner[Boot!Cached[n]] /= t
      BY <1>1, <2>1
    <3>3. n < at \/ n = at \/ n > at
      BY <1>1
    <3>4. (n < at + 1 <=> n < at \/ n = at) /\ (n >= at + 1 <=> n > at)
      BY <1>1
    <3> QED BY <3>1, <3>2, <3>3, <3>4
  <2>3. ~AtOther(t)'
    BY <2>1, <2>2 DEF AtOther
  <2>4. at' <= 4 => at + 1 \in 1..4 /\ at' >= at + 1
    BY <1>1, <2>1
  <2>5. Stage(t)'
    BY <1>1, <2>1, <2>2, <2>3, <2>4 DEF Stage
  <2>6. Behind(t)'
    BY <1>1, <2>1, <2>2 DEF Behind
  <2> QED BY <1>1, <2>1, <2>5, <2>6 DEF Alone, Booting
<1>6. CASE Boot!OnLoadClaims(t)
  <2>1. /\ state[c] = "cold" /\ c /= mine[t]
        /\ state' = [state EXCEPT ![c] = "busy"] /\ owner' = [owner EXCEPT ![c] = t]
        /\ where' = [where EXCEPT ![t] = "lwip"]
        /\ UNCHANGED <<has_init, has_lwip_init, library, lwip_inits, at, mine>>
    BY <1>1, <1>6 DEF Boot!OnLoadClaims, Boot!Claim, Boot!Goes, Boot!flags, Boot!lib
  <2>2. /\ state'[c] = "busy" /\ owner'[c] = t /\ where'[t] = "lwip"
        /\ \A d \in Boot!Classes : d /= c => state'[d] = state[d] /\ owner'[d] = owner[d]
    BY <1>1, <1>2, <2>1
  <2>3. AtOther(t)'
    BY <1>1, <2>1, <2>2 DEF AtOther
  <2>4. Behind(t)'
    <3> SUFFICES ASSUME NEW n \in 1..4, Boot!Cached[n] /= mine[t]
                 PROVE  /\ n < at => state'[Boot!Cached[n]] = "ready"
                        /\ n > at => state'[Boot!Cached[n]] = "cold"
                        /\ owner'[Boot!Cached[n]] = t => n = at /\ state'[Boot!Cached[n]] = "busy"
      BY <2>1 DEF Behind
    <3>1. /\ n < at => state[Boot!Cached[n]] = "ready"
          /\ n > at => state[Boot!Cached[n]] = "cold"
          /\ owner[Boot!Cached[n]] = t => n = at
      BY DEF Alone, Behind
    <3>2. CASE n = at
      BY <1>1, <2>2, <3>2
    <3>3. CASE n /= at
      BY <1>4, <2>2, <3>1, <3>3
    <3> QED BY <3>2, <3>3
  <2>5. Stage(t)'
    <3>1. at' <= 4 /\ library' = "loading"
      BY ONLY <1>1, <2>1
    <3> QED BY ONLY <2>2, <2>3, <3>1 DEF Stage
  <2>6. state'[mine[t]] = "busy" /\ owner'[mine[t]] = t
    BY ONLY <1>1, <1>2, <2>1, <2>2
  <2>7. ASSUME NEW d \in Boot!LwipClasses, d /= mine[t], state'[d] = "ready"
        PROVE  has_lwip_init
    <3>1. d \in Boot!Classes
      BY ClassNames
    <3>2. state[d] = "ready"
      BY ONLY <2>2, <2>7, <3>1
    <3> QED BY <2>7, <3>2 DEF Alone
  <2>8. lwip_inits = IF has_lwip_init THEN 1 ELSE 0
    BY <1>1 DEF Alone
  <2> QED BY ONLY <2>1, <2>2, <2>4, <2>5, <2>6, <2>7, <2>8 DEF Alone, Booting
<1> QED BY <1>3, <1>5, <1>6

\* In JNI_OnLoad a static initialiser under way is that of the class it has got to.
LEMMA InNested ==
  ASSUME BootTypeOK, NEW t \in Clients, Alone(t), where[t] \in {"lwip", "lwip set", "lwip native"},
         at <= 4
  PROVE  /\ at \in 1..4 /\ Boot!Class(t) = Boot!Cached[at] /\ Boot!Nested(t)
         /\ Boot!Cached[at] \in Boot!Classes /\ Boot!Cached[at] /= mine[t]
         /\ owner[Boot!Cached[at]] = t /\ state[Boot!Cached[at]] = "busy" /\ library = "loading"
<1>1. AtOther(t) /\ library = "loading"
  BY DEF Alone, Stage
<1>2. at \in 1..4 /\ Boot!Cached[at] /= mine[t] /\ owner[Boot!Cached[at]] = t
  BY <1>1 DEF AtOther
<1>3. at <= Len(Boot!Cached) /\ Boot!Cached[at] \in Boot!Classes
  BY <1>2, ClassNames
<1>4. state[Boot!Cached[at]] = "busy"
  BY <1>2 DEF Alone, Behind
<1>5. Boot!Nested(t)
  BY <1>2, <1>3 DEF Boot!Nested
<1> QED BY <1>1, <1>2, <1>3, <1>4, <1>5 DEF Boot!Class

\* The steps of lwipInit() before the native call.
LEMMA LwipBegins ==
  ASSUME BootTypeOK, NEW t \in Clients, Alone(t), Boot!NotYetLwip(t) \/ Boot!SetLwip(t)
  PROVE  Alone(t)' /\ Booting(t)'
<1>1. where[t] \in {"lwip", "lwip set"}
  BY DEF Boot!NotYetLwip, Boot!SetLwip
<1>2. at \in 1..5 /\ where \in [Clients -> {"out", "init", "set", "load", "onload", "lwip", "lwip set",
                            "lwip native", "booted", "failed"}]
  BY DEF BootTypeOK
<1>3. at <= 4
  <2>1. CASE at = 5
    <3>1. has_lwip_init
      BY <2>1, LwipByThen
    <3>2. ~AtOther(t)
      BY <2>1 DEF AtOther
    <3>3. where[t] /= "lwip set"
      BY <3>2 DEF Alone, Stage
    <3> QED BY <3>1, <3>3 DEF Boot!NotYetLwip, Boot!SetLwip
  <2>2. CASE at /= 5
    <3>1. at \in 1..5
      BY <1>2
    <3> QED BY ONLY <2>2, <3>1
  <2> QED BY <2>1, <2>2
<1>4. /\ AtOther(t) /\ library = "loading" /\ at <= 4
      /\ where[t] = "lwip set" => ~has_lwip_init
  BY <1>1, <1>3 DEF Alone, Stage
<1>5. UNCHANGED <<library, at, lwip_inits, state, owner, mine>>
  BY DEF Boot!NotYetLwip, Boot!SetLwip, Boot!lib, Boot!classVars
<1>6. AtOther(t)' /\ Behind(t)'
  BY ONLY <1>4, <1>5, Alone(t) DEF Alone, AtOther, Behind
<1>7. CASE Boot!NotYetLwip(t)
  <2>1. /\ where[t] = "lwip" /\ ~has_lwip_init /\ where' = [where EXCEPT ![t] = "lwip set"]
        /\ has_lwip_init' = has_lwip_init
    BY <1>7 DEF Boot!NotYetLwip, Boot!Goes, Boot!flags
  <2>2. where'[t] = "lwip set"
    BY <1>2, <2>1
  <2>3. Stage(t)'
    BY ONLY <1>4, <1>5, <1>6, <2>1, <2>2 DEF Stage
  <2> QED BY ONLY Alone(t), <1>5, <1>6, <2>1, <2>2, <2>3 DEF Alone, Booting
<1>8. CASE Boot!SetLwip(t)
  <2>1. /\ where[t] = "lwip set" /\ where' = [where EXCEPT ![t] = "lwip native"]
        /\ has_lwip_init' = TRUE
    BY <1>8 DEF Boot!SetLwip, Boot!Goes
  <2>2. where'[t] = "lwip native"
    BY <1>2, <2>1
  <2>3. Stage(t)'
    BY ONLY <1>4, <1>5, <1>6, <2>1, <2>2 DEF Stage
  <2> QED BY ONLY Alone(t), <1>4, <1>5, <1>6, <2>1, <2>2, <2>3 DEF Alone, Booting
<1> QED BY <1>7, <1>8

\* A nested static initialiser returns to JNI_OnLoad, which will not initialise that class again.
LEMMA NestedFinishes ==
  ASSUME BootTypeOK, NEW t \in Clients, Alone(t), at <= 4, Boot!NoLwip(t) \/ Boot!NativeLWIPInit(t)
  PROVE  Alone(t)' /\ Booting(t)'
<1> DEFINE c == Boot!Cached[at]
<1>1. where[t] \in {"lwip", "lwip native"}
  BY DEF Boot!NoLwip, Boot!NativeLWIPInit
<1>2. /\ at \in 1..4 /\ Boot!Class(t) = c /\ Boot!Nested(t)
      /\ c \in Boot!Classes /\ c /= mine[t] /\ state[c] = "busy" /\ library = "loading"
  BY <1>1, InNested
<1>3. /\ state \in [Boot!Classes -> {"cold", "busy", "ready", "broken"}]
      /\ owner \in [Boot!Classes -> Clients \cup {NULL}]
      /\ where \in [Clients -> {"out", "init", "set", "load", "onload", "lwip", "lwip set",
                            "lwip native", "booted", "failed"}]
      /\ mine[t] \in Boot!Classes /\ NULL /= t
  BY SystemAssumption DEF BootTypeOK
<1>4. /\ state' = [state EXCEPT ![c] = "ready"] /\ owner' = [owner EXCEPT ![c] = NULL]
      /\ where' = [where EXCEPT ![t] = "onload"]
      /\ UNCHANGED <<has_lwip_init, library, at, mine>>
  BY <1>2 DEF Boot!NoLwip, Boot!NativeLWIPInit, Boot!Finish, Boot!Settle, Boot!Goes, Boot!flags, Boot!lib
<1>5. /\ state'[c] = "ready" /\ owner'[c] /= t /\ where'[t] = "onload"
      /\ \A d \in Boot!Classes : d /= c => state'[d] = state[d] /\ owner'[d] = owner[d]
  BY ONLY <1>2, <1>3, <1>4
<1>6. state'[mine'[t]] = "busy" /\ owner'[mine'[t]] = t
  BY <1>2, <1>3, <1>4, <1>5 DEF Alone
<1>7. \A n \in 1..4 : Boot!Cached[n] \in Boot!Classes /\ (Boot!Cached[n] = c => n = at)
  BY <1>2, CachedOnce, ClassNames
<1>8. Behind(t)'
  <2> SUFFICES ASSUME NEW n \in 1..4, Boot!Cached[n] /= mine[t]
               PROVE  /\ n < at => state'[Boot!Cached[n]] = "ready"
                      /\ n > at => state'[Boot!Cached[n]] = "cold"
                      /\ owner'[Boot!Cached[n]] = t => n = at /\ state'[Boot!Cached[n]] = "busy"
    BY <1>4 DEF Behind
  <2>1. /\ n < at => state[Boot!Cached[n]] = "ready"
        /\ n > at => state[Boot!Cached[n]] = "cold"
        /\ owner[Boot!Cached[n]] = t => n = at
    BY DEF Alone, Behind
  <2>2. CASE n = at
    BY <1>2, <1>5, <2>2
  <2>3. CASE n /= at
    BY <1>5, <1>7, <2>1, <2>3
  <2> QED BY <2>2, <2>3
<1>9. Stage(t)'
  <2>1. ~AtOther(t)'
    BY ONLY <1>4, <1>5 DEF AtOther
  <2>2. library' = "loading" /\ state'[Boot!Cached[at']] = "ready"
    BY ONLY <1>2, <1>4, <1>5
  <2> QED BY ONLY <1>5, <2>1, <2>2 DEF Stage
<1>10. /\ lwip_inits' = IF has_lwip_init THEN 1 ELSE 0
       /\ c \in Boot!LwipClasses => has_lwip_init
  <2>1. CASE Boot!NoLwip(t)
    <3>1. where[t] = "lwip" /\ lwip_inits' = lwip_inits /\ (c \in Boot!LwipClasses => has_lwip_init)
      BY <1>2, <2>1 DEF Boot!NoLwip, Boot!lib
    <3> QED BY <3>1 DEF Alone
  <2>2. CASE Boot!NativeLWIPInit(t)
    <3>1. where[t] = "lwip native" /\ lwip_inits' = lwip_inits + 1
      BY <2>2 DEF Boot!NativeLWIPInit
    <3>2. Stage(t) /\ lwip_inits = IF has_lwip_init /\ where[t] /= "lwip native" THEN 1 ELSE 0
      BY DEF Alone
    <3>3. has_lwip_init
      BY ONLY <3>1, <3>2 DEF Stage
    <3>4. ~(has_lwip_init /\ where[t] /= "lwip native")
      BY ONLY <3>1
    <3>5. lwip_inits = 0
      BY ONLY <3>2, <3>4
    <3>6. lwip_inits' = 0 + 1
      BY <3>1, <3>5, Zenon
    <3>7. 0 + 1 = 1
      OBVIOUS
    <3> QED BY ONLY <3>3, <3>6, <3>7
  <2> QED BY <2>1, <2>2
<1>11. \A d \in Boot!LwipClasses : d /= mine[t] /\ state'[d] = "ready" => has_lwip_init
  <2>1. \A d \in Boot!LwipClasses : d /= mine[t] /\ state[d] = "ready" => has_lwip_init
    BY DEF Alone
  <2>2. Boot!LwipClasses \subseteq Boot!Classes
    BY ClassNames
  <2> QED BY ONLY <1>5, <1>10, <2>1, <2>2
<1> QED BY ONLY <1>4, <1>5, <1>6, <1>8, <1>9, <1>10, <1>11 DEF Alone, Booting

\* The initialiser the thread began with returns when everything is there.
LEMMA LastFinishes ==
  ASSUME BootTypeOK, NEW t \in Clients, Alone(t), at = 5, Boot!NoLwip(t) \/ Boot!NativeLWIPInit(t)
  PROVE  Complete' /\ where' = [where EXCEPT ![t] = "out"]
<1>1. has_lwip_init /\ \A d \in Boot!Classes : d /= mine[t] => state[d] = "ready"
  BY LwipByThen
<1>2. ~(at <= 4) /\ ~AtOther(t)
  BY DEF AtOther
<1>3. where[t] = "lwip"
  <2>1. where[t] \in {"lwip", "lwip native"}
    BY DEF Boot!NoLwip, Boot!NativeLWIPInit
  <2> QED BY <1>2, <2>1 DEF Alone, Stage
<1>4. library = "loaded" /\ lwip_inits = 1 /\ mine[t] \in Boot!Classes
  BY <1>1, <1>2, <1>3 DEF Alone, Stage, BootTypeOK
<1>5. ~(at <= Len(Boot!Cached))
  BY <1>2, ClassNames
<1>6. ~Boot!Nested(t) /\ Boot!Class(t) = mine[t]
  BY <1>5 DEF Boot!Nested, Boot!Class
<1>7. /\ state' = [state EXCEPT ![mine[t]] = "ready"] /\ where' = [where EXCEPT ![t] = "out"]
      /\ UNCHANGED <<has_lwip_init, library, lwip_inits>>
  BY <1>3, <1>6 DEF Boot!NoLwip, Boot!NativeLWIPInit, Boot!Finish, Boot!Settle, Boot!Goes, Boot!flags, Boot!lib
<1>8. \A d \in Boot!Classes : state'[d] = "ready"
  BY <1>1, <1>4, <1>7 DEF BootTypeOK
<1> QED BY ONLY <1>1, <1>4, <1>7, <1>8 DEF Complete

\* A step of a thread is that thread's, and contention is not forgotten.
LEMMA OthersWait ==
  ASSUME BootTypeOK, NEW t \in Clients, Boot!InitStep(t)
  PROVE  /\ \A u \in Clients : u /= t => where'[u] = where[u]
         /\ contended => contended'
<1>1. \E w : where' = [where EXCEPT ![t] = w] \/ where' = where
  BY DEF Boot!InitStep, Boot!Use, Boot!UseBroken, Boot!AlreadyInit, Boot!NotYetInit, Boot!SetInit,
         Boot!Load, Boot!Loaded, Boot!OnLoadSkips, Boot!OnLoadClaims, Boot!OnLoadFails,
         Boot!OnLoadReturns, Boot!NoLwip, Boot!NotYetLwip, Boot!SetLwip, Boot!NativeLWIPInit,
         Boot!NativeMissing, Boot!Boots, Boot!BootsEarly, Boot!Finish, Boot!Goes
<1>2. contended' = contended \/ Boot!Contends(t)
  BY DEF Boot!InitStep, Boot!Use, Boot!UseBroken, Boot!AlreadyInit, Boot!NotYetInit, Boot!SetInit,
         Boot!Load, Boot!Loaded, Boot!OnLoadSkips, Boot!OnLoadClaims, Boot!OnLoadFails,
         Boot!OnLoadReturns, Boot!NoLwip, Boot!NotYetLwip, Boot!SetLwip, Boot!NativeLWIPInit,
         Boot!NativeMissing, Boot!Boots, Boot!BootsEarly
<1>3. contended => contended'
  BY <1>2, Zenon DEF Boot!Contends
<1>4. \A u \in Clients : u /= t => where'[u] = where[u]
  BY <1>1 DEF BootTypeOK
<1> QED BY <1>3, <1>4

\* A thread in its first use of a class goes on alone, or ends with everything there.
LEMMA AloneGoesOn ==
  ASSUME BootTypeOK, NEW t \in Clients, Booting(t), Alone(t), Boot!InitStep(t)
  PROVE  /\ contended' = contended
         /\ (Alone(t)' /\ Booting(t)') \/ (Complete' /\ where' = [where EXCEPT ![t] = "out"])
<1>1. where[t] \notin {"out", "booted", "failed"}
  BY DEF Booting
<1>2. /\ \A c \in Boot!Classes : ~Boot!Use(t, c)
      /\ ~Boot!UseBroken(t) /\ ~Boot!Boots(t) /\ ~Boot!BootsEarly(t)
  BY <1>1 DEF Boot!Use, Boot!UseBroken, Boot!Boots, Boot!BootsEarly, Boot!ClassesReady
<1>3. CASE \/ Boot!AlreadyInit(t) \/ Boot!NotYetInit(t) \/ Boot!SetInit(t)
           \/ Boot!Load(t) \/ Boot!Loaded(t) \/ Boot!OnLoadReturns(t)
  <2>1. contended' = contended
    BY <1>3 DEF Boot!AlreadyInit, Boot!NotYetInit, Boot!SetInit, Boot!Load, Boot!Loaded, Boot!OnLoadReturns
  <2> QED BY <1>3, <2>1, BeforeOnLoad
<1>4. CASE Boot!OnLoadSkips(t) \/ Boot!OnLoadClaims(t) \/ Boot!OnLoadFails(t)
  <2>1. contended' = contended
    BY <1>4 DEF Boot!OnLoadSkips, Boot!OnLoadClaims, Boot!OnLoadFails
  <2> QED BY <1>4, <2>1, OnLoadGoesOn
<1>5. CASE Boot!NotYetLwip(t) \/ Boot!SetLwip(t)
  <2>1. contended' = contended
    BY <1>5 DEF Boot!NotYetLwip, Boot!SetLwip
  <2> QED BY <1>5, <2>1, LwipBegins
<1>6. CASE Boot!NoLwip(t) \/ Boot!NativeLWIPInit(t)
  <2>1. contended' = contended
    BY <1>6 DEF Boot!NoLwip, Boot!NativeLWIPInit
  <2>2. at = 5 \/ at <= 4
    <3>1. at \in 1..5
      BY DEF BootTypeOK
    <3> QED BY ONLY <3>1
  <2> QED BY <1>6, <2>1, <2>2, NestedFinishes, LastFinishes
<1>7. ~Boot!NativeMissing(t)
  <2>1. where[t] = "lwip native" => library = "loading"
    BY DEF Alone, Stage
  <2> QED BY <2>1 DEF Boot!NativeMissing
<1> QED BY <1>2, <1>3, <1>4, <1>5, <1>6, <1>7 DEF Boot!InitStep

\* The first use of all begins with nothing there.
LEMMA FirstUse ==
  ASSUME BootTypeOK, NEW t \in Clients, NEW c \in Boot!Classes, Boot!Use(t, c), Untouched
  PROVE  Alone(t)' /\ Booting(t)'
<1>1. /\ state' = [state EXCEPT ![c] = "busy"] /\ owner' = [owner EXCEPT ![c] = t]
      /\ where' = [where EXCEPT ![t] = "init"] /\ mine' = [mine EXCEPT ![t] = c]
      /\ UNCHANGED <<has_init, has_lwip_init, library, at, lwip_inits>>
  BY DEF Boot!Use, Boot!Claim, Boot!Goes, Boot!flags, Boot!lib
<1>2. /\ state'[c] = "busy" /\ owner'[c] = t /\ where'[t] = "init" /\ mine'[t] = c
      /\ \A d \in Boot!Classes : d /= c => state'[d] = state[d] /\ owner'[d] = owner[d]
  BY <1>1 DEF BootTypeOK
<1>3. \A d \in Boot!Classes : d /= c => state'[d] = "cold" /\ owner'[d] /= t
  BY <1>2, SystemAssumption DEF Untouched
<1>4. /\ ~has_init' /\ ~has_lwip_init' /\ library' = "absent" /\ at' = 1 /\ lwip_inits' = 0
  BY <1>1 DEF Untouched
<1>5. \A n \in 1..4 : Boot!Cached[n] \in Boot!Classes
  BY ClassNames
<1>6. 1 \in 1..4 /\ \A n \in 1..4 : ~(n < 1)
  OBVIOUS
<1>7. ~AtOther(t)'
  BY ONLY <1>2, <1>3, <1>4, <1>5, <1>6 DEF AtOther
<1>8. Stage(t)'
  BY ONLY <1>2, <1>3, <1>4, <1>5, <1>6, <1>7 DEF Stage
<1>9. Behind(t)'
  BY ONLY <1>2, <1>3, <1>4, <1>5, <1>6 DEF Behind
<1>10. \A d \in Boot!LwipClasses : d /= mine'[t] => state'[d] = "cold"
  BY <1>2, <1>3, ClassNames
<1> QED BY ONLY <1>2, <1>4, <1>8, <1>9, <1>10 DEF Alone, Booting

\* While no two use their first classes at the same time, the step of a thread that is in
\* no first use is the first use of all, or that of a thread with everything there.
LEMMA OutsideStep ==
  ASSUME BootInv, NEW t \in Clients, ~Booting(t), Boot!InitStep(t), ~contended'
  PROVE  /\ ~contended /\ \A u \in Clients : ~Booting(u)
         /\ \/ Untouched /\ Alone(t)' /\ Booting(t)'
            \/ Complete /\ Complete' /\ where' = [where EXCEPT ![t] = "booted"]
<1>1. BootTypeOK
  BY DEF BootInv
<1>2. where[t] \in {"out", "booted", "failed"}
  BY DEF Booting
<1>3. \/ (\E c \in Boot!Classes : Boot!Use(t, c)) \/ Boot!UseBroken(t) \/ Boot!Boots(t) \/ Boot!BootsEarly(t)
  BY <1>2 DEF Boot!InitStep, Boot!AlreadyInit, Boot!NotYetInit, Boot!SetInit,
         Boot!Load, Boot!Loaded, Boot!OnLoad, Boot!OnLoadSkips, Boot!OnLoadClaims, Boot!OnLoadFails,
         Boot!OnLoadReturns, Boot!NoLwip, Boot!NotYetLwip, Boot!SetLwip, Boot!NativeLWIPInit,
         Boot!NativeMissing
<1>4. ~Boot!UseBroken(t)
  <2> SUFFICES ASSUME Boot!UseBroken(t) PROVE FALSE
    OBVIOUS
  <2>1. ~contended /\ \E d \in Boot!Classes : state[d] = "broken"
    BY DEF Boot!UseBroken
  <2>2. CASE \E u \in Clients : Booting(u)
    BY <1>1, <2>1, <2>2, NoneBroken DEF BootInv
  <2>3. CASE \A u \in Clients : ~Booting(u)
    <3>1. Untouched \/ Complete
      BY <2>1, <2>3 DEF BootInv
    <3> QED BY <2>1, <3>1 DEF Untouched, Complete
  <2> QED BY <2>2, <2>3
<1>5. Boot!Contends(t)
  BY <1>3, <1>4 DEF Boot!Use, Boot!Boots, Boot!BootsEarly
<1>6. ~contended /\ \A u \in Clients : ~Booting(u)
  BY <1>5, Zenon DEF Boot!Contends, Booting
<1>7. Untouched \/ Complete
  BY <1>6 DEF BootInv
<1>8. CASE \E c \in Boot!Classes : Boot!Use(t, c)
  <2>1. PICK c \in Boot!Classes : Boot!Use(t, c)
    BY <1>8
  <2>2. Untouched
    BY <1>7, <2>1 DEF Boot!Use, Boot!Claim, Complete
  <2> QED BY <1>1, <1>6, <2>1, <2>2, FirstUse
<1>9. CASE Boot!Boots(t) \/ Boot!BootsEarly(t)
  <2>1. state["QuietSystem"] = "ready" /\ "QuietSystem" \in Boot!Classes
    BY <1>9, ClassNames DEF Boot!Boots, Boot!BootsEarly, Boot!ClassesReady
  <2>2. Complete
    BY <1>7, <2>1 DEF Untouched
  <2>3. Boot!Boots(t)
    BY <1>9, <2>2 DEF Boot!BootsEarly, Complete
  <2>4. Complete' /\ where' = [where EXCEPT ![t] = "booted"]
    BY <2>2, <2>3 DEF Boot!Boots, Boot!Goes, Boot!flags, Boot!lib, Boot!classVars, Complete
  <2> QED BY <1>6, <2>2, <2>4
<1> QED BY <1>3, <1>4, <1>8, <1>9

\* The invariant is inductive, whatever the clients of the system do meanwhile.
LEMMA BootStep == BootInv /\ [StartupNext]_startupVars => BootInv'
<1> SUFFICES ASSUME BootInv, [StartupNext]_startupVars PROVE BootInv'
  OBVIOUS
<1>1. CASE UNCHANGED bootVars
  <2>1. UNCHANGED <<has_init, has_lwip_init, library, state, owner, at, where, mine, lwip_inits, contended>>
    BY <1>1 DEF bootVars
  <2>2. \A u \in Clients : (Booting(u)' <=> Booting(u)) /\ (AtOther(u)' <=> AtOther(u)) /\ (Behind(u)' <=> Behind(u))
    BY ONLY <2>1 DEF Booting, AtOther, Behind
  <2>3. \A u \in Clients : Stage(u)' <=> Stage(u)
    BY ONLY <2>1, <2>2 DEF Stage
  <2>4. \A u \in Clients : Alone(u)' <=> Alone(u)
    BY ONLY <2>1, <2>2, <2>3 DEF Alone
  <2>5. (Untouched' <=> Untouched) /\ (Complete' <=> Complete) /\ (BootTypeOK' <=> BootTypeOK)
    BY ONLY <2>1 DEF Untouched, Complete, BootTypeOK
  <2> QED BY ONLY BootInv, <2>1, <2>2, <2>4, <2>5 DEF BootInv
<1>2. ASSUME NEW t \in Clients, Boot!InitStep(t) PROVE BootInv'
  <2>1. BootTypeOK /\ BootTypeOK'
    BY <1>2, BootTyped DEF BootInv
  <2>2. /\ \A u \in Clients : u /= t => where'[u] = where[u]
        /\ contended => contended'
    BY <1>2, <2>1, OthersWait
  <2> SUFFICES ASSUME ~contended'
               PROVE  /\ \A u, v \in Clients : Booting(u)' /\ Booting(v)' => u = v
                      /\ \A u \in Clients : Booting(u)' => Alone(u)'
                      /\ \A u \in Clients : where'[u] /= "failed"
                      /\ (\A u \in Clients : ~Booting(u)') => Untouched' \/ Complete'
                      /\ (\E u \in Clients : where'[u] = "booted") => Complete'
    BY <2>1 DEF BootInv
  <2>3. \A u \in Clients : u /= t => (Booting(u)' <=> Booting(u))
    BY <2>2 DEF Booting
  <2>4. CASE Booting(t)
    <3>1. ~contended
      BY <2>2
    <3>2. Alone(t)
      BY <2>4, <3>1 DEF BootInv
    <3>3. \A u \in Clients : u /= t => ~Booting(u) /\ ~Booting(u)' /\ where'[u] \notin {"failed", "booted"}
      <4>1. ~Complete
        <5>1. mine[t] \in Boot!Classes /\ state[mine[t]] = "busy"
          BY <2>1, <3>2 DEF BootTypeOK, Alone
        <5> QED BY <5>1 DEF Complete
      <4> QED BY <2>2, <2>3, <2>4, <3>1, <4>1 DEF BootInv
    <3>4. CASE Alone(t)' /\ Booting(t)'
      BY <3>3, <3>4 DEF Booting
    <3>5. CASE Complete' /\ where' = [where EXCEPT ![t] = "out"]
      <4>1. where'[t] = "out"
        BY <2>1, <3>5 DEF BootTypeOK
      <4> QED BY <3>3, <3>5, <4>1 DEF Booting
    <3> QED BY <1>2, <2>1, <2>4, <3>2, <3>4, <3>5, AloneGoesOn
  <2>5. CASE ~Booting(t)
    <3>1. /\ ~contended /\ \A u \in Clients : ~Booting(u)
          /\ \/ Untouched /\ Alone(t)' /\ Booting(t)'
             \/ Complete /\ Complete' /\ where' = [where EXCEPT ![t] = "booted"]
      BY <1>2, <2>5, OutsideStep
    <3>2. \A u \in Clients : u /= t => ~Booting(u)' /\ where'[u] /= "failed"
      BY <2>2, <2>3, <3>1 DEF BootInv
    <3>3. CASE Untouched /\ Alone(t)' /\ Booting(t)'
      <4>1. ~Complete
        BY <3>3, ClassNames DEF Untouched, Complete
      <4>2. \A u \in Clients : u /= t => where'[u] /= "booted"
        BY <2>2, <3>1, <4>1 DEF BootInv
      <4>3. where'[t] \notin {"failed", "booted"}
        BY <3>3 DEF Booting
      <4> QED BY <3>2, <3>3, <4>2, <4>3
    <3>4. CASE Complete /\ Complete' /\ where' = [where EXCEPT ![t] = "booted"]
      <4>1. where'[t] = "booted"
        BY <2>1, <3>4 DEF BootTypeOK
      <4>2. ~Booting(t)'
        BY <4>1 DEF Booting
      <4> QED BY <3>2, <3>4, <4>1, <4>2
    <3> QED BY <3>1, <3>3, <3>4
  <2> QED BY <2>4, <2>5
<1>3. CASE StartupNext
  BY <1>1, <1>2, <1>3 DEF StartupNext
<1> QED BY <1>1, <1>3 DEF startupVars

\* Unless two threads use their first classes at the same time, the library is loaded, lwip
\* initialised once and every class complete by the time a thread constructs anything.
THEOREM StartupBootsOnce == StartupSpec => []BootsOnce
<1>1. StartupInit => BootInv
  BY InitBoot DEF StartupInit
<1>2. BootInv => BootsOnce
  <2> SUFFICES ASSUME BootInv, ~contended
               PROVE  /\ lwip_inits <= 1
                      /\ \A t \in Clients : where[t] /= "failed"
                      /\ \A t \in Clients : where[t] = "booted" =>
                           /\ library = "loaded" /\ lwip_inits = 1
                           /\ \A c \in Boot!Classes : state[c] /= "cold" /\ state[c] /= "broken"
    BY DEF BootsOnce, Boot!BootsOnce
  <2>1. lwip_inits <= 1
    <3>1. CASE \E t \in Clients : Booting(t)
      <4>1. lwip_inits \in {0, 1}
        BY <3>1 DEF BootInv, Alone
      <4> QED BY ONLY <4>1
    <3>2. CASE \A t \in Clients : ~Booting(t)
      <4>1. lwip_inits \in {0, 1}
        BY <3>2 DEF BootInv, Untouched, Complete
      <4> QED BY ONLY <4>1
    <3> QED BY <3>1, <3>2
  <2> QED BY <2>1 DEF BootInv, Complete
<1> QED BY <1>1, <1>2, BootStep, PTL DEF StartupSpec
=============================================================================
