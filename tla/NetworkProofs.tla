---------------------------- MODULE NetworkProofs ----------------------------
(***************************************************************************)
(* That interfaces which sockets find are with their audio system, that no *)
(* two sockets share a descriptor and that lwip's table holds no more than *)
(* what is accounted for, for any number of interfaces, sockets and        *)
(* descriptors.                                                            *)
(***************************************************************************)
EXTENDS Network, PtrArrayProofs

-----------------------------------------------------------------------------
(* Interfaces.                                                              *)

ArraysOK ==
  /\ IsArray(producers, Interfaces) /\ Distinct(producers)
  /\ IsArray(consumers, Interfaces) /\ Distinct(consumers)

\* The constructor of an interface adds it to each array once, and what is on the
\* registry has not been ended.
Staged(i) ==
  /\ i \in Live(producers) => stage[i] \in {"speaking", "connected", "negotiating", "open"}
  /\ i \in Live(consumers) => stage[i] \in {"connected", "negotiating", "open"}
  /\ stage[i] \in {"speaking", "connected", "negotiating"} => Speaks(i)
  /\ stage[i] \in {"connected", "negotiating"} => Listens(i)
  /\ i \in registry \/ eof[i] \/ call[i] /= "idle" => stage[i] = "open"
  /\ i \in registry /\ ~terminated[i] => Speaks(i) /\ Listens(i) /\ ~eof[i] /\ call[i] = "idle"
  /\ call[i] = "deaf" => urgent[i]
  /\ i \in Live(producers) \cup Live(consumers) => audio[i] = "loopback"
  /\ player[i] \in {"playing", "starved"} =>
       audio[i] = "opensl" /\ stage[i] \in {"speaking", "connected", "negotiating", "open"}

InterfaceInv ==
  /\ InterfaceTypeOK /\ ArraysOK
  /\ \A i \in Interfaces : Staged(i)

LEMMA InterfaceInitInv == InterfaceInit => InterfaceInv
<1> SUFFICES ASSUME InterfaceInit PROVE InterfaceInv
  OBVIOUS
<1>1. /\ ArraysOK /\ Live(producers) = {} /\ Live(consumers) = {}
  BY EmptyArrayIsArray, InterfaceAssumption DEF InterfaceInit, ArraysOK
<1>2. InterfaceTypeOK
  <2>1. /\ urgent \in [Interfaces -> BOOLEAN] /\ terminated \in [Interfaces -> BOOLEAN]
        /\ queued \in [Interfaces -> BOOLEAN] /\ eof \in [Interfaces -> BOOLEAN]
    BY Zenon DEF InterfaceInit
  <2> QED BY <1>1, <2>1 DEF InterfaceInit, InterfaceTypeOK, ArraysOK
<1>3. \A i \in Interfaces : Staged(i)
  <2> SUFFICES ASSUME NEW i \in Interfaces PROVE Staged(i)
    OBVIOUS
  <2>1. stage[i] = "new" /\ call[i] = "idle" /\ i \notin registry /\ player[i] = "none"
    BY DEF InterfaceInit
  <2>2. ~eof[i]
    BY Zenon DEF InterfaceInit
  <2> QED BY <1>1, <2>1, <2>2 DEF Staged
<1> QED BY <1>1, <1>2, <1>3 DEF InterfaceInv

\* What a step of interface i does to the two arrays.
LEMMA ArraySteps ==
  ASSUME NEW i \in Interfaces, InterfaceStep(i)
  PROVE  /\ \/ producers' = producers
            \/ producers' = Remove(producers, i)
            \/ producers' = Add(producers, i) /\ stage[i] = "created"
         /\ \/ consumers' = consumers
            \/ consumers' = Remove(consumers, i)
            \/ consumers' = Add(consumers, i) /\ stage[i] = "speaking"
  BY DEF InterfaceStep, Connecting, Sound, Ending, RejectConfig, CreateInterface,
         CreateInterfaceFails, AddProducer, AddConsumer, CreatePlayer, CreatePlayerFails,
         CreateRecorder, CreateRecorderFails, AutoIP, AddInterface, StackSends, Pull,
         EndOfStream, Starve, Close, Terminate, CloseStack, StopListening, StopListeningThen,
         StopSpeaking, Becomes, soundVars

LEMMA ArraysStep ==
  ASSUME InterfaceInv, NEW i \in Interfaces, InterfaceStep(i)
  PROVE  /\ ArraysOK'
         /\ \A j \in Interfaces : j /= i =>
              (j \in Live(producers') <=> j \in Live(producers)) /\
              (j \in Live(consumers') <=> j \in Live(consumers))
<1>1. ArraysOK /\ Staged(i)
  BY DEF InterfaceInv
<1>2. /\ IsArray(producers', Interfaces) /\ Distinct(producers')
      /\ \A j \in Interfaces : j /= i => (j \in Live(producers') <=> j \in Live(producers))
  <2>1. stage[i] = "created" => i \notin Live(producers)
    BY <1>1 DEF Staged
  <2> QED BY <1>1, <2>1, ArraySteps, AddArray, AddLive, RemoveArray, RemoveLive DEF ArraysOK
<1>3. /\ IsArray(consumers', Interfaces) /\ Distinct(consumers')
      /\ \A j \in Interfaces : j /= i => (j \in Live(consumers') <=> j \in Live(consumers))
  <2>1. stage[i] = "speaking" => i \notin Live(consumers)
    BY <1>1 DEF Staged
  <2> QED BY <1>1, <2>1, ArraySteps, AddArray, AddLive, RemoveArray, RemoveLive DEF ArraysOK
<1> QED BY <1>2, <1>3 DEF ArraysOK

\* A step of interface i leaves what belongs to another as it is.
LEMMA OthersKeep ==
  ASSUME InterfaceInv, NEW i \in Interfaces, InterfaceStep(i),
         NEW j \in Interfaces, j /= i
  PROVE  /\ stage'[j] = stage[j] /\ call'[j] = call[j] /\ audio'[j] = audio[j]
         /\ player'[j] = player[j] /\ recorder'[j] = recorder[j]
         /\ j \in registry' <=> j \in registry
<1> USE DEF InterfaceStep, Connecting, Sound, Ending, RejectConfig, CreateInterface,
            CreateInterfaceFails, AddProducer, AddConsumer, CreatePlayer, CreatePlayerFails,
            CreateRecorder, CreateRecorderFails, AutoIP, AddInterface, StackSends, Pull,
            EndOfStream, Starve, Close, Terminate, CloseStack, StopListening, StopListeningThen,
            StopSpeaking, Becomes, soundVars, callVars, stackVars, unopened, still
<1>1. InterfaceTypeOK
  BY DEF InterfaceInv
<1>2. stage'[j] = stage[j]
  BY <1>1 DEF InterfaceTypeOK
<1>3. call'[j] = call[j]
  BY <1>1 DEF InterfaceTypeOK
<1>4. audio' = audio
  OBVIOUS
<1>5. player'[j] = player[j]
  BY <1>1 DEF InterfaceTypeOK
<1>6. recorder'[j] = recorder[j]
  BY <1>1 DEF InterfaceTypeOK
<1>7. j \in registry' <=> j \in registry
  OBVIOUS
<1> QED BY <1>2, <1>3, <1>4, <1>5, <1>6, <1>7

LEMMA OthersKeepFlags ==
  ASSUME InterfaceInv, NEW i \in Interfaces, InterfaceStep(i),
         NEW j \in Interfaces, j /= i
  PROVE  /\ eof'[j] <=> eof[j]
         /\ queued'[j] <=> queued[j]
         /\ urgent'[j] <=> urgent[j]
         /\ terminated'[j] <=> terminated[j]
<1> USE DEF InterfaceStep, Connecting, Sound, Ending, RejectConfig, CreateInterface,
            CreateInterfaceFails, AddProducer, AddConsumer, CreatePlayer, CreatePlayerFails,
            CreateRecorder, CreateRecorderFails, AutoIP, AddInterface, StackSends, Pull,
            EndOfStream, Starve, Close, Terminate, CloseStack, StopListening, StopListeningThen,
            StopSpeaking, Becomes, soundVars, callVars, stackVars, unopened, still
<1>1. InterfaceTypeOK
  BY DEF InterfaceInv
<1>2. eof'[j] = eof[j]
  BY <1>1 DEF InterfaceTypeOK
<1>3. urgent'[j] = urgent[j]
  BY <1>1 DEF InterfaceTypeOK
<1>4. terminated'[j] = terminated[j]
  BY <1>1 DEF InterfaceTypeOK
<1>5. queued'[j] = queued[j]
  BY <1>1 DEF InterfaceTypeOK
<1> QED BY <1>2, <1>3, <1>4, <1>5, Zenon

LEMMA OthersStaged ==
  ASSUME InterfaceInv, NEW i \in Interfaces, InterfaceStep(i),
         NEW j \in Interfaces, j /= i
  PROVE  /\ Staged(j)'
         /\ Speaks(j)' <=> Speaks(j)
<1>1. Staged(j)
  BY DEF InterfaceInv
<1>2. /\ j \in Live(producers') <=> j \in Live(producers)
      /\ j \in Live(consumers') <=> j \in Live(consumers)
  BY ArraysStep
<1> QED BY <1>1, <1>2, OthersKeep, OthersKeepFlags DEF Staged, Speaks, Listens

LEMMA InterfaceTyped ==
  ASSUME InterfaceInv, NEW i \in Interfaces, InterfaceStep(i)
  PROVE  InterfaceTypeOK'
<1> USE DEF InterfaceStep, Connecting, Sound, Ending, RejectConfig, CreateInterface,
            CreateInterfaceFails, AddProducer, AddConsumer, CreatePlayer, CreatePlayerFails,
            CreateRecorder, CreateRecorderFails, AutoIP, AddInterface, StackSends, Pull,
            EndOfStream, Starve, Close, Terminate, CloseStack, StopListening, StopListeningThen,
            StopSpeaking, Becomes, soundVars, callVars, stackVars, unopened, still
<1>1. InterfaceTypeOK
  BY DEF InterfaceInv
<1>2. /\ IsArray(producers', Interfaces) /\ IsArray(consumers', Interfaces)
  BY ArraysStep DEF ArraysOK
<1>3. registry' \subseteq Interfaces /\ audio' \in [Interfaces -> Audio]
  BY <1>1 DEF InterfaceTypeOK
<1>4. player' \in [Interfaces -> {"none", "playing", "starved", "stopped"}]
  BY <1>1 DEF InterfaceTypeOK
<1>5. recorder' \in [Interfaces -> {"none", "recording", "stuck", "stopped"}]
  BY <1>1 DEF InterfaceTypeOK
<1>6. stage' \in [Interfaces -> {"new", "created", "speaking", "connected", "negotiating",
                                 "open", "thrown", "crashed"}]
  BY <1>1 DEF InterfaceTypeOK
<1>7. call' \in [Interfaces -> {"idle", "entered", "closed", "deaf"}]
  BY <1>1 DEF InterfaceTypeOK
<1>8. urgent' \in [Interfaces -> BOOLEAN] /\ terminated' \in [Interfaces -> BOOLEAN]
  <2>1. urgent \in [Interfaces -> BOOLEAN] /\ terminated \in [Interfaces -> BOOLEAN]
    BY <1>1 DEF InterfaceTypeOK
  <2>2. CASE Close(i)
    BY <2>1, <2>2, Zenon
  <2>3. CASE Terminate(i)
    BY <2>1, <2>3, Zenon
  <2>4. CASE ~Close(i) /\ ~Terminate(i)
    <3>1. urgent' = urgent /\ terminated' = terminated
      BY <2>4
    <3> QED BY <2>1, <3>1, Zenon
  <2> QED BY <2>2, <2>3, <2>4
<1>9. queued' \in [Interfaces -> BOOLEAN] /\ eof' \in [Interfaces -> BOOLEAN]
  BY <1>1 DEF InterfaceTypeOK
<1> QED BY <1>2, <1>3, <1>4, <1>5, <1>6, <1>7, <1>8, <1>9 DEF InterfaceTypeOK

LEMMA SelfStaged ==
  ASSUME InterfaceInv, NEW i \in Interfaces, InterfaceStep(i)
  PROVE  Staged(i)'
<1>1. InterfaceTypeOK /\ ArraysOK /\ Staged(i)
  BY DEF InterfaceInv
<1> USE <1>1 DEF Staged, Speaks, Listens, Becomes, InterfaceTypeOK, ArraysOK
<1>2. CASE RejectConfig(i) \/ CreateInterface(i) \/ CreateInterfaceFails(i)
  BY <1>2 DEF RejectConfig, CreateInterface, CreateInterfaceFails, unopened, soundVars, callVars
<1>3. CASE AddProducer(i)
  BY <1>3, AddLive DEF AddProducer, unopened, callVars
<1>4. CASE AddConsumer(i)
  BY <1>4, AddLive DEF AddConsumer, unopened, callVars
<1>5. CASE CreatePlayer(i) \/ CreatePlayerFails(i)
  BY <1>5 DEF CreatePlayer, CreatePlayerFails, unopened, soundVars, callVars
<1>6. CASE CreateRecorder(i) \/ CreateRecorderFails(i)
  BY <1>6 DEF CreateRecorder, CreateRecorderFails, unopened, callVars
<1>7. CASE AutoIP(i)
  BY <1>7 DEF AutoIP, unopened, soundVars, callVars
<1>8. CASE AddInterface(i)
  BY <1>8 DEF AddInterface, soundVars, callVars, stackVars
<1>9. CASE StackSends(i) \/ Pull(i) \/ Starve(i)
  BY <1>9 DEF StackSends, Pull, Starve, still, soundVars, callVars
<1>10. CASE EndOfStream(i)
  BY <1>10, RemoveLive DEF EndOfStream, still, callVars
<1>11. CASE Close(i)
  BY <1>11 DEF Close, soundVars, stackVars
<1>12. CASE Terminate(i)
  BY <1>12 DEF Terminate, soundVars, stackVars
<1>13. CASE CloseStack(i)
  BY <1>13 DEF CloseStack, soundVars
<1>14. CASE StopListening(i)
  BY <1>14, RemoveLive DEF StopListening, StopListeningThen, stackVars
<1>15. CASE StopSpeaking(i)
  BY <1>15, RemoveLive DEF StopSpeaking, stackVars
<1> QED
  BY <1>2, <1>3, <1>4, <1>5, <1>6, <1>7, <1>8, <1>9, <1>10, <1>11, <1>12, <1>13, <1>14, <1>15
     DEF InterfaceStep, Connecting, Sound, Ending

LEMMA InterfaceStepInv ==
  ASSUME InterfaceInv, NEW i \in Interfaces, InterfaceStep(i)
  PROVE  InterfaceInv'
<1>1. \A j \in Interfaces : Staged(j)'
  BY SelfStaged, OthersStaged
<1> QED BY <1>1, InterfaceTyped, ArraysStep DEF InterfaceInv

LEMMA InterfaceStutterInv ==
  ASSUME InterfaceInv, UNCHANGED interfaceVars
  PROVE  InterfaceInv'
<1>1. ArraysOK' /\ InterfaceTypeOK'
  BY DEF InterfaceInv, InterfaceTypeOK, ArraysOK, interfaceVars, soundVars, callVars, stackVars
<1>2. \A j \in Interfaces : Staged(j)'
  BY DEF InterfaceInv, Staged, Speaks, Listens, interfaceVars, soundVars, callVars, stackVars
<1> QED BY <1>1, <1>2 DEF InterfaceInv

LEMMA InterfaceSafe == Spec => []InterfaceInv
<1>1. Init => InterfaceInv
  BY InterfaceInitInv DEF Init
<1>2. InterfaceInv /\ [Next]_networkVars => InterfaceInv'
  BY InterfaceStepInv, InterfaceStutterInv DEF Next, networkVars
<1> QED BY <1>1, <1>2, PTL DEF Spec

\* An interface on the registry that was not terminated, and one that negotiates its
\* address, is with its audio system in both directions.
THEOREM ListedAlwaysWorks == Spec => []ListedWorks
<1>1. InterfaceInv => ListedWorks
  BY DEF InterfaceInv, Staged, ListedWorks
<1> QED BY <1>1, InterfaceSafe, PTL

\* An open interface falls silent only when nothing is queued on it, or at the word of
\* an urgent terminate.
THEOREM SilentOnlyWhenDrained == Spec => FallsSilentDrained
<1> DEFINE Drained == \A i \in Interfaces :
                        stage[i] = "open" /\ Speaks(i) /\ ~Speaks(i)' => ~queued[i] \/ urgent[i]
<1>1. InterfaceInv /\ [Next]_networkVars => [Drained]_interfaceVars
  <2> SUFFICES ASSUME InterfaceInv, NEW i \in Interfaces, InterfaceStep(i),
                      NEW j \in Interfaces, stage[j] = "open", Speaks(j), ~Speaks(j)'
               PROVE  ~queued[j] \/ urgent[j]
    BY DEF Next, networkVars
  <2>1. j = i
    BY OthersStaged
  <2>2. InterfaceTypeOK /\ ArraysOK /\ Staged(i)
    BY DEF InterfaceInv
  <2>3. CASE EndOfStream(i)
    BY <2>1, <2>3 DEF EndOfStream
  <2>4. CASE StopSpeaking(i)
    BY <2>1, <2>2, <2>4 DEF StopSpeaking, Staged
  <2>5. CASE Connecting(i)
    <3>1. stage[i] /= "open"
      BY <2>5 DEF Connecting, RejectConfig, CreateInterface, CreateInterfaceFails, AddProducer,
                  AddConsumer, CreatePlayer, CreatePlayerFails, CreateRecorder,
                  CreateRecorderFails, AutoIP, AddInterface, Becomes
    <3> QED BY <2>1, <3>1
  <2>6. CASE StackSends(i) \/ Pull(i) \/ Close(i) \/ Terminate(i) \/ CloseStack(i)
             \/ StopListening(i)
    <3>1. producers' = producers /\ player' = player
      BY <2>6 DEF StackSends, Pull, Close, Terminate, CloseStack, StopListening,
                  StopListeningThen, soundVars
    <3> QED BY <2>1, <3>1 DEF Speaks
  <2>7. CASE Starve(i)
    BY <2>1, <2>2, <2>7 DEF Starve, Speaks, InterfaceTypeOK
  <2> QED BY <2>3, <2>4, <2>5, <2>6, <2>7 DEF InterfaceStep, Sound, Ending
<1>2. FallsSilentDrained <=> [][Drained]_interfaceVars
  BY DEF FallsSilentDrained
<1> HIDE DEF Drained
<1> QED BY <1>1, <1>2, InterfaceSafe, PTL DEF Spec

-----------------------------------------------------------------------------
(* The audio systems behind the interfaces.                                 *)

\* A step of interface i changes the sets at i only.
LEMMA OneSource ==
  ASSUME InterfaceInv, NEW i \in Interfaces, InterfaceStep(i)
  PROVE  /\ Speaking' = IF Speaks(i)' THEN Speaking \cup {i} ELSE Speaking \ {i}
         /\ Waiting' = IF queued'[i] THEN Waiting \cup {i} ELSE Waiting \ {i}
         /\ Ended' = IF eof'[i] THEN Ended \cup {i} ELSE Ended \ {i}
         /\ Held' = IF i \in Held' THEN Held \cup {i} ELSE Held \ {i}
<1>1. \A j \in Interfaces : j /= i => Speaks(j)' <=> Speaks(j)
  BY OthersStaged
<1>2. \A j \in Interfaces : j /= i => (queued'[j] <=> queued[j]) /\ (eof'[j] <=> eof[j])
  BY OthersKeepFlags
<1>3. \A j \in Interfaces : j /= i => stage'[j] = stage[j] /\ call'[j] = call[j]
  BY OthersKeep
<1>4. Speaking' = {j \in Interfaces : Speaks(j)'}
  BY DEF Speaking
<1>5. Waiting' = {j \in Interfaces : queued'[j]} /\ Ended' = {j \in Interfaces : eof'[j]}
  BY DEF Waiting, Ended
<1>6. Held' = {j \in Interfaces : \/ stage'[j] \notin {"connected", "negotiating", "open"}
                                  \/ call'[j] = "deaf"}
  BY DEF Held
<1>7. Speaking' = IF Speaks(i)' THEN Speaking \cup {i} ELSE Speaking \ {i}
  BY <1>1, <1>4 DEF Speaking
<1>8. Waiting' = IF queued'[i] THEN Waiting \cup {i} ELSE Waiting \ {i}
  BY <1>2, <1>5 DEF Waiting
<1>9. Ended' = IF eof'[i] THEN Ended \cup {i} ELSE Ended \ {i}
  BY <1>2, <1>5 DEF Ended
<1>10. Held' = IF i \in Held' THEN Held \cup {i} ELSE Held \ {i}
  BY <1>3, <1>6 DEF Held
<1> QED BY <1>7, <1>8, <1>9, <1>10

\* Every step of an interface is one of an audio system, or does not concern it.
LEMMA InterfaceSource ==
  ASSUME InterfaceInv, NEW i \in Interfaces, InterfaceStep(i)
  PROVE  Playing!SourceStep(i) \/ UNCHANGED Playing!sourceVars
<1>1. InterfaceTypeOK /\ ArraysOK /\ Staged(i)
  BY DEF InterfaceInv
<1>2. /\ i \in Speaking <=> Speaks(i)
      /\ i \in Waiting <=> queued[i]
      /\ i \in Ended <=> eof[i]
      /\ i \in Held <=> stage[i] \notin {"connected", "negotiating", "open"} \/ call[i] = "deaf"
      /\ i \in Held' <=> stage'[i] \notin {"connected", "negotiating", "open"} \/ call'[i] = "deaf"
  BY DEF Speaking, Waiting, Ended, Held
<1>3. /\ stage \in [Interfaces -> {"new", "created", "speaking", "connected", "negotiating",
                               "open", "thrown", "crashed"}]
      /\ call \in [Interfaces -> {"idle", "entered", "closed", "deaf"}]
      /\ player \in [Interfaces -> {"none", "playing", "starved", "stopped"}]
      /\ queued \in [Interfaces -> BOOLEAN] /\ eof \in [Interfaces -> BOOLEAN]
      /\ IsArray(producers, Interfaces) /\ Distinct(producers)
  BY <1>1 DEF InterfaceTypeOK, ArraysOK
<1>4. /\ UNCHANGED <<producers, player>> => Speaks(i)' = Speaks(i)
      /\ UNCHANGED queued => queued'[i] = queued[i]
      /\ UNCHANGED eof => eof'[i] = eof[i]
  BY DEF Speaks
<1>5. producers' = Remove(producers, i) => i \notin Live(producers')
  BY <1>3, RemoveLive
<1>6. /\ Speaks(i)' => Speaking' = Speaking \cup {i}
      /\ ~Speaks(i)' => Speaking' = Speaking \ {i}
      /\ queued'[i] => Waiting' = Waiting \cup {i}
      /\ ~queued'[i] => Waiting' = Waiting \ {i}
      /\ eof'[i] => Ended' = Ended \cup {i}
      /\ ~eof'[i] => Ended' = Ended \ {i}
      /\ i \in Held' => Held' = Held \cup {i}
      /\ i \notin Held' => Held' = Held \ {i}
  BY OneSource
<1>7. CASE \/ RejectConfig(i) \/ CreateInterface(i) \/ CreateInterfaceFails(i) \/ CreatePlayerFails(i)
           \/ AutoIP(i) \/ AddInterface(i) \/ Close(i) \/ Terminate(i)
  <2>1. UNCHANGED <<producers, player, queued, eof>>
    BY <1>7 DEF RejectConfig, CreateInterface, CreateInterfaceFails, CreatePlayerFails, AutoIP,
         AddInterface, Close, Terminate, unopened, soundVars, stackVars
  <2>2. i \in Held' <=> i \in Held
    BY <1>1, <1>2, <1>3, <1>7 DEF RejectConfig, CreateInterface, CreateInterfaceFails, CreatePlayerFails,
         AutoIP, AddInterface, Close, Terminate, Becomes, unopened, callVars, Staged
  <2>3. UNCHANGED <<Speaking, Waiting, Ended, Held>>
    BY <1>2, <1>4, <1>6, <2>1, <2>2
  <2> QED BY <2>3 DEF Playing!sourceVars
<1>8. CASE AddProducer(i) \/ CreatePlayer(i)
  <2>1. /\ stage[i] = "created" /\ stage'[i] = "speaking" /\ UNCHANGED <<queued, eof>>
        /\ producers' = Add(producers, i) \/ player'[i] = "playing"
    BY <1>3, <1>8 DEF AddProducer, CreatePlayer, Becomes, unopened
  <2>2. ~Speaks(i) /\ ~eof[i]
    BY <1>1, <2>1 DEF Staged, Speaks
  <2>3. Speaks(i)'
    BY <1>3, <2>1, AddLive DEF Speaks
  <2>4. UNCHANGED <<Waiting, Ended, Held>> /\ i \in Held
    BY <1>2, <1>4, <1>6, <2>1
  <2> QED BY <1>2, <1>6, <2>2, <2>3, <2>4 DEF Playing!SourceStep, Playing!Begin
<1>9. CASE AddConsumer(i) \/ CreateRecorder(i)
  <2>1. /\ stage[i] = "speaking" /\ stage'[i] = "connected" /\ UNCHANGED <<producers, player, queued, eof, call>>
    BY <1>3, <1>9 DEF AddConsumer, CreateRecorder, Becomes, unopened, callVars
  <2>2. call[i] /= "deaf"
    BY <1>1, <2>1 DEF Staged
  <2>3. UNCHANGED <<Speaking, Waiting, Ended>>
    BY <1>2, <1>4, <1>6, <2>1
  <2>4. i \notin Held'
    BY <1>2, <2>1, <2>2
  <2> QED BY <1>6, <2>3, <2>4 DEF Playing!SourceStep, Playing!LetGo
<1>10. CASE CreateRecorderFails(i)
  <2>1. /\ stage[i] = "speaking" /\ stage'[i] = "thrown" /\ UNCHANGED <<producers, eof>>
        /\ player'[i] = "none" /\ ~queued'[i] /\ audio[i] = "opensl"
    BY <1>3, <1>10 DEF CreateRecorderFails, Becomes, unopened
  <2>2. ~Speaks(i)'
    BY <1>1, <2>1 DEF Staged, Speaks
  <2>3. UNCHANGED <<Ended, Held>> /\ i \in Held
    BY <1>2, <1>4, <1>6, <2>1
  <2> QED BY <1>6, <2>1, <2>2, <2>3 DEF Playing!SourceStep, Playing!Cut
<1>11. CASE StackSends(i)
  <2>1. UNCHANGED <<producers, player, eof, stage, call>> /\ ~eof[i] /\ queued'[i]
    BY <1>3, <1>11 DEF StackSends, still, soundVars, callVars
  <2>2. UNCHANGED <<Speaking, Ended, Held>> /\ i \notin Ended
    BY <1>2, <1>4, <1>6, <2>1
  <2> QED BY <1>6, <2>1, <2>2 DEF Playing!SourceStep, Playing!Offer
<1>12. CASE Pull(i)
  <2>1. /\ UNCHANGED <<producers, player, eof, stage, call>> /\ Speaks(i) /\ queued[i] /\ ~queued'[i]
    BY <1>3, <1>12 DEF Pull, Pulled, still, soundVars, callVars
  <2>2. UNCHANGED <<Speaking, Ended, Held>> /\ i \in Speaking /\ i \in Waiting
    BY <1>2, <1>4, <1>6, <2>1
  <2> QED BY <1>6, <2>1, <2>2 DEF Playing!SourceStep, Playing!Pull
<1>13. CASE EndOfStream(i)
  <2>1. /\ UNCHANGED <<queued, eof, stage, call>> /\ Speaks(i) /\ eof[i] /\ ~queued[i]
        /\ producers' = Remove(producers, i) /\ player'[i] \notin {"playing", "starved"}
    BY <1>3, <1>13 DEF EndOfStream, Pulled, still, callVars
  <2>2. ~Speaks(i)'
    BY <1>5, <2>1 DEF Speaks
  <2>3. UNCHANGED <<Waiting, Ended, Held>> /\ i \in Speaking /\ i \in Ended /\ i \notin Waiting
    BY <1>2, <1>4, <1>6, <2>1
  <2> QED BY <1>6, <2>2, <2>3 DEF Playing!SourceStep, Playing!Drop
<1>14. CASE CloseStack(i)
  <2>1. /\ UNCHANGED <<producers, player, queued, stage>> /\ eof'[i]
        /\ call[i] = "entered" /\ call'[i] = "closed"
    BY <1>3, <1>14 DEF CloseStack, soundVars
  <2>2. UNCHANGED <<Speaking, Waiting, Held>>
    BY <1>2, <1>4, <1>6, <2>1
  <2> QED BY <1>6, <2>1, <2>2 DEF Playing!SourceStep, Playing!End
<1>15. CASE StopListening(i)
  <2>1. UNCHANGED <<producers, player, queued, eof, stage>> /\ call[i] = "closed"
    BY <1>15 DEF StopListening, StopListeningThen, stackVars
  <2>2. UNCHANGED <<Speaking, Waiting, Ended>>
    BY <1>2, <1>4, <1>6, <2>1
  <2>3. Held' = Held \/ Held' = Held \cup {i}
    BY <1>2, <1>6, <2>1
  <2> QED BY <2>2, <2>3 DEF Playing!SourceStep, Playing!TakeBack, Playing!sourceVars
<1>16. CASE StopSpeaking(i)
  <2>1. /\ UNCHANGED <<queued, eof, stage>> /\ call[i] = "deaf" /\ call'[i] = "idle"
        /\ producers' = Remove(producers, i)
        /\ player'[i] = player[i] \/ player'[i] \in {"none", "stopped"}
    BY <1>3, <1>16 DEF StopSpeaking, stackVars
  <2>2. stage[i] = "open"
    BY <1>1, <2>1 DEF Staged
  <2>3. UNCHANGED <<Waiting, Ended>> /\ i \in Held /\ i \notin Held'
    BY <1>2, <1>4, <1>6, <2>1, <2>2
  <2>4. CASE ~Speaks(i)'
    BY <1>6, <2>3, <2>4 DEF Playing!SourceStep, Playing!Cut
  <2>5. CASE Speaks(i)'
    <3>1. Speaks(i)
      BY <1>5, <2>1, <2>5 DEF Speaks
    <3>2. UNCHANGED Speaking
      BY <1>2, <1>6, <2>5, <3>1
    <3> QED BY <1>6, <2>3, <3>2 DEF Playing!SourceStep, Playing!LetGo
  <2> QED BY <2>4, <2>5
<1>17. CASE Starve(i)
  <2>1. /\ UNCHANGED <<producers, queued, eof, stage, call>>
        /\ player[i] = "playing" /\ player'[i] = "starved"
    BY <1>3, <1>17 DEF Starve, still, callVars
  <2>2. Speaks(i) /\ Speaks(i)'
    BY <2>1 DEF Speaks
  <2>3. UNCHANGED <<Speaking, Waiting, Ended, Held>>
    BY <1>2, <1>4, <1>6, <2>1, <2>2
  <2> QED BY <2>3 DEF Playing!sourceVars
<1> QED
  BY <1>7, <1>8, <1>9, <1>10, <1>11, <1>12, <1>13, <1>14, <1>15, <1>16, <1>17
     DEF InterfaceStep, Connecting, Sound, Ending

\* What is a single step here, that the audio system pulls or drops a source, and all the calls
\* around it, are what the loopback and the player promise step by step.
THEOREM InterfacesAreSources == Spec => ImplementsSource
<1>1. Init => Playing!SourceInit
  <2> SUFFICES ASSUME Init PROVE Playing!SourceInit
    OBVIOUS
  <2>1. Live(producers) = {}
    <3>1. IsArray(EmptyArray(InitialCap), Interfaces) /\ Live(EmptyArray(InitialCap)) = {}
      BY EmptyArrayIsArray, InterfaceAssumption
    <3> QED BY <3>1 DEF Init, InterfaceInit
  <2>2. \A i \in Interfaces : player[i] = "none" /\ stage[i] = "new"
    BY DEF Init, InterfaceInit
  <2>3. \A i \in Interfaces : ~queued[i] /\ ~eof[i]
    BY Zenon DEF Init, InterfaceInit
  <2> QED BY <2>1, <2>2, <2>3 DEF Playing!SourceInit, Speaking, Speaks, Waiting, Ended, Held
<1>2. InterfaceInv /\ [Next]_networkVars => [Playing!SourceNext]_(Playing!sourceVars)
  <2>1. ASSUME UNCHANGED interfaceVars PROVE UNCHANGED Playing!sourceVars
    BY <2>1 DEF Playing!sourceVars, Speaking, Speaks, Waiting, Ended, Held, interfaceVars, soundVars,
         callVars, stackVars
  <2> QED BY <2>1, InterfaceSource DEF Next, networkVars, Playing!SourceNext
<1> QED BY <1>1, <1>2, InterfaceSafe, PTL DEF Spec, ImplementsSource, Playing!SourceSpec

-----------------------------------------------------------------------------
(* Sockets.                                                                 *)

\* Until a call goes astray: a holder's descriptor is in use and made for it, that of a
\* closed object is not, and the rest of the table was left behind.
Own(s) ==
  /\ s \in Holders => fd[s] \in used /\ madeFor[fd[s]] = s
  /\ life[s] = "closed" /\ fd[s] \in used => madeFor[fd[s]] /= s
  /\ s \in Holders /\ fd[s] \in listening => fd[s] \in bound \/ fd[s] \in bindThrew

Accounted ==
  \A f \in Fds : f \in used <=> f \in leaked \/ \E s \in Holders : fd[s] = f

SocketInv ==
  /\ SocketTypeOK
  /\ ~stray => Accounted /\ \A s \in SocketObjects : Own(s)

LEMMA SocketInitInv == SocketInit => SocketInv
<1> SUFFICES ASSUME SocketInit PROVE SocketInv
  OBVIOUS
<1>1. stray \in BOOLEAN
  BY Zenon DEF SocketInit
<1>2. SocketTypeOK
  BY <1>1 DEF SocketInit, SocketTypeOK
<1> QED BY <1>2 DEF SocketInit, SocketInv, Accounted, Own, Holders

LEMMA SocketTyped ==
  ASSUME SocketInv, NEW s \in SocketObjects, SocketStep(s, Present)
  PROVE  SocketTypeOK'
<1>0. SocketTypeOK /\ (life[s] = "created" => fd[s] \in used)
  BY DEF SocketInv, SocketStep, Own, Holders
<1> USE <1>0, SocketAssumption
    DEF SocketTypeOK, Turns, NoObject, Free, Constructed, SocketKinds, tableVars, table
<1>1. stray' \in BOOLEAN
  <2>1. stray' = stray \/ stray' = (stray \/ Foreign(s))
    BY DEF SocketStep, Check, CreateFails, Create, Receives, Binds, BindThrows, ConstructorBinds,
           ConstructorBindFails, ConstructorFails, ConstructorReturns, Bind, Call, Accept,
           CloseSocket, Drop, Reaches
  <2> QED BY <2>1, Zenon
<1>2. CASE Check(s, Present) \/ CreateFails(s)
  BY <1>1, <1>2 DEF Check, CreateFails
<1>3. CASE Create(s)
  BY <1>1, <1>3 DEF Create, Receives
<1>4. CASE ConstructorBinds(s)
  BY <1>1, <1>4 DEF ConstructorBinds, Binds, StartsListening, GetsPort
<1>5. CASE ConstructorBindFails(s)
  BY <1>1, <1>5 DEF ConstructorBindFails, BindThrows, StartsListening, GetsPort, ListenFails
<1>6. CASE ConstructorFails(s) \/ ConstructorReturns(s)
  BY <1>1, <1>6 DEF ConstructorFails, ConstructorReturns
<1>7. CASE Bind(s)
  BY <1>1, <1>7 DEF Bind, Binds, BindThrows, StartsListening, GetsPort, ListenFails
<1>8. CASE Call(s)
  BY <1>1, <1>8 DEF Call
<1>9. CASE CloseSocket(s)
  BY <1>1, <1>9 DEF CloseSocket
<1>10. CASE Drop(s)
  BY <1>1, <1>10 DEF Drop
<1>11. ASSUME NEW u \in SocketObjects, Accept(s, u) PROVE SocketTypeOK'
  BY <1>1, <1>11 DEF Accept, Receives
<1> QED
  BY <1>2, <1>3, <1>4, <1>5, <1>6, <1>7, <1>8, <1>9, <1>10, <1>11 DEF SocketStep

LEMMA SocketKept ==
  ASSUME SocketInv, NEW s \in SocketObjects, SocketStep(s, Present), ~stray'
  PROVE  Accounted' /\ \A u \in SocketObjects : Own(u)'
<1>1. SocketTypeOK /\ ~stray /\ Accounted /\ \A u \in SocketObjects : Own(u)
  BY DEF SocketStep, SocketInv
<1> USE <1>1, SocketAssumption
    DEF SocketTypeOK, Accounted, Own, Holders, Turns, NoObject, Free, Constructed, SocketKinds,
        tableVars, table
<1>2. CASE Check(s, Present) \/ CreateFails(s)
  BY <1>2 DEF Check, CreateFails
<1>3. CASE Create(s)
  BY <1>3 DEF Create, Receives
<1>4. CASE ConstructorBinds(s)
  BY <1>4 DEF ConstructorBinds, Binds, StartsListening, GetsPort
<1>5. CASE ConstructorBindFails(s)
  BY <1>5 DEF ConstructorBindFails, BindThrows, StartsListening, GetsPort, ListenFails
<1>6. CASE ConstructorFails(s) \/ ConstructorReturns(s)
  BY <1>6 DEF ConstructorFails, ConstructorReturns
<1>7. CASE Bind(s)
  BY <1>7 DEF Bind, Binds, BindThrows, StartsListening, GetsPort, ListenFails
<1>8. CASE Call(s)
  BY <1>8 DEF Call
<1>9. CASE CloseSocket(s)
  <2>1. fd[s] \in Fds /\ (fd[s] \in used => s \in Holders /\ madeFor[fd[s]] = s)
    BY <1>9 DEF CloseSocket, Reaches, Foreign
  <2>2. life' = [life EXCEPT ![s] = "closed"] /\ fd' = fd
    BY <1>9 DEF CloseSocket
  <2>3. \A u \in SocketObjects : u \in Holders' <=> u \in Holders /\ u /= s
    BY <2>2
  <2>4. \A u \in Holders' : fd[u] /= fd[s]
    BY <2>1, <2>3
  <2>5. Accounted'
    BY <1>9, <2>1, <2>2, <2>3, <2>4 DEF CloseSocket
  <2>6. ASSUME NEW u \in SocketObjects PROVE Own(u)'
    BY <1>9, <2>1, <2>2, <2>3, <2>4, <2>6 DEF CloseSocket
  <2> QED BY <2>5, <2>6
<1>10. CASE Drop(s)
  BY <1>10 DEF Drop
<1>11. ASSUME NEW u \in SocketObjects, Accept(s, u)
       PROVE  Accounted' /\ \A v \in SocketObjects : Own(v)'
  BY <1>11 DEF Accept, Receives
<1> QED
  BY <1>2, <1>3, <1>4, <1>5, <1>6, <1>7, <1>8, <1>9, <1>10, <1>11 DEF SocketStep

LEMMA SocketStepInv ==
  ASSUME SocketInv, NEW s \in SocketObjects, SocketStep(s, Present)
  PROVE  SocketInv'
  BY SocketTyped, SocketKept DEF SocketInv

LEMMA SocketStutterInv ==
  ASSUME SocketInv, UNCHANGED socketVars
  PROVE  SocketInv'
<1>1. SocketTypeOK'
  BY DEF SocketInv, SocketTypeOK, socketVars, table
<1>2. stray' = stray /\ (Accounted' <=> Accounted) /\ \A s \in SocketObjects : Own(s)' <=> Own(s)
  BY DEF Accounted, Own, Holders, socketVars, table
<1> QED BY <1>1, <1>2 DEF SocketInv

LEMMA SocketSafe == Spec => []SocketInv
<1>1. Init => SocketInv
  BY SocketInitInv DEF Init
<1>2. SocketInv /\ [Next]_networkVars => SocketInv'
  BY SocketStepInv, SocketStutterInv DEF Next, networkVars
<1> QED BY <1>1, <1>2, PTL DEF Spec

\* Every variable of the interfaces and the sockets keeps its type.
THEOREM NetworkTypeCorrect == Spec => []TypeOK
<1>1. InterfaceInv /\ SocketInv => TypeOK
  BY DEF InterfaceInv, SocketInv, TypeOK
<1> QED BY <1>1, InterfaceSafe, SocketSafe, PTL

\* Until a call on a closed object goes astray, every object has its descriptor for
\* itself.
THEOREM AlwaysOwnDescriptor == Spec => []OwnDescriptor
<1>1. SocketInv => OwnDescriptor
  BY DEF SocketInv, Own, OwnDescriptor, Holders
<1> QED BY <1>1, SocketSafe, PTL

\* Until then, lwip's table holds the sockets of the objects that are not closed and
\* those left behind, and no others.
THEOREM TableAlwaysAccounted == Spec => []TableAccounted
<1>1. ASSUME SocketInv, ~stray PROVE used = {fd[s] : s \in Holders} \cup leaked
  <2>1. /\ used \subseteq Fds /\ leaked \subseteq Fds
        /\ \A s \in Holders : fd[s] \in Fds
        /\ Accounted
    BY <1>1 DEF SocketInv, SocketTypeOK, Holders
  <2> QED BY <2>1 DEF Accounted
<1>2. SocketInv => TableAccounted
  BY <1>1 DEF TableAccounted
<1> QED BY <1>2, SocketSafe, PTL

\* Until then, a server socket listens on a port unless a bind of it threw.
THEOREM AlwaysListensOnPort == Spec => []ListensOnPort
<1>1. SocketInv => ListensOnPort
  BY DEF SocketInv, Own, ListensOnPort, Holders
<1> QED BY <1>1, SocketSafe, PTL
=============================================================================
