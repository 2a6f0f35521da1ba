------------------------------- MODULE Source -------------------------------
(***************************************************************************)
(* What every audio system of this program promises whoever plays through  *)
(* it, be it the mixer of the loopback, the callback of OpenSL or the one  *)
(* step that stands for both where interfaces of the IP stack are modelled:*)
(* a source is pulled from while it has something to say, and left alone   *)
(* once it has ended and said it all.  Before that, it falls silent by the *)
(* hand of its owner only.                                                 *)
(***************************************************************************)
CONSTANT Sources

VARIABLES on,        \* the sources that are pulled from
          waiting,   \* those with something still to be pulled
          ended,     \* those that are closed: nothing is added to them
          held       \* those in the hands of their owner: made, cut off or freed

sourceVars == <<on, waiting, ended, held>>

SourceInit == on = {} /\ waiting = {} /\ ended = {} /\ held = Sources

\* A source is made afresh, or what it held is thrown away with it.
Make(s) ==
  /\ s \in held /\ s \notin on
  /\ waiting' = waiting \ {s} /\ ended' = ended \ {s}
  /\ UNCHANGED <<on, held>>

\* It is handed to the audio system, and let go of then or later.
Begin(s) ==
  /\ s \in held /\ s \notin on \cup ended
  /\ on' = on \cup {s} /\ held' \in {held, held \ {s}}
  /\ UNCHANGED <<waiting, ended>>

LetGo(s) == held' = held \ {s} /\ UNCHANGED <<on, waiting, ended>>

TakeBack(s) == held' = held \cup {s} /\ UNCHANGED <<on, waiting, ended>>

Offer(s) ==
  /\ s \notin ended
  /\ waiting' = waiting \cup {s}
  /\ UNCHANGED <<on, ended, held>>

\* A close leaves the rest to the audio system, a terminate means to cut it off.
End(s) ==
  /\ ended' = ended \cup {s} /\ held' \in {held, held \cup {s}}
  /\ UNCHANGED <<on, waiting>>

\* The owner cuts the source off, whatever is waiting.
Cut(s) ==
  /\ s \in held
  /\ on' = on \ {s} /\ waiting' \in {waiting, waiting \ {s}} /\ held' \in {held, held \ {s}}
  /\ UNCHANGED ended

\* The audio system pulls: some of what was waiting, or the last of it, which leaves its
\* owner nothing to cut off.
Pull(s) ==
  /\ s \in on /\ s \in waiting
  /\ waiting' \in {waiting, waiting \ {s}} /\ held' \in {held, held \ {s}}
  /\ UNCHANGED <<on, ended>>

\* The audio system drops the source, which has ended and said everything.
Drop(s) ==
  /\ s \in on /\ s \in ended /\ s \notin waiting
  /\ on' = on \ {s}
  /\ UNCHANGED <<waiting, ended, held>>

SourceStep(s) ==
  \/ Make(s) \/ Begin(s) \/ LetGo(s) \/ TakeBack(s) \/ Offer(s) \/ End(s)
  \/ Cut(s) \/ Pull(s) \/ Drop(s)

SourceNext == \E s \in Sources : SourceStep(s)

SourceSpec == SourceInit /\ [][SourceNext]_sourceVars
=============================================================================
