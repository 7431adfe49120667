-------------------------------- MODULE Replay --------------------------------
(***************************************************************************)
(* The replay on the page of an event (web/components/EventReplay3D.tsx):  *)
(* its clock runs from before the origin to after the last area and the    *)
(* last level, while the page may load a newer state of the event (Reading *)
(* has the loading).  Times are seconds after T0, which is Before seconds  *)
(* before the origin.                                                      *)
(***************************************************************************)
EXTENDS Naturals, FiniteSets, FiniteSetsExt

CONSTANTS
  Areas,   \* the areas that may take part
  Before,  \* -T0
  After,   \* 8 s: what follows the last of the areas and levels
  Empty,   \* 10 s: where the last area is taken to be when there is none
  Times,   \* when an area may trigger, or a level be reached, after the origin
  Speeds,  \* how far a frame takes the clock
  Clicks   \* bound: what the reader does, and how often the event changes

\* Assumed of the constants by whoever instantiates the module.
ReplayAssumption ==
  /\ IsFiniteSet(Areas) /\ IsFiniteSet(Times) /\ Times \subseteq Nat \ {0}
  /\ {Before, After, Empty, Clicks} \subseteq Nat /\ 1 \in Speeds /\ Speeds \subseteq Nat

VARIABLES
  ev,       \* the event: when each area triggered (0: not yet), when its levels were reached
  clock,    \* tRef
  time,     \* the time that is shown
  playing,
  speed,
  ended,    \* history: has the replay of this event come to its end by itself
  clicks    \* what is left of Clicks

vars == <<ev, clock, time, playing, speed, ended, clicks>>

Click == clicks > 0 /\ clicks' = clicks - 1

Cells(e) == {a \in Areas : e.first[a] # 0}
Later(s) == IF s = {} THEN 0 ELSE Max(s)

\* tEnd.
End(e) ==
  LET lastCell  == IF Cells(e) = {} THEN Empty ELSE Max({e.first[a] : a \in Cells(e)})
      lastLevel == Later(e.levels)
  IN  Before + After + Max({lastCell, lastLevel})

\* The areas that have lit, and the levels that are behind the cursor, at a time.
Reached(e, t) == {a \in Cells(e) : e.first[a] + Before <= t}
Passed(e, t)  == {l \in e.levels : l + Before <= t}

\* The wave field is lit up to the clock; what is said of it, and the cursor, are of the time.
Picture == [lit |-> Reached(ev, clock), said |-> Cardinality(Reached(ev, time)), cursor |-> time]

(***************************************************************************)
(* A frame of the animation; every 80 ms the time is shown.                *)
(***************************************************************************)
Frame ==
  /\ playing \/ time # clock
  /\ LET to == clock + speed
         over == playing /\ to > End(ev)
     IN  /\ clock' = IF over THEN End(ev) ELSE IF playing THEN to ELSE clock
         /\ playing' = (playing /\ ~over)
         /\ ended' = (ended \/ over)
  /\ time' \in {time, clock'}
  /\ UNCHANGED <<ev, speed, clicks>>

\* The reader: pause and play, which starts anew at the end; the speed; the slider.
PlayPause ==
  /\ Click
  /\ playing' = ~playing
  /\ clock' = IF ~playing /\ clock >= End(ev) THEN 0 ELSE clock
  /\ ended' = FALSE
  /\ UNCHANGED <<ev, time, speed>>

SetSpeed(s) ==
  /\ Click /\ s # speed
  /\ speed' = s
  /\ UNCHANGED <<ev, clock, time, playing, ended>>

Scrub(t) ==
  /\ Click /\ t <= End(ev)
  /\ clock' = t /\ time' = t /\ playing' = FALSE
  /\ ended' = FALSE
  /\ UNCHANGED <<ev, speed>>

\* The page has loaded the event anew: another area, another level, or times that were
\* estimated again.  The clock goes on from where it was.
Loaded(e) ==
  /\ Click /\ e # ev
  /\ ev' = e /\ ended' = FALSE
  /\ UNCHANGED <<clock, time, playing, speed>>

Events == [first : [Areas -> Times \cup {0}], levels : {{t} : t \in Times} \cup {Times}]

Init ==
  /\ ev \in Events /\ clock = 0 /\ time = 0 /\ playing = TRUE
  /\ speed = 1 /\ ended = FALSE /\ clicks = Clicks

Next ==
  \/ Frame \/ PlayPause
  \/ \E s \in Speeds : SetSpeed(s)
  \/ \E t \in 0..End(ev) : Scrub(t)
  \/ \E e \in Events : Loaded(e)

Spec == Init /\ [][Next]_vars /\ WF_vars(Frame)

TypeOK ==
  /\ ev \in Events /\ clock \in Nat /\ time \in Nat /\ playing \in BOOLEAN
  /\ ended \in BOOLEAN /\ speed \in Speeds /\ clicks \in 0..Clicks

\* A replay that came to its end by itself has shown every area and every level of the event
\* it played, however fast it went and whenever the event changed (the loop, tEnd).
PlayedAll ==
  ended => Reached(ev, clock) = Cells(ev) /\ Passed(ev, clock) = ev.levels

\* A replay that is left alone stops, and the time it shows is that of its picture.
Settled == ~playing /\ Picture.said = Cardinality(Picture.lit) /\ Picture.cursor = clock
===============================================================================
