--------------------------------- MODULE Film ----------------------------------
(***************************************************************************)
(* The film of a phone and its person (PhoneExplainer.tsx): a script that  *)
(* says where everything is at each moment, and a detector that judges the *)
(* motion of the phone as it comes, as a station does.  The film starts    *)
(* again at its end, and the detector with it.                             *)
(*                                                                         *)
(* Times are tenths of a second.  What the filters make of the motion is   *)
(* one of Motions: the direction of gravity in degrees, the level of the   *)
(* last second and the STA/LTA ratio, as far as the detector tells them    *)
(* apart.                                                                  *)
(***************************************************************************)
EXTENDS Integers, Sequences, FiniteSets, SequencesExt

CONSTANTS
  Dt,      \* tenths of a second in a step, 1/FS in the program
  Motions, \* what a step may measure: [g, rms, ratio]
  Starts   \* where the film may begin: 0, or ?film= of the address

\* Assumed of the constants by whoever instantiates the module.
FilmAssumption == Dt \in Nat \ {0} /\ Starts \subseteq 0..609

VARIABLES
  film,    \* the film and its detector
  seen     \* is the stage on the screen, and the page visible

vars == <<film, seen>>

LOOP   == 610
SETTLE == 30
Window == 26
Held   == [vote |-> 30, knock |-> 30, cancelled |-> 25]

(***************************************************************************)
(* The script.                                                             *)
(***************************************************************************)
QUAKES == {[p |-> 35, s |-> 56], [p |-> 226, s |-> 240], [p |-> 378, s |-> 392]}
KNOCKS == {540, 569}

CHAPTERS == <<[t |-> 0, id |-> "quake"], [t |-> 126, id |-> "pickup"], [t |-> 184, id |-> "walk"],
              [t |-> 222, id |-> "walkquake"], [t |-> 284, id |-> "call"], [t |-> 343, id |-> "run"],
              [t |-> 374, id |-> "runquake"], [t |-> 420, id |-> "down"], [t |-> 524, id |-> "knock"]>>

MutantPHONE == <<[t |-> 0, at |-> "table"], [t |-> 141, at |-> "move"], [t |-> 161, at |-> "view"],
           [t |-> 284, at |-> "move"], [t |-> 292, at |-> "ear"], [t |-> 326, at |-> "move"],
           [t |-> 334, at |-> "move"], [t |-> 343, at |-> "pocket"], [t |-> 446, at |-> "move"],
           [t |-> 454, at |-> "move"], [t |-> 464, at |-> "table"]>>

\* Since when the phone is where, or on its way.
PHONE == <<[t |-> 0, at |-> "table"], [t |-> 151, at |-> "move"], [t |-> 161, at |-> "view"],
           [t |-> 284, at |-> "move"], [t |-> 292, at |-> "ear"], [t |-> 326, at |-> "move"],
           [t |-> 334, at |-> "move"], [t |-> 343, at |-> "pocket"], [t |-> 446, at |-> "move"],
           [t |-> 454, at |-> "move"], [t |-> 464, at |-> "table"]>>

\* Since when the person is at which place, or under way to it.
ROOT == <<[t |-> 0, at |-> "room"], [t |-> 126, at |-> "way"], [t |-> 146, at |-> "table"],
          [t |-> 184, at |-> "way"], [t |-> 420, at |-> "way"], [t |-> 446, at |-> "table"],
          [t |-> 466, at |-> "way"], [t |-> 476, at |-> "room"], [t |-> 524, at |-> "way"],
          [t |-> 530, at |-> "desk"], [t |-> 586, at |-> "way"], [t |-> 600, at |-> "room"]>>

Latest(table, t) == LET i == CHOOSE j \in DOMAIN table :
                               table[j].t <= t /\ \A k \in DOMAIN table : table[k].t <= t => k <= j
                    IN  table[i]

chapterAt(t) == Latest(CHAPTERS, t).id
phoneAt(t)   == Latest(PHONE, t).at
bodyAt(t)    == Latest(ROOT, t).at

\* What the hands do: weights that are not zero.
holds(t)  == \/ t < 343 /\ 145 < t /\ t < 344
             \/ 343 <= t /\ t < 446 /\ 440 < t
             \/ 446 <= t /\ t < 469
knocks(t) == 526 < t /\ t < 580
covers(t) == 58 < t /\ t < 118

(***************************************************************************)
(* The detector.                                                           *)
(***************************************************************************)
Fresh(t) ==
  [t |-> t, verdict |-> "listening", until |-> 0, still |-> 0, trig |-> -1, frozen |-> FALSE,
   ref |-> 0, g |-> 0, calm |-> 0, quiet |-> 0, tilted |-> FALSE]

resetDetector(f) == Fresh(f.t - LOOP)

Tilt(f, m) == IF m.g > f.ref THEN m.g - f.ref ELSE f.ref - m.g

Carried(f, m) == Tilt(f, m) > 2 \/ m.rms = "strong"

MutantMoves(f, m) == [f EXCEPT !.verdict = "moving", !.ref = m.g]

\* Moving: what is down now is where it is compared to.
Moves(f, m) == [f EXCEPT !.verdict = "moving", !.ref = m.g, !.still = 0]

Settles(f, m) ==
  IF m.rms = "still" /\ Tilt(f, m) < 1
  THEN [f EXCEPT !.still = @ + Dt,
                 !.verdict = IF f.still + Dt >= SETTLE THEN "listening" ELSE "settling"]
  ELSE Moves(f, m)

Listens(f, m) ==
  IF Carried(f, m) THEN Moves(f, m)
  ELSE IF m.ratio = "high"
       THEN [f EXCEPT !.verdict = "triggered", !.frozen = TRUE, !.trig = f.t]
       ELSE f

MutantEnds(f, v) == [f EXCEPT !.verdict = v, !.until = f.t + Held[v], !.trig = -1]

Ends(f, v) == [f EXCEPT !.verdict = v, !.until = f.t + Held[v], !.frozen = FALSE, !.trig = -1]

MutantChecks(f, m, v) ==
  IF f.t - f.trig >= Window THEN Ends(f, v)
  ELSE IF Tilt(f, m) > 2 THEN Ends(f, "cancelled")
  ELSE f

\* A trigger: a tilt ends it, and the shape of its energy after 2.56 s.
Checks(f, m, v) ==
  IF Tilt(f, m) > 2 THEN Ends(f, "cancelled")
  ELSE IF f.t - f.trig >= Window THEN Ends(f, v)
  ELSE f

MutantOver(f, m) ==
  IF f.t >= f.until /\ m.ratio = "low"
  THEN IF Carried(f, m) THEN [Moves(f, m) EXCEPT !.until = 0] ELSE [f EXCEPT !.verdict = f.verdict]
  ELSE f

\* The verdict has been shown, and what was no false start has died down.
Over(f, m) ==
  IF f.t >= f.until /\ (f.verdict = "cancelled" \/ m.ratio = "low")
  THEN IF Carried(f, m) THEN [Moves(f, m) EXCEPT !.until = 0]
       ELSE [f EXCEPT !.verdict = "listening", !.until = 0]
  ELSE f

Judge(f, m, v) ==
  CASE f.verdict \in {"moving", "settling"} -> Settles(f, m)
    [] f.verdict = "listening"              -> Listens(f, m)
    [] f.verdict = "triggered"              -> Checks(f, m, v)
    [] OTHER                                -> Over(f, m)

Quiet(f, m) == m.rms = "still" /\ m.ratio = "low" /\ m.g = f.g

\* History: what was measured since the phone moved, and since the trigger.
Note(f, m) ==
  [f EXCEPT !.g = m.g,
            !.calm = IF m.rms = "still" /\ m.g = f.g THEN IF @ < SETTLE THEN @ + Dt ELSE @ ELSE 0,
            !.quiet = IF Quiet(f, m) THEN IF @ < 200 THEN @ + Dt ELSE @ ELSE 0,
            !.tilted = f.verdict = "triggered" /\ (@ \/ Tilt(f, m) > 2)]

\* step, whose last lines let time pass.
step(f, m, v) ==
  LET n == [Judge(Note(f, m), m, v) EXCEPT !.t = f.t + Dt]
  IN  IF n.t >= LOOP THEN resetDetector(n) ELSE n

\* A step of frame, while somebody can see it.
Frame ==
  /\ seen
  /\ \E m \in Motions, v \in {"vote", "knock"} : film' = step(film, m, v)
  /\ UNCHANGED seen

\* The stage is scrolled away or the tab is hidden, and comes back.
Look ==
  /\ seen' = ~seen
  /\ UNCHANGED film

Init == film \in {Fresh(t) : t \in Starts} /\ seen = TRUE

Next == Frame \/ Look

Spec == Init /\ [][Next]_vars

(***************************************************************************)
(* Properties.                                                             *)
(***************************************************************************)
Verdicts == {"listening", "moving", "settling", "triggered", "vote", "cancelled", "knock"}

TypeOK ==
  /\ film.t \in 0..LOOP + Dt /\ film.verdict \in Verdicts /\ film.trig \in {-1} \cup 0..LOOP
  /\ film.frozen \in BOOLEAN /\ film.still \in 0..SETTLE + Dt /\ film.ref \in {m.g : m \in Motions} \cup {0}
  /\ seen \in BOOLEAN

\* The average behind a trigger stands still as long as the trigger lasts and no longer: else
\* the phone would be deaf, or would get used to the earthquake (frozen, trig and the verdict).
FrozenWhileTriggered == film.frozen = (film.verdict = "triggered") /\ film.frozen = (film.trig # -1)

\* A phone that was tilted since its trigger does not vote, also if it was tilted in the very
\* step in which the window ends ("cancel on tilt").
NoVoteTilted == film.verdict = "vote" => ~film.tilted

\* A phone that was moved listens again only after it lay still, in one place, for all of
\* SETTLE_S ("listen only when still").
StillFirst ==
  film.verdict \in {"moving", "settling"} /\ film'.verdict = "listening" /\ film'.t > film.t =>
    film'.calm >= SETTLE

ListensWhenStill == [][StillFirst]_vars

\* No verdict is for ever: a phone on which nothing moves listens after the longest of the ways
\* there, a trigger, its verdict and the settling.
ListensAgain ==
  film.quiet >= Window + Held.vote + SETTLE + 6 * Dt => film.verdict = "listening"

\* The tables of the script agree: a phone in the air is in the hand, the hands do one thing at
\* a time, the phone leaves the table and comes back when the person is there, and the chapters
\* tell of where the phone is and when the ground shakes (PHONE, ROOT, holdW, CHAPTERS, QUAKES).
Place(ch, at) ==
  /\ ch \in {"quake", "knock"} => at = "table"
  /\ ch \in {"walk", "walkquake"} => at = "view"
  /\ ch \in {"run", "runquake"} => at = "pocket"

ScriptAgrees ==
  LET t == film.t
  IN  /\ phoneAt(t) \in {"move", "view", "ear"} => holds(t)
      /\ ~(holds(t) /\ (knocks(t) \/ covers(t))) /\ ~(knocks(t) /\ covers(t))
      /\ phoneAt(t) = "move" /\ chapterAt(t) = "pickup" => bodyAt(t) = "table"
      /\ Place(chapterAt(t), phoneAt(t))
      /\ t \in KNOCKS => knocks(t) /\ bodyAt(t) = "desk" /\ chapterAt(t) = "knock"
      /\ \A q \in QUAKES : q.p <= t /\ t <= q.s =>
           chapterAt(t) \in {"quake", "walkquake", "runquake"}
===============================================================================
