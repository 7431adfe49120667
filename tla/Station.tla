-------------------------------- MODULE Station --------------------------------
(***************************************************************************)
(* The processor of one phone (internal/station/processor.go): it decides  *)
(* when the phone lies still and listens, announces a pick when the ground *)
(* moves, and withdraws the phone when it was the phone that moved.        *)
(*                                                                         *)
(* What the filters make of the motion is the choice of Samples: where the *)
(* phone points (degrees on a line stand for directions), whether it moves *)
(* strongly, its STA/LTA ratio, and free fall.  Ages and durations are     *)
(* kept instead of times; they stop counting where no condition tells them *)
(* apart any more.                                                         *)
(***************************************************************************)
EXTENDS Integers, Sequences, SequencesExt

CONSTANTS
  Samples,         \* what a sample may be: [g, strong, ratio, falls]
  Rate,            \* samples in a second: FsHz
  StillWindow,     \* seconds
  StillMaxTilt,    \* degrees
  Settle,          \* seconds
  ResumeSettle,    \* seconds
  ResumeMax,       \* seconds
  ResumeMaxTilt,   \* degrees
  NoiseEnough,     \* 30 seconds of noise are known
  EvalDelay,       \* samples
  MaxTrigger,      \* samples
  EndSettle,       \* samples
  AICPre,          \* samples: how far before a trigger its onset may be
  MaxEventTilt,    \* degrees
  MaxPicks         \* bound: how many triggers there are

\* Assumed of the constants by whoever instantiates the module.
StationAssumption ==
  /\ {Rate, StillWindow, Settle, EvalDelay, EndSettle} \subseteq Nat \ {0}
  /\ {StillMaxTilt, ResumeSettle, ResumeMax, ResumeMaxTilt, NoiseEnough, MaxTrigger, AICPre,
      MaxEventTilt, MaxPicks} \subseteq Nat
  /\ Samples \subseteq [g : Nat, strong : BOOLEAN, ratio : {"low", "mid", "high"}, falls : BOOLEAN]

VARIABLE p \* the processor, and what it has sent

States == {"warmup", "quiet", "triggered", "disturbed"}
NoTrigger == [age |-> -1]
Greater(a, b) == IF a > b THEN a ELSE b

\* How long ago the phone was handled, or fell, when it does not matter any more.
Long   == (ResumeMax + Settle + StillWindow) * Rate + 1
Landed == Greater(StillWindow * Rate, Rate + AICPre + EvalDelay) + 1

Cap(n, m) == IF n < m THEN n ELSE m
Tilt(a, b) == IF a > b THEN a - b ELSE b - a

Eligible(state) == state \in {"quiet", "triggered"}

\* New.  open and lay are history: the pick that was announced and has not ended, and how many
\* seconds the phone has lain where it is; fast, whether its last second was fast enough, and since,
\* for how long it has pointed where it points.
New ==
  [started |-> FALSE, phase |-> 0, strong |-> FALSE, hist |-> <<>>, rest |-> -1, handled |-> -1,
   quietG |-> -1, state |-> "warmup", told |-> "none", fell |-> Landed, noise |-> 0, frozen |-> FALSE,
   tr |-> NoTrigger, seq |-> 0, g |-> 0, since |-> Rate, open |-> 0, lay |-> -1, fast |-> FALSE]

\* setState, which says so.
setState(q, s) ==
  IF q.state = s THEN q
  ELSE [q EXCEPT !.state = s, !.told = s,
                 !.handled = IF s = "disturbed" /\ Eligible(q.state) THEN 0 ELSE @]

MutantOnGap(q) ==
  setState([q EXCEPT !.tr = NoTrigger, !.started = FALSE, !.lay = -1, !.since = Rate], "warmup")

\* onGap: the pick under way ends, truncated.
onGap(q) ==
  setState([q EXCEPT !.tr = NoTrigger, !.started = FALSE, !.open = 0, !.lay = -1,
                     !.since = Rate], "warmup")

MutantSegment(q, phase) ==
  setState([q EXCEPT !.started = TRUE, !.phase = phase, !.frozen = FALSE, !.strong = FALSE,
                     !.rest = -1, !.handled = -1, !.tr = NoTrigger], "warmup")

\* startSegment.
startSegment(q, phase) ==
  setState([q EXCEPT !.started = TRUE, !.phase = phase, !.frozen = FALSE, !.strong = FALSE,
                     !.hist = <<>>, !.rest = -1, !.handled = -1, !.tr = NoTrigger], "warmup")

(***************************************************************************)
(* onSecond.                                                               *)
(***************************************************************************)
\* Seconds inside a trigger are exempt from the motion test.
Still(q) ==
  /\ Len(q.hist) = StillWindow + 1
  /\ q.fell > StillWindow * Rate
  /\ \A h \in Range(q.hist) : Tilt(h.g, q.g) <= StillMaxTilt /\ (h.trig \/ ~h.strong)

MutantRemember(q) ==
  LET all == Append(q.hist, [g |-> q.g, strong |-> q.strong, trig |-> q.state = "triggered"])
  IN  [q EXCEPT !.hist = IF Len(all) > StillWindow + 2 THEN Tail(all) ELSE all,
                !.lay = -1, !.strong = FALSE]

\* secHist.  A second in which the phone moved strongly does not count for lay, and one in which
\* it came to point elsewhere is the first.
Remember(q) ==
  LET all == Append(q.hist, [g |-> q.g, strong |-> q.strong, trig |-> q.state = "triggered"])
      same == q.hist # <<>> /\ Tilt(Last(q.hist).g, q.g) <= StillMaxTilt
  IN  [q EXCEPT !.hist = IF Len(all) > StillWindow + 1 THEN Tail(all) ELSE all,
                !.lay = IF q.strong THEN -1
                        ELSE IF same THEN Cap(@ + 1, Settle + StillWindow) ELSE 0,
                !.strong = FALSE]

MutantRest(q) == [q EXCEPT !.rest = IF Still(q) THEN StillWindow ELSE -1]

\* stillFrom.
Rest(q) ==
  [q EXCEPT !.rest = IF ~Still(q) THEN -1
                     ELSE IF @ < 0 THEN StillWindow ELSE Cap(@ + 1, Settle + StillWindow)]

\* A quiet second is noise, also the one that ends the quiet.
Watch(q) ==
  IF q.state # "quiet" THEN q
  ELSE setState([q EXCEPT !.quietG = IF Still(q) THEN q.g ELSE @, !.noise = Cap(@ + 1, NoiseEnough)],
                IF Still(q) THEN "quiet" ELSE "disturbed")

\* Briefly handled and back in the same position.
Resumes(q) ==
  /\ q.state = "disturbed" /\ q.handled >= 0 /\ q.rest >= 0
  /\ q.handled - q.rest * Rate <= ResumeMax * Rate
  /\ q.noise >= NoiseEnough /\ ResumeSettle > 0
  /\ q.quietG >= 0 /\ Tilt(q.quietG, q.g) <= ResumeMaxTilt

\* The phone listens again if its samples come fast enough; Seed unfreezes the LTA.
Listen(q, fast) ==
  IF /\ q.state \in {"warmup", "disturbed"} /\ q.rest >= 0 /\ fast
     /\ q.rest >= (IF Resumes(q) THEN ResumeSettle ELSE Settle)
  THEN setState([q EXCEPT !.frozen = FALSE], "quiet")
  ELSE q

\* A status: from time to time, and if the state is not the one that was told.
Tell(q) == [q EXCEPT !.told = q.state]

onSecond(q, fast) == [Tell(Listen(Watch(Rest(Remember(q))), fast)) EXCEPT !.fast = fast]

(***************************************************************************)
(* Triggers.                                                               *)
(***************************************************************************)
\* startTrigger; gPre, where the phone pointed before the onset, is found by evaluate.
startTrigger(q, gPre) ==
  [q EXCEPT !.frozen = TRUE, !.state = "triggered",
            !.tr = [age |-> 0, announced |-> FALSE, left |-> -1, gPre |-> gPre]]

\* Classify, as far as it matters here.
Classes(q) ==
  IF q.fell <= Rate + q.tr.age THEN {"freefall"}
  ELSE (IF Tilt(q.tr.gPre, q.g) > MaxEventTilt THEN {"handling"} ELSE {"seismic", "other"})
         \cup (IF q.fell <= Rate + AICPre + q.tr.age THEN {"freefall"} ELSE {})

MutantAbort(q) ==
  setState([q EXCEPT !.tr = NoTrigger, !.rest = -1, !.hist = <<>>, !.open = 0, !.lay = -1],
           "disturbed")

\* abortMoved.
abortMoved(q) ==
  setState([q EXCEPT !.tr = NoTrigger, !.frozen = FALSE, !.rest = -1, !.hist = <<>>, !.open = 0,
                     !.lay = -1], "disturbed")

\* finish: its end may take the pick back, and the phone out of the sensors.
finish(q) ==
  LET tilt == Tilt(q.tr.gPre, q.g)
      e    == [q EXCEPT !.tr = NoTrigger, !.frozen = FALSE, !.open = 0]
  IN  IF tilt > StillMaxTilt THEN setState([e EXCEPT !.rest = -1, !.lay = -1], "disturbed")
      ELSE [e EXCEPT !.state = "quiet"]

\* evaluate: the pick is announced.
Announced(q) == [q EXCEPT !.seq = @ + 1, !.open = q.seq + 1, !.tr.announced = TRUE]

\* The detrigger, and EndSettle after it the end.
Wait(q, ratio) ==
  LET down == q.tr.left < 0 /\ (ratio = "low" \/ q.tr.age >= MaxTrigger)
      left == IF down THEN EndSettle ELSE IF q.tr.left > 0 THEN q.tr.left - 1 ELSE q.tr.left
  IN  IF left = 0 THEN finish(q) ELSE [q EXCEPT !.tr.left = left]

\* updateTrigger: what it may come to.
updateTrigger(q, ratio) ==
  LET o == [q EXCEPT !.tr.age = Cap(@ + 1, MaxTrigger + EvalDelay)]
  IN  IF ~o.tr.announced /\ o.tr.age >= EvalDelay
      THEN {IF c \in {"handling", "freefall"} THEN abortMoved(Announced(o))
            ELSE Wait(Announced(o), ratio) : c \in Classes(o)}
      ELSE IF o.tr.announced THEN {Wait(o, ratio)} ELSE {o}

(***************************************************************************)
(* Steps.                                                                  *)
(***************************************************************************)
\* What the sample says, and the age of what happened before; when the phone was handled matters
\* only until it listens again.
Measure(q, x) ==
  [q EXCEPT !.g = x.g, !.since = IF x.g = q.g THEN Cap(@ + 1, Rate) ELSE 1,
            !.strong = @ \/ x.strong,
            !.fell = IF x.falls THEN 0 ELSE Cap(@ + 1, Landed),
            !.handled = IF @ < 0 \/ Eligible(q.state) THEN -1 ELSE Cap(@ + 1, Long)]

Second(q, fast) ==
  IF q.phase = Rate - 1 THEN [onSecond(q, fast) EXCEPT !.phase = 0]
  ELSE [q EXCEPT !.phase = @ + 1]

Triggers(q, x) ==
  CASE q.state = "quiet" /\ x.ratio = "high" ->
         {startTrigger(q, gPre) : gPre \in {q.g} \cup {h.g : h \in Range(q.hist)}}
    [] q.state = "triggered" -> updateTrigger(q, x.ratio)
    [] OTHER -> {q}

\* The segment that the sample is of; the first sample of one is anywhere in a second.
Segments == IF p.started THEN {p} ELSE {startSegment(p, phase) : phase \in 0..Rate - 1}

\* Whether samples come fast enough, which only the end of a second asks.
Rates(q) == IF q.phase = Rate - 1 THEN BOOLEAN ELSE {TRUE}

\* onSample.  Gravity is what a low-pass of 0.1 Hz leaves: a direction lasts a second at least.
Sample ==
  \E q \in Segments, x \in Samples :
    /\ x.ratio = "high" => p.seq < MaxPicks
    /\ x.g # p.g => p.since >= Rate
    /\ \E fast \in Rates(q) : p' \in Triggers(Second(Measure(q, x), fast), x)

\* The resampler finds a gap, of any length; the samples that follow start a new segment.
Gap ==
  /\ p.started
  /\ \E fell \in {p.fell, Landed} : p' = [onGap(p) EXCEPT !.fell = fell]

vars == <<p>>

Init == p = New
Next == Sample \/ Gap
Spec == Init /\ [][Next]_vars

(***************************************************************************)
(* Properties.                                                             *)
(***************************************************************************)
TypeOK ==
  /\ p.state \in States /\ p.told \in States \cup {"none"} /\ p.phase \in 0..Rate - 1
  /\ p.rest \in -1..Settle + StillWindow /\ p.handled \in -1..Long /\ p.fell \in 0..Landed
  /\ p.seq \in 0..MaxPicks /\ p.open \in 0..MaxPicks /\ Len(p.hist) <= StillWindow + 1
  /\ p.noise \in 0..NoiseEnough

\* The average behind a trigger stands still exactly while the trigger lasts, however it ends:
\* else an event would raise its own threshold, or the phone stay deaf to slow changes
\* (startTrigger, abortMoved, finish, startSegment).
FrozenWhileTriggered ==
  p.started => p.frozen = (p.state = "triggered") /\ p.frozen = (p.tr # NoTrigger)

\* A phone that is put down somewhere listens in the end: whoever lies still and delivers
\* samples fast enough is a sensor after the longest settling time, whatever happened before
\* (onSecond, stillFrom).
ListensWhenStill == p.lay >= Settle + StillWindow /\ p.fast => Eligible(p.state)

\* A phone whose stream began anew listens only after it lay still in one place for all of
\* SettleSec since its first second: what it did before the gap does not count (startSegment,
\* onSecond).
SettlesFirst == p.state = "warmup" /\ Eligible(p'.state) => p'.lay >= Settle

SettledAfterGap == [][SettlesFirst]_vars

\* The comment on ResumeMaxSec (config.go:62): a phone that is only picked up briefly "is
\* eligible again after ResumeSettleSec of stillness".
RestedBeforeResuming ==
  [][p.state = "disturbed" /\ Eligible(p'.state) => p'.handled >= ResumeSettle * Rate]_vars

\* What the network is told is the life of a phone and its picks as Listening says: every pick
\* is announced by an eligible phone, in order, and ends, also when the stream breaks.
L == INSTANCE Listening WITH eligible <- Eligible(p.told), open <- p.open, seq <- p.seq
LifeOfPicks == L!Spec
===============================================================================
