---------------------------- MODULE Station_proofs ----------------------------
(***************************************************************************)
(* Proofs about Station, for all durations, angles and samples: the types, *)
(* that the average behind a trigger stands still exactly while the        *)
(* trigger lasts, and that the network is told what Listening says.        *)
(***************************************************************************)
EXTENDS Station, TLAPS, SequenceTheorems

-----------------------------------------------------------------------------
(* The inductive invariant.                                                *)

Trigger == [age : Nat, announced : BOOLEAN, left : Int, gPre : Nat]

Processor ==
  [started : BOOLEAN, phase : 0..Rate - 1, strong : BOOLEAN,
   hist : Seq([g : Nat, strong : BOOLEAN, trig : BOOLEAN]),
   rest : -1..Settle + StillWindow, handled : -1..Long, quietG : Int, state : States,
   told : States \cup {"none"}, fell : 0..Landed, noise : 0..NoiseEnough, frozen : BOOLEAN,
   tr : {NoTrigger} \cup Trigger, seq : Nat, g : Nat, since : Int, open : Nat, lay : Int,
   fast : BOOLEAN]

(* A trigger is there exactly in the triggered state, and freezes the      *)
(* average of a segment; the network knows of the eligibility, and of the  *)
(* pick of a trigger once it is announced.                                 *)
Sound(q) ==
  /\ Len(q.hist) <= StillWindow + 1
  /\ q.started => (q.frozen <=> q.state = "triggered")
  /\ ~q.started => q.state = "warmup"
  /\ q.state = "triggered" <=> q.tr # NoTrigger
  /\ Eligible(q.told) <=> Eligible(q.state)
  /\ q.seq <= MaxPicks
  /\ q.tr = NoTrigger => q.open = 0
  /\ q.tr # NoTrigger =>
       IF q.tr.announced THEN q.open = q.seq /\ q.seq # 0
       ELSE q.open = 0 /\ q.seq < MaxPicks /\ q.tr.left = -1

Inv == StationAssumption /\ p \in Processor /\ Sound(p)

-----------------------------------------------------------------------------
(* The operators of the module.                                            *)

LEMMA Numbers ==
  ASSUME StationAssumption
  PROVE  /\ Rate \in Nat \ {0} /\ StillWindow \in Nat \ {0} /\ Settle \in Nat \ {0}
         /\ EvalDelay \in Nat \ {0} /\ EndSettle \in Nat \ {0}
         /\ StillMaxTilt \in Nat /\ ResumeSettle \in Nat /\ ResumeMax \in Nat
         /\ NoiseEnough \in Nat /\ MaxTrigger \in Nat /\ MaxPicks \in Nat
         /\ Long \in Nat \ {0} /\ Landed \in Nat \ {0}
<1>1. /\ Rate \in Nat \ {0} /\ StillWindow \in Nat \ {0} /\ Settle \in Nat \ {0}
      /\ EvalDelay \in Nat \ {0} /\ EndSettle \in Nat \ {0}
      /\ StillMaxTilt \in Nat /\ ResumeSettle \in Nat /\ ResumeMax \in Nat
      /\ NoiseEnough \in Nat /\ MaxTrigger \in Nat /\ MaxPicks \in Nat
  BY DEF StationAssumption
<1>2. \A a, b \in Nat : a * b \in Nat
  OBVIOUS
<1>3. ResumeMax + Settle + StillWindow \in Nat /\ Rate \in Nat
  BY <1>1
<1>4. (ResumeMax + Settle + StillWindow) * Rate \in Nat
  BY <1>2, <1>3, Zenon
<1>5. StillWindow * Rate \in Nat /\ AICPre \in Nat
  BY <1>1, <1>2, Zenon DEF StationAssumption
<1>6. Landed \in Nat \ {0}
  BY <1>1, <1>5 DEF Landed, Greater
<1>7. QED  BY <1>1, <1>4, <1>6 DEF Long

LEMMA CapIs ==
  ASSUME NEW a \in Int, NEW b \in Int, NEW m \in Int, m <= a, m <= b
  PROVE  Cap(a, b) \in m..b
  BY DEF Cap

LEMMA NoTriggerIs == NoTrigger \notin Trigger
  BY DEF NoTrigger, Trigger

(* The fields that the invariant is about, apart from those of the state.  *)
Kept(q, r) ==
  /\ r.started = q.started /\ r.hist = q.hist /\ r.frozen = q.frozen /\ r.tr = q.tr
  /\ r.seq = q.seq /\ r.open = q.open /\ r.g = q.g /\ r.phase = q.phase /\ r.rest = q.rest
  /\ r.noise = q.noise /\ r.fell = q.fell

LEMMA SetStateIs ==
  ASSUME StationAssumption, NEW q \in Processor, NEW s \in States
  PROVE  LET r == setState(q, s)
         IN  /\ r \in Processor /\ Kept(q, r) /\ r.state = s
             /\ r.told = IF q.state = s THEN q.told ELSE s
<1>1. CASE q.state = s
  BY <1>1 DEF setState, Kept
<1>2. CASE q.state # s
  <2> DEFINE h == IF s = "disturbed" /\ Eligible(q.state) THEN 0 ELSE q.handled
             r == [q EXCEPT !.state = s, !.told = s, !.handled = h]
  <2>1. setState(q, s) = r
    BY <1>2 DEF setState
  <2>2. h \in -1..Long
    BY Numbers DEF Processor
  <2> HIDE DEF h
  <2>3. r \in Processor /\ Kept(q, r) /\ r.state = s /\ r.told = s
    BY <2>2 DEF Processor, Kept
  <2>4. QED  BY <1>2, <2>1, <2>3
<1>3. QED  BY <1>1, <1>2

(* A change of the state, of a phone without a trigger or that loses it.   *)
LEMMA SetStateSound ==
  ASSUME StationAssumption, NEW q \in Processor, NEW s \in States \ {"triggered"},
         Len(q.hist) <= StillWindow + 1, q.tr = NoTrigger, q.open = 0, q.seq <= MaxPicks,
         q.started => ~q.frozen,
         ~q.started => s = "warmup",
         q.state = s => (Eligible(q.told) <=> Eligible(s))
  PROVE  setState(q, s) \in Processor /\ Sound(setState(q, s)) /\ Kept(q, setState(q, s))
         /\ setState(q, s).state = s
<1> DEFINE r == setState(q, s)
<1>1. /\ r \in Processor /\ Kept(q, r) /\ r.state = s
      /\ r.told = IF q.state = s THEN q.told ELSE s
  BY SetStateIs
<1> HIDE DEF r
<1>2. /\ r.hist = q.hist /\ r.tr = NoTrigger /\ r.open = 0 /\ r.seq = q.seq
      /\ r.started = q.started /\ r.frozen = q.frozen
  BY <1>1 DEF Kept
<1>3. s # "triggered" /\ (Eligible(r.told) <=> Eligible(r.state))
  BY <1>1
<1>4. Sound(r)
  BY <1>1, <1>2, <1>3 DEF Sound
<1>5. QED  BY <1>1, <1>4 DEF r

LEMMA SegmentSound ==
  ASSUME Inv, ~p.started, NEW phase \in 0..Rate - 1
  PROVE  LET r == startSegment(p, phase)
         IN  /\ r \in Processor /\ Sound(r) /\ r.started
             /\ r.told = p.told /\ r.seq = p.seq /\ r.open = p.open /\ r.g = p.g /\ r.state = p.state
             /\ r.tr = p.tr
<1> DEFINE q == [p EXCEPT !.started = TRUE, !.phase = phase, !.frozen = FALSE, !.strong = FALSE,
                          !.hist = <<>>, !.rest = -1, !.handled = -1, !.tr = NoTrigger]
<1>1. /\ p \in Processor /\ p.state = "warmup" /\ p.tr = NoTrigger /\ p.open = 0 /\ p.seq <= MaxPicks
      /\ Eligible(p.told) <=> Eligible("warmup")
  BY DEF Inv, Sound
<1>2. -1 \in -1..Settle + StillWindow /\ -1 \in -1..Long
  BY Numbers DEF Inv
<1>3. <<>> \in Seq([g : Nat, strong : BOOLEAN, trig : BOOLEAN]) /\ Len(<<>>) = 0
  OBVIOUS
<1>4. /\ q \in Processor /\ q.state = "warmup" /\ q.tr = NoTrigger /\ q.open = p.open /\ q.seq = p.seq
      /\ q.told = p.told /\ q.hist = <<>> /\ q.started /\ ~q.frozen /\ q.g = p.g
  BY <1>1, <1>2, <1>3 DEF Processor
<1>5. startSegment(p, phase) = q
  BY <1>4 DEF startSegment, setState
<1> HIDE DEF q
<1>6. Len(q.hist) = 0 /\ StillWindow \in Nat
  BY <1>3, <1>4, Numbers DEF Inv
<1>7. Eligible(q.told) <=> Eligible(q.state)
  BY <1>1, <1>4
<1>8. Sound(q)
  BY <1>1, <1>4, <1>6, <1>7 DEF Sound
<1>9. QED  BY <1>1, <1>4, <1>5, <1>8

LEMMA MeasureSound ==
  ASSUME StationAssumption, NEW q \in Processor, Sound(q), NEW x \in Samples
  PROVE  LET r == Measure(q, x)
         IN  /\ r \in Processor /\ Sound(r)
             /\ r.started = q.started /\ r.state = q.state /\ r.told = q.told /\ r.seq = q.seq
             /\ r.open = q.open /\ r.tr = q.tr
<1> DEFINE since == IF x.g = q.g THEN Cap(q.since + 1, Rate) ELSE 1
           fell == IF x.falls THEN 0 ELSE Cap(q.fell + 1, Landed)
           handled == IF q.handled < 0 \/ Eligible(q.state) THEN -1 ELSE Cap(q.handled + 1, Long)
           strong == q.strong \/ x.strong
           r == [q EXCEPT !.g = x.g, !.since = since, !.strong = strong, !.fell = fell, !.handled = handled]
<1>1. x.g \in Nat /\ x.strong \in BOOLEAN
  BY DEF StationAssumption
<1>2. q.since \in Int /\ q.fell \in 0..Landed /\ q.handled \in -1..Long /\ q.strong \in BOOLEAN
  BY DEF Processor
<1>3. since \in Int /\ fell \in 0..Landed /\ handled \in -1..Long /\ strong \in BOOLEAN
  BY <1>1, <1>2, Numbers DEF Cap
<1>4. Measure(q, x) = r
  BY DEF Measure
<1> HIDE DEF since, fell, handled, strong
<1>5. /\ r \in Processor /\ r.hist = q.hist /\ r.frozen = q.frozen
      /\ r.started = q.started /\ r.state = q.state /\ r.told = q.told /\ r.seq = q.seq
      /\ r.open = q.open /\ r.tr = q.tr
  BY <1>1, <1>3 DEF Processor
<1> HIDE DEF r
<1>6. QED  BY <1>4, <1>5 DEF Sound

-----------------------------------------------------------------------------
(* A second.                                                               *)

(* A processor in the same trigger, or outside of triggers as q is.        *)
Follows(q, r) ==
  /\ r \in Processor /\ Sound(r) /\ r.started
  /\ r.seq = q.seq /\ r.open = q.open /\ r.tr = q.tr

LEMMA RememberSound ==
  ASSUME StationAssumption, NEW q \in Processor, Sound(q), q.started
  PROVE  Follows(q, Remember(q))
<1> DEFINE R == [g : Nat, strong : BOOLEAN, trig : BOOLEAN]
           entry == [g |-> q.g, strong |-> q.strong, trig |-> q.state = "triggered"]
           all == Append(q.hist, entry)
           same == q.hist # <<>> /\ Tilt(Last(q.hist).g, q.g) <= StillMaxTilt
           hist == IF Len(all) > StillWindow + 1 THEN Tail(all) ELSE all
           lay == IF q.strong THEN -1 ELSE IF same THEN Cap(q.lay + 1, Settle + StillWindow) ELSE 0
           r == [q EXCEPT !.hist = hist, !.lay = lay, !.strong = FALSE]
<1>1. q.hist \in Seq(R) /\ Len(q.hist) <= StillWindow + 1 /\ entry \in R /\ q.lay \in Int
  BY DEF Processor, Sound
<1>2. StillWindow \in Nat \ {0} /\ Settle \in Nat
  BY Numbers
<1>3. Remember(q) = r
  BY DEF Remember
<1> HIDE DEF R, entry
<1>4. all \in Seq(R) /\ Len(all) = Len(q.hist) + 1
  BY <1>1, AppendProperties
<1> HIDE DEF all
<1>5. hist \in Seq(R) /\ Len(hist) <= StillWindow + 1
  BY <1>1, <1>2, <1>4
<1>6. lay \in Int
  BY <1>1, <1>2 DEF Cap
<1> HIDE DEF hist, lay
<1>7. /\ r \in Processor /\ r.hist = hist /\ r.frozen = q.frozen /\ r.told = q.told
      /\ r.state = q.state /\ r.started = q.started /\ r.seq = q.seq /\ r.open = q.open /\ r.tr = q.tr
  BY <1>5, <1>6 DEF Processor, R
<1> HIDE DEF r
<1>8. QED  BY <1>3, <1>5, <1>7 DEF Sound, Follows

LEMMA RestSound ==
  ASSUME StationAssumption, NEW q \in Processor, Sound(q), q.started
  PROVE  Follows(q, Rest(q))
<1> DEFINE rest == IF ~Still(q) THEN -1
                   ELSE IF q.rest < 0 THEN StillWindow ELSE Cap(q.rest + 1, Settle + StillWindow)
           r == [q EXCEPT !.rest = rest]
<1>1. StillWindow \in Nat \ {0} /\ Settle \in Nat /\ q.rest \in -1..Settle + StillWindow
  BY Numbers DEF Processor
<1>2. rest \in -1..Settle + StillWindow
  BY <1>1 DEF Cap
<1>3. Rest(q) = r
  BY DEF Rest
<1> HIDE DEF rest
<1>4. /\ r \in Processor /\ r.hist = q.hist /\ r.frozen = q.frozen /\ r.told = q.told
      /\ r.state = q.state /\ r.started = q.started /\ r.seq = q.seq /\ r.open = q.open /\ r.tr = q.tr
  BY <1>2 DEF Processor
<1> HIDE DEF r
<1>5. QED  BY <1>3, <1>4 DEF Sound, Follows

(* A state that is not triggered may become another such.                  *)
LEMMA TurnFollows ==
  ASSUME StationAssumption, NEW q \in Processor, q.started, q.state # "triggered",
         Len(q.hist) <= StillWindow + 1, q.tr = NoTrigger, q.open = 0, q.seq <= MaxPicks, ~q.frozen,
         Eligible(q.told) <=> Eligible(q.state),
         NEW s \in States \ {"triggered"}
  PROVE  Follows(q, setState(q, s))
<1>1. setState(q, s) \in Processor /\ Sound(setState(q, s)) /\ Kept(q, setState(q, s))
  BY SetStateSound
<1>2. QED  BY <1>1 DEF Kept, Follows

LEMMA WatchSound ==
  ASSUME StationAssumption, NEW q \in Processor, Sound(q), q.started
  PROVE  Follows(q, Watch(q))
<1>1. CASE q.state # "quiet"
  BY <1>1 DEF Watch, Follows
<1>2. CASE q.state = "quiet"
  <2> DEFINE quietG == IF Still(q) THEN q.g ELSE q.quietG
             noise == Cap(q.noise + 1, NoiseEnough)
             r == [q EXCEPT !.quietG = quietG, !.noise = noise]
             s == IF Still(q) THEN "quiet" ELSE "disturbed"
  <2>1. quietG \in Int /\ noise \in 0..NoiseEnough
    <3>1. q.g \in Nat /\ q.quietG \in Int /\ q.noise \in 0..NoiseEnough /\ NoiseEnough \in Nat
      BY Numbers DEF Processor
    <3>2. QED  BY <3>1 DEF Cap
  <2>2. Watch(q) = setState(r, s) /\ s \in States \ {"triggered"}
    BY <1>2 DEF Watch, States
  <2> HIDE DEF quietG, noise
  <2>3. /\ r \in Processor /\ r.hist = q.hist /\ r.frozen = q.frozen /\ r.told = q.told
        /\ r.state = q.state /\ r.started = q.started /\ r.seq = q.seq /\ r.open = q.open /\ r.tr = q.tr
    BY <2>1 DEF Processor
  <2> HIDE DEF r, s
  <2>4. Follows(r, setState(r, s))
    BY <1>2, <2>2, <2>3, TurnFollows DEF Sound
  <2>5. QED  BY <2>2, <2>3, <2>4 DEF Follows
<1>3. QED  BY <1>1, <1>2

LEMMA ListenSound ==
  ASSUME StationAssumption, NEW q \in Processor, Sound(q), q.started, NEW fast
  PROVE  Follows(q, Listen(q, fast))
<1>1. CASE Listen(q, fast) = q
  BY <1>1 DEF Follows
<1>2. CASE Listen(q, fast) # q
  <2> DEFINE r == [q EXCEPT !.frozen = FALSE]
  <2>1. Listen(q, fast) = setState(r, "quiet") /\ q.state \in {"warmup", "disturbed"}
    BY <1>2 DEF Listen
  <2>2. /\ r \in Processor /\ r.hist = q.hist /\ ~r.frozen /\ r.told = q.told
        /\ r.state = q.state /\ r.started = q.started /\ r.seq = q.seq /\ r.open = q.open /\ r.tr = q.tr
    BY DEF Processor
  <2> HIDE DEF r
  <2>3. Follows(r, setState(r, "quiet"))
    BY <2>1, <2>2, TurnFollows DEF Sound, States
  <2>4. QED  BY <2>1, <2>2, <2>3 DEF Follows
<1>3. QED  BY <1>1, <1>2

LEMMA SecondSound ==
  ASSUME StationAssumption, NEW q \in Processor, Sound(q), q.started, NEW fast \in BOOLEAN
  PROVE  Follows(q, Second(q, fast))
<1>1. CASE q.phase = Rate - 1
  <2> DEFINE a == Remember(q)
             b == Rest(a)
             c == Watch(b)
             d == Listen(c, fast)
             e == [[Tell(d) EXCEPT !.fast = fast] EXCEPT !.phase = 0]
  <2>1. Follows(q, a)
    BY RememberSound
  <2>2. Follows(a, b)
    <3> HIDE DEF a
    <3>1. QED  BY <2>1, RestSound DEF Follows
  <2>3. Follows(b, c)
    <3> HIDE DEF b
    <3>1. QED  BY <2>2, WatchSound DEF Follows
  <2>4. Follows(c, d)
    <3> HIDE DEF c
    <3>1. QED  BY <2>3, ListenSound DEF Follows
  <2>5. Second(q, fast) = e
    BY <1>1 DEF Second, onSecond
  <2> HIDE DEF a, b, c, d
  <2>6. e = [d EXCEPT !.told = d.state, !.fast = fast, !.phase = 0]
    BY DEF Tell
  <2> HIDE DEF e
  <2>7. d \in Processor /\ Sound(d) /\ d.started /\ 0 \in 0..Rate - 1
    BY <2>4, Numbers DEF Follows
  <2>8. /\ e \in Processor /\ e.hist = d.hist /\ e.frozen = d.frozen /\ e.told = d.state
        /\ e.state = d.state /\ e.started = d.started /\ e.seq = d.seq /\ e.open = d.open /\ e.tr = d.tr
    BY <2>6, <2>7 DEF Processor
  <2>9. Sound(e)
    BY <2>7, <2>8 DEF Sound
  <2>10. QED  BY <2>1, <2>2, <2>3, <2>4, <2>5, <2>7, <2>8, <2>9 DEF Follows
<1>2. CASE q.phase # Rate - 1
  <2> DEFINE r == [q EXCEPT !.phase = q.phase + 1]
  <2>1. Second(q, fast) = r
    BY <1>2 DEF Second
  <2>2. q.phase + 1 \in 0..Rate - 1
    <3>1. q.phase \in 0..Rate - 1
      BY DEF Processor
    <3>2. QED  BY <1>2, <3>1, Numbers
  <2>3. /\ r \in Processor /\ r.hist = q.hist /\ r.frozen = q.frozen /\ r.told = q.told
        /\ r.state = q.state /\ r.started = q.started /\ r.seq = q.seq /\ r.open = q.open /\ r.tr = q.tr
    BY <2>2 DEF Processor
  <2> HIDE DEF r
  <2>4. QED  BY <2>1, <2>3 DEF Sound, Follows
<1>3. QED  BY <1>1, <1>2

-----------------------------------------------------------------------------
(* Triggers.                                                               *)

LEMMA StartSound ==
  ASSUME StationAssumption, NEW q \in Processor, Sound(q), q.started, q.state = "quiet",
         q.seq < MaxPicks, NEW gPre \in Nat
  PROVE  LET r == startTrigger(q, gPre)
         IN  /\ r \in Processor /\ Sound(r) /\ r.started
             /\ r.told = q.told /\ r.open = q.open /\ r.seq = q.seq
<1> DEFINE tr == [age |-> 0, announced |-> FALSE, left |-> -1, gPre |-> gPre]
           r == [q EXCEPT !.frozen = TRUE, !.state = "triggered", !.tr = tr]
<1>1. startTrigger(q, gPre) = r
  BY DEF startTrigger
<1>2. tr \in Trigger /\ tr # NoTrigger /\ tr.announced = FALSE /\ tr.left = -1
  <2>1. tr \in Trigger /\ tr.announced = FALSE /\ tr.left = -1
    BY DEF Trigger
  <2> HIDE DEF tr
  <2>2. QED  BY <2>1, NoTriggerIs
<1> HIDE DEF tr
<1>3. /\ r \in Processor /\ r.hist = q.hist /\ r.frozen /\ r.told = q.told
      /\ r.state = "triggered" /\ r.started /\ r.seq = q.seq /\ r.open = q.open /\ r.tr = tr
  BY <1>2 DEF Processor, States
<1> HIDE DEF r
<1>4. Sound(r)
  <2>1. q.open = 0 /\ Eligible(q.told) /\ Eligible("triggered")
    BY DEF Sound, Eligible
  <2>2. QED  BY <1>2, <1>3, <2>1 DEF Sound
<1>5. QED  BY <1>1, <1>3, <1>4

(* A processor in an announced trigger, as Wait and finish find it.        *)
Announcing(q) ==
  /\ q \in Processor /\ Sound(q) /\ q.started
  /\ q.tr \in Trigger /\ q.tr.announced /\ q.state = "triggered"

(* The trigger of q is over.                                               *)
Ended(q, r) ==
  r \in Processor /\ Sound(r) /\ r.started /\ r.open = 0 /\ r.seq = q.seq

LEMMA AbortSound ==
  ASSUME StationAssumption, NEW q, Announcing(q)
  PROVE  Ended(q, abortMoved(q)) /\ ~Eligible(abortMoved(q).told)
<1> DEFINE e == [q EXCEPT !.tr = NoTrigger, !.frozen = FALSE, !.rest = -1, !.hist = <<>>, !.open = 0,
                          !.lay = -1]
           r == setState(e, "disturbed")
<1>1. <<>> \in Seq([g : Nat, strong : BOOLEAN, trig : BOOLEAN]) /\ Len(<<>>) = 0
  OBVIOUS
<1>2. -1 \in -1..Settle + StillWindow /\ -1 \in Int /\ 0 \in Nat
  BY Numbers
<1>3. /\ e \in Processor /\ e.hist = <<>> /\ ~e.frozen /\ e.state = "triggered" /\ e.started
      /\ e.seq = q.seq /\ e.open = 0 /\ e.tr = NoTrigger
  <2>1. q \in Processor /\ q.state = "triggered" /\ q.started
    BY DEF Announcing
  <2> HIDE DEF r
  <2>2. e \in Processor
    BY <1>1, <1>2, <2>1 DEF Processor
  <2> HIDE DEF e
  <2>3. e = [q EXCEPT !.tr = NoTrigger, !.frozen = FALSE, !.rest = -1, !.hist = <<>>, !.open = 0,
                      !.lay = -1]
    BY DEF e
  <2>4. /\ e.hist = <<>> /\ ~e.frozen /\ e.state = q.state /\ e.started = q.started
        /\ e.seq = q.seq /\ e.open = 0 /\ e.tr = NoTrigger
    BY <2>1, <2>3 DEF Processor
  <2>5. QED  BY <2>1, <2>2, <2>4
<1>4. abortMoved(q) = r
  BY DEF abortMoved
<1> HIDE DEF e
<1>5. r \in Processor /\ Sound(r) /\ Kept(e, r) /\ r.state = "disturbed"
  <2>1. Len(e.hist) <= StillWindow + 1 /\ q.seq <= MaxPicks
    BY <1>1, <1>3, Numbers DEF Announcing, Sound
  <2>2. "disturbed" \in States \ {"triggered"}
    BY DEF States
  <2>3. QED  BY <1>3, <2>1, <2>2, SetStateSound
<1> HIDE DEF r
<1>6. ~Eligible(r.told)
  BY <1>5 DEF Sound, Eligible
<1>7. QED  BY <1>3, <1>4, <1>5, <1>6 DEF Kept, Ended

LEMMA FinishSound ==
  ASSUME StationAssumption, NEW q, Announcing(q)
  PROVE  Ended(q, finish(q))
<1> DEFINE tilt == Tilt(q.tr.gPre, q.g)
           e == [q EXCEPT !.tr = NoTrigger, !.frozen = FALSE, !.open = 0]
<1>1. finish(q) = IF tilt > StillMaxTilt THEN setState([e EXCEPT !.rest = -1, !.lay = -1], "disturbed")
                  ELSE [e EXCEPT !.state = "quiet"]
  BY DEF finish
<1>2. /\ e \in Processor /\ e.hist = q.hist /\ ~e.frozen /\ e.state = "triggered" /\ e.started
      /\ e.told = q.told /\ e.seq = q.seq /\ e.open = 0 /\ e.tr = NoTrigger
  BY DEF Announcing, Processor
<1>3. Len(q.hist) <= StillWindow + 1 /\ q.seq <= MaxPicks /\ Eligible(q.told)
  BY DEF Announcing, Sound, Eligible
<1> HIDE DEF e, tilt
<1>4. CASE tilt > StillMaxTilt
  <2> DEFINE d == [e EXCEPT !.rest = -1, !.lay = -1]
             r == setState(d, "disturbed")
  <2>1. /\ d \in Processor /\ d.hist = q.hist /\ ~d.frozen /\ d.state = "triggered" /\ d.started
        /\ d.seq = q.seq /\ d.open = 0 /\ d.tr = NoTrigger
    <3>1. -1 \in -1..Settle + StillWindow /\ -1 \in Int
      BY Numbers
    <3> HIDE DEF r
    <3>2. d \in Processor
      BY <1>2, <3>1 DEF Processor
    <3>3. /\ d.hist = e.hist /\ d.frozen = e.frozen /\ d.state = e.state /\ d.started = e.started
          /\ d.seq = e.seq /\ d.open = e.open /\ d.tr = e.tr
      BY <1>2 DEF Processor
    <3> HIDE DEF d
    <3>4. QED  BY <1>2, <3>2, <3>3
  <2> HIDE DEF d
  <2>2. "disturbed" \in States \ {"triggered"}
    BY DEF States
  <2>3. r \in Processor /\ Sound(r) /\ Kept(d, r)
    BY <1>3, <2>1, <2>2, SetStateSound
  <2>4. finish(q) = r
    BY <1>1, <1>4 DEF d
  <2>5. QED  BY <2>1, <2>3, <2>4 DEF Kept, Ended
<1>5. CASE ~(tilt > StillMaxTilt)
  <2> DEFINE r == [e EXCEPT !.state = "quiet"]
  <2>1. /\ r \in Processor /\ r.hist = q.hist /\ ~r.frozen /\ r.state = "quiet" /\ r.started
        /\ r.told = q.told /\ r.seq = q.seq /\ r.open = 0 /\ r.tr = NoTrigger
    BY <1>2 DEF Processor, States
  <2>2. finish(q) = r
    BY <1>1, <1>5
  <2> HIDE DEF r
  <2>3. Sound(r)
    BY <1>3, <2>1 DEF Sound, Eligible
  <2>4. QED  BY <2>1, <2>2, <2>3 DEF Ended
<1>6. QED  BY <1>4, <1>5

LEMMA WaitSound ==
  ASSUME StationAssumption, NEW q, Announcing(q), NEW ratio
  PROVE  LET r == Wait(q, ratio)
         IN  \/ Ended(q, r) /\ q.tr.left >= 0
             \/ Announcing(r) /\ r.seq = q.seq /\ r.open = q.open
<1> DEFINE down == q.tr.left < 0 /\ (ratio = "low" \/ q.tr.age >= MaxTrigger)
           left == IF down THEN EndSettle ELSE IF q.tr.left > 0 THEN q.tr.left - 1 ELSE q.tr.left
           tr == [q.tr EXCEPT !.left = left]
           r == [q EXCEPT !.tr = tr]
<1>1. q.tr \in Trigger /\ q.tr.left \in Int /\ EndSettle \in Nat \ {0}
  BY Numbers DEF Announcing, Trigger
<1>2. left \in Int /\ (left = 0 => q.tr.left >= 0)
  BY <1>1
<1>3. Wait(q, ratio) = IF left = 0 THEN finish(q) ELSE r
  BY DEF Wait
<1> HIDE DEF left
<1>4. CASE left = 0
  BY <1>2, <1>3, <1>4, FinishSound
<1>5. CASE left # 0
  <2>1. tr \in Trigger /\ tr.announced = q.tr.announced
    BY <1>1, <1>2 DEF Trigger
  <2> HIDE DEF tr
  <2>2. /\ r \in Processor /\ r.hist = q.hist /\ r.frozen = q.frozen /\ r.state = q.state
        /\ r.started = q.started /\ r.told = q.told /\ r.seq = q.seq /\ r.open = q.open /\ r.tr = tr
    BY <2>1 DEF Announcing, Processor
  <2> HIDE DEF r
  <2>3. q.tr # NoTrigger /\ tr # NoTrigger
    BY <1>1, <2>1, NoTriggerIs
  <2>4. Announcing(r)
    BY <2>1, <2>2, <2>3 DEF Announcing, Sound
  <2>5. QED  BY <1>3, <1>5, <2>2, <2>4
<1>6. QED  BY <1>4, <1>5

(* What a step of the trigger may be to the network.                       *)
Tells(q, r) ==
  \/ r.open = q.open /\ r.seq = q.seq /\ (Eligible(r.told) <=> Eligible(q.told))
  \/ Eligible(q.told) /\ q.open = 0 /\ r.seq = q.seq + 1 /\ r.open = r.seq /\ Eligible(r.told)
  \/ Eligible(q.told) /\ q.open = 0 /\ r.seq = q.seq + 1 /\ r.open = 0 /\ ~Eligible(r.told)
  \/ q.open # 0 /\ r.open = 0 /\ r.seq = q.seq

LEMMA UpdateSound ==
  ASSUME StationAssumption, NEW q \in Processor, Sound(q), q.started, q.state = "triggered",
         NEW ratio, NEW r \in updateTrigger(q, ratio)
  PROVE  r \in Processor /\ Sound(r) /\ Tells(q, r)
<1> DEFINE age == Cap(q.tr.age + 1, MaxTrigger + EvalDelay)
           tr == [q.tr EXCEPT !.age = age]
           o == [q EXCEPT !.tr = tr]
<1>1. q.tr \in Trigger /\ q.tr # NoTrigger
  BY DEF Sound, Processor
<1>2. age \in Nat
  BY <1>1, Numbers DEF Trigger, Cap
<1> HIDE DEF age
<1>3. tr \in Trigger /\ tr.announced = q.tr.announced /\ tr.left = q.tr.left /\ tr # NoTrigger
  BY <1>1, <1>2, NoTriggerIs DEF Trigger
<1>4. r \in (IF ~o.tr.announced /\ o.tr.age >= EvalDelay
             THEN {IF c \in {"handling", "freefall"} THEN abortMoved(Announced(o))
                   ELSE Wait(Announced(o), ratio) : c \in Classes(o)}
             ELSE IF o.tr.announced THEN {Wait(o, ratio)} ELSE {o})
  BY DEF updateTrigger, age
<1> HIDE DEF tr
<1>5. /\ o \in Processor /\ o.hist = q.hist /\ o.frozen = q.frozen /\ o.state = q.state
      /\ o.started = q.started /\ o.told = q.told /\ o.seq = q.seq /\ o.open = q.open /\ o.tr = tr
  BY <1>3 DEF Processor
<1> HIDE DEF o
<1>6. Sound(o)
  BY <1>1, <1>3, <1>5 DEF Sound
<1>7. Eligible(q.told)
  BY DEF Sound, Eligible
<1>8. CASE ~o.tr.announced /\ o.tr.age >= EvalDelay
  <2> DEFINE at == [o.tr EXCEPT !.announced = TRUE]
             n == o.seq + 1
             a == [o EXCEPT !.seq = n, !.open = n, !.tr = at]
  <2>1. Announced(o) = a
    BY DEF Announced
  <2>2. at \in Trigger /\ at.announced /\ at.left = o.tr.left /\ at # NoTrigger
    BY <1>3, <1>5, NoTriggerIs DEF Trigger
  <2>3. o.seq \in Nat /\ MaxPicks \in Nat /\ o.seq < MaxPicks /\ o.tr.left = -1 /\ o.open = 0
    BY <1>3, <1>5, <1>6, <1>8, Numbers DEF Sound, Processor
  <2> HIDE DEF at
  <2>4. /\ a \in Processor /\ a.hist = o.hist /\ a.frozen = o.frozen /\ a.state = o.state
        /\ a.started = o.started /\ a.told = o.told /\ a.seq = o.seq + 1 /\ a.open = o.seq + 1 /\ a.tr = at
    <3>1. n \in Nat
      BY <2>3
    <3> HIDE DEF n
    <3>2. /\ a \in Processor /\ a.hist = o.hist /\ a.frozen = o.frozen /\ a.state = o.state
          /\ a.started = o.started /\ a.told = o.told /\ a.seq = n /\ a.open = n /\ a.tr = at
      BY <1>5, <2>2, <3>1 DEF Processor
    <3>3. QED  BY <3>2 DEF n
  <2> HIDE DEF a
  <2>5. Sound(a)
    BY <1>3, <1>5, <1>6, <2>2, <2>3, <2>4 DEF Sound
  <2>6. Announcing(a)
    BY <1>5, <2>2, <2>4, <2>5 DEF Announcing
  <2>7. r = abortMoved(a) \/ r = Wait(a, ratio)
    BY <1>4, <1>8, <2>1
  <2>8. CASE r = abortMoved(a)
    BY <1>5, <1>7, <2>3, <2>4, <2>6, <2>8, AbortSound DEF Ended, Tells
  <2>9. CASE r = Wait(a, ratio)
    <3>1. Announcing(r) /\ r.seq = a.seq /\ r.open = a.open
      BY <2>2, <2>3, <2>4, <2>6, <2>9, WaitSound
    <3>2. Eligible(r.told)
      BY <3>1 DEF Announcing, Sound, Eligible
    <3>3. QED  BY <1>5, <1>7, <2>3, <2>4, <3>1, <3>2 DEF Announcing, Tells
  <2>10. QED  BY <2>7, <2>8, <2>9
<1>9. CASE o.tr.announced
  <2>1. Announcing(o) /\ o.open # 0
    BY <1>3, <1>5, <1>6, <1>9 DEF Announcing, Sound
  <2>2. r = Wait(o, ratio)
    BY <1>4, <1>9
  <2>3. CASE Ended(o, r)
    BY <1>5, <2>1, <2>3 DEF Ended, Tells
  <2>4. CASE Announcing(r) /\ r.seq = o.seq /\ r.open = o.open
    <3>1. Eligible(r.told)
      BY <2>4 DEF Announcing, Sound, Eligible
    <3>2. QED  BY <1>5, <1>7, <2>4, <3>1 DEF Announcing, Tells
  <2>5. QED  BY <2>1, <2>2, <2>3, <2>4, WaitSound
<1>10. CASE ~o.tr.announced /\ ~(o.tr.age >= EvalDelay)
  <2>1. r = o
    BY <1>4, <1>10
  <2>2. QED  BY <1>5, <1>6, <2>1 DEF Tells
<1>11. QED  BY <1>8, <1>9, <1>10

LEMMA TriggersSound ==
  ASSUME StationAssumption, NEW q \in Processor, Sound(q), q.started, NEW x \in Samples,
         x.ratio = "high" => q.seq < MaxPicks, NEW r \in Triggers(q, x)
  PROVE  r \in Processor /\ Sound(r) /\ Tells(q, r)
         /\ (q.state # "triggered" => r.open = 0 /\ r.seq = q.seq)
<1>1. CASE q.state = "quiet" /\ x.ratio = "high"
  <2>1. PICK gPre \in {q.g} \cup {h.g : h \in Range(q.hist)} : r = startTrigger(q, gPre)
    BY <1>1 DEF Triggers
  <2>2. gPre \in Nat
    <3> DEFINE R == [g : Nat, strong : BOOLEAN, trig : BOOLEAN]
    <3>1. q.hist \in Seq(R) /\ q.g \in Nat
      BY DEF Processor
    <3> HIDE DEF R
    <3>2. \A h \in Range(q.hist) : h \in R
      BY <3>1 DEF Range
    <3>3. \A h \in Range(q.hist) : h.g \in Nat
      BY <3>2 DEF R
    <3>4. QED  BY <3>1, <3>3
  <2>3. QED  BY <1>1, <2>1, <2>2, StartSound DEF Sound, Tells
<1>2. CASE q.state = "triggered"
  <2>1. r \in updateTrigger(q, x.ratio)
    BY <1>2 DEF Triggers
  <2>2. QED  BY <1>2, <2>1, UpdateSound
<1>3. CASE ~(q.state = "quiet" /\ x.ratio = "high") /\ q.state # "triggered"
  <2>1. r = q
    BY <1>3 DEF Triggers
  <2>2. QED  BY <1>3, <2>1 DEF Sound, Tells
<1>4. QED  BY <1>1, <1>2, <1>3

-----------------------------------------------------------------------------
(* Steps.                                                                  *)

LEMMA InvInit == StationAssumption /\ Init => Inv
<1> SUFFICES ASSUME StationAssumption, Init PROVE Inv
  OBVIOUS
<1>1. /\ 0 \in 0..Rate - 1 /\ -1 \in -1..Settle + StillWindow /\ -1 \in -1..Long /\ Landed \in 0..Landed
      /\ 0 \in 0..NoiseEnough /\ Rate \in Int /\ StillWindow \in Nat /\ MaxPicks \in Nat
  BY Numbers
<1>2. <<>> \in Seq([g : Nat, strong : BOOLEAN, trig : BOOLEAN]) /\ Len(<<>>) = 0
  OBVIOUS
<1>3. p = New
  BY DEF Init
<1>4. New \in Processor
  BY <1>1, <1>2 DEF New, Processor, States
<1>5. /\ New.hist = <<>> /\ ~New.started /\ New.state = "warmup" /\ New.tr = NoTrigger
      /\ New.told = "none" /\ New.seq = 0 /\ New.open = 0
  BY DEF New
<1>6. ~Eligible("none") /\ ~Eligible("warmup")
  BY DEF Eligible
<1>7. Sound(New)
  BY <1>1, <1>2, <1>5, <1>6 DEF Sound
<1>8. QED  BY <1>3, <1>4, <1>7 DEF Inv

LEMMA SampleSound ==
  ASSUME Inv, Sample
  PROVE  /\ Inv'
         /\ \/ Tells(p, p')
            \/ p.open = 0 /\ p'.open = 0 /\ p'.seq = p.seq
<1>0. StationAssumption /\ p \in Processor /\ Sound(p)
  BY DEF Inv
<1>1. PICK q \in Segments, x \in Samples, fast \in BOOLEAN :
        /\ x.ratio = "high" => p.seq < MaxPicks
        /\ p' \in Triggers(Second(Measure(q, x), fast), x)
  BY DEF Sample, Rates
<1> DEFINE m == Measure(q, x)
           s == Second(m, fast)
<1>2. /\ q \in Processor /\ Sound(q) /\ q.started
      /\ q.told = p.told /\ q.seq = p.seq /\ q.open = p.open /\ q.state = p.state
  BY <1>0, SegmentSound DEF Segments
<1>3. x.ratio = "high" => p.seq < MaxPicks
  BY <1>1
<1>4. p' \in Triggers(s, x)
  BY <1>1
<1>5. /\ m \in Processor /\ Sound(m) /\ m.started
      /\ m.told = p.told /\ m.seq = p.seq /\ m.open = p.open /\ m.state = p.state
  BY <1>0, <1>2, MeasureSound
<1> HIDE DEF m
<1>6. s \in Processor /\ Sound(s) /\ s.started /\ s.seq = p.seq /\ s.open = p.open /\ s.tr = m.tr
  BY <1>0, <1>5, SecondSound DEF Follows
<1> HIDE DEF s
<1>7. /\ p' \in Processor /\ Sound(p)' /\ Tells(s, p')
      /\ s.state # "triggered" => p'.open = 0 /\ p'.seq = s.seq
  <2>1. ASSUME NEW r \in Triggers(s, x)
        PROVE  /\ r \in Processor /\ Sound(r) /\ Tells(s, r)
               /\ s.state # "triggered" => r.open = 0 /\ r.seq = s.seq
    BY <1>0, <1>3, <1>6, TriggersSound
  <2>2. p' \in Processor /\ Sound(p') /\ Tells(s, p')
        /\ (s.state # "triggered" => p'.open = 0 /\ p'.seq = s.seq)
    BY <1>4, <2>1
  <2>3. QED  BY <2>2 DEF Sound
<1>8. s.state = "triggered" <=> p.state = "triggered"
  BY <1>5, <1>6 DEF Sound
<1>9. CASE p.state = "triggered"
  <2>1. Eligible(s.told) /\ Eligible(p.told)
    BY <1>0, <1>6, <1>8, <1>9 DEF Sound, Eligible
  <2>2. Tells(p, p')
    BY <1>6, <1>7, <2>1 DEF Tells
  <2>3. QED  BY <1>0, <1>7, <2>2 DEF Inv, StationAssumption
<1>10. CASE p.state # "triggered"
  <2>1. p.open = 0
    BY <1>0, <1>10 DEF Sound
  <2>2. QED  BY <1>0, <1>6, <1>7, <1>8, <1>10, <2>1 DEF Inv, StationAssumption
<1>11. QED  BY <1>9, <1>10

LEMMA GapSound ==
  ASSUME Inv, Gap
  PROVE  Inv' /\ p'.open = 0 /\ p'.seq = p.seq
<1> DEFINE e == [p EXCEPT !.tr = NoTrigger, !.started = FALSE, !.open = 0, !.lay = -1, !.since = Rate]
           r == setState(e, "warmup")
<1>1. PICK fell \in {p.fell, Landed} : p' = [onGap(p) EXCEPT !.fell = fell]
  BY DEF Gap
<1>2. p \in Processor /\ Sound(p) /\ StationAssumption /\ fell \in 0..Landed /\ Rate \in Int
  <2>1. p \in Processor /\ Sound(p) /\ StationAssumption
    BY DEF Inv
  <2>2. p.fell \in 0..Landed /\ Landed \in Nat /\ Rate \in Nat
    BY <2>1, Numbers DEF Processor
  <2>3. QED  BY <2>1, <2>2
<1>3. e \in Processor
  <2> HIDE DEF r
  <2>1. -1 \in Int /\ 0 \in Nat
    OBVIOUS
  <2>2. QED  BY <1>2, <2>1 DEF Processor
<1>4. /\ e.hist = p.hist /\ ~e.started /\ e.seq = p.seq /\ e.open = 0 /\ e.tr = NoTrigger
      /\ e.state = p.state /\ e.told = p.told
  BY <1>2 DEF Processor
<1>5. onGap(p) = r
  BY DEF onGap
<1> HIDE DEF e
<1>6. r \in Processor /\ Sound(r) /\ Kept(e, r)
  BY <1>2, <1>3, <1>4, SetStateSound DEF Sound, States
<1>7. r.open = 0 /\ r.seq = p.seq
  BY <1>4, <1>6 DEF Kept
<1> HIDE DEF r
<1> DEFINE n == [r EXCEPT !.fell = fell]
<1>8. /\ n \in Processor /\ n.hist = r.hist /\ n.frozen = r.frozen /\ n.state = r.state
      /\ n.started = r.started /\ n.told = r.told /\ n.seq = r.seq /\ n.open = r.open /\ n.tr = r.tr
  BY <1>2, <1>6 DEF Processor
<1>9. p' = n
  BY <1>1, <1>5
<1> HIDE DEF n
<1>10. Sound(n)
  BY <1>6, <1>8 DEF Sound
<1>11. Sound(p)'
  BY <1>9, <1>10 DEF Sound
<1>12. QED  BY <1>2, <1>7, <1>8, <1>9, <1>11 DEF Inv, StationAssumption

LEMMA InvNext == Inv /\ [Next]_vars => Inv'
<1> SUFFICES ASSUME Inv, [Next]_vars PROVE Inv'
  OBVIOUS
<1>1. CASE UNCHANGED vars
  BY <1>1 DEF vars, Inv, StationAssumption, Sound
<1>2. QED  BY <1>1, SampleSound, GapSound DEF Next

(* What the network is told in a step is a step of Listening.              *)
LEMMA LifeStep ==
  ASSUME Inv, [Next]_vars
  PROVE  [L!Next]_<<Eligible(p.told), p.open, p.seq>>
<1>1. CASE UNCHANGED vars
  BY <1>1 DEF vars
<1>2. CASE Tells(p, p')
  <2>1. CASE p'.open = p.open /\ p'.seq = p.seq /\ (Eligible(p'.told) <=> Eligible(p.told))
    BY <2>1 DEF Eligible
  <2>2. CASE /\ Eligible(p.told) /\ p.open = 0 /\ p'.seq = p.seq + 1
             /\ p'.open = p'.seq /\ Eligible(p'.told)
    BY <2>2 DEF L!Next, L!Announce, Eligible
  <2>3. CASE /\ Eligible(p.told) /\ p.open = 0 /\ p'.seq = p.seq + 1
             /\ p'.open = 0 /\ ~Eligible(p'.told)
    BY <2>3 DEF L!Next, L!AnnounceMoved, Eligible
  <2>4. CASE p.open # 0 /\ p'.open = 0 /\ p'.seq = p.seq
    BY <2>4 DEF L!Next, L!End, Eligible
  <2>5. QED  BY <1>2, <2>1, <2>2, <2>3, <2>4 DEF Tells
<1>3. CASE p'.open = 0 /\ p'.seq = p.seq
  <2>1. CASE p.open # 0
    BY <1>3, <2>1 DEF L!Next, L!End, Eligible
  <2>2. CASE p.open = 0
    BY <1>3, <2>2 DEF L!Next, L!Turn, Eligible
  <2>3. QED  BY <2>1, <2>2
<1>4. QED  BY <1>1, <1>2, <1>3, SampleSound, GapSound DEF Next

LEMMA InvFrozen ==
  ASSUME Inv
  PROVE  FrozenWhileTriggered
<1> SUFFICES ASSUME p.started
             PROVE  p.frozen = (p.state = "triggered") /\ p.frozen = (p.tr # NoTrigger)
  BY DEF FrozenWhileTriggered
<1>1. p.frozen \in BOOLEAN
  BY DEF Inv, Processor
<1>2. (p.frozen <=> p.state = "triggered") /\ (p.state = "triggered" <=> p.tr # NoTrigger)
  BY DEF Inv, Sound
<1>3. QED  BY <1>1, <1>2

LEMMA InvAlways == StationAssumption /\ Spec => []Inv
  BY InvInit, InvNext, PTL DEF Spec

-----------------------------------------------------------------------------
(* The theorems.                                                           *)

LEMMA InvTypes ==
  ASSUME Inv
  PROVE  TypeOK
<1>1. /\ p.state \in States /\ p.told \in States \cup {"none"} /\ p.phase \in 0..Rate - 1
      /\ p.rest \in -1..Settle + StillWindow /\ p.handled \in -1..Long /\ p.fell \in 0..Landed
      /\ p.noise \in 0..NoiseEnough /\ p.seq \in Nat /\ p.open \in Nat
  BY DEF Inv, Processor
<1>2. p.seq <= MaxPicks /\ p.open <= MaxPicks /\ Len(p.hist) <= StillWindow + 1 /\ MaxPicks \in Nat
  <2>1. Sound(p) /\ MaxPicks \in Nat
    BY Numbers DEF Inv
  <2>2. p.seq <= MaxPicks /\ Len(p.hist) <= StillWindow + 1
    BY <2>1 DEF Sound
  <2>3. p.open = 0 \/ p.open = p.seq
    BY <2>1 DEF Sound
  <2>4. QED  BY <1>1, <2>1, <2>2, <2>3
<1>3. QED  BY <1>1, <1>2 DEF TypeOK

(* The types of a processor (processor.go, Processor).                     *)
THEOREM TypeCorrect == StationAssumption /\ Spec => []TypeOK
<1>1. Inv => TypeOK
  BY InvTypes
<1>2. QED  BY <1>1, InvAlways, PTL

(* The average behind a trigger stands still exactly while the trigger     *)
(* lasts (processor.go, startTrigger, abortMoved, finish, startSegment).   *)
THEOREM FrozenCorrect == StationAssumption /\ Spec => []FrozenWhileTriggered
<1>1. Inv => FrozenWhileTriggered
  BY InvFrozen
<1>2. QED  BY <1>1, InvAlways, PTL

(* Whatever the phone goes through, the network is told the life of a      *)
(* phone and its picks that Listening promises (processor.go, onSecond,    *)
(* updateTrigger, onGap).                                                  *)
THEOREM LifeCorrect == StationAssumption /\ Spec => LifeOfPicks
<1>1. StationAssumption /\ Init => L!Init
  BY DEF Init, New, L!Init, Eligible
<1>2. Inv /\ [Next]_vars => [L!Next]_<<Eligible(p.told), p.open, p.seq>>
  BY LifeStep
<1>3. QED  BY <1>1, <1>2, InvAlways, PTL DEF Spec, LifeOfPicks, L!Spec, L!vars

=============================================================================
