---------------------------- MODULE MCServer_proofs ----------------------------
(***************************************************************************)
(* Proofs about the parts of MCServer, for any phones, units and chats.    *)
(* What is proved of Units and of Station holds of their instances, for    *)
(* the values that MCServer gives to their other constants.  The detector  *)
(* of the film, the token bucket, the bot and the budget of alerts are     *)
(* proved here, and the types of every part; and of MCEnds the waveforms   *)
(* that its pipeline asks for.                                             *)
(***************************************************************************)
EXTENDS MCServer, MCEnds, TLAPS, FiniteSetTheorems, SequenceTheorems

-----------------------------------------------------------------------------
(* The detector of the film.                                               *)

Detector ==
  [t : Nat, verdict : Fi!Verdicts, until : Nat, still : Nat, trig : Nat \cup {-1},
   frozen : BOOLEAN, ref : Nat, g : Nat, calm : Nat, quiet : Nat, tilted : BOOLEAN]

(* The average is frozen and a trigger is remembered while the verdict is  *)
(* "triggered", and what was tilted is cancelled.                          *)
Frozen(f)  == (f.frozen <=> f.verdict = "triggered") /\ (f.frozen <=> f.trig # -1)
FilmInv(f) == f \in Detector /\ Frozen(f) /\ (f.tilted => f.verdict = "cancelled")

Motion == [g : Nat, rms : {"still", "mid", "strong"}, ratio : {"low", "mid", "high"}]

LEMMA Motions == Handled \subseteq Motion
  BY DEF Handled, Resting, Motion

LEMMA FreshInv ==
  ASSUME NEW t \in Nat
  PROVE  FilmInv(Fi!Fresh(t))
<1>1. Fi!Fresh(t) \in Detector
  BY DEF Fi!Fresh, Detector, Fi!Verdicts
<1>2. Frozen(Fi!Fresh(t)) /\ ~Fi!Fresh(t).tilted
  BY DEF Fi!Fresh, Frozen
<1>3. QED  BY <1>1, <1>2 DEF FilmInv

(* What is noted of a measurement changes neither verdict nor trigger.     *)
LEMMA NoteIs ==
  ASSUME NEW f, FilmInv(f), NEW m \in Motion
  PROVE  LET n == Fi!Note(f, m)
         IN  /\ n \in Detector /\ Frozen(n)
             /\ n.tilted => n.verdict = "triggered" /\ Fi!Tilt(n, m) > 2
<1> DEFINE n == Fi!Note(f, m)
<1>1. f \in Detector /\ m.g \in Nat
  BY DEF FilmInv, Motion
<1>2. n \in Detector
  <2> DEFINE c == IF m.rms = "still" /\ m.g = f.g
                  THEN IF f.calm < Fi!SETTLE THEN f.calm + 10 ELSE f.calm ELSE 0
             q == IF Fi!Quiet(f, m) THEN IF f.quiet < 200 THEN f.quiet + 10 ELSE f.quiet ELSE 0
             t == f.verdict = "triggered" /\ (f.tilted \/ Fi!Tilt(f, m) > 2)
  <2>1. n = [f EXCEPT !.g = m.g, !.calm = c, !.quiet = q, !.tilted = t]
    BY DEF Fi!Note
  <2>2. c \in Nat /\ q \in Nat
    BY <1>1 DEF Detector
  <2>3. t \in BOOLEAN
    OBVIOUS
  <2> HIDE DEF c, q, t, n
  <2>4. QED  BY <1>1, <2>1, <2>2, <2>3 DEF Detector
<1>3. /\ n.verdict = f.verdict /\ n.frozen = f.frozen /\ n.trig = f.trig /\ n.ref = f.ref
      /\ n.tilted = (f.verdict = "triggered" /\ (f.tilted \/ Fi!Tilt(f, m) > 2))
  BY <1>1 DEF Fi!Note, Detector
<1> HIDE DEF n
<1>4. Fi!Tilt(n, m) = Fi!Tilt(f, m)
  BY <1>3 DEF Fi!Tilt
<1>5. Frozen(n)
  BY <1>3 DEF FilmInv, Frozen
<1>6. n.tilted => n.verdict = "triggered" /\ Fi!Tilt(n, m) > 2
  BY <1>3, <1>4 DEF FilmInv
<1>7. QED  BY <1>2, <1>5, <1>6 DEF n

LEMMA MovesIs ==
  ASSUME NEW f \in Detector, Frozen(f), ~f.frozen, ~f.tilted, NEW m \in Motion
  PROVE  /\ FilmInv(Fi!Moves(f, m)) /\ Fi!Moves(f, m).t = f.t
         /\ FilmInv([Fi!Moves(f, m) EXCEPT !.until = 0])
         /\ [Fi!Moves(f, m) EXCEPT !.until = 0].t = f.t
<1> DEFINE r == Fi!Moves(f, m)
           q == [r EXCEPT !.until = 0]
<1>1. m.g \in Nat
  BY DEF Motion
<1>2. r \in Detector
  BY <1>1 DEF Fi!Moves, Detector, Fi!Verdicts
<1>3. r.t = f.t /\ r.verdict = "moving" /\ r.trig = f.trig /\ r.frozen = f.frozen /\ r.tilted = f.tilted
  BY DEF Fi!Moves, Detector
<1> HIDE DEF r
<1>4. q \in Detector /\ q.t = r.t /\ q.verdict = r.verdict /\ q.trig = r.trig
      /\ q.frozen = r.frozen /\ q.tilted = r.tilted
  BY <1>2 DEF Detector
<1> HIDE DEF q
<1>5. FilmInv(r) /\ FilmInv(q)
  BY <1>2, <1>3, <1>4 DEF FilmInv, Frozen
<1>6. QED  BY <1>3, <1>4, <1>5 DEF r, q

LEMMA SettlesInv ==
  ASSUME NEW f \in Detector, Frozen(f), ~f.frozen, ~f.tilted, NEW m \in Motion
  PROVE  FilmInv(Fi!Settles(f, m)) /\ Fi!Settles(f, m).t = f.t
<1> DEFINE r == Fi!Settles(f, m)
<1>1. CASE m.rms = "still" /\ Fi!Tilt(f, m) < 1
  <2>1. r = [f EXCEPT !.still = @ + 10,
               !.verdict = IF f.still + 10 >= Fi!SETTLE THEN "listening" ELSE "settling"]
    BY <1>1 DEF Fi!Settles
  <2> DEFINE w == IF f.still + 10 >= Fi!SETTLE THEN "listening" ELSE "settling"
             s == f.still + 10
  <2>2. s \in Nat /\ w \in {"listening", "settling"} /\ r = [f EXCEPT !.still = s, !.verdict = w]
    BY <2>1 DEF Detector
  <2> HIDE DEF s, w, r
  <2>3. r \in Detector
    BY <2>2 DEF Detector, Fi!Verdicts
  <2>4. /\ r.t = f.t /\ r.verdict = w /\ r.trig = f.trig /\ r.frozen = f.frozen
        /\ r.tilted = f.tilted
    BY <2>2 DEF Detector
  <2>5. FilmInv(r) /\ r.t = f.t
    BY <2>2, <2>3, <2>4 DEF FilmInv, Frozen
  <2>6. QED  BY <2>5 DEF r
<1>2. CASE ~ (m.rms = "still" /\ Fi!Tilt(f, m) < 1)
  BY <1>2, MovesIs DEF Fi!Settles
<1>3. QED  BY <1>1, <1>2

LEMMA ListensInv ==
  ASSUME NEW f \in Detector, Frozen(f), f.verdict = "listening", ~f.tilted, NEW m \in Motion
  PROVE  FilmInv(Fi!Listens(f, m)) /\ Fi!Listens(f, m).t = f.t
<1> DEFINE r == Fi!Listens(f, m)
<1>1. ~f.frozen
  BY DEF Frozen
<1>2. CASE Fi!Carried(f, m)
  BY <1>1, <1>2, MovesIs DEF Fi!Listens
<1>3. CASE ~Fi!Carried(f, m) /\ m.ratio = "high"
  <2>1. r = [f EXCEPT !.verdict = "triggered", !.frozen = TRUE, !.trig = f.t]
    BY <1>3 DEF Fi!Listens
  <2>2. /\ r \in Detector /\ r.t = f.t /\ r.verdict = "triggered" /\ r.trig = f.t /\ f.t \in Nat
        /\ r.frozen = TRUE /\ r.tilted = f.tilted
    BY <2>1 DEF Detector, Fi!Verdicts
  <2>3. QED  BY <2>2 DEF FilmInv, Frozen
<1>4. CASE ~Fi!Carried(f, m) /\ m.ratio # "high"
  BY <1>4 DEF Fi!Listens, FilmInv
<1>5. QED  BY <1>2, <1>3, <1>4

(* A trigger ends with a verdict.                                          *)
LEMMA EndsInv ==
  ASSUME NEW f \in Detector, NEW v \in {"vote", "knock", "cancelled"},
         f.tilted => v = "cancelled"
  PROVE  FilmInv(Fi!Ends(f, v)) /\ Fi!Ends(f, v).t = f.t
<1> DEFINE r == Fi!Ends(f, v)
<1>1. Fi!Held[v] \in Nat
  BY DEF Fi!Held
<1>2. f.t + Fi!Held[v] \in Nat /\ v \in Fi!Verdicts
  BY <1>1 DEF Detector, Fi!Verdicts
<1>3. /\ r \in Detector /\ r.t = f.t /\ r.verdict = v /\ r.trig = -1 /\ r.frozen = FALSE
      /\ r.tilted = f.tilted
  BY <1>2 DEF Detector, Fi!Ends
<1>4. QED  BY <1>3 DEF FilmInv, Frozen

LEMMA ChecksInv ==
  ASSUME NEW f \in Detector, Frozen(f), f.verdict = "triggered", NEW m \in Motion,
         NEW v \in {"vote", "knock"}, f.tilted => Fi!Tilt(f, m) > 2
  PROVE  FilmInv(Fi!Checks(f, m, v)) /\ Fi!Checks(f, m, v).t = f.t
<1>1. CASE Fi!Tilt(f, m) > 2
  BY <1>1, EndsInv DEF Fi!Checks
<1>2. CASE ~ (Fi!Tilt(f, m) > 2)
  <2>1. ~f.tilted
    BY <1>2
  <2>2. CASE f.t - f.trig >= Fi!Window
    BY <1>2, <2>1, <2>2, EndsInv DEF Fi!Checks
  <2>3. CASE ~ (f.t - f.trig >= Fi!Window)
    BY <1>2, <2>1, <2>3 DEF Fi!Checks, FilmInv
  <2>4. QED  BY <2>2, <2>3
<1>3. QED  BY <1>1, <1>2

LEMMA OverInv ==
  ASSUME NEW f \in Detector, Frozen(f), ~f.frozen, ~f.tilted, NEW m \in Motion
  PROVE  FilmInv(Fi!Over(f, m)) /\ Fi!Over(f, m).t = f.t
<1> DEFINE r == [f EXCEPT !.verdict = "listening", !.until = 0]
<1>1. /\ r \in Detector /\ r.t = f.t /\ r.verdict = "listening" /\ r.trig = f.trig
      /\ r.frozen = f.frozen /\ r.tilted = f.tilted
  BY DEF Detector, Fi!Verdicts
<1> HIDE DEF r
<1>2. FilmInv(r) /\ r.t = f.t
  BY <1>1 DEF FilmInv, Frozen
<1>3. FilmInv(f)
  BY DEF FilmInv
<1>4. /\ FilmInv([Fi!Moves(f, m) EXCEPT !.until = 0])
      /\ [Fi!Moves(f, m) EXCEPT !.until = 0].t = f.t
  BY MovesIs
<1>5. Fi!Over(f, m) \in {[Fi!Moves(f, m) EXCEPT !.until = 0], r, f}
  BY DEF Fi!Over, r
<1>6. QED  BY <1>2, <1>3, <1>4, <1>5

LEMMA JudgeInv ==
  ASSUME NEW f \in Detector, Frozen(f), NEW m \in Motion, NEW v \in {"vote", "knock"},
         f.tilted => f.verdict = "triggered" /\ Fi!Tilt(f, m) > 2
  PROVE  FilmInv(Fi!Judge(f, m, v)) /\ Fi!Judge(f, m, v).t = f.t
<1>1. f.tilted \in BOOLEAN /\ f.verdict \in Fi!Verdicts
  BY DEF Detector
<1>2. CASE f.verdict \in {"moving", "settling"}
  BY <1>1, <1>2, SettlesInv DEF Fi!Judge, Frozen
<1>3. CASE f.verdict = "listening"
  BY <1>1, <1>3, ListensInv DEF Fi!Judge, Frozen
<1>4. CASE f.verdict = "triggered"
  BY <1>1, <1>4, ChecksInv DEF Fi!Judge, Frozen
<1>5. CASE f.verdict \notin {"moving", "settling", "listening", "triggered"}
  BY <1>1, <1>5, OverInv DEF Fi!Judge, Frozen
<1>6. QED  BY <1>2, <1>3, <1>4, <1>5

LEMMA StepInv ==
  ASSUME NEW f, FilmInv(f), NEW m \in Motion, NEW v \in {"vote", "knock"}
  PROVE  FilmInv(Fi!step(f, m, v))
<1> DEFINE n == Fi!Note(f, m)
           j == Fi!Judge(n, m, v)
           q == [j EXCEPT !.t = f.t + 10]
<1>1. /\ n \in Detector /\ Frozen(n) /\ n.tilted \in BOOLEAN /\ n.verdict \in Fi!Verdicts
      /\ n.tilted => n.verdict = "triggered" /\ Fi!Tilt(n, m) > 2
  BY NoteIs DEF Detector
<1>2. f.t \in Nat
  BY DEF FilmInv, Detector
<1> HIDE DEF n
<1>3. FilmInv(j) /\ j.t = n.t
  BY <1>1, JudgeInv
<1> HIDE DEF j
<1>4. /\ q \in Detector /\ q.verdict = j.verdict /\ q.trig = j.trig /\ q.frozen = j.frozen
      /\ q.tilted = j.tilted /\ q.t = f.t + 10
  BY <1>2, <1>3 DEF FilmInv, Detector
<1>5. Fi!step(f, m, v) = IF q.t >= Fi!LOOP THEN Fi!Fresh(q.t - Fi!LOOP) ELSE q
  BY DEF Fi!step, Fi!resetDetector, n, j
<1> HIDE DEF q
<1>6. FilmInv(q)
  BY <1>3, <1>4 DEF FilmInv, Frozen
<1>7. q.t >= Fi!LOOP => q.t - Fi!LOOP \in Nat
  BY <1>2, <1>4 DEF Fi!LOOP
<1>8. QED  BY <1>5, <1>6, <1>7, FreshInv

-----------------------------------------------------------------------------
(* What bounds the film: its time, its settling and where it was put down. *)

Small(f) ==
  /\ f.t \in 0..609 /\ f.still \in 0..40 /\ f.ref \in {0, 1, 3} /\ f.trig \in -1..609
  /\ f.verdict \in {"moving", "settling"} => f.still < 30

LEMMA Grounds == \A m \in Handled : m.g \in {0, 1, 3}
  BY DEF Handled, Resting

LEMMA MovesSmall ==
  ASSUME NEW f \in Detector, Small(f), NEW m \in Handled
  PROVE  /\ Small(Fi!Moves(f, m)) /\ Small([Fi!Moves(f, m) EXCEPT !.until = 0])
         /\ Fi!Moves(f, m).t = f.t /\ [Fi!Moves(f, m) EXCEPT !.until = 0].t = f.t
<1> DEFINE r == Fi!Moves(f, m)
           q == [r EXCEPT !.until = 0]
<1>1. /\ r.t = f.t /\ r.still = 0 /\ r.ref = m.g /\ r.trig = f.trig
      /\ q.t = f.t /\ q.still = 0 /\ q.ref = m.g /\ q.trig = f.trig
  BY DEF Fi!Moves, Detector
<1> HIDE DEF r, q
<1>2. Small(r) /\ Small(q)
  BY <1>1, Grounds DEF Small
<1>3. QED  BY <1>1, <1>2 DEF r, q

LEMMA SettlesSmall ==
  ASSUME NEW f \in Detector, Small(f), f.verdict \in {"moving", "settling"}, NEW m \in Handled
  PROVE  Small(Fi!Settles(f, m)) /\ Fi!Settles(f, m).t = f.t
<1>1. CASE m.rms = "still" /\ Fi!Tilt(f, m) < 1
  <2> DEFINE w == IF f.still + 10 >= Fi!SETTLE THEN "listening" ELSE "settling"
             r == Fi!Settles(f, m)
  <2>1. /\ r.t = f.t /\ r.still = f.still + 10 /\ r.ref = f.ref /\ r.trig = f.trig
        /\ r.verdict = w
    BY <1>1 DEF Fi!Settles, Detector
  <2>2. f.still \in 0..29 /\ (f.still + 10 >= 30 => w = "listening") /\ Fi!SETTLE = 30
    BY DEF Small, Fi!SETTLE
  <2> HIDE DEF r, w
  <2>3. Small(r)
    BY <2>1, <2>2 DEF Small
  <2>4. QED  BY <2>1, <2>3 DEF r
<1>2. CASE ~ (m.rms = "still" /\ Fi!Tilt(f, m) < 1)
  BY <1>2, MovesSmall DEF Fi!Settles
<1>3. QED  BY <1>1, <1>2

LEMMA EndsSmall ==
  ASSUME NEW f \in Detector, Small(f), NEW v \in {"vote", "knock", "cancelled"}
  PROVE  Small(Fi!Ends(f, v)) /\ Fi!Ends(f, v).t = f.t
<1> DEFINE r == Fi!Ends(f, v)
<1>1. r.t = f.t /\ r.still = f.still /\ r.ref = f.ref /\ r.trig = -1 /\ r.verdict = v
  BY DEF Fi!Ends, Detector
<1> HIDE DEF r
<1>2. QED  BY <1>1 DEF Small, r

LEMMA JudgeSmall ==
  ASSUME NEW f \in Detector, Small(f), NEW m \in Handled, NEW v \in {"vote", "knock"}
  PROVE  Small(Fi!Judge(f, m, v)) /\ Fi!Judge(f, m, v).t = f.t
<1>1. CASE f.verdict \in {"moving", "settling"}
  <2>1. Fi!Judge(f, m, v) = Fi!Settles(f, m)
    BY <1>1 DEF Fi!Judge
  <2>2. QED  BY <1>1, <2>1, SettlesSmall
<1>2. CASE f.verdict = "listening"
  <2> DEFINE r == [f EXCEPT !.verdict = "triggered", !.frozen = TRUE, !.trig = f.t]
  <2>1. r.t = f.t /\ r.still = f.still /\ r.ref = f.ref /\ r.trig = f.t /\ r.verdict = "triggered"
    BY DEF Detector
  <2> HIDE DEF r
  <2>2. Small(r)
    BY <2>1 DEF Small
  <2>3. Fi!Listens(f, m) \in {Fi!Moves(f, m), r, f}
    BY DEF Fi!Listens, r
  <2>4. Fi!Judge(f, m, v) = Fi!Listens(f, m)
    BY <1>2 DEF Fi!Judge
  <2>5. QED  BY <2>1, <2>2, <2>3, <2>4, MovesSmall
<1>3. CASE f.verdict = "triggered"
  BY <1>3, EndsSmall DEF Fi!Judge, Fi!Checks
<1>4. CASE f.verdict \notin {"moving", "settling", "listening", "triggered"}
  <2> DEFINE r == [f EXCEPT !.verdict = "listening", !.until = 0]
  <2>1. r.t = f.t /\ r.still = f.still /\ r.ref = f.ref /\ r.trig = f.trig /\ r.verdict = "listening"
    BY DEF Detector
  <2> HIDE DEF r
  <2>2. Small(r)
    BY <2>1 DEF Small
  <2>3. Fi!Over(f, m) \in {[Fi!Moves(f, m) EXCEPT !.until = 0], r, f}
    BY DEF Fi!Over, r
  <2>4. Fi!Judge(f, m, v) = Fi!Over(f, m)
    BY <1>4 DEF Fi!Judge
  <2>5. QED  BY <2>1, <2>2, <2>3, <2>4, MovesSmall
<1>5. QED  BY <1>1, <1>2, <1>3, <1>4

LEMMA FreshSmall ==
  ASSUME NEW t \in 0..609
  PROVE  Small(Fi!Fresh(t))
  BY DEF Fi!Fresh, Small

LEMMA StepSmall ==
  ASSUME NEW f, FilmInv(f), Small(f), NEW m \in Handled, NEW v \in {"vote", "knock"}
  PROVE  Small(Fi!step(f, m, v))
<1> DEFINE n == Fi!Note(f, m)
           j == Fi!Judge(n, m, v)
           q == [j EXCEPT !.t = f.t + 10]
<1>1. m \in Motion
  BY Motions
<1>2. n \in Detector /\ Frozen(n) /\ (n.tilted => n.verdict = "triggered" /\ Fi!Tilt(n, m) > 2)
  BY <1>1, NoteIs
<1>3. n.t = f.t /\ n.still = f.still /\ n.ref = f.ref /\ n.trig = f.trig /\ n.verdict = f.verdict
  BY DEF Fi!Note, FilmInv, Detector
<1> HIDE DEF n
<1>4. Small(n)
  BY <1>3 DEF Small
<1>5. Small(j) /\ j.t = f.t
  BY <1>1, <1>2, <1>3, <1>4, JudgeSmall
<1>6. j \in Detector
  BY <1>1, <1>2, JudgeInv DEF FilmInv
<1>7. /\ q.t = f.t + 10 /\ q.still = j.still /\ q.ref = j.ref /\ q.trig = j.trig
      /\ q.verdict = j.verdict
  BY <1>6 DEF Detector
<1>8. Fi!step(f, m, v) = IF q.t >= Fi!LOOP THEN Fi!Fresh(q.t - Fi!LOOP) ELSE q
  BY DEF Fi!step, Fi!resetDetector, n, j
<1>9. f.t \in 0..609
  BY DEF Small
<1> HIDE DEF j, q
<1>10. CASE q.t >= Fi!LOOP
  BY <1>7, <1>8, <1>9, <1>10, FreshSmall DEF Fi!LOOP
<1>11. CASE ~ (q.t >= Fi!LOOP)
  BY <1>5, <1>7, <1>8, <1>9, <1>11 DEF Fi!LOOP, Small
<1>12. QED  BY <1>10, <1>11

(* The film in which nothing moves: the phone listens all along.           *)
Rests(f) ==
  /\ f \in Detector /\ f.t \in 0..609 /\ f.verdict = "listening" /\ f.still = 0 /\ f.ref = 0
  /\ f.g = 0 /\ f.trig = -1 /\ f.frozen = FALSE

LEMMA FreshRests == Rests(Sr!Fresh(0))
  BY DEF Rests, Sr!Fresh, Detector, Fi!Verdicts

LEMMA StepRests ==
  ASSUME NEW f, Rests(f), NEW m \in Resting, NEW v \in {"vote", "knock"}
  PROVE  Rests(Sr!step(f, m, v))
<1> DEFINE n == Sr!Note(f, m)
           q == [n EXCEPT !.t = f.t + 1]
           c == IF m.rms = "still" /\ m.g = f.g
                THEN IF f.calm < Sr!SETTLE THEN f.calm + 1 ELSE f.calm ELSE 0
           u == IF Sr!Quiet(f, m) THEN IF f.quiet < 200 THEN f.quiet + 1 ELSE f.quiet ELSE 0
           d == f.verdict = "triggered" /\ (f.tilted \/ Sr!Tilt(f, m) > 2)
<1>1. m.g = 0 /\ m.rms = "still" /\ m.ratio = "low" /\ f \in Detector /\ f.t \in 0..609
  BY DEF Resting, Rests
<1>2. n = [f EXCEPT !.g = 0, !.calm = c, !.quiet = u, !.tilted = d]
  BY <1>1 DEF Sr!Note
<1>3. c \in Nat /\ u \in Nat /\ d \in BOOLEAN
  BY <1>1 DEF Detector
<1> HIDE DEF c, u, d, n
<1>4. /\ n \in Detector /\ n.t = f.t /\ n.verdict = "listening" /\ n.still = 0 /\ n.ref = 0
      /\ n.g = 0 /\ n.trig = -1 /\ n.frozen = FALSE
  BY <1>1, <1>2, <1>3 DEF Detector, Rests
<1>5. Sr!Judge(n, m, v) = n
  BY <1>1, <1>4 DEF Sr!Judge, Sr!Listens, Sr!Carried, Sr!Tilt
<1>6. /\ q \in Detector /\ q.t = f.t + 1 /\ q.verdict = "listening" /\ q.still = 0 /\ q.ref = 0
      /\ q.g = 0 /\ q.trig = -1 /\ q.frozen = FALSE
  BY <1>1, <1>4 DEF Detector
<1>7. Sr!step(f, m, v) = IF q.t >= Sr!LOOP THEN Sr!Fresh(q.t - Sr!LOOP) ELSE q
  BY <1>5 DEF Sr!step, Sr!resetDetector, n
<1> HIDE DEF q
<1>8. CASE q.t >= Sr!LOOP
  <2>1. q.t - Sr!LOOP = 0
    BY <1>1, <1>6, <1>8 DEF Sr!LOOP
  <2>2. QED  BY <1>7, <1>8, <2>1, FreshRests
<1>9. CASE ~ (q.t >= Sr!LOOP)
  BY <1>1, <1>6, <1>7, <1>9 DEF Rests, Sr!LOOP
<1>10. QED  BY <1>8, <1>9

-----------------------------------------------------------------------------
(* The token bucket of one client.  Its variables are s1 the time, s2 the  *)
(* bucket, s3 the times that the handlers read, s4 the tick, s5 the        *)
(* requests that were let through and s6 the one just refused.             *)
(*                                                                         *)
(* Tokens that come in a time, and what the bucket would hold at a time if *)
(* it never ran over: that goes down by one with every request that is let *)
(* through, in whatever order they come.                                   *)

R(x)    == TokenRate * x
Line(x) == s2.tokens + R(x) - R(s2.seen)
Times   == 0..TokenEnd

Dates ==
  /\ s1 \in Times /\ s4 \in -1..TokenEnd /\ s4 <= s1 /\ s6 \in -1..TokenEnd
  /\ s3 \in [Callers -> -1..TokenEnd] /\ \A h \in Callers : s3[h] \in {-1, s1 - 1, s1}
  /\ IsFiniteSet(s5) /\ s5 \subseteq (0..s1) \X (Nat \ {0})
  /\ \A r \in s5 : r[2] <= Ra!Served(r[1], r[1])

(* What was spent in a span is missing at its beginning, and the bucket    *)
(* has lost no more than was spent since it was full.                      *)
Spent ==
  \A a, b \in Times : Ra!Served(a, b) > 0 => Line(a) + Ra!Served(a, b) <= TokenBurst
WasFull ==
  \E a \in 0..s1 : Ra!Served(a, a) > 0 /\ Line(a) + Ra!Served(a - 1, TokenEnd) >= TokenBurst

(* A bucket in use has no debt at the time, nor a unit after it was seen.  *)
InUse ==
  /\ s2 \in [tokens : Int, seen : 0..s1] /\ s2.tokens <= TokenBurst
  /\ \A r \in s5 : r[1] <= s2.seen + 1
  /\ Line(s1) >= 0 /\ Line(s2.seen + 1) >= 0
  /\ Spent /\ WasFull

(* Without a bucket, whatever was spent has come again.                    *)
Dropped ==
  \A a, b \in Times :
    Ra!Served(a, b) > 0 => a < s1 /\ Ra!Served(a, b) <= R(s1 - 1) - R(a)

TokenInv ==
  /\ Dates
  /\ s2 # Ra!NoBucket => InUse
  /\ s2 = Ra!NoBucket => Dropped
  /\ s6 >= 0 => s2 # Ra!NoBucket /\ s2.seen = s6 /\ s2.tokens < 1
  /\ Ra!BudgetKept

LEMMA Tokens ==
  /\ TokenRate \in Nat /\ TokenBurst \in Nat \ {0} /\ TokenTTL \in Nat \ {0} /\ TokenEnd \in Nat
  /\ TokenBurst <= R(TokenTTL - 1)
  BY ServerAssumption DEF Ra!RateLimitAssumption, Ra!RefillsInTime, R

LEMMA RateGrows ==
  /\ \A x \in Int : R(x) \in Int
  /\ \A x, y \in Int : x <= y => R(x) <= R(y)
<1>1. TokenRate \in Nat
  BY Tokens
<1>2. \A x \in Int : R(x) \in Int
  BY <1>1 DEF R
<1>3. \A x, y \in Int : x <= y => R(x) <= R(y)
  <2> SUFFICES ASSUME NEW x \in Int, NEW y \in Int, x <= y PROVE R(x) <= R(y)
    OBVIOUS
  <2>1. TokenRate * (y - x) \in Nat /\ TokenRate * (y - x) = R(y) - R(x)
    BY <1>1 DEF R
  <2>2. QED  BY <1>2, <2>1
<1>4. QED  BY <1>2, <1>3

LEMMA RateOf ==
  ASSUME NEW x \in Int, NEW y \in Int
  PROVE  R(x - y) = R(x) - R(y) /\ R(x + y) = R(x) + R(y)
  BY Tokens DEF R

LEMMA SameCount ==
  ASSUME NEW S
  PROVE  Ra!Cardinality(S) = Cardinality(S)
  BY DEF Ra!Cardinality, Cardinality

LEMMA ServedIs ==
  ASSUME IsFiniteSet(s5), NEW a, NEW b
  PROVE  /\ Ra!Served(a, b) \in Nat
         /\ Ra!Served(a, b) > 0 <=> \E r \in s5 : r[1] \in a..b
<1> DEFINE S == {r \in s5 : r[1] \in a..b}
<1>1. IsFiniteSet(S)
  BY FS_Subset
<1>2. Ra!Served(a, b) = Cardinality(S)
  BY SameCount DEF Ra!Served
<1>3. Cardinality(S) \in Nat /\ (Cardinality(S) = 0 <=> S = {})
  BY <1>1, FS_CardinalityType, FS_EmptySet
<1>4. QED  BY <1>2, <1>3

(* A request more in every span that has its time.                         *)
LEMMA ServedGrows ==
  ASSUME Dates, NEW t \in Times, s5' = s5 \cup {<<t, Ra!Served(t, t) + 1>>}
  PROVE  /\ IsFiniteSet(s5')
         /\ \A a, b : Ra!Served(a, b)' = Ra!Served(a, b) + IF t \in a..b THEN 1 ELSE 0
<1> DEFINE n == <<t, Ra!Served(t, t) + 1>>
<1>1. IsFiniteSet(s5) /\ Ra!Served(t, t) \in Nat
  BY ServedIs DEF Dates
<1>2. n \notin s5
  <2>1. n[1] = t /\ n[2] = Ra!Served(t, t) + 1
    OBVIOUS
  <2>2. \A r \in s5 : r[2] <= Ra!Served(r[1], r[1])
    BY DEF Dates
  <2> HIDE DEF n
  <2>3. QED  BY <1>1, <2>1, <2>2
<1>3. IsFiniteSet(s5')
  BY <1>1, FS_AddElement
<1>4. ASSUME NEW a, NEW b
      PROVE  Ra!Served(a, b)' = Ra!Served(a, b) + IF t \in a..b THEN 1 ELSE 0
  <2> DEFINE S == {r \in s5 : r[1] \in a..b}
             T == {r \in s5' : r[1] \in a..b}
  <2>1. IsFiniteSet(S)
    BY <1>1, FS_Subset
  <2>2. Ra!Served(a, b) = Cardinality(S) /\ Ra!Served(a, b)' = Cardinality(T)
    BY SameCount DEF Ra!Served
  <2>3. T = IF t \in a..b THEN S \cup {n} ELSE S
    OBVIOUS
  <2>4. Cardinality(S \cup {n}) = Cardinality(S) + 1 /\ Cardinality(S) \in Nat
    BY <1>2, <2>1, FS_AddElement, FS_CardinalityType
  <2> HIDE DEF S, T, n
  <2>5. QED  BY <2>2, <2>3, <2>4
<1>5. QED  BY <1>3, <1>4

LEMMA ServedSame ==
  ASSUME UNCHANGED s5
  PROVE  \A a, b : Ra!Served(a, b)' = Ra!Served(a, b)
  BY DEF Ra!Served

LEMMA TokenInit == Ra!Init => TokenInv
<1> SUFFICES ASSUME Ra!Init PROVE TokenInv
  OBVIOUS
<1>1. /\ s1 = 0 /\ s2 = Ra!NoBucket /\ s4 = -1 /\ s6 = -1 /\ s5 = {}
      /\ s3 = [h \in Callers |-> -1]
  BY DEF Ra!Init
<1>2. IsFiniteSet(s5)
  BY <1>1, FS_EmptySet
<1>3. \A a, b : Ra!Served(a, b) = 0
  BY <1>1, <1>2, ServedIs
<1>4. Dates
  BY <1>1, <1>2, Tokens DEF Dates, Times
<1>5. Dropped
  BY <1>3 DEF Dropped
<1>6. Ra!BudgetKept
  <2> SUFFICES ASSUME NEW a \in 0..TokenEnd, NEW b \in a..TokenEnd
               PROVE  0 <= TokenBurst + TokenRate * (b - a)
    BY <1>3 DEF Ra!BudgetKept
  <2>1. TokenRate * (b - a) \in Nat
    BY Tokens
  <2>2. QED  BY <2>1, Tokens
<1>7. QED  BY <1>1, <1>4, <1>5, <1>6 DEF TokenInv

(* What is said of requests stays so when none is let through.             *)
LEMMA SameRequests ==
  ASSUME TokenInv, UNCHANGED s5
  PROVE  Ra!BudgetKept'
  BY ServedSame DEF TokenInv, Ra!BudgetKept

LEMMA SameDates ==
  ASSUME TokenInv, UNCHANGED s5, s1' \in {s1, s1 + 1}
  PROVE  /\ IsFiniteSet(s5') /\ s5' \subseteq (0..s1') \X (Nat \ {0})
         /\ \A r \in s5' : r[2] <= Ra!Served(r[1], r[1])'
<1>1. s1 \in Nat /\ s5 \subseteq (0..s1) \X (Nat \ {0}) /\ IsFiniteSet(s5)
  BY Tokens DEF TokenInv, Dates, Times
<1>2. (0..s1) \subseteq 0..s1'
  BY <1>1
<1>3. s5 \subseteq (0..s1') \X (Nat \ {0})
  BY <1>1, <1>2
<1>4. \A r \in s5' : r[2] <= Ra!Served(r[1], r[1])'
  BY ServedSame DEF TokenInv, Dates
<1>5. QED  BY <1>1, <1>3, <1>4

(* A step that leaves bucket and requests, with time the same or passing.  *)
LEMMA BucketSame ==
  ASSUME TokenInv, UNCHANGED <<s2, s5>>, s1' \in {s1, s1 + 1}
  PROVE  /\ s2' # Ra!NoBucket => InUse'
         /\ s2' = Ra!NoBucket => Dropped'
<1>1. s1 \in Int /\ s1' \in Int /\ s1 <= s1'
  BY DEF TokenInv, Dates, Times
<1>2. ASSUME s2 # Ra!NoBucket PROVE InUse'
  <2>1. InUse /\ s2'.tokens = s2.tokens /\ s2'.seen = s2.seen
    BY <1>2 DEF TokenInv
  <2>2. \A x : Line(x)' = Line(x)
    BY DEF Line, R
  <2>3. s2.seen \in Int /\ s2.tokens \in Int
    BY <2>1 DEF InUse
  <2>4. Line(s1') >= Line(s1) /\ Line(s1') \in Int /\ Line(s1) \in Int
    BY <1>1, <2>3, RateGrows DEF Line
  <2>5. Line(s1)' >= 0 /\ Line(s2.seen + 1)' >= 0
    BY <2>1, <2>2, <2>4 DEF InUse
  <2>6. Spent' /\ WasFull'
    <3>1. Spent'
      BY <2>1, <2>2, ServedSame DEF InUse, Spent
    <3>2. PICK a \in 0..s1 : Ra!Served(a, a) > 0 /\ Line(a) + Ra!Served(a - 1, TokenEnd) >= TokenBurst
      BY <2>1 DEF InUse, WasFull
    <3>3. a \in 0..s1'
      BY <1>1, <3>2
    <3>4. Ra!Served(a, a)' > 0 /\ Line(a)' + Ra!Served(a - 1, TokenEnd)' >= TokenBurst
      BY <3>2, <2>2, ServedSame
    <3>5. QED  BY <3>1, <3>3, <3>4 DEF WasFull
  <2>7. s2' \in [tokens : Int, seen : 0..s1']
    BY <1>1, <2>1 DEF InUse
  <2>8. QED  BY <2>1, <2>5, <2>6, <2>7 DEF InUse
<1>3. ASSUME s2 = Ra!NoBucket PROVE Dropped'
  <2> SUFFICES ASSUME NEW a \in Times, NEW b \in Times, Ra!Served(a, b)' > 0
               PROVE  a < s1' /\ Ra!Served(a, b)' <= R(s1 - 1)' - R(a)'
    BY DEF Dropped, Times
  <2>1. a < s1 /\ Ra!Served(a, b) <= R(s1 - 1) - R(a) /\ Ra!Served(a, b)' = Ra!Served(a, b)
    BY <1>3, ServedSame DEF TokenInv, Dropped
  <2>2. R(s1 - 1)' = R(s1' - 1) /\ R(a)' = R(a)
    BY DEF R
  <2>3. R(s1 - 1) <= R(s1' - 1) /\ R(s1 - 1) \in Int /\ R(s1' - 1) \in Int /\ R(a) \in Int
    BY <1>1, RateGrows DEF Times
  <2>4. Ra!Served(a, b) \in Nat
    BY ServedIs DEF TokenInv, Dates
  <2>5. QED  BY <1>1, <2>1, <2>2, <2>3, <2>4 DEF Times
<1>4. QED  BY <1>2, <1>3

LEMMA PassKeeps ==
  ASSUME TokenInv, Ra!Pass
  PROVE  TokenInv'
<1>1. /\ s1 \in Times /\ s1' \in Times /\ s1' = s1 + 1 /\ s4' \in {s1', s4} /\ s6' = -1
      /\ UNCHANGED <<s2, s3, s5>> /\ \A h \in Callers : s3[h] \in {-1, s1}
  BY Tokens DEF TokenInv, Dates, Times, Ra!Pass
<1>2. Dates'
  <2>1. s4' \in -1..TokenEnd /\ s4' <= s1'
    BY <1>1 DEF TokenInv, Dates, Times
  <2>2. \A h \in Callers : s3'[h] \in {-1, s1' - 1, s1'}
    BY <1>1 DEF Times
  <2>3. s3' \in [Callers -> -1..TokenEnd]
    BY <1>1 DEF TokenInv, Dates
  <2>4. s6' \in -1..TokenEnd
    BY <1>1, Tokens
  <2>5. QED  BY <1>1, <2>1, <2>2, <2>3, <2>4, SameDates DEF Dates, Times
<1>3. QED  BY <1>1, <1>2, BucketSame, SameRequests DEF TokenInv

LEMMA ArriveKeeps ==
  ASSUME TokenInv, NEW h \in Callers, Ra!Arrive(h)
  PROVE  TokenInv'
<1>1. s3' = [s3 EXCEPT ![h] = s1] /\ s6' = -1 /\ UNCHANGED <<s1, s2, s4, s5>>
  BY DEF Ra!Arrive
<1>2. Dates'
  <2>1. /\ s1 \in Times /\ s3 \in [Callers -> -1..TokenEnd]
        /\ \A k \in Callers : s3[k] \in {-1, s1 - 1, s1}
    BY DEF TokenInv, Dates
  <2>2. s3' \in [Callers -> -1..TokenEnd] /\ \A k \in Callers : s3'[k] \in {-1, s1' - 1, s1'}
    BY <1>1, <2>1 DEF Times
  <2>3. s6' \in -1..TokenEnd
    BY <1>1, Tokens
  <2>4. s4' \in -1..TokenEnd /\ s4' <= s1' /\ s1' \in Times'
    BY <1>1 DEF TokenInv, Dates, Times
  <2>5. QED  BY <1>1, <2>2, <2>3, <2>4, SameDates DEF Dates
<1>3. QED  BY <1>1, <1>2, BucketSame, SameRequests DEF TokenInv

(* The request that takes the lock read the clock at most a unit ago.      *)
LEMMA Allowed ==
  ASSUME TokenInv, NEW h \in Callers, Ra!Allow(h)
  PROVE  /\ s3[h] \in 0..s1 /\ s1 - 1 <= s3[h] /\ s3[h] \in Times
         /\ s3' = [s3 EXCEPT ![h] = -1] /\ UNCHANGED <<s1, s4>>
<1>1. s3[h] \in Int /\ s3[h] >= 0 /\ s3[h] \in {-1, s1 - 1, s1} /\ s1 \in Times
  BY DEF TokenInv, Dates, Times, Ra!Allow
<1>2. s3' = [s3 EXCEPT ![h] = -1] /\ UNCHANGED <<s1, s4>>
  BY DEF Ra!Allow
<1>3. QED  BY <1>1, <1>2, Tokens DEF Times

LEMMA RefilledIs ==
  ASSUME s2 \in [tokens : Int, seen : Int], NEW t \in Int
  PROVE  /\ Ra!Refilled(s2, t) \in Int
         /\ Ra!Refilled(s2, t) <= TokenBurst /\ Ra!Refilled(s2, t) <= Line(t)
         /\ Ra!Refilled(s2, t) \in {TokenBurst, Line(t)}
<1>1. TokenRate * (t - s2.seen) = R(t) - R(s2.seen)
  BY Tokens DEF R
<1>2. R(t) \in Int /\ R(s2.seen) \in Int
  BY RateGrows
<1>3. Line(t) \in Int /\ Ra!Refilled(s2, t) = IF TokenBurst < Line(t) THEN TokenBurst ELSE Line(t)
  BY <1>1, <1>2, Tokens DEF Line, Ra!Refilled, Ra!Least
<1>4. QED  BY <1>3, Tokens

(* The request takes a token: of a full bucket, be it a new one, or of one *)
(* that has the tokens of the line.                                        *)
LEMMA TakesFrom ==
  ASSUME TokenInv, NEW h \in Callers, Ra!Allow(h), NEW tokens \in Int, Ra!Take(h, tokens),
         tokens >= 1, tokens <= TokenBurst, \A r \in s5 : r[1] <= s3[h] + 1,
         \A a, b \in Times : Ra!Served(a, b) > 0 =>
           tokens + R(a) - R(s3[h]) + Ra!Served(a, b) <= TokenBurst,
         \/ tokens = TokenBurst
         \/ tokens = Line(s3[h]) /\ InUse
  PROVE  TokenInv'
<1> SUFFICES ASSUME NEW t, t = s3[h] PROVE TokenInv'
  OBVIOUS
<1>1. /\ t \in 0..s1 /\ s1 - 1 <= t /\ t \in Times
      /\ s3' = [s3 EXCEPT ![h] = -1] /\ UNCHANGED <<s1, s4>>
  BY Allowed
<1>2. /\ s2' = [tokens |-> tokens - 1, seen |-> t] /\ s6' = -1
      /\ s5' = s5 \cup {<<t, Ra!Served(t, t) + 1>>}
  BY DEF Ra!Take
<1>3. /\ Dates /\ s1 \in Times /\ IsFiniteSet(s5) /\ TokenBurst \in Nat
      /\ \A a, b : Ra!Served(a, b) \in Nat
  BY ServedIs, Tokens DEF TokenInv, Dates
<1>4. /\ IsFiniteSet(s5')
      /\ \A a, b : Ra!Served(a, b)' = Ra!Served(a, b) + IF t \in a..b THEN 1 ELSE 0
  BY <1>1, <1>2, <1>3, ServedGrows
<1>5. \A x \in Int : Line(x)' = tokens - 1 + R(x) - R(t)
  BY <1>2 DEF Line, R
<1>6. \A x \in Int : R(x) \in Int
  BY RateGrows
<1>7. /\ \A r \in s5 : r[1] <= t + 1
      /\ \A a, b \in Times : Ra!Served(a, b) > 0 =>
           tokens + R(a) - R(t) + Ra!Served(a, b) <= TokenBurst
      /\ tokens = TokenBurst \/ (tokens = Line(t) /\ InUse)
  OBVIOUS
<1>8. t \in Int /\ s1 \in Int
  BY <1>1, <1>3 DEF Times
<1>9. Dates'
  <2>1. s5' \subseteq (0..s1') \X (Nat \ {0})
    BY <1>1, <1>2, <1>3 DEF Dates
  <2>2. \A r \in s5' : r[2] <= Ra!Served(r[1], r[1])'
    <3>1. ASSUME NEW r \in s5 PROVE r[2] <= Ra!Served(r[1], r[1])'
      BY <1>3, <1>4 DEF Dates
    <3> DEFINE n == <<t, Ra!Served(t, t) + 1>>
    <3>2. n[2] <= Ra!Served(n[1], n[1])'
      BY <1>3, <1>4, <1>8
    <3>3. QED  BY <1>2, <3>1, <3>2
  <2>3. s3' \in [Callers -> -1..TokenEnd] /\ \A k \in Callers : s3'[k] \in {-1, s1' - 1, s1'}
    BY <1>1, <1>3, Tokens DEF Dates
  <2>4. s6' \in -1..TokenEnd
    BY <1>2, Tokens
  <2>5. QED  BY <1>1, <1>3, <1>4, <2>1, <2>2, <2>3, <2>4 DEF Dates, Times
<1>10. Spent'
  <2> SUFFICES ASSUME NEW a \in Times, NEW b \in Times, Ra!Served(a, b)' > 0
               PROVE  Line(a)' + Ra!Served(a, b)' <= TokenBurst
    BY DEF Spent, Times
  <2>1. a \in Int /\ b \in Int /\ R(a) \in Int /\ R(t) \in Int
    BY <1>6, <1>8 DEF Times
  <2>2. Line(a)' = tokens - 1 + R(a) - R(t)
    BY <1>5, <2>1
  <2>3. CASE Ra!Served(a, b) > 0
    BY <1>3, <1>4, <1>7, <2>1, <2>2, <2>3
  <2>4. CASE Ra!Served(a, b) = 0
    <3>1. t \in a..b /\ Ra!Served(a, b)' = 1
      BY <1>4, <2>4
    <3>2. R(a) <= R(t)
      BY <2>1, <3>1, RateGrows
    <3>3. QED  BY <1>3, <2>1, <2>2, <3>1, <3>2
  <2>5. QED  BY <1>3, <2>3, <2>4
<1>11. WasFull'
  <2>1. CASE tokens = TokenBurst
    <3>1. Ra!Served(t, t)' > 0 /\ Ra!Served(t - 1, TokenEnd)' >= 1
      <4>1. t \in t..t /\ t \in (t - 1)..TokenEnd
        BY <1>1, <1>8, Tokens DEF Times
      <4>2. QED  BY <1>3, <1>4, <4>1
    <3>2. Line(t)' = TokenBurst - 1
      BY <1>3, <1>5, <1>6, <1>8, <2>1
    <3>3. Line(t)' + Ra!Served(t - 1, TokenEnd)' >= TokenBurst
      <4>1. Ra!Served(t - 1, TokenEnd)' \in Nat
        BY <1>3, <1>4
      <4>2. QED  BY <1>3, <3>1, <3>2, <4>1
    <3>4. QED  BY <1>1, <3>1, <3>3 DEF WasFull
  <2>2. CASE tokens = Line(t) /\ InUse
    <3>1. PICK a \in 0..s1 : Ra!Served(a, a) > 0 /\ Line(a) + Ra!Served(a - 1, TokenEnd) >= TokenBurst
      BY <2>2 DEF InUse, WasFull
    <3>2. a \in Int /\ R(a) \in Int /\ R(t) \in Int /\ s2.tokens \in Int /\ R(s2.seen) \in Int
      BY <1>6, <1>8, <2>2, <3>1 DEF InUse
    <3>3. Line(a)' = Line(a) - 1 /\ Line(a) \in Int
      BY <1>5, <2>2, <3>2 DEF Line
    <3>4. t \in (a - 1)..TokenEnd
      BY <1>1, <1>8, <3>1, <3>2 DEF Times
    <3>5. Ra!Served(a - 1, TokenEnd)' = Ra!Served(a - 1, TokenEnd) + 1
      BY <1>4, <3>4
    <3>6. Ra!Served(a, a)' > 0
      BY <1>3, <1>4, <3>1
    <3>7. Line(a)' + Ra!Served(a - 1, TokenEnd)' >= TokenBurst
      BY <1>3, <3>1, <3>3, <3>5
    <3>8. QED  BY <1>1, <3>1, <3>6, <3>7 DEF WasFull
  <2>3. QED  BY <1>7, <2>1, <2>2
<1>12. InUse'
  <2>1. s2' \in [tokens : Int, seen : 0..s1'] /\ s2'.tokens <= TokenBurst /\ s2'.seen = t
    BY <1>1, <1>2, <1>3
  <2>2. \A r \in s5' : r[1] <= t + 1
    BY <1>2, <1>7, <1>8
  <2>3. R(t) <= R(s1) /\ R(t) <= R(t + 1) /\ R(t) \in Int /\ R(s1) \in Int /\ R(t + 1) \in Int
    BY <1>1, <1>8, RateGrows
  <2>4. Line(s1)' = tokens - 1 + R(s1) - R(t) /\ Line(s2.seen + 1)' = tokens - 1 + R(t + 1) - R(t)
    BY <1>1, <1>2, <2>1 DEF Line, R
  <2>5. Line(s1)' >= 0 /\ Line(s2.seen + 1)' >= 0
    BY <2>3, <2>4
  <2>6. QED  BY <1>10, <1>11, <2>1, <2>2, <2>5 DEF InUse
<1>13. Ra!BudgetKept'
  <2> SUFFICES ASSUME NEW a \in 0..TokenEnd, NEW b \in a..TokenEnd
               PROVE  Ra!Served(a, b)' <= TokenBurst + TokenRate * (b - a)
    BY DEF Ra!BudgetKept
  <2>1. a \in Times /\ b \in Times /\ a \in Int /\ b \in Int /\ R(a) \in Int /\ R(b) \in Int
    BY <1>6, Tokens DEF Times
  <2>2. TokenRate * (b - a) = R(b) - R(a)
    BY <2>1, Tokens DEF R
  <2>3. CASE t \in a..b
    <3>1. Ra!Served(a, b)' = Ra!Served(a, b) + 1 /\ Ra!Served(a, b)' \in Nat
      BY <1>3, <1>4, <2>3
    <3>2. Line(a)' + Ra!Served(a, b)' <= TokenBurst
      BY <1>3, <1>10, <2>1, <3>1 DEF Spent, Times
    <3>3. Line(a)' = tokens - 1 + R(a) - R(t) /\ R(t) <= R(b) /\ R(t) \in Int
      BY <1>5, <1>6, <1>8, <2>1, <2>3, RateGrows
    <3>4. QED  BY <1>3, <2>1, <2>2, <3>1, <3>2, <3>3
  <2>4. CASE t \notin a..b
    <3>1. Ra!Served(a, b)' = Ra!Served(a, b)
      BY <1>3, <1>4, <2>4
    <3>2. QED  BY <3>1 DEF TokenInv, Ra!BudgetKept
  <2>5. QED  BY <2>3, <2>4
<1>14. s2' # Ra!NoBucket
  BY <1>2, <1>8, <1>1 DEF Ra!NoBucket
<1>15. QED  BY <1>2, <1>9, <1>12, <1>13, <1>14 DEF TokenInv

(* A request is refused when the bucket holds less than a token.           *)
LEMMA RefuseKeeps ==
  ASSUME TokenInv, NEW h \in Callers, Ra!Allow(h), InUse, s2 # Ra!NoBucket,
         Ra!Refuse(h, Ra!Refilled(s2, s3[h])), Ra!Refilled(s2, s3[h]) < 1
  PROVE  TokenInv'
<1> SUFFICES ASSUME NEW t, t = s3[h] PROVE TokenInv'
  OBVIOUS
<1>1. /\ t \in 0..s1 /\ s1 - 1 <= t /\ t \in Times
      /\ s3' = [s3 EXCEPT ![h] = -1] /\ UNCHANGED <<s1, s4>>
  BY Allowed
<1>2. s2' = [tokens |-> Ra!Refilled(s2, t), seen |-> t] /\ s6' = t /\ UNCHANGED s5
  BY DEF Ra!Refuse
<1>3. /\ s1 \in Int /\ t \in Int /\ s2.tokens \in Int /\ s2.seen \in Int
      /\ s2 \in [tokens : Int, seen : Int] /\ TokenBurst \in Nat \ {0}
  BY <1>1, Tokens DEF TokenInv, Dates, Times, InUse
<1>4. Ra!Refilled(s2, t) = Line(t) /\ Line(t) \in Int /\ Line(t) < 1
  BY <1>3, RefilledIs
<1>5. \A x \in Int : Line(x)' = Line(x) /\ Line(x) \in Int
  <2> SUFFICES ASSUME NEW x \in Int PROVE Line(x)' = Line(x) /\ Line(x) \in Int
    OBVIOUS
  <2>1. Line(x)' = Line(t) + R(x) - R(t)
    BY <1>2, <1>4 DEF Line, R
  <2>2. R(x) \in Int /\ R(t) \in Int /\ R(s2.seen) \in Int
    BY <1>3, RateGrows
  <2>3. QED  BY <1>3, <2>1, <2>2 DEF Line
<1>6. Dates'
  <2>1. s3' \in [Callers -> -1..TokenEnd] /\ \A k \in Callers : s3'[k] \in {-1, s1' - 1, s1'}
    BY <1>1, Tokens DEF TokenInv, Dates
  <2>2. s6' \in -1..TokenEnd
    BY <1>1, <1>2 DEF Times
  <2>3. s1' \in Times' /\ s4' \in -1..TokenEnd /\ s4' <= s1'
    BY <1>1 DEF TokenInv, Dates, Times
  <2>4. QED  BY <1>1, <1>2, <2>1, <2>2, <2>3, SameDates DEF Dates
<1>7. Spent'
  <2> SUFFICES ASSUME NEW a \in Times, NEW b \in Times, Ra!Served(a, b)' > 0
               PROVE  Line(a)' + Ra!Served(a, b)' <= TokenBurst
    BY DEF Spent, Times
  <2>1. Ra!Served(a, b)' = Ra!Served(a, b) /\ Line(a)' = Line(a)
    BY <1>2, <1>5, ServedSame DEF Times
  <2>2. QED  BY <2>1 DEF InUse, Spent
<1>8. WasFull'
  <2>1. PICK a \in 0..s1 : Ra!Served(a, a) > 0 /\ Line(a) + Ra!Served(a - 1, TokenEnd) >= TokenBurst
    BY DEF InUse, WasFull
  <2>2. Line(a)' = Line(a)
    BY <1>5, <2>1
  <2>3. Ra!Served(a, a)' > 0 /\ Line(a)' + Ra!Served(a - 1, TokenEnd)' >= TokenBurst
    BY <1>2, <2>1, <2>2, ServedSame
  <2>4. QED  BY <1>1, <2>1, <2>3 DEF WasFull
<1>9. InUse'
  <2>1. s2' \in [tokens : Int, seen : 0..s1'] /\ s2'.tokens <= TokenBurst /\ s2'.seen = t
    BY <1>1, <1>2, <1>3, <1>4
  <2>2. \A r \in s5 : r[1] <= t + 1
    BY <1>1, <1>3 DEF TokenInv, Dates
  <2>3. Line(s1) >= 0 /\ Line(t + 1) >= Line(s1)
    <3>1. R(s1) <= R(t + 1) /\ R(s1) \in Int /\ R(t + 1) \in Int /\ R(s2.seen) \in Int
      BY <1>1, <1>3, RateGrows
    <3>2. QED  BY <1>3, <3>1 DEF Line, InUse
  <2>4. Line(s1)' >= 0 /\ Line(s2.seen + 1)' >= 0
    <3>1. Line(s1) = Line(t) + R(s1) - R(t) /\ Line(t + 1) = Line(t) + R(t + 1) - R(t)
      <4>1. R(s1) \in Int /\ R(t) \in Int /\ R(t + 1) \in Int /\ R(s2.seen) \in Int
        BY <1>3, RateGrows
      <4>2. QED  BY <1>3, <4>1 DEF Line
    <3>2. Line(s1)' = Line(t) + R(s1) - R(t) /\ Line(s2.seen + 1)' = Line(t) + R(t + 1) - R(t)
      BY <1>1, <1>2, <1>4 DEF Line, R
    <3>3. Line(t + 1) \in Int /\ Line(s1) \in Int
      BY <1>3, <1>5
    <3>4. QED  BY <2>3, <3>1, <3>2, <3>3
  <2>5. \A r \in s5' : r[1] <= s2'.seen + 1
    BY <1>2, <2>1, <2>2
  <2>6. QED  BY <1>7, <1>8, <2>1, <2>4, <2>5 DEF InUse
<1>10. s2' # Ra!NoBucket /\ s2'.seen = s6' /\ s2'.tokens < 1
  BY <1>1, <1>2, <1>4 DEF Ra!NoBucket
<1>11. QED  BY <1>2, <1>6, <1>9, <1>10, SameRequests DEF TokenInv

LEMMA LetThroughKeeps ==
  ASSUME TokenInv, NEW h \in Callers, Ra!Allow(h)
  PROVE  TokenInv'
<1> SUFFICES ASSUME NEW t, t = s3[h] PROVE TokenInv'
  OBVIOUS
<1>1. t \in 0..s1 /\ s1 - 1 <= t /\ t \in Times
  BY Allowed
<1>2. /\ s1 \in Int /\ t \in Int /\ TokenBurst \in Nat \ {0} /\ Dates /\ IsFiniteSet(s5)
      /\ s5 \subseteq (0..s1) \X (Nat \ {0})
      /\ \A a, b : Ra!Served(a, b) \in Nat /\ (Ra!Served(a, b) > 0 <=> \E r \in s5 : r[1] \in a..b)
  BY <1>1, Tokens, ServedIs DEF TokenInv, Dates, Times
<1>3. \A x \in Int : R(x) \in Int
  BY RateGrows
<1>4. CASE s2 = Ra!NoBucket
  <2>1. Ra!Take(h, TokenBurst) /\ Dropped
    BY <1>4 DEF Ra!Allow, TokenInv
  <2>2. \A r \in s5 : r[1] <= t + 1
    BY <1>1, <1>2
  <2>3. \A a, b \in Times : Ra!Served(a, b) > 0 =>
          TokenBurst + R(a) - R(t) + Ra!Served(a, b) <= TokenBurst
    <3> SUFFICES ASSUME NEW a \in Times, NEW b \in Times, Ra!Served(a, b) > 0
                 PROVE  TokenBurst + R(a) - R(t) + Ra!Served(a, b) <= TokenBurst
      OBVIOUS
    <3>1. Ra!Served(a, b) <= R(s1 - 1) - R(a)
      BY <2>1 DEF Dropped
    <3>2. R(s1 - 1) <= R(t) /\ R(s1 - 1) \in Int /\ R(t) \in Int /\ R(a) \in Int
      BY <1>1, <1>2, RateGrows DEF Times
    <3>3. QED  BY <1>2, <3>1, <3>2
  <2>4. QED  BY <1>2, <2>1, <2>2, <2>3, TakesFrom
<1>5. CASE s2 # Ra!NoBucket
  <2>1. InUse
    BY <1>5 DEF TokenInv
  <2>2. s2 \in [tokens : Int, seen : Int] /\ s2.tokens \in Int /\ s2.seen \in Int
    BY <1>2, <2>1 DEF InUse
  <2>3. CASE Ra!Refilled(s2, t) < 1
    BY <1>5, <2>1, <2>3, RefuseKeeps DEF Ra!Allow
  <2>4. CASE ~(Ra!Refilled(s2, t) < 1)
    <3> DEFINE tokens == Ra!Refilled(s2, t)
    <3>1. Ra!Take(h, tokens)
      BY <1>5, <2>4 DEF Ra!Allow
    <3>2. tokens \in Int /\ tokens >= 1 /\ tokens <= TokenBurst /\ tokens <= Line(t)
          /\ tokens \in {TokenBurst, Line(t)}
      BY <1>2, <2>2, <2>4, RefilledIs
    <3> HIDE DEF tokens
    <3>3. \A r \in s5 : r[1] <= t + 1
      BY <1>1, <1>2
    <3>4. \A a, b \in Times : Ra!Served(a, b) > 0 =>
            tokens + R(a) - R(t) + Ra!Served(a, b) <= TokenBurst
      <4> SUFFICES ASSUME NEW a \in Times, NEW b \in Times, Ra!Served(a, b) > 0
                   PROVE  tokens + R(a) - R(t) + Ra!Served(a, b) <= TokenBurst
        OBVIOUS
      <4>1. Line(a) + Ra!Served(a, b) <= TokenBurst
        BY <2>1 DEF InUse, Spent
      <4>2. R(a) \in Int /\ R(t) \in Int /\ R(s2.seen) \in Int
        BY <1>2, <1>3, <2>2 DEF Times
      <4>3. QED  BY <1>2, <2>2, <3>2, <4>1, <4>2 DEF Line
    <3>5. QED  BY <2>1, <3>1, <3>2, <3>3, <3>4, TakesFrom
  <2>5. QED  BY <2>3, <2>4
<1>6. QED  BY <1>4, <1>5

(* A bucket that the sweep drops was full again a unit before the tick.    *)
LEMMA SweepKeeps ==
  ASSUME TokenInv, Ra!Sweep
  PROVE  TokenInv'
<1>1. /\ s4 >= 0 /\ s4' = -1 /\ s6' = -1 /\ UNCHANGED <<s1, s3, s5>>
      /\ s2' = IF s2 # Ra!NoBucket /\ s4 - s2.seen > TokenTTL THEN Ra!NoBucket ELSE s2
  BY DEF Ra!Sweep
<1>2. Dates'
  <2>1. s1' \in Times' /\ s4' \in -1..TokenEnd /\ s4' <= s1' /\ s6' \in -1..TokenEnd
    BY <1>1, Tokens DEF TokenInv, Dates, Times
  <2>2. s3' \in [Callers -> -1..TokenEnd] /\ \A h \in Callers : s3'[h] \in {-1, s1' - 1, s1'}
    BY <1>1 DEF TokenInv, Dates
  <2>3. QED  BY <1>1, <2>1, <2>2, SameDates DEF Dates
<1>3. CASE s2' = s2
  BY <1>1, <1>2, <1>3, BucketSame, SameRequests DEF TokenInv
<1>4. CASE s2 # Ra!NoBucket /\ s4 - s2.seen > TokenTTL /\ s2' = Ra!NoBucket
  <2>1. /\ InUse /\ s1 \in Int /\ s4 \in Int /\ s4 <= s1 /\ IsFiniteSet(s5)
        /\ s5 \subseteq (0..s1) \X (Nat \ {0})
    BY <1>4 DEF TokenInv, Dates, Times
  <2>2. s2.seen \in Int /\ s2.tokens \in Int /\ TokenTTL \in Nat /\ TokenBurst \in Nat
    BY <2>1, Tokens DEF InUse
  <2>3. s2.seen + TokenTTL + 1 <= s1
    BY <1>4, <2>1, <2>2
  <2> DEFINE m == s2.seen + 1
             n == TokenTTL - 1
  <2>4. m \in Int /\ n \in Int /\ m + n <= s1 - 1
    BY <2>1, <2>2, <2>3
  <2>5. Line(m) >= 0 /\ TokenBurst <= R(n)
    BY <2>1, Tokens DEF InUse
  <2>6. R(m + n) = R(m) + R(n) /\ R(m + n) <= R(s1 - 1)
    <3> HIDE DEF m, n
    <3>1. R(m + n) = R(m) + R(n)
      BY <2>4, RateOf
    <3>2. m + n \in Int /\ s1 - 1 \in Int
      BY <2>1, <2>4
    <3>3. QED  BY <2>4, <3>1, <3>2, RateGrows
  <2>7. R(m) \in Int /\ R(n) \in Int /\ R(m + n) \in Int /\ R(s1 - 1) \in Int /\ R(s2.seen) \in Int
    BY <2>1, <2>2, <2>4, RateGrows
  <2> HIDE DEF m, n
  <2>8. Line(s1 - 1) >= TokenBurst /\ Line(s1 - 1) \in Int
    BY <2>2, <2>5, <2>6, <2>7 DEF Line
  <2>9. Dropped'
    <3> SUFFICES ASSUME NEW a \in Times, NEW b \in Times, Ra!Served(a, b)' > 0
                 PROVE  a < s1' /\ Ra!Served(a, b)' <= R(s1 - 1)' - R(a)'
      BY DEF Dropped, Times
    <3>1. Ra!Served(a, b)' = Ra!Served(a, b) /\ R(s1 - 1)' = R(s1 - 1) /\ R(a)' = R(a)
      BY <1>1, ServedSame DEF R
    <3>2. Line(a) + Ra!Served(a, b) <= TokenBurst
      BY <2>1, <3>1 DEF InUse, Spent
    <3>3. PICK r \in s5 : r[1] \in a..b
      BY <2>1, <3>1, ServedIs
    <3>4. r[1] \in Int /\ r[1] <= s2.seen + 1 /\ a \in Int
      BY <2>1, <3>3 DEF InUse, Times
    <3>5. a <= s2.seen + 1
      BY <2>2, <3>3, <3>4
    <3>6. a < s1
      BY <2>1, <2>2, <2>3, <3>4, <3>5, Tokens
    <3>7. R(a) \in Int /\ Ra!Served(a, b) \in Nat
      BY <2>1, <3>4, RateGrows, ServedIs
    <3>8. Ra!Served(a, b) <= R(s1 - 1) - R(a)
      BY <2>2, <2>7, <2>8, <3>2, <3>7 DEF Line
    <3>9. QED  BY <1>1, <3>1, <3>6, <3>8
  <2>10. QED  BY <1>1, <1>2, <1>4, <2>9, SameRequests DEF TokenInv
<1>5. QED  BY <1>1, <1>3, <1>4

LEMMA TokenNext == TokenInv /\ [Ra!Next]_(Ra!vars) => TokenInv'
<1> SUFFICES ASSUME TokenInv, [Ra!Next]_(Ra!vars) PROVE TokenInv'
  OBVIOUS
<1>1. ASSUME UNCHANGED Ra!vars PROVE TokenInv'
  <2>1. UNCHANGED <<s1, s2, s3, s4, s5, s6>>
    BY <1>1 DEF Ra!vars
  <2>2. Dates'
    BY <2>1, ServedSame DEF TokenInv, Dates, Times
  <2>3. QED  BY <2>1, <2>2, BucketSame, SameRequests DEF TokenInv
<1>2. QED  BY <1>1, PassKeeps, SweepKeeps, ArriveKeeps, LetThroughKeeps DEF Ra!Next

LEMMA TokenTypes == TokenInv => Ra!TypeOK
<1> SUFFICES ASSUME TokenInv PROVE Ra!TypeOK
  OBVIOUS
<1>1. s1 \in 0..TokenEnd /\ s4 \in -1..TokenEnd /\ s6 \in -1..TokenEnd /\ s3 \in [Callers -> -1..TokenEnd]
  BY DEF TokenInv, Dates, Times
<1>2. s2 = Ra!NoBucket \/ (s2.tokens <= TokenBurst /\ s2.seen \in 0..s1)
  BY DEF TokenInv, InUse
<1>3. s5 \subseteq (0..TokenEnd) \X (Nat \ {0})
  <2>1. 0..s1 \subseteq 0..TokenEnd
    BY <1>1, Tokens
  <2>2. QED  BY <2>1 DEF TokenInv, Dates
<1>4. QED  BY <1>1, <1>2, <1>3 DEF Ra!TypeOK

(* The request that was refused came at the time that the bucket was last  *)
(* seen, and the time when the bucket was full cannot be later: no request *)
(* that was let through is.                                                *)
LEMMA RefusalsCost == TokenInv => Ra!RefusedOnlyIfSpent
<1> SUFFICES ASSUME TokenInv, s6 >= 0, Ra!Served(s6 + 1, TokenEnd) = 0
             PROVE  \E a \in 0..s6 : Ra!Served(a - 1, s1) + 1 > TokenBurst + TokenRate * (s6 - a)
  BY DEF Ra!RefusedOnlyIfSpent
<1>1. InUse /\ s2.seen = s6 /\ s2.tokens < 1 /\ s2.tokens \in Int
  BY DEF TokenInv, InUse
<1>2. /\ s1 \in Int /\ s6 \in Int /\ s1 <= TokenEnd /\ TokenEnd \in Nat /\ TokenBurst \in Nat
      /\ IsFiniteSet(s5) /\ s5 \subseteq (0..s1) \X (Nat \ {0})
      /\ \A a, b : Ra!Served(a, b) \in Nat /\ (Ra!Served(a, b) > 0 <=> \E r \in s5 : r[1] \in a..b)
  BY Tokens, ServedIs DEF TokenInv, Dates, Times
<1>3. PICK a \in 0..s1 : Ra!Served(a, a) > 0 /\ Line(a) + Ra!Served(a - 1, TokenEnd) >= TokenBurst
  BY <1>1 DEF InUse, WasFull
<1>4. a <= s6
  <2>1. PICK r \in s5 : r[1] \in a..a
    BY <1>2, <1>3
  <2>2. r[1] = a /\ a <= TokenEnd
    BY <1>2, <1>3, <2>1
  <2>3. r[1] \notin (s6 + 1)..TokenEnd
    BY <1>2, <2>1
  <2>4. QED  BY <1>2, <1>3, <2>2, <2>3
<1>5. Ra!Served(a - 1, TokenEnd) = Ra!Served(a - 1, s1)
  <2>1. \A r \in s5 : r[1] \in (a - 1)..TokenEnd <=> r[1] \in (a - 1)..s1
    BY <1>2, <1>3
  <2>2. {r \in s5 : r[1] \in (a - 1)..TokenEnd} = {r \in s5 : r[1] \in (a - 1)..s1}
    BY <2>1
  <2>3. QED  BY <2>2 DEF Ra!Served
<1>6. TokenRate * (s6 - a) = R(s6) - R(a) /\ R(s6) \in Int /\ R(a) \in Int
  BY <1>2, <1>3, Tokens, RateGrows DEF R
<1>7. Ra!Served(a - 1, s1) \in Nat
  BY <1>2
<1>8. Ra!Served(a - 1, s1) + 1 > TokenBurst + TokenRate * (s6 - a)
  BY <1>1, <1>2, <1>3, <1>5, <1>6, <1>7 DEF Line
<1>9. QED  BY <1>2, <1>3, <1>4, <1>8

-----------------------------------------------------------------------------
(* The bot.  Its variables are s1 the time, s2 the table of subscribers,   *)
(* s6 the inbox, s7 how much of it was polled and done, s8 the phone of    *)
(* the link under way, s10 the workers, s11 when each chat was reminded,   *)
(* and s12 the chats of whose reminder there is no record.                 *)

Tbl == <<s2, s10, s11, s12>>
Msg == <<s6, s7, s8>>

LEMMA BotNumbers == BotEnd \in Nat
  BY ServerAssumption DEF Bo!BotAssumption

(* What the handling of messages keeps.                                    *)
MsgInv ==
  /\ s6 \in Seq([chat : Chat, kind : Bo!Kinds]) /\ s7 \in [got : Nat, done : Nat]
  /\ s7.done <= s7.got /\ s7.got <= Len(s6)
  /\ s8 \in Owned \cup {None}
  /\ Bo!LinkUnder

(* What the table and the workers keep.                                    *)
TblInv ==
  /\ s1 \in 0..BotEnd /\ s2 \in [Chat -> Bo!Subscriber] /\ s11 \in [Chat -> Int]
  /\ s10 \in [Bo!Worker -> [todo : SUBSET [chat : Chat, sub : Bo!Subscriber], at : 0..s1,
                            chat : Chat \cup {None}, stage : {"next", "send", "record", "delete"}]]
  /\ \A w \in Bo!Worker : s10[w].stage # "next" => s10[w].chat \in Chat
  /\ Bo!RowsDated /\ Bo!RecordsKept /\ Bo!ListKnown

LEMMA BotParts == Bo!KeepsWord <=> MsgInv /\ TblInv
  BY DEF Bo!KeepsWord, Bo!Types, MsgInv, TblInv

LEMMA MsgSame ==
  ASSUME MsgInv, UNCHANGED Msg
  PROVE  MsgInv'
  BY DEF MsgInv, Msg, Bo!LinkUnder, Bo!Under, Bo!Message

LEMMA TblSame ==
  ASSUME TblInv, UNCHANGED <<s1, Tbl>>
  PROVE  TblInv'
  BY DEF TblInv, Tbl, Bo!RowsDated, Bo!RecordsKept, Bo!ListKnown, Bo!Reminders, Bo!Known,
         Bo!Subscribers

LEMMA MessageIs ==
  ASSUME MsgInv, Bo!Under
  PROVE  Bo!Message.chat \in Chat /\ Bo!Message.kind \in Bo!Kinds
<1> DEFINE M == [chat : Chat, kind : Bo!Kinds]
<1>1. s6 \in Seq(M) /\ s7.done + 1 \in 1..Len(s6)
  BY DEF MsgInv, Bo!Under
<1> HIDE DEF M
<1>2. s6[s7.done + 1] \in M
  BY <1>1, ElementOfSeq
<1>3. QED  BY <1>2 DEF M, Bo!Message

-----------------------------------------------------------------------------
LEMMA PollKeeps ==
  ASSUME MsgInv, Bo!Poll
  PROVE  MsgInv'
<1>1. s8 = None
  BY DEF MsgInv, Bo!Poll, Bo!LinkUnder, Bo!Under
<1>2. /\ s7.done \in Nat /\ s7.done <= Len(s6) /\ Len(s6) \in Nat
      /\ s6' = SubSeq(s6, s7.done + 1, Len(s6)) /\ s7' = [got |-> Len(s6'), done |-> 0] /\ s8' = s8
  BY DEF MsgInv, Bo!Poll
<1>3. s6' \in Seq([chat : Chat, kind : Bo!Kinds])
  <2> DEFINE M == [chat : Chat, kind : Bo!Kinds]
  <2>1. s6 \in Seq(M) /\ s7.done + 1 \in 1..Len(s6) + 1 /\ Len(s6) \in s7.done..Len(s6)
    BY <1>2 DEF MsgInv
  <2> HIDE DEF M
  <2>2. SubSeq(s6, s7.done + 1, Len(s6)) \in Seq(M)
    BY <1>2, <2>1, SubSeqProperties
  <2>3. QED  BY <1>2, <2>2 DEF M
<1>4. Len(s6') \in Nat
  BY <1>3
<1>5. QED
  BY <1>1, <1>2, <1>3, <1>4 DEF MsgInv, Bo!LinkUnder

(* The message under way is done with, and its link.                       *)
LEMMA DoneKeeps ==
  ASSUME MsgInv, Bo!Under, Bo!Done, s6' = s6, s8' = None
  PROVE  MsgInv'
<1>1. s7.done \in Nat /\ s7.got \in Nat /\ s7.done < s7.got /\ s7' = [s7 EXCEPT !.done = @ + 1]
  BY DEF MsgInv, Bo!Under, Bo!Done
<1>2. s7' \in [got : Nat, done : Nat] /\ s7'.done = s7.done + 1 /\ s7'.got = s7.got
  BY <1>1 DEF MsgInv
<1>3. QED  BY <1>1, <1>2 DEF MsgInv, Bo!LinkUnder

LEMMA ClaimKeeps ==
  ASSUME MsgInv, Bo!Claim
  PROVE  MsgInv'
<1>1. /\ Bo!Under /\ Bo!Message.kind = "link" /\ s8 = None /\ s6' = s6
      /\ \/ s8' \in Owned /\ s7' = s7
         \/ Bo!Done /\ s8' = s8
  BY DEF Bo!Claim
<1>2. CASE s8' \in Owned /\ s7' = s7
  BY <1>1, <1>2 DEF MsgInv, Bo!LinkUnder, Bo!Under, Bo!Message
<1>3. CASE Bo!Done /\ s8' = s8
  BY <1>1, <1>3, DoneKeeps
<1>4. QED  BY <1>1, <1>2, <1>3

LEMMA WriteKeeps ==
  ASSUME MsgInv, NEW c \in Chat, NEW kind \in Bo!Kinds, Bo!Write(c, kind)
  PROVE  MsgInv'
<1> DEFINE m == [chat |-> c, kind |-> kind]
           M == [chat : Chat, kind : Bo!Kinds]
<1>1. m \in M /\ s6 \in Seq(M) /\ s6' = Append(s6, m) /\ s7' = s7 /\ s8' = s8
  BY DEF MsgInv, Bo!Write
<1> HIDE DEF m, M
<1>2. /\ s6' \in Seq(M) /\ Len(s6') = Len(s6) + 1
      /\ \A i \in 1..Len(s6) : s6'[i] = s6[i]
  BY <1>1, AppendProperties
<1>3. s7.done \in Nat /\ s7.got \in Nat /\ Len(s6) \in Nat /\ s7.got <= Len(s6)
  BY DEF MsgInv
<1>4. Bo!LinkUnder'
  <2>1. CASE s7.done < s7.got
    <3>1. s7.done + 1 \in 1..Len(s6)
      BY <1>3, <2>1
    <3>2. Bo!Message' = Bo!Message /\ Bo!Under'
      BY <1>1, <1>2, <2>1, <3>1 DEF Bo!Message, Bo!Under
    <3>3. QED  BY <1>1, <3>2 DEF MsgInv, Bo!LinkUnder
  <2>2. CASE ~ (s7.done < s7.got)
    BY <1>1, <2>2 DEF MsgInv, Bo!LinkUnder, Bo!Under
  <2>3. QED  BY <2>1, <2>2
<1>5. QED  BY <1>1, <1>2, <1>3, <1>4 DEF MsgInv, M

-----------------------------------------------------------------------------
(* The workers are as before, and so is what is noted of reminders, or     *)
(* more is excused: then it is enough that each row is dated and known.    *)
LEMMA RowsKeep ==
  ASSUME TblInv, UNCHANGED <<s1, s10, s11>>, s12 \subseteq s12',
         s2' \in [Chat -> Bo!Subscriber],
         \A c \in Chat : \/ s2'[c] = s2[c]
                         \/ s2'[c] = Bo!NoSub
                         \/ /\ s2'[c].nudged = s2[c].nudged /\ s2[c].there /\ s2'[c].there
                         \/ /\ s2'[c].nudged = -1 /\ c \in s12' /\ s2'[c].there
  PROVE  TblInv'
<1>1. Bo!RowsDated'
  BY DEF TblInv, Bo!RowsDated, Bo!NoSub
<1>2. Bo!Reminders' = Bo!Reminders
  BY DEF Bo!Reminders
<1>3. \A c, k : Bo!Known(c, k) => Bo!Known(c, k)'
  BY DEF Bo!Known
<1>4. \A c \in Bo!Subscribers' : Bo!Known(c, s2[c].nudged) \/ (Bo!Reminders.stage = "record" /\ Bo!Reminders.chat = c)
                                 \/ c \in s12'
  BY DEF TblInv, Bo!RecordsKept, Bo!Subscribers, Bo!NoSub
<1>5. Bo!RecordsKept'
  <2> SUFFICES ASSUME NEW c \in Bo!Subscribers'
               PROVE  Bo!Known(c, s2[c].nudged)' \/ (Bo!Reminders.stage = "record" /\ Bo!Reminders.chat = c)
    BY <1>2 DEF TblInv, Bo!RecordsKept
  <2>1. QED  BY <1>3, <1>4 DEF TblInv, Bo!RecordsKept, Bo!Subscribers, Bo!Known, Bo!NoSub
<1>6. Bo!ListKnown'
  BY <1>2, <1>3 DEF TblInv, Bo!ListKnown
<1>7. QED  BY <1>1, <1>5, <1>6 DEF TblInv

LEMMA SubscribeKeeps ==
  ASSUME TblInv, NEW c \in Chat, NEW d \in Owned \cup {None}, Bo!Subscribe(c, d),
         UNCHANGED <<s1, s10, s11>>
  PROVE  TblInv'
<1> DEFINE kept == [s2[c] EXCEPT !.dev = IF d = None THEN s2[c].dev ELSE d]
           new  == [there |-> TRUE, dev |-> d, nudged |-> -1]
<1>1. /\ s2' = [s2 EXCEPT ![c] = IF s2[c].there THEN kept ELSE new]
      /\ s12' = IF s2[c].there THEN s12 ELSE s12 \cup {c}
  BY DEF Bo!Subscribe, Bo!Upsert
<1>2. s2 \in [Chat -> Bo!Subscriber] /\ s2[c] \in Bo!Subscriber
  BY DEF TblInv
<1>3. /\ kept \in Bo!Subscriber /\ kept.nudged = s2[c].nudged /\ kept.there = s2[c].there
      /\ new \in Bo!Subscriber /\ new.nudged = -1 /\ new.there
  BY <1>2 DEF Bo!Subscriber
<1> HIDE DEF kept, new
<1>4. s2' \in [Chat -> Bo!Subscriber]
  BY <1>1, <1>2, <1>3
<1>5. \A b \in Chat : b # c => s2'[b] = s2[b]
  BY <1>1, <1>2
<1>6. s2'[c] = IF s2[c].there THEN kept ELSE new
  BY <1>1, <1>2
<1>7. QED  BY <1>1, <1>3, <1>4, <1>5, <1>6, RowsKeep

LEMMA DeleteKeeps ==
  ASSUME TblInv, NEW c \in Chat, Bo!Delete(c), UNCHANGED <<s1, s10, s11, s12>>
  PROVE  TblInv'
<1>1. s2' \in [Chat -> Bo!Subscriber] /\ \A b \in Chat : s2'[b] = IF b = c THEN Bo!NoSub ELSE s2[b]
  BY DEF TblInv, Bo!Delete, Bo!NoSub, Bo!Subscriber
<1>2. QED  BY <1>1, RowsKeep

LEMMA UnlinkKeeps ==
  ASSUME TblInv, NEW d \in Owned, Bo!UnlinkDevice(d)
  PROVE  TblInv'
<1>1. /\ UNCHANGED <<s1, s10, s11, s12>>
      /\ s2' = [c \in Chat |-> IF s2[c].dev = d THEN [s2[c] EXCEPT !.dev = None] ELSE s2[c]]
  BY DEF Bo!UnlinkDevice, Bo!histVars
<1>2. d # None
  BY ServerAssumption DEF Bo!BotAssumption
<1>3. ASSUME NEW c \in Chat, s2[c].dev = d
      PROVE  s2[c].there /\ [s2[c] EXCEPT !.dev = None] \in Bo!Subscriber
             /\ [s2[c] EXCEPT !.dev = None].nudged = s2[c].nudged
             /\ [s2[c] EXCEPT !.dev = None].there = s2[c].there
  <2>1. s2[c] \in Bo!Subscriber /\ (~s2[c].there => s2[c] = Bo!NoSub)
    BY DEF TblInv, Bo!RowsDated
  <2>2. s2[c].there
    BY <1>2, <1>3, <2>1 DEF Bo!NoSub, Bo!Subscriber
  <2>3. QED  BY <2>1, <2>2 DEF Bo!Subscriber
<1>4. s2' \in [Chat -> Bo!Subscriber]
  BY <1>1, <1>3 DEF TblInv
<1>5. \A c \in Chat : s2'[c] = IF s2[c].dev = d THEN [s2[c] EXCEPT !.dev = None] ELSE s2[c]
  BY <1>1
<1>6. QED  BY <1>1, <1>3, <1>4, <1>5, RowsKeep

LEMMA TimePasses ==
  ASSUME TblInv, Bo!Pass
  PROVE  TblInv'
<1>1. s1' = s1 + 1 /\ s1 \in Nat /\ s1' \in 0..BotEnd /\ UNCHANGED Tbl
  BY BotNumbers DEF TblInv, Bo!Pass, Bo!histVars, Tbl
<1>2. \A n : n \in 0..s1 => n \in 0..s1'
  BY <1>1
<1>3. \A n : n \in -1..s1 => n \in -1..s1'
  BY <1>1
<1>4. Bo!RecordsKept' /\ Bo!ListKnown'
  BY <1>1 DEF TblInv, Tbl, Bo!RecordsKept, Bo!ListKnown, Bo!Reminders, Bo!Known, Bo!Subscribers
<1>5. Bo!RowsDated'
  BY <1>1, <1>3 DEF TblInv, Tbl, Bo!RowsDated, Bo!NoSub
<1>6. s10' \in [Bo!Worker -> [todo : SUBSET [chat : Chat, sub : Bo!Subscriber], at : 0..s1',
                              chat : Chat \cup {None}, stage : {"next", "send", "record", "delete"}]]
  BY <1>1, <1>2 DEF TblInv, Tbl
<1>7. QED  BY <1>1, <1>4, <1>5, <1>6 DEF TblInv, Tbl

-----------------------------------------------------------------------------
(* The workers: the types of their state, and, of the table, what is       *)
(* dated.  Alerts write no records, and so the rest holds of them easily.  *)
Task == [todo : SUBSET [chat : Chat, sub : Bo!Subscriber], at : 0..s1,
         chat : Chat \cup {None}, stage : {"next", "send", "record", "delete"}]

LEMMA WorkerTypes ==
  ASSUME TblInv
  PROVE  /\ s10 \in [Bo!Worker -> Task]
         /\ \A w \in Bo!Worker : s10[w] \in Task /\ (s10[w].stage # "next" => s10[w].chat \in Chat)
         /\ "reminders" \in Bo!Worker /\ "alert" \in Bo!Worker
         /\ \A w \in Bo!Worker : w = "reminders" \/ w = "alert"
         /\ Bo!Idle \in Task
<1>1. Bo!Idle \in Task
  BY DEF TblInv, Task, Bo!Idle
<1>2. QED  BY <1>1 DEF TblInv, Task, Bo!Worker

(* A worker goes on to r, and the rows stay as they are.                   *)
Goes(w, r) == s10' = [s10 EXCEPT ![w] = r]

LEMMA AlertGoes ==
  ASSUME TblInv, NEW r \in Task, Goes("alert", r), r.stage # "record",
         r.stage # "next" => r.chat \in Chat, UNCHANGED <<s1, s2, s11, s12>>
  PROVE  TblInv'
<1>1. /\ s10' \in [Bo!Worker -> Task] /\ s10'["alert"] = r
      /\ s10'["reminders"] = s10["reminders"]
      /\ \A w \in Bo!Worker : s10'[w].stage # "next" => s10'[w].chat \in Chat
  BY WorkerTypes DEF Goes
<1>2. Bo!RowsDated'
  BY DEF TblInv, Bo!RowsDated
<1>3. Bo!RecordsKept' /\ Bo!ListKnown'
  BY <1>1 DEF TblInv, Bo!RecordsKept, Bo!ListKnown, Bo!Reminders, Bo!Known, Bo!Subscribers
<1>4. QED  BY <1>1, <1>2, <1>3 DEF TblInv, Task

(* The reminders go on without a word to anyone: with a part of the list,  *)
(* or of what is in the table; to send what is due; or to the next.        *)
LEMMA RemindersGo ==
  ASSUME TblInv, NEW r \in Task, Goes("reminders", r), Bo!Reminders.stage # "record",
         r.stage # "record", r.stage # "next" => r.chat \in Chat,
         UNCHANGED <<s1, s2, s11, s12>>,
         \A x \in r.todo : /\ Bo!Known(x.chat, x.sub.nudged)
                           /\ r.stage # "next" => x.chat # r.chat
                           /\ \A y \in r.todo : x.chat = y.chat => x = y,
         r.stage = "send" => \/ s11[r.chat] = -1 \/ r.chat \in s12
                             \/ r.at - s11[r.chat] >= NudgeApart
  PROVE  TblInv'
<1>1. /\ s10' \in [Bo!Worker -> Task] /\ s10'["reminders"] = r
      /\ s10'["alert"] = s10["alert"]
      /\ \A w \in Bo!Worker : s10'[w].stage # "next" => s10'[w].chat \in Chat
  BY WorkerTypes DEF Goes
<1>2. Bo!Reminders' = r
  BY <1>1 DEF Bo!Reminders
<1>3. Bo!RowsDated'
  BY DEF TblInv, Bo!RowsDated
<1>4. Bo!RecordsKept'
  BY <1>1, <1>2 DEF TblInv, Bo!RecordsKept, Bo!Known, Bo!Subscribers
<1>5. Bo!ListKnown'
  BY <1>2 DEF Bo!ListKnown, Bo!Known
<1>6. QED  BY <1>1, <1>3, <1>4, <1>5 DEF TblInv, Task

LEMMA BeginKeeps ==
  ASSUME TblInv, NEW w \in Bo!Worker, Bo!Begin(w)
  PROVE  TblInv'
<1> DEFINE L == {[chat |-> c, sub |-> s2[c]] : c \in Bo!Subscribers}
           r == [s10[w] EXCEPT !.todo = L, !.at = s1]
<1>1. s10[w] = Bo!Idle /\ Goes(w, r) /\ UNCHANGED <<s1, s2, s11, s12>>
  BY DEF Bo!Begin, Bo!histVars, Goes
<1>2. L \in SUBSET [chat : Chat, sub : Bo!Subscriber] /\ s1 \in 0..s1
  BY BotNumbers DEF TblInv, Bo!Subscribers
<1>3. r \in Task /\ r.stage = "next" /\ r.todo = L
  <2> HIDE DEF L
  <2>1. QED  BY <1>1, <1>2, WorkerTypes DEF Task, Bo!Idle
<1>4. CASE w = "alert"
  <2> HIDE DEF r
  <2>1. QED  BY <1>1, <1>3, <1>4, AlertGoes
<1>5. CASE w = "reminders"
  <2>1. Bo!Reminders.stage = "next"
    BY <1>1, <1>5 DEF Bo!Reminders, Bo!Idle
  <2>2. \A c \in Bo!Subscribers : Bo!Known(c, s2[c].nudged)
    BY <2>1 DEF TblInv, Bo!RecordsKept
  <2>3. \A x \in L : Bo!Known(x.chat, x.sub.nudged) /\ \A y \in L : x.chat = y.chat => x = y
    BY <2>2
  <2> HIDE DEF r, L
  <2>4. QED  BY <1>1, <1>3, <1>5, <2>1, <2>3, RemindersGo
<1>6. QED  BY <1>4, <1>5, WorkerTypes

LEMMA TakeKeeps ==
  ASSUME TblInv, NEW w \in Bo!Worker, Bo!Take(w)
  PROVE  TblInv'
<1>1. PICK x \in s10[w].todo :
        \/ s10' = [s10 EXCEPT ![w].todo = @ \ {x}]
        \/ /\ w = "alert" \/ Bo!Missed(x.sub, s10[w].at)
           /\ s10' = [s10 EXCEPT ![w].todo = @ \ {x}, ![w].chat = x.chat, ![w].stage = "send"]
  BY DEF Bo!Take
<1>2. UNCHANGED <<s1, s2, s11, s12>> /\ s10[w].stage = "next"
  BY DEF Bo!Take, Bo!histVars
<1>3. s10[w] \in Task /\ x \in [chat : Chat, sub : Bo!Subscriber]
  BY WorkerTypes DEF Task
<1> DEFINE T == s10[w].todo \ {x}
           p == [s10[w] EXCEPT !.todo = T]
           q == [s10[w] EXCEPT !.todo = T, !.chat = x.chat, !.stage = "send"]
<1>4. T \in SUBSET [chat : Chat, sub : Bo!Subscriber]
  BY <1>3 DEF Task
<1>5. /\ p \in Task /\ p.stage = "next" /\ p.todo = T
      /\ q \in Task /\ q.stage = "send" /\ q.todo = T /\ q.chat = x.chat /\ q.at = s10[w].at
      /\ x.chat \in Chat
  <2> HIDE DEF T
  <2>1. QED  BY <1>2, <1>3, <1>4 DEF Task
<1>6. Goes(w, p) \/ (Goes(w, q) /\ (w = "alert" \/ Bo!Missed(x.sub, s10[w].at)))
  BY <1>1 DEF Goes
<1>7. CASE w = "alert"
  <2> HIDE DEF p, q
  <2>1. QED  BY <1>2, <1>5, <1>6, <1>7, AlertGoes
<1>8. CASE w = "reminders"
  <2>1. Bo!Reminders.stage = "next" /\ Bo!Reminders = s10[w]
    BY <1>2, <1>8 DEF Bo!Reminders
  <2>2. \A y \in s10[w].todo : /\ Bo!Known(y.chat, y.sub.nudged)
                               /\ \A z \in s10[w].todo : y.chat = z.chat => y = z
    BY <2>1 DEF TblInv, Bo!ListKnown
  <2>3. \A y \in T : /\ Bo!Known(y.chat, y.sub.nudged) /\ y.chat # x.chat
                     /\ \A z \in T : y.chat = z.chat => y = z
    BY <2>2
  <2>4. CASE Goes(w, p)
    <3> HIDE DEF p, T
    <3>1. QED  BY <1>2, <1>5, <1>8, <2>1, <2>3, <2>4, RemindersGo
  <2>5. CASE Goes(w, q) /\ Bo!Missed(x.sub, s10[w].at)
    <3>1. x.sub.nudged = -1 \/ s10[w].at - x.sub.nudged >= NudgeApart
      BY <2>5 DEF Bo!Missed
    <3>2. s11[x.chat] = -1 \/ x.chat \in s12 \/ s10[w].at - s11[x.chat] >= NudgeApart
      BY <2>2, <3>1 DEF Bo!Known
    <3> HIDE DEF q, T
    <3>3. QED  BY <1>2, <1>5, <1>8, <2>1, <2>3, <2>5, <3>2, RemindersGo
  <2>6. QED  BY <1>6, <1>8, <2>4, <2>5
<1>9. QED  BY <1>7, <1>8, WorkerTypes

LEMMA FinishKeeps ==
  ASSUME TblInv, NEW w \in Bo!Worker, Bo!Finish(w)
  PROVE  TblInv'
<1>1. Goes(w, Bo!Idle) /\ s10[w].stage = "next" /\ UNCHANGED <<s1, s2, s11, s12>>
  BY DEF Bo!Finish, Bo!histVars, Goes
<1>2. Bo!Idle.stage = "next" /\ Bo!Idle.todo = {}
  BY DEF Bo!Idle
<1>3. QED  BY <1>1, <1>2, AlertGoes, RemindersGo, WorkerTypes DEF Bo!Reminders

(* A reminder is sent: the record of it is to be written.                  *)
LEMMA SentKeeps ==
  ASSUME TblInv, Bo!Reminders.stage = "send",
         s10' = [s10 EXCEPT !["reminders"].stage = "record"],
         s11' = [s11 EXCEPT ![Bo!Reminders.chat] = Bo!Reminders.at],
         s12' = s12 \ {Bo!Reminders.chat}, UNCHANGED <<s1, s2>>
  PROVE  TblInv'
<1> DEFINE c == Bo!Reminders.chat
           r == [Bo!Reminders EXCEPT !.stage = "record"]
<1>1. Bo!Reminders = s10["reminders"] /\ Bo!Reminders \in Task /\ c \in Chat
  BY WorkerTypes DEF Bo!Reminders
<1>2. /\ r \in Task /\ r.stage = "record" /\ r.chat = c /\ r.todo = Bo!Reminders.todo
      /\ r.at = Bo!Reminders.at /\ r.at \in Int
  BY <1>1, BotNumbers DEF Task, TblInv
<1>3. s10' = [s10 EXCEPT !["reminders"] = r]
  BY <1>1
<1> HIDE DEF r, c
<1>4. /\ s10' \in [Bo!Worker -> Task] /\ s10'["reminders"] = r /\ s10'["alert"] = s10["alert"]
      /\ \A w \in Bo!Worker : s10'[w].stage # "next" => s10'[w].chat \in Chat
  BY <1>1, <1>2, <1>3, WorkerTypes
<1>5. Bo!Reminders' = r
  BY <1>4 DEF Bo!Reminders
<1>6. /\ s11' = [s11 EXCEPT ![c] = r.at] /\ s12' = s12 \ {c} /\ s11 \in [Chat -> Int]
  BY <1>2 DEF c, TblInv
<1>7. s11' \in [Chat -> Int] /\ s11'[c] = r.at
  BY <1>1, <1>2, <1>6
<1>8. \A b, k : b # c /\ b \in Chat /\ Bo!Known(b, k) => Bo!Known(b, k)'
  BY <1>6 DEF Bo!Known
<1>9. Bo!RowsDated'
  BY DEF TblInv, Bo!RowsDated
<1>10. Bo!RecordsKept'
  <2>1. \A b \in Bo!Subscribers : b # c => Bo!Known(b, s2[b].nudged)
    BY DEF TblInv, Bo!RecordsKept, c
  <2>2. \A b \in Bo!Subscribers' : \/ Bo!Known(b, s2[b].nudged)'
                                   \/ (Bo!Reminders.stage = "record" /\ Bo!Reminders.chat = b)'
    <3> SUFFICES ASSUME NEW b \in Bo!Subscribers, b # c
                 PROVE  Bo!Known(b, s2[b].nudged)'
      BY <1>2, <1>5 DEF Bo!Subscribers
    <3>1. b \in Chat
      BY DEF Bo!Subscribers
    <3>2. QED  BY <1>6, <2>1, <3>1 DEF Bo!Known
  <2>3. s10'["alert"].stage # "record"
    BY <1>4 DEF TblInv, Bo!RecordsKept
  <2>4. QED  BY <1>2, <1>5, <1>7, <2>2, <2>3 DEF Bo!RecordsKept
<1>11. Bo!ListKnown'
  <2>1. \A x \in r.todo : /\ Bo!Known(x.chat, x.sub.nudged) /\ x.chat # c /\ x.chat \in Chat
                          /\ \A y \in r.todo : x.chat = y.chat => x = y
    BY <1>1, <1>2 DEF TblInv, Bo!ListKnown, c, Task
  <2>2. \A x \in r.todo : Bo!Known(x.chat, x.sub.nudged)'
    BY <1>6, <2>1 DEF Bo!Known
  <2>3. QED  BY <1>2, <1>5, <2>1, <2>2 DEF Bo!ListKnown
<1>12. QED  BY <1>4, <1>7, <1>9, <1>10, <1>11 DEF TblInv, Task

LEMMA SendKeeps ==
  ASSUME TblInv, NEW w \in Bo!Worker, Bo!Send(w)
  PROVE  TblInv'
<1> DEFINE n == [s10[w] EXCEPT !.stage = "next", !.chat = None]
           d == [s10[w] EXCEPT !.stage = "delete"]
<1>1. s10[w] \in Task /\ s10[w].stage = "send" /\ UNCHANGED <<s1, s2>>
  BY WorkerTypes DEF Bo!Send
<1>2. /\ n \in Task /\ n.stage = "next" /\ n.todo = s10[w].todo
      /\ d \in Task /\ d.stage = "delete" /\ d.todo = s10[w].todo /\ d.chat = s10[w].chat
      /\ s10[w].chat \in Chat
  BY <1>1, WorkerTypes DEF Task
<1>3. \/ (Goes(w, n) \/ Goes(w, d)) /\ UNCHANGED <<s11, s12>>
      \/ /\ w = "reminders"
         /\ s10' = [s10 EXCEPT ![w].stage = "record"]
         /\ s11' = [s11 EXCEPT ![s10[w].chat] = s10[w].at]
         /\ s12' = s12 \ {s10[w].chat}
  BY DEF Bo!Send, Goes
<1> HIDE DEF n, d
<1>4. CASE w = "alert"
  BY <1>1, <1>2, <1>3, <1>4, AlertGoes
<1>5. CASE w = "reminders"
  <2>1. Bo!Reminders = s10[w]
    BY <1>5 DEF Bo!Reminders
  <2>2. \A x \in s10[w].todo : /\ Bo!Known(x.chat, x.sub.nudged) /\ x.chat # s10[w].chat
                               /\ \A y \in s10[w].todo : x.chat = y.chat => x = y
    BY <1>1, <2>1 DEF TblInv, Bo!ListKnown
  <2>3. CASE (Goes(w, n) \/ Goes(w, d)) /\ UNCHANGED <<s11, s12>>
    BY <1>1, <1>2, <1>5, <2>1, <2>2, <2>3, RemindersGo
  <2>4. CASE /\ s10' = [s10 EXCEPT ![w].stage = "record"]
             /\ s11' = [s11 EXCEPT ![s10[w].chat] = s10[w].at]
             /\ s12' = s12 \ {s10[w].chat}
    BY <1>1, <1>5, <2>1, <2>4, SentKeeps
  <2>5. QED  BY <1>3, <2>3, <2>4
<1>6. QED  BY <1>4, <1>5, WorkerTypes

(* A worker has written to the table, or failed to, and goes to the next.  *)
LEMMA WroteKeeps ==
  ASSUME TblInv, NEW w \in Bo!Worker, UNCHANGED <<s1, s11>>, s12 \subseteq s12',
         Goes(w, [s10[w] EXCEPT !.stage = "next", !.chat = None]),
         s2' \in [Chat -> Bo!Subscriber], Bo!RowsDated',
         \A c \in Bo!Subscribers' :
           \/ Bo!Known(c, s2[c].nudged)'
           \/ w = "alert" /\ Bo!Reminders.stage = "record" /\ Bo!Reminders.chat = c
  PROVE  TblInv'
<1> DEFINE n == [s10[w] EXCEPT !.stage = "next", !.chat = None]
<1>1. n \in Task /\ n.stage = "next" /\ n.todo = s10[w].todo
  BY WorkerTypes DEF Task
<1> HIDE DEF n
<1>2. /\ s10' \in [Bo!Worker -> Task] /\ s10'[w] = n
      /\ \A v \in Bo!Worker : v # w => s10'[v] = s10[v]
      /\ \A v \in Bo!Worker : s10'[v].stage # "next" => s10'[v].chat \in Chat
  BY <1>1, WorkerTypes DEF Goes, n
<1>3. \A x \in Bo!Reminders.todo :
        Bo!Known(x.chat, x.sub.nudged)' /\ \A y \in Bo!Reminders.todo : x.chat = y.chat => x = y
  BY DEF TblInv, Bo!ListKnown, Bo!Known
<1>4. CASE w = "alert"
  <2>1. Bo!Reminders' = Bo!Reminders /\ s10'["alert"].stage # "record"
    BY <1>1, <1>2, <1>4, WorkerTypes DEF Bo!Reminders
  <2>2. Bo!RecordsKept'
    BY <2>1 DEF TblInv, Bo!RecordsKept
  <2>3. Bo!ListKnown'
    BY <1>3, <2>1 DEF TblInv, Bo!ListKnown
  <2>4. QED  BY <1>2, <2>2, <2>3 DEF TblInv, Task
<1>5. CASE w = "reminders"
  <2>1. /\ Bo!Reminders' = n /\ Bo!Reminders.todo = n.todo
        /\ s10'["alert"].stage # "record"
    BY <1>1, <1>2, <1>5, WorkerTypes DEF Bo!Reminders, TblInv, Bo!RecordsKept
  <2>2. Bo!RecordsKept'
    BY <1>1, <1>5, <2>1 DEF Bo!RecordsKept
  <2>3. Bo!ListKnown'
    BY <1>1, <1>3, <2>1 DEF Bo!ListKnown
  <2>4. QED  BY <1>2, <2>2, <2>3 DEF TblInv, Task
<1>6. QED  BY <1>4, <1>5, WorkerTypes

LEMMA RecordKeeps ==
  ASSUME TblInv, NEW w \in Bo!Worker, Bo!Record(w)
  PROVE  TblInv'
<1> DEFINE c == s10[w].chat
<1>1. /\ UNCHANGED <<s1, s11>>
      /\ Goes(w, [s10[w] EXCEPT !.stage = "next", !.chat = None])
  BY DEF Bo!Record, Goes
<1>2. s2 \in [Chat -> Bo!Subscriber] /\ s11 \in [Chat -> Int] /\ Bo!RowsDated /\ s1 \in Nat
  BY BotNumbers DEF TblInv
<1>3. s10[w] \in Task /\ (s10[w].stage # "next" => c \in Chat)
  BY WorkerTypes
<1>4. s10[w].stage = "record" => w = "reminders" /\ s11[c] = s10[w].at
  BY WorkerTypes DEF TblInv, Bo!RecordsKept, Bo!Reminders
<1>5. \A b \in Bo!Subscribers :
        \/ Bo!Known(b, s2[b].nudged)
        \/ w = "alert" /\ Bo!Reminders.stage = "record" /\ Bo!Reminders.chat = b
        \/ s10[w].stage = "record" /\ b = c
  BY WorkerTypes DEF TblInv, Bo!RecordsKept, Bo!Reminders
<1>6. CASE s10[w].stage = "record" /\ Bo!SetNudged(c, s10[w].at) /\ s12' = s12
  <2>1. /\ s2' \in [Chat -> Bo!Subscriber]
        /\ \A b \in Chat : /\ s2'[b].there = s2[b].there
                           /\ s2[b].there /\ b = c => s2'[b].nudged = s10[w].at
                           /\ ~s2[b].there \/ b # c => s2'[b] = s2[b]
    BY <1>2, <1>3, <1>6 DEF Bo!SetNudged, Bo!Subscriber, Task
  <2>2. Bo!RowsDated'
    <3>1. s10[w].at \in -1..s1
      BY <1>2, <1>3 DEF Task
    <3>2. QED  BY <1>1, <1>2, <2>1, <3>1 DEF Bo!RowsDated, Bo!NoSub
  <2>3. \A b \in Bo!Subscribers' :
          \/ Bo!Known(b, s2[b].nudged)'
          \/ w = "alert" /\ Bo!Reminders.stage = "record" /\ Bo!Reminders.chat = b
    <3> SUFFICES ASSUME NEW b \in Bo!Subscribers'
                 PROVE  Bo!Known(b, s2[b].nudged)'
      OBVIOUS
    <3>1. b \in Bo!Subscribers
      BY <2>1 DEF Bo!Subscribers
    <3>2. CASE b = c
      BY <1>1, <1>4, <1>6, <2>1, <3>1, <3>2 DEF Bo!Known, Bo!Subscribers
    <3>3. CASE b # c
      BY <1>1, <1>4, <1>5, <1>6, <2>1, <3>1, <3>3 DEF Bo!Known, Bo!Subscribers
    <3>4. QED  BY <3>2, <3>3
  <2>4. QED  BY <1>1, <1>6, <2>1, <2>2, <2>3, WroteKeeps
<1>7. CASE s10[w].stage = "record" /\ s12' = s12 \cup {c} /\ s2' = s2
  <2>1. Bo!RowsDated' /\ s12 \subseteq s12'
    BY <1>1, <1>2, <1>7 DEF Bo!RowsDated
  <2>2. \A b \in Bo!Subscribers' :
          \/ Bo!Known(b, s2[b].nudged)'
          \/ w = "alert" /\ Bo!Reminders.stage = "record" /\ Bo!Reminders.chat = b
    BY <1>1, <1>5, <1>7 DEF Bo!Known, Bo!Subscribers
  <2>3. QED  BY <1>1, <1>2, <1>7, <2>1, <2>2, WroteKeeps
<1>8. CASE s10[w].stage = "delete" /\ (Bo!Delete(c) \/ s2' = s2) /\ s12' = s12
  <2>1. /\ s2' \in [Chat -> Bo!Subscriber]
        /\ \A b \in Chat : s2'[b] = s2[b] \/ s2'[b] = Bo!NoSub
    <3>1. Bo!NoSub \in Bo!Subscriber
      BY DEF Bo!Subscriber, Bo!NoSub
    <3>2. CASE s2' = [s2 EXCEPT ![c] = Bo!NoSub]
      BY <1>2, <1>3, <3>1, <3>2
    <3>3. CASE s2' = s2
      BY <1>2, <3>3
    <3>4. QED  BY <1>8, <3>2, <3>3 DEF Bo!Delete
  <2>2. Bo!RowsDated'
    BY <1>1, <1>2, <2>1 DEF Bo!RowsDated, Bo!NoSub
  <2>3. \A b \in Bo!Subscribers' : b \in Bo!Subscribers /\ s2'[b] = s2[b]
    BY <2>1 DEF Bo!Subscribers, Bo!NoSub
  <2>4. \A b \in Bo!Subscribers' :
          \/ Bo!Known(b, s2[b].nudged)'
          \/ w = "alert" /\ Bo!Reminders.stage = "record" /\ Bo!Reminders.chat = b
    BY <1>1, <1>5, <1>8, <2>3 DEF Bo!Known
  <2>5. QED  BY <1>1, <1>8, <2>1, <2>2, <2>4, WroteKeeps
<1>9. QED  BY <1>6, <1>7, <1>8 DEF Bo!Record

(* The process starts again: what was about to be recorded is excused.     *)
LEMMA CrashKeeps ==
  ASSUME TblInv, Bo!Crash
  PROVE  TblInv'
<1>1. /\ UNCHANGED <<s1, s2, s11>> /\ s10' = [w \in Bo!Worker |-> Bo!Idle]
      /\ s12' = s12 \cup {s10[w].chat : w \in {x \in Bo!Worker : s10[x].stage = "record"}}
  BY DEF Bo!Crash
<1>2. /\ s10' \in [Bo!Worker -> Task] /\ Bo!Reminders' = Bo!Idle /\ s10'["alert"] = Bo!Idle
      /\ \A w \in Bo!Worker : s10'[w].stage = "next"
  BY <1>1, WorkerTypes DEF Bo!Reminders, Bo!Idle
<1>3. s12 \subseteq s12' /\ (Bo!Reminders.stage = "record" => Bo!Reminders.chat \in s12')
  BY <1>1, WorkerTypes DEF Bo!Reminders
<1>4. Bo!RowsDated'
  BY <1>1 DEF TblInv, Bo!RowsDated
<1>5. Bo!RecordsKept'
  BY <1>1, <1>2, <1>3 DEF TblInv, Bo!RecordsKept, Bo!Known, Bo!Subscribers, Bo!Idle
<1>6. Bo!ListKnown'
  BY <1>2 DEF Bo!ListKnown, Bo!Idle
<1>7. QED  BY <1>1, <1>2, <1>4, <1>5, <1>6 DEF TblInv, Task

-----------------------------------------------------------------------------
LEMMA BotInit == Bo!Init => Bo!KeepsWord
<1> SUFFICES ASSUME Bo!Init PROVE MsgInv /\ TblInv
  BY BotParts
<1>1. /\ s1 = 0 /\ s2 = [c \in Chat |-> Bo!NoSub] /\ s6 = <<>> /\ s7 = [got |-> 0, done |-> 0]
      /\ s8 = None /\ s10 = [w \in Bo!Worker |-> Bo!Idle] /\ s11 = [c \in Chat |-> -1]
  BY DEF Bo!Init
<1>2. MsgInv
  BY <1>1 DEF MsgInv, Bo!LinkUnder
<1>3. Bo!NoSub \in Bo!Subscriber /\ ~Bo!NoSub.there /\ Bo!NoSub.nudged = -1
  BY DEF Bo!NoSub, Bo!Subscriber
<1>4. /\ Bo!Idle.stage = "next" /\ Bo!Idle.todo = {}
      /\ Bo!Idle \in [todo : SUBSET [chat : Chat, sub : Bo!Subscriber], at : 0..s1,
                      chat : Chat \cup {None}, stage : {"next", "send", "record", "delete"}]
  BY <1>1 DEF Bo!Idle
<1>5. Bo!RowsDated /\ Bo!RecordsKept /\ Bo!ListKnown
  BY <1>1, <1>3, <1>4 DEF Bo!RowsDated, Bo!RecordsKept, Bo!ListKnown, Bo!Reminders, Bo!Subscribers,
                          Bo!Worker
<1>6. TblInv
  BY <1>1, <1>3, <1>4, <1>5, BotNumbers DEF TblInv
<1>7. QED  BY <1>2, <1>6

LEMMA BotNext ==
  ASSUME Bo!KeepsWord, [Bo!Next]_(Bo!vars)
  PROVE  Bo!KeepsWord'
<1> SUFFICES MsgInv' /\ TblInv'
  BY BotParts, PTL
<1>1. MsgInv /\ TblInv
  BY BotParts
<1>2. CASE UNCHANGED Bo!vars
  BY <1>1, <1>2, MsgSame, TblSame DEF Bo!vars, Msg, Tbl
<1>3. CASE Bo!Poll
  BY <1>1, <1>3, PollKeeps, TblSame DEF Bo!Poll, Bo!histVars, Tbl
<1>4. CASE Bo!Area
  <2>1. Bo!Message.chat \in Chat
    BY <1>1, <1>4, MessageIs DEF Bo!Area
  <2>2. s8' = s8 /\ s8 = None
    BY <1>1, <1>4 DEF MsgInv, Bo!Area, Bo!LinkUnder
  <2>3. MsgInv'
    BY <1>1, <1>4, <2>2, DoneKeeps DEF Bo!Area
  <2>4. TblInv'
    BY <1>1, <1>4, <2>1, SubscribeKeeps DEF Bo!Area
  <2>5. QED  BY <2>3, <2>4
<1>5. CASE Bo!Stop
  <2>1. Bo!Message.chat \in Chat
    BY <1>1, <1>5, MessageIs DEF Bo!Stop
  <2>2. s8' = s8 /\ s8 = None
    BY <1>1, <1>5 DEF MsgInv, Bo!Stop, Bo!LinkUnder
  <2>3. MsgInv'
    BY <1>1, <1>5, <2>2, DoneKeeps DEF Bo!Stop
  <2>4. TblInv'
    BY <1>1, <1>5, <2>1, DeleteKeeps DEF Bo!Stop
  <2>5. QED  BY <2>3, <2>4
<1>6. CASE Bo!Claim
  BY <1>1, <1>6, ClaimKeeps, TblSame DEF Bo!Claim, Bo!histVars, Tbl
<1>7. CASE Bo!Link
  <2>1. Bo!Under /\ Bo!Message.chat \in Chat /\ s8 \in Owned \cup {None}
    BY <1>1, <1>7, MessageIs DEF MsgInv, Bo!Link, Bo!LinkUnder
  <2>2. MsgInv'
    BY <1>1, <1>7, <2>1, DoneKeeps DEF Bo!Link
  <2>3. TblInv'
    BY <1>1, <1>7, <2>1, SubscribeKeeps DEF Bo!Link
  <2>4. QED  BY <2>2, <2>3
<1>8. CASE Bo!Fails
  BY <1>1, <1>8, DoneKeeps, TblSame DEF Bo!Fails, Bo!histVars, Tbl
<1>9. ASSUME NEW w \in Bo!Worker, Bo!Begin(w) \/ Bo!Take(w) \/ Bo!Send(w) \/ Bo!Record(w) \/ Bo!Finish(w)
      PROVE  MsgInv' /\ TblInv'
  <2>1. UNCHANGED Msg
    BY <1>9 DEF Bo!Begin, Bo!Take, Bo!Send, Bo!Record, Bo!Finish, Bo!chatVars, Msg
  <2>2. QED  BY <1>1, <1>9, <2>1, MsgSame, BeginKeeps, TakeKeeps, SendKeeps, RecordKeeps, FinishKeeps
<1>10. ASSUME NEW c \in Chat, NEW kind \in Bo!Kinds, Bo!Write(c, kind)
       PROVE  MsgInv' /\ TblInv'
  BY <1>1, <1>10, WriteKeeps, TblSame DEF Bo!Write, Bo!histVars, Tbl
<1>11. ASSUME NEW d \in Owned, Bo!UnlinkDevice(d)
       PROVE  MsgInv' /\ TblInv'
  BY <1>1, <1>11, UnlinkKeeps, MsgSame DEF Bo!UnlinkDevice, Bo!chatVars, Msg
<1>12. CASE Bo!Crash
  <2>1. s6' = s6 /\ s7' = [got |-> 0, done |-> 0] /\ s8' = None
    BY <1>12 DEF Bo!Crash
  <2>2. MsgInv'
    BY <1>1, <2>1 DEF MsgInv, Bo!LinkUnder
  <2>3. QED  BY <1>1, <1>12, <2>2, CrashKeeps
<1>13. CASE Bo!Pass
  BY <1>1, <1>13, TimePasses, MsgSame DEF Bo!Pass, Bo!chatVars, Msg
<1>14. ASSUME \/ \E c \in Chat : Bo!Block(c) \/ Bo!Unblock(c)
              \/ \E d \in Owned : Bo!Offer(d) \/ Bo!Connect(d) \/ Bo!Disconnect(d) \/ Bo!DeletePhone(d)
       PROVE  MsgInv' /\ TblInv'
  <2>1. UNCHANGED <<s1, Msg, Tbl>>
    BY <1>14 DEF Bo!Block, Bo!Unblock, Bo!Offer, Bo!Connect, Bo!Disconnect, Bo!DeletePhone,
                 Bo!chatVars, Bo!histVars, Msg, Tbl
  <2>2. QED  BY <1>1, <2>1, MsgSame, TblSame
<1>15. QED
  BY <1>2, <1>3, <1>4, <1>5, <1>6, <1>7, <1>8, <1>9, <1>10, <1>11, <1>12, <1>13, <1>14 DEF Bo!Next

(* What a step does, from the invariant.                                   *)
LEMMA BackByMessage ==
  ASSUME Bo!KeepsWord, [Bo!Next]_(Bo!vars)
  PROVE  Bo!ComesBackByMessage
<1> SUFFICES ASSUME NEW c \in Bo!Subscribers', c \notin Bo!Subscribers
             PROVE  Bo!Under /\ Bo!Message.chat = c /\ Bo!Message.kind # "stop" /\ s7' # s7
  BY DEF Bo!ComesBackByMessage
<1>1. MsgInv /\ TblInv
  BY BotParts
<1>2. c \in Chat /\ s2'[c].there /\ ~s2[c].there
  BY DEF Bo!Subscribers
<1>3. s2 \in [Chat -> Bo!Subscriber]
  BY <1>1 DEF TblInv
<1>4. CASE Bo!Area
  <2>1. Bo!Under /\ Bo!Message.kind = "area" /\ Bo!Done /\ Bo!Upsert(Bo!Message.chat, None)
    BY <1>4 DEF Bo!Area, Bo!Subscribe
  <2>2. Bo!Message.chat = c
    BY <1>2, <1>3, <2>1 DEF Bo!Upsert
  <2>3. QED  BY <1>1, <2>1, <2>2 DEF Bo!Done, MsgInv
<1>5. CASE Bo!Link
  <2>1. /\ Bo!Under /\ Bo!Message.kind = "link" /\ Bo!Done
        /\ Bo!Upsert(Bo!Message.chat, s8)
    BY <1>1, <1>5 DEF Bo!Link, Bo!Subscribe, MsgInv, Bo!LinkUnder
  <2>2. Bo!Message.chat = c
    BY <1>2, <1>3, <2>1 DEF Bo!Upsert
  <2>3. QED  BY <1>1, <2>1, <2>2 DEF Bo!Done, MsgInv
<1>6. CASE Bo!Stop
  BY <1>2, <1>3, <1>6 DEF Bo!Stop, Bo!Delete, Bo!NoSub
<1>7. ASSUME NEW w \in Bo!Worker, Bo!Record(w) PROVE FALSE
  BY <1>2, <1>3, <1>7 DEF Bo!Record, Bo!SetNudged, Bo!Delete, Bo!NoSub, Bo!Subscriber
<1>8. ASSUME NEW d \in Owned, Bo!UnlinkDevice(d) PROVE FALSE
  BY <1>2, <1>3, <1>8 DEF Bo!UnlinkDevice, Bo!Subscriber
<1>9. ASSUME \/ UNCHANGED Bo!vars \/ Bo!Poll \/ Bo!Claim \/ Bo!Fails \/ Bo!Crash \/ Bo!Pass
             \/ \E w \in Bo!Worker : Bo!Begin(w) \/ Bo!Take(w) \/ Bo!Send(w) \/ Bo!Finish(w)
             \/ \E b \in Chat : (\E kind \in Bo!Kinds : Bo!Write(b, kind)) \/ Bo!Block(b) \/ Bo!Unblock(b)
             \/ \E d \in Owned : Bo!Offer(d) \/ Bo!Connect(d) \/ Bo!Disconnect(d) \/ Bo!DeletePhone(d)
      PROVE  FALSE
  <2>1. s2' = s2
    BY <1>9 DEF Bo!vars, Bo!Poll, Bo!Claim, Bo!Fails, Bo!Crash, Bo!Pass, Bo!Begin, Bo!Take, Bo!Send,
                Bo!Finish, Bo!Write, Bo!Block, Bo!Unblock, Bo!Offer, Bo!Connect, Bo!Disconnect,
                Bo!DeletePhone
  <2>2. QED  BY <1>2, <2>1
<1>10. QED
  BY <1>4, <1>5, <1>6, <1>7, <1>8, <1>9 DEF Bo!Next

LEMMA RemindedApart ==
  ASSUME Bo!KeepsWord, [Bo!Next]_(Bo!vars)
  PROVE  Bo!RemindsApart
<1> SUFFICES ASSUME NEW c \in Chat, s11'[c] # s11[c]
             PROVE  s11[c] = -1 \/ c \in s12 \/ s11'[c] - s11[c] >= NudgeApart
  BY DEF Bo!RemindsApart
<1>1. TblInv
  BY BotParts
<1>2. ASSUME NEW w \in Bo!Worker, Bo!Send(w)
      PROVE  s11[c] = -1 \/ c \in s12 \/ s11'[c] - s11[c] >= NudgeApart
  <2>1. /\ s10[w].stage = "send" /\ w = "reminders"
        /\ s11' = [s11 EXCEPT ![s10[w].chat] = s10[w].at]
    BY <1>2 DEF Bo!Send
  <2>2. s10[w] = Bo!Reminders
    BY <2>1 DEF Bo!Reminders
  <2>3. s10[w].chat = c /\ s11'[c] = s10[w].at
    BY <1>1, <2>1 DEF TblInv
  <2>4. QED  BY <1>1, <2>1, <2>2, <2>3 DEF TblInv, Bo!ListKnown
<1>3. ASSUME \/ UNCHANGED Bo!vars \/ Bo!Poll \/ Bo!Area \/ Bo!Stop \/ Bo!Claim \/ Bo!Link \/ Bo!Fails
             \/ Bo!Crash \/ Bo!Pass
             \/ \E w \in Bo!Worker : Bo!Begin(w) \/ Bo!Take(w) \/ Bo!Record(w) \/ Bo!Finish(w)
             \/ \E b \in Chat : (\E kind \in Bo!Kinds : Bo!Write(b, kind)) \/ Bo!Block(b) \/ Bo!Unblock(b)
             \/ \E d \in Owned : \/ Bo!Offer(d) \/ Bo!Connect(d) \/ Bo!Disconnect(d)
                                 \/ Bo!DeletePhone(d) \/ Bo!UnlinkDevice(d)
      PROVE  FALSE
  <2>1. s11' = s11
    BY <1>3 DEF Bo!vars, Bo!Poll, Bo!Area, Bo!Stop, Bo!Claim, Bo!Link, Bo!Fails, Bo!Crash, Bo!Pass,
                Bo!Begin, Bo!Take, Bo!Record, Bo!Finish, Bo!Write, Bo!Block, Bo!Unblock, Bo!Offer,
                Bo!Connect, Bo!Disconnect, Bo!DeletePhone, Bo!UnlinkDevice, Bo!histVars
  <2>2. QED  BY <2>1
<1>4. QED  BY <1>2, <1>3 DEF Bo!Next

LEMMA BotTypes == Bo!KeepsWord => Bo!TypeOK
<1> SUFFICES ASSUME Bo!KeepsWord PROVE Bo!TypeOK
  OBVIOUS
<1>1. MsgInv /\ TblInv
  BY BotParts
<1>2. \A c \in Chat : s2[c] \in Bo!Subscriber
  BY <1>1 DEF TblInv
<1>3. \A w \in Bo!Worker : s10[w].chat \in Chat \cup {None}
  BY <1>1, WorkerTypes DEF Task
<1>4. QED
  BY <1>1, <1>2, <1>3 DEF MsgInv, TblInv, Bo!RowsDated, Bo!Subscriber, Bo!Subscribers, Bo!TypeOK

-----------------------------------------------------------------------------
(* The hourly budget of alerts.  A goroutine asks with a time that is at   *)
(* most the deadline old, so what it removes from the list is older than   *)
(* an hour now.  The list therefore has every message this process let     *)
(* through in the last hour (InList), and of these the next one counts all *)
(* that share a stretch with it.                                           *)

Started == \A i \in DOMAIN sent : sent[i].boot <= boot

Timely == \A j \in Job : at[j] # Idle => at[j] <= clock /\ clock <= at[j] + Deadline

InList ==
  \A i \in DOMAIN sent : sent[i].boot = boot /\ clock < sent[i].at + Hour => i \in sentTimes

BudgetInv == TypeOK /\ Started /\ Timely /\ InList /\ BudgetKept

\* The messages one start let through in the stretch from t.
Of(t, b) == {i \in InStretch(t, Hour - Deadline) : sent[i].boot = b}

LEMMA SentFinite ==
  ASSUME TypeOK
  PROVE  /\ DOMAIN sent = 1..Len(sent) /\ Len(sent) \in Nat
         /\ IsFiniteSet(DOMAIN sent)
         /\ \A i \in DOMAIN sent : sent[i].boot \in 1..MaxBoots /\ sent[i].at \in Time
<1>1. sent \in Seq(Message)
  BY DEF TypeOK
<1>2. DOMAIN sent = 1..Len(sent) /\ Len(sent) \in Nat
  BY <1>1
<1>3. \A i \in 1..Len(sent) : sent[i] \in Message
  BY <1>1
<1>4. IsFiniteSet(1..Len(sent))
  BY <1>2, FS_Interval
<1>5. QED  BY <1>2, <1>3, <1>4 DEF Message

LEMMA OfFinite ==
  ASSUME TypeOK, NEW t, NEW b
  PROVE  IsFiniteSet(Of(t, b))
  BY SentFinite, FS_Subset DEF Of, InStretch

LEMMA KeptFinite ==
  ASSUME TypeOK, NEW now
  PROVE  /\ Kept(now) \subseteq sentTimes /\ IsFiniteSet(Kept(now))
         /\ Cardinality(Kept(now)) \in Nat /\ Cardinality(Kept(now)) <= MaxPerHr
<1>1. Kept(now) \subseteq sentTimes /\ IsFiniteSet(sentTimes)
  BY SentFinite, FS_Subset DEF Kept, TypeOK
<1>2. IsFiniteSet(Kept(now)) /\ Cardinality(Kept(now)) <= Cardinality(sentTimes)
  BY <1>1, FS_Subset
<1>3. Cardinality(Kept(now)) \in Nat /\ Cardinality(sentTimes) \in Nat
  BY <1>1, <1>2, FS_CardinalityType
<1>4. QED  BY <1>1, <1>2, <1>3, BudgetAssumption DEF TypeOK

(* The entry a goroutine appends, and the list it leaves.                  *)
LEMMA AllowEffect ==
  ASSUME TypeOK, NEW j \in Job, Allow(j)
  PROVE  /\ at[j] \in Time
         /\ DOMAIN sent' = DOMAIN sent \cup {Len(sent) + 1}
         /\ Len(sent) + 1 \notin DOMAIN sent
         /\ \A i \in DOMAIN sent : sent'[i] = sent[i]
         /\ sent'[Len(sent) + 1].boot = boot /\ sent'[Len(sent) + 1].at = at[j]
         /\ sent' \in Seq(Message) /\ Len(sent') = Len(sent) + 1
<1>1. at[j] \in Time /\ [boot |-> boot, at |-> at[j]] \in Message
  BY DEF Allow, TypeOK, Message
<1>2. sent' = Append(sent, [boot |-> boot, at |-> at[j]])
  BY DEF Allow
<1>3. /\ sent' \in Seq(Message) /\ Len(sent') = Len(sent) + 1
      /\ sent'[Len(sent) + 1] = [boot |-> boot, at |-> at[j]]
      /\ \A i \in 1..Len(sent) : sent'[i] = sent[i]
  BY <1>1, <1>2 DEF TypeOK
<1>4. DOMAIN sent' = 1..(Len(sent) + 1)
  BY <1>3
<1>5. DOMAIN sent = 1..Len(sent) /\ Len(sent) \in Nat
  BY SentFinite
<1>6. QED  BY <1>1, <1>3, <1>4, <1>5

LEMMA BudgetInit == Init => BudgetInv
<1> SUFFICES ASSUME Init PROVE BudgetInv
  OBVIOUS
<1>1. DOMAIN sent = {} /\ Len(sent) = 0
  BY DEF Init
<1>2. TypeOK
  <2>1. sent \in Seq(Message) /\ Len(sent) <= MaxSent
    BY <1>1, BudgetAssumption DEF Init
  <2>2. sentTimes \subseteq DOMAIN sent /\ Cardinality(sentTimes) <= MaxPerHr
    BY FS_EmptySet, BudgetAssumption DEF Init
  <2>3. clock \in Time /\ boot \in 1..MaxBoots /\ at \in [Job -> Time \cup {Idle}]
    BY BudgetAssumption DEF Init, Time
  <2>4. QED  BY <2>1, <2>2, <2>3 DEF TypeOK
<1>3. Started /\ Timely /\ InList
  BY <1>1 DEF Init, Started, Timely, InList
<1>4. BudgetKept
  <2> SUFFICES ASSUME NEW t \in Time, NEW b \in 1..MaxBoots
               PROVE  Cardinality({i \in InStretch(t, Hour - Deadline) : sent[i].boot = b}) <= MaxPerHr
    BY DEF BudgetKept
  <2>1. {i \in InStretch(t, Hour - Deadline) : sent[i].boot = b} = {}
    BY <1>1 DEF InStretch
  <2>2. QED  BY <2>1, FS_EmptySet, BudgetAssumption
<1>5. QED  BY <1>2, <1>3, <1>4 DEF BudgetInv

(* Nothing is let through: the counts stay.                                *)
LEMMA KeptUnchanged ==
  ASSUME BudgetKept, UNCHANGED sent
  PROVE  BudgetKept'
  BY DEF BudgetKept, InStretch

LEMMA AllowKeeps ==
  ASSUME BudgetInv, NEW j \in Job, Allow(j)
  PROVE  BudgetInv'
<1> DEFINE s == at[j]
           n == Len(sent) + 1
<1>1. TypeOK
  BY DEF BudgetInv
<1>2. /\ s \in Time /\ s <= clock /\ clock <= s + Deadline
      /\ clock \in Nat /\ s \in Nat /\ boot \in 1..MaxBoots
  BY <1>1, AllowEffect, BudgetAssumption DEF BudgetInv, Timely, Allow, TypeOK, Time
<1>3. /\ DOMAIN sent' = DOMAIN sent \cup {n} /\ n \notin DOMAIN sent
      /\ \A i \in DOMAIN sent : sent'[i] = sent[i]
      /\ sent'[n].boot = boot /\ sent'[n].at = s
      /\ sent' \in Seq(Message) /\ Len(sent') = n
  BY <1>1, AllowEffect
<1>4. /\ sentTimes' = Kept(s) \cup {n} /\ Cardinality(Kept(s)) < MaxPerHr
      /\ UNCHANGED <<clock, boot>> /\ at' = [at EXCEPT ![j] = Idle] /\ Len(sent) < MaxSent
  BY DEF Allow
<1>5. /\ Kept(s) \subseteq sentTimes /\ IsFiniteSet(Kept(s)) /\ Cardinality(Kept(s)) \in Nat
      /\ \A i \in DOMAIN sent : sent[i].boot \in 1..MaxBoots /\ sent[i].at \in Nat
      /\ sentTimes \subseteq DOMAIN sent
  BY <1>1, KeptFinite, SentFinite, BudgetAssumption DEF TypeOK, Time
<1> HIDE DEF s, n
<1>6. TypeOK'
  <2>1. n \notin Kept(s)
    BY <1>3, <1>5
  <2>2. Cardinality(sentTimes') = Cardinality(Kept(s)) + 1
    BY <1>4, <1>5, <2>1, FS_AddElement
  <2>3. Cardinality(sentTimes') <= MaxPerHr
    BY <1>4, <1>5, <2>2, BudgetAssumption
  <2>4. sentTimes' \subseteq DOMAIN sent'
    BY <1>3, <1>4, <1>5
  <2>5. Len(sent') <= MaxSent
    BY <1>1, <1>3, <1>4, SentFinite, BudgetAssumption DEF n
  <2>6. at' \in [Job -> Time \cup {Idle}]
    BY <1>1, <1>4 DEF TypeOK
  <2>7. QED  BY <1>1, <1>3, <1>4, <2>3, <2>4, <2>5, <2>6 DEF TypeOK
<1>7. Started'
  BY <1>2, <1>3, <1>4 DEF BudgetInv, Started
<1>8. Timely'
  BY <1>1, <1>4 DEF BudgetInv, Timely, TypeOK
<1>9. InList'
  <2> SUFFICES ASSUME NEW i \in DOMAIN sent, sent[i].boot = boot, clock < sent[i].at + Hour
               PROVE  i \in Kept(s)
    BY <1>3, <1>4 DEF InList
  <2>1. i \in sentTimes
    BY DEF BudgetInv, InList
  <2>2. s - sent[i].at < Hour
    BY <1>2, <1>5, BudgetAssumption
  <2>3. QED  BY <2>1, <2>2 DEF Kept
<1>10. BudgetKept'
  <2> SUFFICES ASSUME NEW t \in Time, NEW b \in 1..MaxBoots
               PROVE  Cardinality(Of(t, b)') <= MaxPerHr
    BY DEF BudgetKept, Of
  <2>1. t \in Nat
    BY BudgetAssumption DEF Time
  <2>2. Of(t, b)' = Of(t, b) \cup {i \in {n} : b = boot /\ t <= s /\ s < t + (Hour - Deadline)}
    BY <1>3, <1>4 DEF Of, InStretch
  <2>3. CASE ~ (b = boot /\ t <= s /\ s < t + (Hour - Deadline))
    <3>1. Of(t, b)' = Of(t, b)
      BY <2>2, <2>3
    <3>2. QED  BY <3>1 DEF BudgetInv, BudgetKept, Of
  <2>4. CASE b = boot /\ t <= s /\ s < t + (Hour - Deadline)
    <3>1. Of(t, b) \subseteq Kept(s)
      <4> SUFFICES ASSUME NEW i \in Of(t, b) PROVE i \in Kept(s)
        OBVIOUS
      <4>1. i \in DOMAIN sent /\ sent[i].boot = boot /\ t <= sent[i].at /\ sent[i].at \in Nat
        BY <1>5, <2>4 DEF Of, InStretch
      <4>2. clock < sent[i].at + Hour /\ s - sent[i].at < Hour
        BY <1>2, <2>1, <2>4, <4>1, BudgetAssumption
      <4>3. QED  BY <4>1, <4>2 DEF BudgetInv, InList, Kept
    <3>2. Cardinality(Of(t, b)) <= Cardinality(Kept(s))
      BY <1>5, <3>1, FS_Subset
    <3>3. IsFiniteSet(Of(t, b)) /\ Cardinality(Of(t, b)) \in Nat
      BY <1>1, OfFinite, FS_CardinalityType
    <3>4. Of(t, b)' = Of(t, b) \cup {n} /\ n \notin Of(t, b)
      BY <1>3, <2>2, <2>4 DEF Of, InStretch
    <3>5. Cardinality(Of(t, b)') = Cardinality(Of(t, b)) + 1
      BY <3>3, <3>4, FS_AddElement
    <3>6. QED  BY <1>4, <1>5, <3>2, <3>3, <3>5, BudgetAssumption
  <2>5. QED  BY <2>3, <2>4
<1>11. QED  BY <1>6, <1>7, <1>8, <1>9, <1>10 DEF BudgetInv

LEMMA SuppressKeeps ==
  ASSUME BudgetInv, NEW j \in Job, Suppress(j)
  PROVE  BudgetInv'
<1>1. /\ UNCHANGED <<clock, boot, sent>> /\ at' = [at EXCEPT ![j] = Idle]
      /\ sentTimes' = Kept(at[j]) /\ at[j] # Idle
  BY DEF Suppress
<1>2. /\ at[j] \in Nat /\ clock \in Nat /\ at[j] <= clock
      /\ \A i \in DOMAIN sent : sent[i].at \in Nat
  BY <1>1, SentFinite, BudgetAssumption DEF BudgetInv, Timely, TypeOK, Time
<1>3. TypeOK'
  BY <1>1, KeptFinite DEF BudgetInv, TypeOK
<1>4. Started' /\ Timely'
  BY <1>1 DEF BudgetInv, Started, Timely, TypeOK
<1>5. InList'
  <2> SUFFICES ASSUME NEW i \in DOMAIN sent, sent[i].boot = boot, clock < sent[i].at + Hour
               PROVE  i \in Kept(at[j])
    BY <1>1 DEF InList
  <2>1. i \in sentTimes
    BY DEF BudgetInv, InList
  <2>2. at[j] - sent[i].at < Hour
    BY <1>2, BudgetAssumption
  <2>3. QED  BY <2>1, <2>2 DEF Kept
<1>6. BudgetKept'
  BY <1>1, KeptUnchanged DEF BudgetInv
<1>7. QED  BY <1>3, <1>4, <1>5, <1>6 DEF BudgetInv

LEMMA BudgetNext == BudgetInv /\ [Next]_vars => BudgetInv'
<1> SUFFICES ASSUME BudgetInv, [Next]_vars PROVE BudgetInv'
  OBVIOUS
<1>t. /\ clock \in Nat /\ Idle \notin Time /\ Time \subseteq Nat /\ boot \in Nat
      /\ \A i \in DOMAIN sent : sent[i].at \in Nat /\ sent[i].boot \in Nat
  BY SentFinite, BudgetAssumption DEF BudgetInv, TypeOK, Time, Idle
<1>1. ASSUME NEW j \in Job, Begin(j) \/ GiveUp(j) PROVE BudgetInv'
  <2>1. UNCHANGED <<clock, boot, sent, sentTimes>> /\ at' \in [Job -> Time \cup {Idle}]
    BY <1>1 DEF Begin, GiveUp, BudgetInv, TypeOK
  <2>2. TypeOK' /\ Started' /\ InList'
    BY <2>1 DEF BudgetInv, TypeOK, Started, InList
  <2>3. Timely'
    <3> SUFFICES ASSUME NEW i \in Job, at'[i] # Idle
                 PROVE  at'[i] <= clock /\ clock <= at'[i] + Deadline
      BY <2>1 DEF Timely
    <3>1. at'[i] = at[i] \/ at'[i] = clock \/ at'[i] = Idle
      BY <1>1 DEF Begin, GiveUp, BudgetInv, TypeOK
    <3>2. QED  BY <1>t, <3>1, BudgetAssumption DEF BudgetInv, Timely
  <2>4. QED  BY <2>1, <2>2, <2>3, KeptUnchanged DEF BudgetInv
<1>2. CASE Restart
  <2>1. /\ UNCHANGED <<clock, sent>> /\ sentTimes' = {} /\ boot' = boot + 1 /\ boot < MaxBoots
        /\ at' = [j \in Job |-> Idle]
    BY <1>2 DEF Restart
  <2>2. TypeOK'
    BY <1>t, <2>1, FS_EmptySet, BudgetAssumption DEF BudgetInv, TypeOK
  <2>3. Started' /\ InList' /\ Timely'
    BY <1>t, <2>1 DEF BudgetInv, Started, InList, Timely
  <2>4. QED  BY <2>1, <2>2, <2>3, KeptUnchanged DEF BudgetInv
<1>3. CASE Tick
  <2>1. /\ UNCHANGED <<boot, at, sent, sentTimes>> /\ clock' = clock + 1 /\ clock < MaxTime
        /\ \A j \in Job : at[j] # Idle => clock < at[j] + Deadline
    BY <1>3 DEF Tick
  <2>2. TypeOK' /\ Started'
    BY <1>t, <2>1, BudgetAssumption DEF BudgetInv, TypeOK, Time, Started
  <2>3. InList'
    BY <1>t, <2>1, BudgetAssumption DEF BudgetInv, InList
  <2>4. Timely'
    <3> SUFFICES ASSUME NEW j \in Job, at[j] # Idle
                 PROVE  at[j] <= clock + 1 /\ clock + 1 <= at[j] + Deadline
      BY <2>1 DEF Timely
    <3>1. at[j] \in Nat /\ at[j] <= clock /\ clock < at[j] + Deadline
      BY <1>t, <2>1 DEF BudgetInv, Timely, TypeOK
    <3>2. QED  BY <1>t, <3>1, BudgetAssumption
  <2>5. QED  BY <2>1, <2>2, <2>3, <2>4, KeptUnchanged DEF BudgetInv
<1>4. CASE UNCHANGED vars
  <2>1. UNCHANGED <<clock, boot, at, sent, sentTimes>>
    BY <1>4 DEF vars
  <2>2. QED  BY <2>1, KeptUnchanged DEF BudgetInv, TypeOK, Started, Timely, InList
<1>5. QED  BY <1>1, <1>2, <1>3, <1>4, AllowKeeps, SuppressKeeps DEF Next

-----------------------------------------------------------------------------
(* The invariant of the parts.                                             *)

SInv ==
  /\ which = "units" => Un!Inv
  /\ which = "station" => St!Inv
  /\ which = "film" => FilmInv(s1) /\ Small(s1) /\ s2 \in BOOLEAN
  /\ which = "script" => Rests(s1) /\ s2 \in BOOLEAN
  /\ which = "limit" => TokenInv
  /\ which = "bot" => Bo!KeepsWord
  /\ BudgetInv

LEMMA InitSInv == ServerInit => SInv
<1> SUFFICES ASSUME ServerInit PROVE SInv
  OBVIOUS
<1>1. ASSUME which = "units" PROVE Un!Inv
  <2>1. Un!UnitsAssumption
    BY ServerAssumption
  <2>2. Un!Init
    BY <1>1 DEF ServerInit
  <2>3. QED  BY <2>1, <2>2, Un!InitInv
<1>2. ASSUME which = "station" PROVE St!Inv
  <2>1. St!StationAssumption
    BY ServerAssumption
  <2>2. St!Init
    BY <1>2 DEF ServerInit
  <2>3. QED  BY <2>1, <2>2, St!InvInit
<1>3. ASSUME which = "film" PROVE FilmInv(s1) /\ Small(s1) /\ s2 \in BOOLEAN
  <2>1. s1 \in {Fi!Fresh(t) : t \in {0, 400}} /\ s2 = TRUE
    BY <1>3 DEF ServerInit, Fi!Init
  <2>2. QED  BY <2>1, FreshInv, FreshSmall
<1>4. ASSUME which = "script" PROVE Rests(s1) /\ s2 \in BOOLEAN
  <2>1. s1 = Sr!Fresh(0) /\ s2 = TRUE
    BY <1>4 DEF ServerInit, Sr!Init
  <2>2. QED  BY <2>1, FreshRests
<1>5. which = "limit" => TokenInv
  BY TokenInit DEF ServerInit
<1>6. which = "bot" => Bo!KeepsWord
  BY BotInit DEF ServerInit
<1>7. BudgetInv
  BY BudgetInit DEF ServerInit
<1>8. QED  BY <1>1, <1>2, <1>3, <1>4, <1>5, <1>6, <1>7 DEF SInv

(* A run stays with its part.                                              *)
LEMMA SamePart == [ServerNext]_serverVars => which' = which
  BY DEF ServerNext, On, serverVars

(* A run about the bot takes steps of the bot, and every run steps of the  *)
(* budget, or none.                                                        *)
LEMMA BotStep ==
  ASSUME which = "bot", [ServerNext]_serverVars
  PROVE  [Bo!Next]_(Bo!vars)
  BY DEF ServerNext, On, serverVars, partVars, Bo!vars

LEMMA BudgetStep ==
  ASSUME [ServerNext]_serverVars
  PROVE  [Next]_vars
  BY DEF ServerNext, On, serverVars, budgetVars

LEMMA NextSInv == SInv /\ [ServerNext]_serverVars => SInv'
<1> SUFFICES ASSUME SInv, [ServerNext]_serverVars PROVE SInv'
  OBVIOUS
<1>1. which' = which
  BY SamePart
<1>2. ASSUME which = "units" PROVE Un!Inv'
  <2>1. [Un!Next]_(Un!vars)
    BY <1>2 DEF ServerNext, On, serverVars, partVars, Un!vars
  <2>2. QED  BY <1>2, <2>1, Un!NextInv DEF SInv
<1>3. ASSUME which = "station" PROVE St!Inv'
  <2>1. [St!Next]_(St!vars)
    BY <1>3 DEF ServerNext, On, serverVars, partVars, St!vars
  <2>2. QED  BY <1>3, <2>1, St!InvNext DEF SInv
<1>4. ASSUME which = "film" PROVE FilmInv(s1') /\ Small(s1') /\ s2' \in BOOLEAN
  <2>1. FilmInv(s1) /\ Small(s1) /\ s2 \in BOOLEAN
    BY <1>4 DEF SInv
  <2>2. [Fi!Next]_<<s1, s2>>
    BY <1>4 DEF ServerNext, On, serverVars, partVars
  <2>3. CASE Fi!Frame
    <3>1. PICK m \in Handled, v \in {"vote", "knock"} : s1' = Fi!step(s1, m, v)
      BY <2>3 DEF Fi!Frame
    <3>2. QED  BY <2>1, <2>3, <3>1, Motions, StepInv, StepSmall DEF Fi!Frame
  <2>4. CASE s1' = s1 /\ s2' \in BOOLEAN
    BY <2>1, <2>4
  <2>5. QED  BY <2>1, <2>2, <2>3, <2>4 DEF Fi!Next, Fi!Look
<1>5. ASSUME which = "script" PROVE Rests(s1') /\ s2' \in BOOLEAN
  <2>1. Rests(s1) /\ s2 \in BOOLEAN
    BY <1>5 DEF SInv
  <2>2. [Sr!Next]_<<s1, s2>>
    BY <1>5 DEF ServerNext, On, serverVars, partVars
  <2>3. CASE Sr!Frame
    BY <2>1, <2>3, StepRests DEF Sr!Frame
  <2>4. CASE s1' = s1 /\ s2' \in BOOLEAN
    BY <2>1, <2>4
  <2>5. QED  BY <2>1, <2>2, <2>3, <2>4 DEF Sr!Next, Sr!Look
<1>6. ASSUME which = "limit" PROVE TokenInv'
  <2>1. [Ra!Next]_(Ra!vars)
    BY <1>6 DEF ServerNext, On, serverVars, partVars, Ra!vars
  <2>2. QED  BY <1>6, <2>1, TokenNext DEF SInv
<1>7. ASSUME which = "bot" PROVE Bo!KeepsWord'
  BY <1>7, BotStep, BotNext DEF SInv
<1>8. BudgetInv'
  BY BudgetStep, BudgetNext DEF SInv
<1>9. QED  BY <1>1, <1>2, <1>3, <1>4, <1>5, <1>6, <1>7, <1>8 DEF SInv

LEMMA SInvHolds == ServerSpec => []SInv
  BY InitSInv, NextSInv, PTL DEF ServerSpec

-----------------------------------------------------------------------------
(* Waveforms, in both parts of MCEnds that have a Pipeline: a phone is     *)
(* asked once for its waveform of an event, and no job is lost.  The two   *)
(* instances of Pipeline have the same variables and differ in two bounds, *)
(* so that what is shared is stated of the variables:                      *)
(* v5 the jobs, v6 what is captured, v7 what is left to ask for, v10 how   *)
(* many jobs there were, v11 how often captured was emptied, v12 how often *)
(* each waveform was asked for.                                            *)

JobOf(n) == [id : 1..n, event : Events, devs : (SUBSET Phones) \ {{}}]

-----------------------------------------------------------------------------
(* The inductive invariant: a waveform that was asked for, one that is     *)
(* left to ask for, and a job of its event each stand for one capture of   *)
(* the event, and of those there was one for each time captured was        *)
(* emptied, and one if the event is captured now.                          *)

JobsOf(S, e)   == {j \in S : j.event = e}
Left(e, d) == {r \in v7 : r[2] = e /\ r[3] = d}

Captures(e) == v11 + IF e \in v6 THEN 1 ELSE 0

OncePerCapture ==
  \A e \in Events, d \in Phones :
    v12[<<e, d>>] + Cardinality(JobsOf(v5, e)) + Cardinality(Left(e, d)) <= Captures(e)

NoJobLost ==
  \A e \in v6 : \/ \E j \in v5 : j.event = e
                \/ \E r \in v7 : r[2] = e
                \/ \E d \in Phones : v12[<<e, d>>] > 0

JobTypes ==
  /\ IsFiniteSet(v5) /\ v5 \subseteq JobOf(v10) /\ v6 \subseteq Events
  /\ IsFiniteSet(v7) /\ v7 \subseteq Nat \X Events \X Phones
  /\ v10 \in Nat /\ v11 \in Nat /\ v12 \in [Events \X Phones -> Nat]

JobsKept == JobTypes /\ OncePerCapture /\ NoJobLost

PipelineInv == topic \in {"pipeline", "jobs"} => JobsKept

-----------------------------------------------------------------------------
(* Sizes of sets.                                                          *)

LEMMA ImageSmaller ==
  ASSUME NEW S, IsFiniteSet(S), NEW T, NEW f \in [S -> T], T = {f[x] : x \in S}
  PROVE  IsFiniteSet(T) /\ Cardinality(T) <= Cardinality(S)
<1>1. f \in Surjection(S, T)
  BY DEF Surjection
<1>2. QED  BY <1>1, FS_Surjection

LEMMA JobsOfFinite ==
  ASSUME NEW S, IsFiniteSet(S), NEW e
  PROVE  IsFiniteSet(JobsOf(S, e)) /\ Cardinality(JobsOf(S, e)) \in Nat
  BY FS_Subset, FS_CardinalityType DEF JobsOf

LEMMA LeftFinite ==
  ASSUME IsFiniteSet(v7), NEW e, NEW d
  PROVE  IsFiniteSet(Left(e, d)) /\ Cardinality(Left(e, d)) \in Nat
  BY FS_Subset, FS_CardinalityType DEF Left

-----------------------------------------------------------------------------
(* A tick: the jobs there may be at it, of topic some are due.             *)

Offered(new, got, n) ==
  /\ IsFiniteSet(new) /\ new \subseteq JobOf(n)
  /\ n \in Nat /\ got \subseteq Events /\ v6 \subseteq got
  /\ \A e \in Events : Cardinality(JobsOf(new, e))
                         <= Cardinality(JobsOf(v5, e)) + IF e \in got \ v6 THEN 1 ELSE 0
  /\ \A j \in v5 : \E k \in new : k.event = j.event
  /\ \A e \in got \ v6 : \E k \in new : k.event = e

LEMMA NothingNew ==
  ASSUME JobTypes
  PROVE  Offered(v5, v6, v10)
<1>1. \A e \in Events : Cardinality(JobsOf(v5, e)) \in Nat
  BY JobsOfFinite DEF JobTypes
<1>2. QED  BY <1>1 DEF Offered, JobTypes

(* A job that is there gets the phones of the event as it is now.          *)
LEMMA JobUpdated ==
  ASSUME JobTypes, NEW e \in v6, NEW devs \in (SUBSET Phones) \ {{}}
  PROVE  LET new == {IF j.event = e THEN [j EXCEPT !.devs = devs] ELSE j : j \in v5}
         IN  Offered(new, v6, v10) /\ \A j \in new : j.id <= v10
<1> DEFINE f   == [j \in v5 |-> IF j.event = e THEN [j EXCEPT !.devs = devs] ELSE j]
           new == {IF j.event = e THEN [j EXCEPT !.devs = devs] ELSE j : j \in v5}
<1>1. \A j \in v5 : f[j] \in JobOf(v10) /\ f[j].event = j.event
  BY DEF JobTypes, JobOf
<1>2. new = {f[j] : j \in v5}
  OBVIOUS
<1> HIDE DEF f, new
<1>3. f \in [v5 -> new]
  BY <1>2 DEF f
<1>4. IsFiniteSet(new)
  BY <1>2, <1>3, ImageSmaller DEF JobTypes
<1>5. new \subseteq JobOf(v10)
  BY <1>1, <1>2
<1>6. ASSUME NEW a \in Events PROVE Cardinality(JobsOf(new, a)) <= Cardinality(JobsOf(v5, a))
  <2> DEFINE g == [j \in JobsOf(v5, a) |-> f[j]]
  <2>1. JobsOf(new, a) = {g[j] : j \in JobsOf(v5, a)}
    <3>1. \A j \in JobsOf(v5, a) : g[j] \in JobsOf(new, a)
      BY <1>1, <1>2 DEF JobsOf
    <3>2. \A k \in JobsOf(new, a) : \E j \in JobsOf(v5, a) : k = g[j]
      BY <1>1, <1>2 DEF JobsOf
    <3> HIDE DEF g
    <3>3. QED  BY <3>1, <3>2
  <2>2. g \in [JobsOf(v5, a) -> JobsOf(new, a)]
    BY <1>1, <1>2 DEF JobsOf
  <2> HIDE DEF g
  <2>3. QED  BY <2>1, <2>2, JobsOfFinite, ImageSmaller DEF JobTypes
<1>7. \A a \in Events : Cardinality(JobsOf(v5, a)) \in Nat /\ Cardinality(JobsOf(new, a)) \in Nat
  BY <1>4, JobsOfFinite DEF JobTypes
<1>8. \A j \in v5 : \E k \in new : k.event = j.event
  BY <1>1, <1>2
<1>9. Offered(new, v6, v10)
  BY <1>4, <1>5, <1>6, <1>7, <1>8 DEF Offered, JobTypes
<1>10. \A j \in new : j.id <= v10
  BY <1>5 DEF JobTypes, JobOf
<1>11. QED  BY <1>9, <1>10 DEF new

(* A first job of the event since captured was emptied.                    *)
LEMMA JobMade ==
  ASSUME JobTypes, NEW e \in Events \ v6, NEW devs \in (SUBSET Phones) \ {{}}
  PROVE  LET n   == [id |-> v10 + 1, event |-> e, devs |-> devs]
             new == v5 \cup {n}
         IN  Offered(new, v6 \cup {e}, v10 + 1) /\ {j \in new : j.id > v10} = {n}
<1> DEFINE n   == [id |-> v10 + 1, event |-> e, devs |-> devs]
           new == v5 \cup {n}
<1>1. n \in JobOf(v10 + 1) /\ n.id = v10 + 1 /\ n.event = e /\ v10 + 1 \in Nat
  BY DEF JobTypes, JobOf
<1>2. \A j \in v5 : j \in JobOf(v10 + 1) /\ j.id <= v10
  BY DEF JobTypes, JobOf
<1> HIDE DEF n
<1>3. IsFiniteSet(new) /\ new \subseteq JobOf(v10 + 1)
  BY <1>1, <1>2, FS_AddElement DEF JobTypes
<1>4. ASSUME NEW a \in Events
      PROVE  Cardinality(JobsOf(new, a))
               <= Cardinality(JobsOf(v5, a)) + IF a \in (v6 \cup {e}) \ v6 THEN 1 ELSE 0
  <2>1. IsFiniteSet(JobsOf(v5, a)) /\ Cardinality(JobsOf(v5, a)) \in Nat
    BY JobsOfFinite DEF JobTypes
  <2>2. CASE a = e
    <3>1. JobsOf(new, a) = JobsOf(v5, a) \cup {n}
      BY <1>1, <2>2 DEF JobsOf
    <3> DEFINE S == JobsOf(v5, a)
    <3>2. Cardinality(S \cup {n}) = IF n \in S THEN Cardinality(S) ELSE Cardinality(S) + 1
      <4>1. IsFiniteSet(S)
        BY <2>1
      <4> HIDE DEF S
      <4>2. QED  BY <4>1, FS_AddElement
    <3>3. e \in (v6 \cup {e}) \ v6
      OBVIOUS
    <3> HIDE DEF S, new
    <3>4. Cardinality(JobsOf(new, a)) <= Cardinality(S) + 1
      BY <2>1, <3>1, <3>2 DEF S
    <3>5. QED  BY <2>2, <3>3, <3>4 DEF S
  <2>3. CASE a # e
    <3>1. JobsOf(new, a) = JobsOf(v5, a)
      BY <1>1, <2>3 DEF JobsOf
    <3>2. QED  BY <2>1, <2>3, <3>1
  <2>4. QED  BY <2>2, <2>3
<1>5. {j \in new : j.id > v10} = {n}
  <2>1. v10 \in Nat /\ \A j \in v5 : j.id \in Nat
    BY DEF JobTypes, JobOf
  <2>2. QED  BY <1>1, <1>2, <2>1
<1>6. \A j \in v5 : \E k \in new : k.event = j.event
  OBVIOUS
<1>7. \A a \in (v6 \cup {e}) \ v6 : \E k \in new : k.event = a
  BY <1>1
<1>8. v6 \cup {e} \subseteq Events
  BY DEF JobTypes
<1> HIDE DEF new
<1>9. Offered(new, v6 \cup {e}, v10 + 1)
  BY <1>1, <1>3, <1>4, <1>6, <1>7, <1>8 DEF Offered
<1>10. QED  BY <1>5, <1>9 DEF n, new

-----------------------------------------------------------------------------
(* The steps.                                                              *)

(* What is due is asked for next, for each phone of the job.               *)
DueRequests(due) == UNION {{<<j.id, j.event, d>> : d \in j.devs} : j \in due}

(* A tick at topic these are the jobs, these the captured events, n the    *)
(* number of jobs there were, and some jobs are due.                       *)
TickWith(new, got, n, due) ==
  /\ Offered(new, got, n) /\ due \subseteq new
  /\ v5' = new \ due /\ v7' = DueRequests(due)
  /\ v10' = n /\ v12' = v12
  /\ \/ v6' = got /\ v11' = v11
     \/ v6' = {} /\ v11' = v11 + 1

LEMMA RequestsFinite ==
  ASSUME NEW n \in Nat, NEW due, IsFiniteSet(due), due \subseteq JobOf(n)
  PROVE  IsFiniteSet(DueRequests(due)) /\ DueRequests(due) \subseteq Nat \X Events \X Phones
<1>1. DueRequests(due) \subseteq (1..n) \X Events \X Phones
  BY DEF DueRequests, JobOf
<1>2. IsFiniteSet((1..n) \X Events \X Phones)
  <2>1. IsFiniteSet(1..n)
    BY FS_Interval
  <2>2. IsFiniteSet(Events) /\ IsFiniteSet(Phones)
    BY EndsAssumption
  <2>3. IsFiniteSet((1..n) \X Events)
    BY <2>1, <2>2, FS_Product
  <2>4. \A S, T : IsFiniteSet(S) /\ IsFiniteSet(T) => IsFiniteSet(S \X T)
    BY FS_Product
  <2> DEFINE Pairs == ((1..n) \X Events) \X Phones
             f == [p \in Pairs |-> <<p[1][1], p[1][2], p[2]>>]
             T == (1..n) \X Events \X Phones
  <2>5. IsFiniteSet(Pairs)
    BY <2>2, <2>3, <2>4
  <2>6. T = {f[p] : p \in Pairs}
    <3>1. \A p \in Pairs : f[p] \in T
      OBVIOUS
    <3>2. ASSUME NEW t \in T PROVE \E p \in Pairs : t = f[p]
      <4>1. <<<<t[1], t[2]>>, t[3]>> \in Pairs
        OBVIOUS
      <4>2. f[<<<<t[1], t[2]>>, t[3]>>] = t
        BY <4>1
      <4>3. QED  BY <4>1, <4>2
    <3> HIDE DEF f, Pairs, T
    <3>3. QED  BY <3>1, <3>2
  <2>7. f \in [Pairs -> T]
    OBVIOUS
  <2> HIDE DEF f, Pairs
  <2>8. QED  BY <2>5, <2>6, <2>7, ImageSmaller
<1>3. (1..n) \X Events \X Phones \subseteq Nat \X Events \X Phones
  OBVIOUS
<1>4. QED  BY <1>1, <1>2, <1>3, FS_Subset

(* The requests that a phone gets of an event are of different due jobs.   *)
LEMMA RequestsOfJobs ==
  ASSUME NEW due, IsFiniteSet(due), NEW e, NEW d
  PROVE  Cardinality({r \in DueRequests(due) : r[2] = e /\ r[3] = d}) <= Cardinality(JobsOf(due, e))
<1> DEFINE S == {j \in JobsOf(due, e) : d \in j.devs}
           f == [j \in S |-> <<j.id, j.event, d>>]
           T == {r \in DueRequests(due) : r[2] = e /\ r[3] = d}
<1>1. IsFiniteSet(JobsOf(due, e)) /\ Cardinality(JobsOf(due, e)) \in Nat
  BY JobsOfFinite
<1>2. IsFiniteSet(S) /\ Cardinality(S) <= Cardinality(JobsOf(due, e)) /\ Cardinality(S) \in Nat
  BY <1>1, FS_Subset, FS_CardinalityType
<1>3. T = {f[j] : j \in S}
  <2>1. \A j \in S : f[j] \in T
    BY DEF JobsOf, DueRequests
  <2>2. ASSUME NEW r \in T PROVE \E j \in S : r = f[j]
    <3>1. PICK j \in due : \E b \in j.devs : r = <<j.id, j.event, b>>
      BY DEF DueRequests
    <3>2. PICK b \in j.devs : r = <<j.id, j.event, b>>
      BY <3>1
    <3>3. j.event = e /\ b = d
      BY <3>2
    <3>4. j \in S
      BY <3>3 DEF JobsOf
    <3>5. QED  BY <3>2, <3>3, <3>4
  <2> HIDE DEF f, S, T
  <2>3. QED  BY <2>1, <2>2
<1>4. f \in [S -> T]
  <2>1. \A j \in S : f[j] \in T
    BY DEF JobsOf, DueRequests
  <2> HIDE DEF S, T
  <2>2. QED  BY <2>1
<1> HIDE DEF f, S, T
<1>5. IsFiniteSet(T) /\ Cardinality(T) <= Cardinality(S)
  BY <1>2, <1>3, <1>4, ImageSmaller
<1>6. Cardinality(T) \in Nat
  BY <1>5, FS_CardinalityType
<1>7. Cardinality(T) <= Cardinality(JobsOf(due, e))
  BY <1>1, <1>2, <1>5, <1>6
<1>8. QED  BY <1>7 DEF T

LEMMA TickKeeps ==
  ASSUME JobsKept, v7 = {}, NEW new, NEW got, NEW n, NEW due, TickWith(new, got, n, due)
  PROVE  JobsKept'
<1>1. /\ JobTypes /\ Offered(new, got, n) /\ due \subseteq new
      /\ v5' = new \ due /\ v7' = DueRequests(due) /\ v10' = n /\ v12' = v12
      /\ \/ v6' = got /\ v11' = v11
         \/ v6' = {} /\ v11' = v11 + 1
  BY DEF JobsKept, TickWith
<1>2. /\ IsFiniteSet(new) /\ new \subseteq JobOf(n) /\ n \in Nat /\ got \subseteq Events
  BY <1>1 DEF Offered
<1>3. IsFiniteSet(due) /\ due \subseteq JobOf(n) /\ IsFiniteSet(new \ due)
  BY <1>1, <1>2, FS_Subset
<1>4. JobTypes'
  <2>1. IsFiniteSet(DueRequests(due)) /\ DueRequests(due) \subseteq Nat \X Events \X Phones
    BY <1>2, <1>3, RequestsFinite
  <2>2. v11' \in Nat /\ v6' \subseteq Events /\ v12 \in [Events \X Phones -> Nat]
    BY <1>1, <1>2 DEF JobTypes
  <2>3. QED  BY <1>1, <1>2, <1>3, <2>1, <2>2 DEF JobTypes
<1>5. OncePerCapture'
  <2> SUFFICES ASSUME NEW e \in Events, NEW d \in Phones
               PROVE  v12'[<<e, d>>] + Cardinality(JobsOf(v5', e)) + Cardinality(Left(e, d)')
                        <= Captures(e)'
    BY DEF OncePerCapture
  <2> DEFINE a == v12[<<e, d>>]
             c == Cardinality(JobsOf(new, e))
             o == Cardinality(JobsOf(v5, e))
  <2>1. a \in Nat /\ c \in Nat /\ o \in Nat /\ v11 \in Nat
    BY <1>1, <1>2, JobsOfFinite DEF JobTypes
  <2>2. a + o <= Captures(e)
    <3>1. Left(e, d) = {}
      BY DEF Left
    <3>2. Cardinality(Left(e, d)) = 0
      BY <3>1, FS_EmptySet
    <3>3. a + o + Cardinality(Left(e, d)) <= Captures(e)
      BY DEF JobsKept, OncePerCapture
    <3> HIDE DEF a, o
    <3>4. QED  BY <2>1, <3>2, <3>3
  <2>3. c <= o + IF e \in got \ v6 THEN 1 ELSE 0
    BY <1>1 DEF Offered
  <2>4. Cardinality(JobsOf(new \ due, e)) + Cardinality(JobsOf(due, e)) = c
    <3>1. JobsOf(new \ due, e) = JobsOf(new, e) \ JobsOf(due, e) /\ JobsOf(new, e) \cap JobsOf(due, e) = JobsOf(due, e)
      BY <1>1 DEF JobsOf
    <3>2. IsFiniteSet(JobsOf(new, e)) /\ Cardinality(JobsOf(due, e)) \in Nat
      BY <1>2, <1>3, JobsOfFinite
    <3>3. Cardinality(JobsOf(new, e) \ JobsOf(due, e))
            = Cardinality(JobsOf(new, e)) - Cardinality(JobsOf(new, e) \cap JobsOf(due, e))
      BY <3>2, FS_Difference
    <3>4. Cardinality(JobsOf(new \ due, e)) = c - Cardinality(JobsOf(due, e))
      BY <3>1, <3>3
    <3> HIDE DEF c
    <3>5. QED  BY <2>1, <3>2, <3>4
  <2>5. Cardinality(Left(e, d)') <= Cardinality(JobsOf(due, e)) /\ Cardinality(Left(e, d)') \in Nat
    <3>1. Left(e, d)' = {r \in DueRequests(due) : r[2] = e /\ r[3] = d}
      BY <1>1 DEF Left
    <3>2. IsFiniteSet(DueRequests(due))
      BY <1>2, <1>3, RequestsFinite
    <3>3. IsFiniteSet({r \in DueRequests(due) : r[2] = e /\ r[3] = d})
      BY <3>2, FS_Subset
    <3>4. QED  BY <1>3, <3>1, <3>3, RequestsOfJobs, FS_CardinalityType
  <2>6. Cardinality(JobsOf(new \ due, e)) \in Nat /\ Cardinality(JobsOf(due, e)) \in Nat
    BY <1>3, JobsOfFinite
  <2>7. a + c <= v11 + IF e \in got THEN 1 ELSE 0
    <3>1. v6 \subseteq got
      BY <1>1 DEF Offered
    <3>2. Captures(e) = v11 + IF e \in v6 THEN 1 ELSE 0
      BY DEF Captures
    <3> HIDE DEF a, c, o
    <3>3. QED  BY <2>1, <2>2, <2>3, <3>1, <3>2
  <2>8. v11 + (IF e \in got THEN 1 ELSE 0) <= Captures(e)'
    <3>1. Captures(e)' = v11' + IF e \in v6' THEN 1 ELSE 0
      BY DEF Captures
    <3>2. CASE v6' = got /\ v11' = v11
      BY <2>1, <3>1, <3>2
    <3>3. CASE v6' = {} /\ v11' = v11 + 1
      BY <2>1, <3>1, <3>3
    <3>4. QED  BY <1>1, <3>2, <3>3
  <2>9. Captures(e)' \in Nat
    <3>1. v11' \in Nat
      BY <1>4 DEF JobTypes
    <3>2. v11' + 1 \in Nat /\ v11' + 0 \in Nat
      <4> DEFINE k == v11'
      <4> HIDE DEF k
      <4>1. k \in Nat => k + 1 \in Nat /\ k + 0 \in Nat
        OBVIOUS
      <4>2. QED  BY <3>1, <4>1 DEF k
    <3>3. QED  BY <3>2, Zenon DEF Captures
  <2>10. v12'[<<e, d>>] = a /\ JobsOf(v5', e) = JobsOf(new \ due, e)
    BY <1>1
  <2> HIDE DEF a, c, o
  <2>11. QED  BY <2>1, <2>4, <2>5, <2>6, <2>7, <2>8, <2>9, <2>10
<1>6. NoJobLost'
  <2> SUFFICES ASSUME NEW e \in v6'
               PROVE  \/ \E j \in v5' : j.event = e
                      \/ \E r \in v7' : r[2] = e
                      \/ \E d \in Phones : v12'[<<e, d>>] > 0
    BY DEF NoJobLost
  <2>1. e \in got
    BY <1>1
  <2>2. ASSUME NEW j \in new, j.event = e
        PROVE  \/ \E k \in v5' : k.event = e
               \/ \E r \in v7' : r[2] = e
    <3>1. CASE j \notin due
      BY <1>1, <2>2, <3>1
    <3>2. CASE j \in due
      <4>1. j.devs # {}
        BY <1>2 DEF JobOf
      <4>2. PICK d \in j.devs : TRUE
        BY <4>1
      <4>3. <<j.id, j.event, d>> \in DueRequests(due)
        BY <3>2 DEF DueRequests
      <4>4. <<j.id, j.event, d>>[2] = e
        BY <2>2
      <4>5. QED  BY <1>1, <4>3, <4>4
    <3>3. QED  BY <3>1, <3>2
  <2>3. CASE e \in v6
    <3>1. \/ \E j \in v5 : j.event = e
          \/ \E d \in Phones : v12[<<e, d>>] > 0
      BY <2>3 DEF JobsKept, NoJobLost
    <3>2. \A j \in v5 : \E k \in new : k.event = j.event
      BY <1>1 DEF Offered
    <3>3. QED  BY <1>1, <2>2, <3>1, <3>2
  <2>4. CASE e \notin v6
    <3>1. \E j \in new : j.event = e
      BY <1>1, <2>1, <2>4 DEF Offered
    <3>2. QED  BY <2>2, <3>1
  <2>5. QED  BY <2>3, <2>4
<1>7. QED  BY <1>4, <1>5, <1>6 DEF JobsKept

(* A shard is asked for a waveform, or the time for it is over: it counts  *)
(* as asked for, and is not left.                                          *)
LEMMA AskKeeps ==
  ASSUME JobsKept, NEW r \in v7, v7' = v7 \ {r},
         v12' = [v12 EXCEPT ![<<r[2], r[3]>>] = @ + 1],
         UNCHANGED <<v5, v6, v10, v11>>
  PROVE  JobsKept'
<1>1. /\ JobTypes /\ OncePerCapture /\ NoJobLost
      /\ r[2] \in Events /\ r[3] \in Phones /\ v12 \in [Events \X Phones -> Nat]
  BY DEF JobsKept, JobTypes
<1>2. \A e \in Events, d \in Phones :
        v12'[<<e, d>>] = v12[<<e, d>>] + IF e = r[2] /\ d = r[3] THEN 1 ELSE 0
  BY <1>1
<1>3. JobTypes'
  <2>1. IsFiniteSet(v7')
    BY FS_RemoveElement DEF JobsKept, JobTypes
  <2>2. v12' \in [Events \X Phones -> Nat]
    BY <1>1
  <2>3. QED  BY <1>1, <2>1, <2>2 DEF JobTypes
<1>4. OncePerCapture'
  <2> SUFFICES ASSUME NEW e \in Events, NEW d \in Phones
               PROVE  v12'[<<e, d>>] + Cardinality(JobsOf(v5', e)) + Cardinality(Left(e, d)')
                        <= Captures(e)'
    BY DEF OncePerCapture
  <2> DEFINE a == v12[<<e, d>>]
             o == Cardinality(JobsOf(v5, e))
             l == Cardinality(Left(e, d))
  <2>1. a \in Nat /\ o \in Nat /\ l \in Nat /\ IsFiniteSet(Left(e, d))
    BY <1>1, JobsOfFinite, LeftFinite DEF JobTypes
  <2>2. a + o + l <= Captures(e) /\ Captures(e)' = Captures(e) /\ JobsOf(v5', e) = JobsOf(v5, e)
    BY <1>1 DEF OncePerCapture, Captures
  <2>3. CASE e = r[2] /\ d = r[3]
    <3>1. r \in Left(e, d) /\ Left(e, d)' = Left(e, d) \ {r}
      BY <2>3 DEF Left
    <3>2. Cardinality(Left(e, d) \ {r}) = l - 1
      BY <2>1, <3>1, FS_RemoveElement
    <3>3. v12'[<<e, d>>] = a + 1
      BY <1>2, <2>3
    <3> HIDE DEF a, o, l
    <3>4. a + 1 + o + (l - 1) = a + o + l
      BY <2>1
    <3>5. QED  BY <2>2, <3>1, <3>2, <3>3, <3>4 DEF o
  <2>4. CASE ~ (e = r[2] /\ d = r[3])
    <3>1. Left(e, d)' = Left(e, d)
      BY <2>4 DEF Left
    <3>2. v12'[<<e, d>>] = a
      BY <1>1, <1>2, <2>4
    <3>3. QED  BY <2>2, <3>1, <3>2
  <2>5. QED  BY <2>3, <2>4
<1>5. NoJobLost'
  <2> SUFFICES ASSUME NEW e \in v6
               PROVE  \/ \E j \in v5 : j.event = e
                      \/ \E q \in v7' : q[2] = e
                      \/ \E d \in Phones : v12'[<<e, d>>] > 0
    BY DEF NoJobLost
  <2>1. e \in Events
    BY <1>1 DEF JobTypes
  <2>2. CASE r[2] = e
    BY <1>1, <1>2, <2>1, <2>2
  <2>3. CASE r[2] # e
    <3>1. \A d \in Phones : v12'[<<e, d>>] = v12[<<e, d>>]
      BY <1>1, <1>2, <2>1, <2>3
    <3>2. QED  BY <1>1, <2>3, <3>1 DEF NoJobLost
  <2>4. QED  BY <2>2, <2>3
<1>6. QED  BY <1>3, <1>4, <1>5 DEF JobsKept

-----------------------------------------------------------------------------
(* The two instances: each step asks, ticks, or leaves the jobs alone.     *)

Jobs == <<v5, v6, v7, v10, v11, v12>>

LEMMA SameSize ==
  ASSUME NEW S
  PROVE  Pi!Cardinality(S) = Cardinality(S) /\ Jo!Cardinality(S) = Cardinality(S)
  BY DEF Pi!Cardinality, Jo!Cardinality, Cardinality

LEMMA NoStepKeeps ==
  ASSUME JobsKept, UNCHANGED Jobs
  PROVE  JobsKept'
  BY DEF Jobs, JobsKept, JobTypes, OncePerCapture, NoJobLost, JobsOf, Left, Captures

LEMMA PipelineKeeps ==
  ASSUME JobsKept, Pi!Next
  PROVE  JobsKept'
<1>1. CASE Pi!Ask
  BY <1>1, AskKeeps DEF Pi!Ask
<1>2. CASE Pi!Tick
  <2>1. JobTypes /\ v7 = {} /\ UNCHANGED v12 /\ \A j \in v5 : j.id <= v10 /\ v10 \in Nat
    BY <1>2 DEF Pi!Tick, Pi!AtSelect, JobsKept, JobTypes, JobOf
  <2>2. PICK new \in {v5} \cup UNION {{Pi!JobsWith(e, devs) : devs \in (SUBSET Phones) \ {{}}} : e \in Events} :
          LET fresh == {j \in new : j.id > v10}
              got   == v6 \cup {j.event : j \in fresh}
          IN  /\ v10' = v10 + Pi!Cardinality(fresh)
              /\ v6' = Pi!Remembered(got)
              /\ v11' = IF Pi!Cardinality(got) > CapturedMax THEN v11 + 1 ELSE v11
              /\ \E due \in SUBSET new :
                   /\ v5' = new \ due
                   /\ v7' = DueRequests(due)
    BY <1>2 DEF Pi!Tick, Pi!Rest, DueRequests
  <2> DEFINE fresh == {j \in new : j.id > v10}
             got   == v6 \cup {j.event : j \in fresh}
  <2>3. /\ v10' = v10 + Cardinality(fresh)
        /\ \/ v6' = got /\ v11' = v11
           \/ v6' = {} /\ v11' = v11 + 1
        /\ \E due \in SUBSET new : v5' = new \ due /\ v7' = DueRequests(due)
    BY <2>2, SameSize DEF Pi!Remembered
  <2>7. v10 \in Nat
    BY <2>1 DEF JobTypes
  <2>8. fresh = {} => got = v6 /\ v10' = v10
    <3> HIDE DEF fresh
    <3>1. fresh = {} => Cardinality(fresh) = 0
      BY FS_EmptySet
    <3>2. QED  BY <2>3, <2>7, <3>1
  <2>9. \A n : fresh = {n} => got = v6 \cup {n.event} /\ v10' = v10 + 1
    <3> HIDE DEF fresh
    <3>1. \A n : fresh = {n} => Cardinality(fresh) = 1
      BY FS_Singleton
    <3>2. QED  BY <2>3, <2>7, <3>1
  <2>4. Offered(new, got, v10')
    <3>1. ASSUME new = v5 PROVE Offered(new, got, v10')
      <4>1. fresh = {}
        BY <2>1, <3>1 DEF JobTypes, JobOf
      <4>2. got = v6 /\ v10' = v10
        BY <2>8, <4>1
      <4>3. QED  BY <2>1, <3>1, <4>2, NothingNew
    <3>2. ASSUME NEW e \in Events, NEW devs \in (SUBSET Phones) \ {{}}, new = Pi!JobsWith(e, devs)
          PROVE  Offered(new, got, v10')
      <4>1. CASE e \in v6
        <5>1. new = {IF j.event = e THEN [j EXCEPT !.devs = devs] ELSE j : j \in v5}
          BY <3>2, <4>1 DEF Pi!JobsWith
        <5>2. Offered(new, v6, v10) /\ \A j \in new : j.id <= v10
          BY <2>1, <4>1, <5>1, JobUpdated
        <5>3. fresh = {}
          BY <2>1, <5>2 DEF Offered, JobOf
        <5>4. got = v6 /\ v10' = v10
          BY <2>8, <5>3
        <5>5. QED  BY <5>2, <5>4
      <4>2. CASE e \notin v6
        <5> DEFINE n == [id |-> v10 + 1, event |-> e, devs |-> devs]
        <5>1. new = v5 \cup {n}
          BY <3>2, <4>2 DEF Pi!JobsWith
        <5>2. Offered(new, v6 \cup {e}, v10 + 1) /\ fresh = {n}
          BY <2>1, <4>2, <5>1, JobMade
        <5>3. got = v6 \cup {e} /\ v10' = v10 + 1
          BY <2>9, <5>2
        <5>4. QED  BY <5>2, <5>3
      <4>3. QED  BY <4>1, <4>2
    <3>3. QED  BY <2>2, <3>1, <3>2
  <2> HIDE DEF got, fresh
  <2>5. PICK due \in SUBSET new : TickWith(new, got, v10', due)
    BY <2>1, <2>3, <2>4 DEF TickWith
  <2>6. QED  BY <2>1, <2>5, TickKeeps
<1>3. CASE ~ (Pi!Ask \/ Pi!Tick)
  <2>1. UNCHANGED Jobs
    BY <1>3 DEF Jobs, Pi!Next, Pi!Receive, Pi!Take, Pi!Send, Pi!Return, Pi!EngTake, Pi!EngReturn,
                Pi!Cancel, Pi!jobVars
  <2>2. QED  BY <2>1, NoStepKeeps
<1>4. QED  BY <1>1, <1>2, <1>3

LEMMA JobsInstanceKeeps ==
  ASSUME JobsKept, Jo!Next
  PROVE  JobsKept'
<1>1. CASE Jo!Ask
  BY <1>1, AskKeeps DEF Jo!Ask
<1>2. CASE Jo!Tick
  <2>1. JobTypes /\ v7 = {} /\ UNCHANGED v12 /\ \A j \in v5 : j.id <= v10 /\ v10 \in Nat
    BY <1>2 DEF Jo!Tick, Jo!AtSelect, JobsKept, JobTypes, JobOf
  <2>2. PICK new \in {v5} \cup UNION {{Jo!JobsWith(e, devs) : devs \in (SUBSET Phones) \ {{}}} : e \in Events} :
          LET fresh == {j \in new : j.id > v10}
              got   == v6 \cup {j.event : j \in fresh}
          IN  /\ v10' = v10 + Jo!Cardinality(fresh)
              /\ v6' = Jo!Remembered(got)
              /\ v11' = IF Jo!Cardinality(got) > AllEvents THEN v11 + 1 ELSE v11
              /\ \E due \in SUBSET new :
                   /\ v5' = new \ due
                   /\ v7' = DueRequests(due)
    BY <1>2 DEF Jo!Tick, Jo!Rest, DueRequests
  <2> DEFINE fresh == {j \in new : j.id > v10}
             got   == v6 \cup {j.event : j \in fresh}
  <2>3. /\ v10' = v10 + Cardinality(fresh)
        /\ \/ v6' = got /\ v11' = v11
           \/ v6' = {} /\ v11' = v11 + 1
        /\ \E due \in SUBSET new : v5' = new \ due /\ v7' = DueRequests(due)
    BY <2>2, SameSize DEF Jo!Remembered
  <2>7. v10 \in Nat
    BY <2>1 DEF JobTypes
  <2>8. fresh = {} => got = v6 /\ v10' = v10
    <3> HIDE DEF fresh
    <3>1. fresh = {} => Cardinality(fresh) = 0
      BY FS_EmptySet
    <3>2. QED  BY <2>3, <2>7, <3>1
  <2>9. \A n : fresh = {n} => got = v6 \cup {n.event} /\ v10' = v10 + 1
    <3> HIDE DEF fresh
    <3>1. \A n : fresh = {n} => Cardinality(fresh) = 1
      BY FS_Singleton
    <3>2. QED  BY <2>3, <2>7, <3>1
  <2>4. Offered(new, got, v10')
    <3>1. ASSUME new = v5 PROVE Offered(new, got, v10')
      <4>1. fresh = {}
        BY <2>1, <3>1 DEF JobTypes, JobOf
      <4>2. got = v6 /\ v10' = v10
        BY <2>8, <4>1
      <4>3. QED  BY <2>1, <3>1, <4>2, NothingNew
    <3>2. ASSUME NEW e \in Events, NEW devs \in (SUBSET Phones) \ {{}}, new = Jo!JobsWith(e, devs)
          PROVE  Offered(new, got, v10')
      <4>1. CASE e \in v6
        <5>1. new = {IF j.event = e THEN [j EXCEPT !.devs = devs] ELSE j : j \in v5}
          BY <3>2, <4>1 DEF Jo!JobsWith
        <5>2. Offered(new, v6, v10) /\ \A j \in new : j.id <= v10
          BY <2>1, <4>1, <5>1, JobUpdated
        <5>3. fresh = {}
          BY <2>1, <5>2 DEF Offered, JobOf
        <5>4. got = v6 /\ v10' = v10
          BY <2>8, <5>3
        <5>5. QED  BY <5>2, <5>4
      <4>2. CASE e \notin v6
        <5> DEFINE n == [id |-> v10 + 1, event |-> e, devs |-> devs]
        <5>1. new = v5 \cup {n}
          BY <3>2, <4>2 DEF Jo!JobsWith
        <5>2. Offered(new, v6 \cup {e}, v10 + 1) /\ fresh = {n}
          BY <2>1, <4>2, <5>1, JobMade
        <5>3. got = v6 \cup {e} /\ v10' = v10 + 1
          BY <2>9, <5>2
        <5>4. QED  BY <5>2, <5>3
      <4>3. QED  BY <4>1, <4>2
    <3>3. QED  BY <2>2, <3>1, <3>2
  <2> HIDE DEF got, fresh
  <2>5. PICK due \in SUBSET new : TickWith(new, got, v10', due)
    BY <2>1, <2>3, <2>4 DEF TickWith
  <2>6. QED  BY <2>1, <2>5, TickKeeps
<1>3. CASE ~ (Jo!Ask \/ Jo!Tick)
  <2>1. UNCHANGED Jobs
    BY <1>3 DEF Jobs, Jo!Next, Jo!Receive, Jo!Take, Jo!Send, Jo!Return, Jo!EngTake, Jo!EngReturn,
                Jo!Cancel, Jo!jobVars
  <2>2. QED  BY <2>1, NoStepKeeps
<1>4. QED  BY <1>1, <1>2, <1>3

-----------------------------------------------------------------------------
LEMMA PipelineInit == EndsInit => PipelineInv
<1> SUFFICES ASSUME EndsInit, topic \in {"pipeline", "jobs"} PROVE JobsKept
  BY DEF PipelineInv
<1>1. v5 = {} /\ v6 = {} /\ v7 = {} /\ v10 = 0 /\ v11 = 0 /\ v12 = [r \in Events \X Phones |-> 0]
  BY DEF EndsInit, Pi!Init, Jo!Init
<1>2. JobsOf(v5, 0) = {} /\ \A e, d : JobsOf(v5, e) = {} /\ Left(e, d) = {}
  BY <1>1 DEF JobsOf, Left
<1>3. IsFiniteSet({}) /\ Cardinality({}) = 0
  BY FS_EmptySet
<1>4. JobTypes
  BY <1>1, <1>3 DEF JobTypes
<1>5. OncePerCapture
  BY <1>1, <1>2, <1>3 DEF OncePerCapture, Captures
<1>6. NoJobLost
  BY <1>1 DEF NoJobLost
<1>7. QED  BY <1>4, <1>5, <1>6 DEF JobsKept

LEMMA PipelineNext == PipelineInv /\ [EndsNext]_endsVars => PipelineInv'
<1> SUFFICES ASSUME PipelineInv, [EndsNext]_endsVars, topic' \in {"pipeline", "jobs"} PROVE JobsKept'
  BY DEF PipelineInv
<1>1. topic' = topic
  BY DEF EndsNext, endsVars, OnPair, OnErasure, OnPipeline, OnJobs
<1>2. JobsKept
  BY <1>1 DEF PipelineInv
<1>3. CASE UNCHANGED endsVars
  <2>1. UNCHANGED Jobs
    BY <1>3 DEF endsVars, Jobs
  <2>2. QED  BY <1>2, <2>1, NoStepKeeps
<1>4. CASE EndsNext
  <2>1. Pi!Next \/ Jo!Next
    BY <1>1, <1>4 DEF EndsNext, OnPair, OnErasure, OnPipeline, OnJobs
  <2>2. QED  BY <1>2, <2>1, PipelineKeeps, JobsInstanceKeeps
<1>5. QED  BY <1>3, <1>4

-----------------------------------------------------------------------------
(* The theorems.                                                           *)

(* Every part has a state of its types; the list of sent alerts never has  *)
(* more entries than the budget (TypeOK of each part).                     *)
THEOREM TypesCorrect == ServerSpec => []ServerTypeOK
<1>1. SInv => ServerTypeOK
  <2> SUFFICES ASSUME SInv PROVE ServerTypeOK
    OBVIOUS
  <2>1. TypeOK
    BY DEF SInv, BudgetInv
  <2>2. which = "station" => St!TypeOK
    BY St!InvTypes DEF SInv
  <2>3. which = "units" => Un!TypeOK
    BY Un!InvTypes DEF SInv
  <2>4. which = "bot" => Bo!TypeOK
    BY BotTypes DEF SInv
  <2>5. which = "limit" => Ra!TypeOK
    BY TokenTypes DEF SInv
  <2>6. ASSUME which = "film" PROVE Fi!TypeOK
    <3>1. s1 \in Detector /\ Small(s1) /\ s2 \in BOOLEAN
      BY <2>6 DEF SInv, FilmInv
    <3>2. {0, 1, 3} \subseteq {m.g : m \in Handled}
      BY DEF Handled, Resting
    <3>3. QED  BY <3>1, <3>2 DEF Fi!TypeOK, Small, Detector, Fi!LOOP, Fi!SETTLE
  <2>7. ASSUME which = "script" PROVE Sr!TypeOK
    <3>1. Rests(s1) /\ s2 \in BOOLEAN
      BY <2>7 DEF SInv
    <3>2. /\ s1.t \in 0..609 /\ s1.verdict = "listening" /\ s1.still = 0 /\ s1.ref = 0
          /\ s1.trig = -1 /\ s1.frozen \in BOOLEAN
      BY <3>1 DEF Rests, Detector
    <3>3. /\ s1.t \in 0..610 + 1 /\ s1.trig \in {-1} \cup 0..610 /\ s1.still \in 0..30 + 1
      BY <3>2
    <3>4. s1.ref \in {m.g : m \in Resting} \cup {0}
      BY <3>2, Zenon
    <3>5. s1.verdict \in Sr!Verdicts
      BY <3>2 DEF Sr!Verdicts
    <3>6. QED  BY <3>1, <3>2, <3>3, <3>4, <3>5 DEF Sr!TypeOK, Sr!LOOP, Sr!SETTLE
  <2>8. QED  BY <2>1, <2>2, <2>3, <2>4, <2>5, <2>6, <2>7 DEF ServerTypeOK
<1>2. QED  BY <1>1, SInvHolds, PTL

(* In whatever order the goroutines ask, one process lets no more than the *)
(* budget through in an hour less the deadline (alert.go, budget).         *)
THEOREM WithinBudget == ServerSpec => []BudgetKept
<1>1. SInv => BudgetKept
  BY DEF SInv, BudgetInv
<1>2. QED  BY <1>1, SInvHolds, PTL

(* A chat that has no row gets one only by a message of its user, though   *)
(* the reminders and the alert work off a list of earlier, and between two *)
(* reminders of a chat are six hours, but for those of which there is no   *)
(* record (Bot).                                                           *)
THEOREM BotCorrect == ServerSpec => BotKeepsWord
<1>1. SInv /\ [ServerNext]_serverVars =>
        [which = "bot" => Bo!ComesBackByMessage /\ Bo!RemindsApart]_serverVars
  <2> SUFFICES ASSUME SInv, [ServerNext]_serverVars, which = "bot"
               PROVE  Bo!ComesBackByMessage /\ Bo!RemindsApart
    OBVIOUS
  <2>1. Bo!KeepsWord /\ [Bo!Next]_(Bo!vars)
    BY BotStep DEF SInv
  <2>2. QED  BY <2>1, BackByMessage, RemindedApart
<1>2. QED  BY <1>1, SInvHolds, PTL DEF ServerSpec, BotKeepsWord

(* A bucket lets through the burst and its rate, in whatever order         *)
(* requests come to it and whenever it is swept, and refuses one that was  *)
(* not overtaken only if the burst was used up (RateLimit): for every      *)
(* rate, every burst that comes again before a sweep, and any number of    *)
(* requests at once.                                                       *)
THEOREM TokensCorrect == ServerSpec => []TokensKept
<1>1. SInv => TokensKept
  BY RefusalsCost DEF SInv, TokenInv, TokensKept
<1>2. QED  BY <1>1, SInvHolds, PTL

(* The votes of a unit are apart and told apart, in whatever order picks   *)
(* come and go, and a phone is a member of one unit only (Units).          *)
THEOREM VotesCorrect == ServerSpec => []VotesApart
<1>1. SInv => VotesApart
  BY Un!InvApart DEF SInv, VotesApart, Un!Inv
<1>2. QED  BY <1>1, SInvHolds, PTL

(* The end of a pick takes back this pick (Units).                         *)
THEOREM OwnEndCorrect == ServerSpec => []OwnEndFound
<1>1. SInv => OwnEndFound
  BY DEF SInv, OwnEndFound, Un!Inv
<1>2. QED  BY <1>1, SInvHolds, PTL

(* The average behind a trigger stands still exactly while the trigger     *)
(* lasts, in the server and in the film, in which a phone that was tilted  *)
(* since its trigger does not vote (Station, Film).                        *)
THEOREM FrozenCorrect == ServerSpec => []FrozenWhileTriggered
<1>1. SInv => FrozenWhileTriggered
  <2> SUFFICES ASSUME SInv PROVE FrozenWhileTriggered
    OBVIOUS
  <2>1. ASSUME which = "station" PROVE St!FrozenWhileTriggered
    BY <2>1, St!InvFrozen DEF SInv
  <2>2. ASSUME which = "film" PROVE Fi!FrozenWhileTriggered /\ Fi!NoVoteTilted
    <3>1. s1.frozen \in BOOLEAN /\ Frozen(s1) /\ (s1.tilted => s1.verdict = "cancelled")
      BY <2>2 DEF SInv, FilmInv, Detector
    <3>2. QED  BY <3>1 DEF Fi!FrozenWhileTriggered, Fi!NoVoteTilted, Frozen
  <2>3. QED  BY <2>1, <2>2 DEF FrozenWhileTriggered
<1>2. QED  BY <1>1, SInvHolds, PTL

(* What the network is told of a phone is the life of a phone and its      *)
(* picks (Listening).                                                      *)
THEOREM LifeCorrect == ServerSpec => LifeOfPicks
<1>1. ServerInit => Heard!Init
  BY DEF ServerInit, Heard!Init, St!Init, St!New, St!Eligible
<1>2. SInv /\ [ServerNext]_serverVars => [Heard!Next]_(Heard!vars)
  <2> SUFFICES ASSUME SInv, [ServerNext]_serverVars PROVE [Heard!Next]_(Heard!vars)
    OBVIOUS
  <2>1. which' = which
    BY SamePart
  <2>2. CASE which = "station"
    <3>1. [St!Next]_(St!vars) /\ St!Inv
      BY <2>2 DEF ServerNext, On, serverVars, partVars, St!vars, SInv
    <3>2. [St!L!Next]_<<St!Eligible(s1.told), s1.open, s1.seq>>
      BY <3>1, St!LifeStep
    <3>3. QED  BY <2>1, <2>2, <3>2
              DEF Heard!Next, Heard!vars, Heard!Announce, Heard!AnnounceMoved, Heard!End, Heard!Turn,
                  St!L!Next, St!L!Announce, St!L!AnnounceMoved, St!L!End, St!L!Turn
  <2>3. CASE which # "station"
    BY <2>1, <2>3 DEF Heard!vars
  <2>4. QED  BY <2>2, <2>3
<1>3. QED  BY <1>1, <1>2, SInvHolds, PTL DEF ServerSpec, LifeOfPicks, Heard!Spec

(* A phone is asked for its waveform of an event at most once for each     *)
(* time the loop captures the event, and an event that is captured has a   *)
(* job, requests that are left, or was asked for (engineLoop,              *)
(* captureSnippets).                                                       *)
THEOREM WaveformsCorrect == EndsSpec => []WaveformsAsked
<1>1. PipelineInv => WaveformsAsked
  <2> SUFFICES ASSUME PipelineInv, topic \in {"pipeline", "jobs"}
               PROVE  /\ Pi!AskedOnce /\ Pi!WaveformsKept
                      /\ Jo!AskedOnce /\ Jo!WaveformsKept
    BY DEF WaveformsAsked
  <2>1. JobsKept
    BY DEF PipelineInv
  <2>2. ASSUME NEW r \in Events \X Phones PROVE v12[r] <= 1 + v11
    <3>1. PICK e \in Events, d \in Phones : r = <<e, d>>
      OBVIOUS
    <3> DEFINE a == v12[<<e, d>>]
               o == Cardinality(JobsOf(v5, e))
               l == Cardinality(Left(e, d))
    <3>2. a \in Nat /\ o \in Nat /\ l \in Nat /\ v11 \in Nat
      BY <2>1, JobsOfFinite, LeftFinite DEF JobsKept, JobTypes
    <3>3. a + o + l <= Captures(e)
      BY <2>1 DEF JobsKept, OncePerCapture
    <3>4. Captures(e) = v11 + IF e \in v6 THEN 1 ELSE 0
      BY DEF Captures
    <3> HIDE DEF a, o, l
    <3>5. a <= 1 + v11
      BY <3>2, <3>3, <3>4
    <3>6. QED  BY <3>1, <3>5 DEF a
  <2>3. Pi!AskedOnce /\ Jo!AskedOnce
    BY <2>2 DEF Pi!AskedOnce, Jo!AskedOnce
  <2>4. Pi!WaveformsKept /\ Jo!WaveformsKept
    BY <2>1 DEF JobsKept, NoJobLost, Pi!WaveformsKept, Jo!WaveformsKept
  <2>5. QED  BY <2>3, <2>4
<1>2. QED  BY <1>1, PipelineInit, PipelineNext, PTL DEF EndsSpec
===============================================================================
