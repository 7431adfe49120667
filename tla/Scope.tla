--------------------------------- MODULE Scope ---------------------------------
(***************************************************************************)
(* The oscilloscope of /device: samples go from the client to a worker in  *)
(* chunks, and come back filtered into the rings that are drawn            *)
(* (web/components/device/Scope.tsx, web/lib/sensor/dsp.worker.ts, with    *)
(* the trigger of web/lib/dsp.ts).                                         *)
(*                                                                         *)
(* A sample is its number; the five rings are one, of what the worker made *)
(* of it: its ratio, which is 0 until the long average is warm, and then   *)
(* low or, of a sample of Strong, high.                                    *)
(***************************************************************************)
EXTENDS Naturals, Sequences, FiniteSets

CONSTANTS
  Cap,      \* CAP, samples a ring keeps
  Warm,     \* samples until the long average is warm (nLta)
  Learn,    \* intervals the worker must see to know the rate
  Strong,   \* samples with a high ratio
  Samples,  \* bound: 1..Samples are tapped
  Moves     \* bound: changes of the band or threshold, redesigns

\* Assumed of the constants by whoever instantiates the module.
ScopeAssumption == Cap \in Nat \ {0} /\ {Warm, Learn, Samples, Moves} \subseteq Nat

VARIABLES
  on,       \* is it mounted
  buf,      \* samples tapped and not yet shipped
  tapped,   \* how many were tapped
  wire,     \* messages to the worker: a chunk, or a band
  work,     \* the worker: intervals seen, is the rate known, samples since its design, the band
  back,     \* chunks on their way back
  ring,     \* Ring: its array and how many samples it was given
  trigs,    \* triggers counted, and is the ratio over the threshold
  cfg,      \* the controls: band and threshold
  info,     \* the readouts
  out,      \* history: what came back, and whether each was over the threshold
  moves     \* what is left of Moves

vars == <<on, buf, tapped, wire, work, back, ring, trigs, cfg, info, out, moves>>

Bands   == {"net", "own"}
Ratios  == {"none", "low", "high"}
Controls == [band : Bands, thr : {"low", "high"}]
Net     == [band |-> "net", thr |-> "high"]
Points  == [s : 0..Samples, ratio : Ratios]
NoPoint == [s |-> 0, ratio |-> "none"]
Worker  == [seen |-> 0, last |-> FALSE, fs |-> FALSE, n |-> 0, band |-> "net"]
Move    == moves > 0 /\ moves' = moves - 1

Chunk(c)  == [kind |-> "samples", chunk |-> c, band |-> "none"]
Config(b) == [kind |-> "config", chunk |-> <<>>, band |-> b]

(***************************************************************************)
(* The page.                                                               *)
(***************************************************************************)
Tap ==
  /\ on /\ tapped < Samples
  /\ tapped' = tapped + 1
  /\ buf' = Append(buf, tapped + 1)
  /\ UNCHANGED <<on, wire, work, back, ring, trigs, cfg, info, out, moves>>

\* Every 50 ms.
Ship ==
  /\ on /\ buf # <<>>
  /\ wire' = Append(wire, Chunk(buf))
  /\ buf' = <<>>
  /\ UNCHANGED <<on, tapped, work, back, ring, trigs, cfg, info, out, moves>>

\* Any control sends the whole configuration.
SetCfg(c) ==
  /\ on /\ c # cfg /\ Move
  /\ cfg' = c
  /\ wire' = Append(wire, Config(c.band))
  /\ UNCHANGED <<on, buf, tapped, work, back, ring, trigs, info, out>>

\* Ring.push, a chunk at a time, and Ring.at: 0 is the oldest.
MutantPush(r, c) ==
  [a |-> [k \in 0..(Cap - 1) |-> IF \E i \in 1..Len(c) : (r.n + i) % Cap = k
                                THEN c[CHOOSE i \in 1..Len(c) : (r.n + i) % Cap = k] ELSE r.a[k]],
   n |-> r.n + Len(c)]

\* The last of the samples that meet in a place stays there.
Push(r, c) ==
  [a |-> [k \in 0..(Cap - 1) |->
           LET here == {i \in 1..Len(c) : (r.n + i - 1) % Cap = k}
           IN  IF here = {} THEN r.a[k] ELSE c[CHOOSE i \in here : \A j \in here : j <= i]],
   n |-> r.n + Len(c)]

Count(r) == IF r.n < Cap THEN r.n ELSE Cap
At(r, i) == r.a[(r.n - Count(r) + i) % Cap]

Over(ratio) == ratio = "high" \/ (ratio = "low" /\ cfg.thr = "low")

\* Where the ratio crosses the threshold upwards.
Rises(flags, before) ==
  {i \in 1..Len(flags) : flags[i] /\ ~(IF i = 1 THEN before ELSE flags[i - 1])}

Counted(flags) ==
  [n |-> trigs.n + Cardinality(Rises(flags, trigs.on)), on |-> flags[Len(flags)]]

\* The threshold is the one that holds when the chunk comes back.
OnOut ==
  /\ on /\ back # <<>>
  /\ LET c     == Head(back)
         flags == [i \in 1..Len(c) |-> Over(c[i].ratio)]
     IN  /\ ring' = Push(ring, c)
         /\ trigs' = Counted(flags)
         /\ out' = out \o [i \in 1..Len(c) |-> [point |-> c[i], over |-> flags[i]]]
  /\ back' = Tail(back)
  /\ UNCHANGED <<on, buf, tapped, wire, work, cfg, info, moves>>

\* A frame is drawn, and the readouts follow three times a second.
Draw ==
  /\ on /\ Count(ring) >= 2
  /\ info' = [last |-> At(ring, Count(ring) - 1), trig |-> trigs.n]
  /\ UNCHANGED <<on, buf, tapped, wire, work, back, ring, trigs, cfg, out, moves>>

\* The button that takes the controls back is offered when they were changed.
Changed == cfg # Net

Close ==
  /\ on
  /\ on' = FALSE /\ buf' = <<>> /\ wire' = <<>> /\ back' = <<>>
  /\ UNCHANGED <<tapped, work, ring, trigs, cfg, info, out, moves>>

(***************************************************************************)
(* The worker.                                                             *)
(***************************************************************************)
\* New filters, and an average that starts anew.
Design(w) == [w EXCEPT !.fs = TRUE, !.n = 0]

Configured ==
  /\ wire # <<>> /\ Head(wire).kind = "config"
  /\ wire' = Tail(wire)
  /\ LET w == [work EXCEPT !.band = Head(wire).band]
     IN  work' = IF w.fs THEN Design(w) ELSE w
  /\ UNCHANGED <<on, buf, tapped, back, ring, trigs, cfg, info, out, moves>>

Least(a, b) == IF a < b THEN a ELSE b

\* The intervals of a chunk are added; the rate is known when there are enough of them.
Learnt(c) == [work EXCEPT !.seen = Least(Learn, @ + Len(c) - (IF work.last THEN 0 ELSE 1)),
                          !.last = TRUE]

Ratio(n, s) == IF n < Warm THEN "none" ELSE IF s \in Strong THEN "high" ELSE "low"

Process(w, c) ==
  /\ work' = [w EXCEPT !.n = Least(Warm, @ + Len(c))]
  /\ back' = Append(back, [i \in 1..Len(c) |-> [s |-> c[i], ratio |-> Ratio(w.n + i, c[i])]])

\* A chunk that comes before the rate is known is dropped; another rate is another design.
Processed(moved) ==
  /\ wire # <<>> /\ Head(wire).kind = "samples"
  /\ wire' = Tail(wire)
  /\ LET c == Head(wire).chunk
         w == Learnt(c)
     IN  IF w.seen < Learn THEN work' = w /\ ~moved /\ UNCHANGED <<back, moves>>
         ELSE /\ Process(IF ~w.fs \/ moved THEN Design(w) ELSE w, c)
              /\ IF moved /\ w.fs THEN Move ELSE ~moved /\ UNCHANGED moves
  /\ UNCHANGED <<on, buf, tapped, ring, trigs, cfg, info, out>>

(***************************************************************************)
(* The specification.                                                      *)
(***************************************************************************)
Init ==
  /\ on = TRUE /\ buf = <<>> /\ tapped = 0 /\ wire = <<Config("net")>> /\ work = Worker
  /\ back = <<>> /\ ring = [a |-> [k \in 0..(Cap - 1) |-> NoPoint], n |-> 0]
  /\ trigs = [n |-> 0, on |-> FALSE] /\ cfg = Net
  /\ info = [last |-> NoPoint, trig |-> 0] /\ out = <<>> /\ moves = Moves

Next ==
  \/ Tap \/ Ship \/ OnOut \/ Draw \/ Close \/ Configured
  \/ \E c \in Controls : SetCfg(c)
  \/ \E moved \in BOOLEAN : Processed(moved)

Spec == Init /\ [][Next]_vars

(***************************************************************************)
(* Properties.                                                             *)
(***************************************************************************)
TypeOK ==
  /\ on \in BOOLEAN /\ tapped \in 0..Samples /\ Len(buf) <= Samples /\ moves \in 0..Moves
  /\ work \in [seen : 0..Learn, last : BOOLEAN, fs : BOOLEAN, n : 0..Warm, band : Bands]
  /\ ring \in [a : [0..(Cap - 1) -> Points], n : 0..Samples]
  /\ trigs \in [n : 0..Samples, on : BOOLEAN] /\ cfg \in Controls
  /\ info \in [last : Points, trig : 0..Samples]

\* What is drawn, oldest first, is the last Cap of all points that came back, and they are of
\* consecutive samples, in order: no chunk is lost, doubled or overtaken (Ring, onmessage).
RingIsWindow ==
  /\ ring.n = Len(out)
  /\ \A i \in 0..(Count(ring) - 1) : At(ring, i) = out[Len(out) - Count(ring) + i + 1].point
  /\ \A i \in 1..(Len(out) - 1) : out[i + 1].point.s = out[i].point.s + 1

\* Every crossing of the threshold is counted once, however samples were cut into chunks.
TriggersCounted ==
  /\ trigs.n = Cardinality(Rises([i \in 1..Len(out) |-> out[i].over], FALSE))
  /\ out # <<>> => trigs.on = out[Len(out)].over

\* What the oscilloscope shows is what the phone measured.  And when all that was sent has
\* arrived, the worker's band is the one of the controls.
ShowsMeasured ==
  RingIsWindow /\ TriggersCounted /\ (on /\ wire = <<>> => work.band = cfg.band)
===============================================================================
