------------------------------- MODULE Events -------------------------------
(***************************************************************************)
(* The events of the network engine (engine.go, Tick and apply).           *)
(*                                                                         *)
(* A vote is the collective trigger of one unit.  Once a second the engine *)
(* groups the live votes into clusters, one point source each, and applies *)
(* the clusters, largest first: to an event that is active, to one that    *)
(* absorbs them, or to a new one.  Then it closes the events that have     *)
(* become quiet.                                                           *)
(*                                                                         *)
(* One goroutine runs the engine, so no pick is added within a tick; the   *)
(* module still takes a tick in steps, one per cluster.  The grid search   *)
(* is a choice of clusters and the statistics a choice of metrics; times   *)
(* are in ticks and the configured durations are constants.                *)
(***************************************************************************)
EXTENDS Integers, Sequences, FiniteSets

CONSTANTS
  Vote,        \* vote keys
  Unit,        \* independence units
  UnitOf,      \* the unit of a vote
  PlaceOf,     \* where it is, on a line
  Coherent,    \* the sets of votes that one source explains
  MergeDist,   \* MergeKM
  ReachDist,   \* the radius within which an event absorbs fragments
  MinUnits,    \* MinUnits of the three levels
  HoldSec,     \* HoldSec of the three levels
  Assoc,       \* AssocWindowSec
  Quiet,       \* EventQuietSec
  MinAge,      \* EventMinAgeSec
  MergeSec,    \* MergeSec
  UnitVote,    \* UnitVoteSec
  Unsteady,    \* bound: votes whose picks change once they are formed
  Evidence,    \* bound: what evaluate may find of a cluster besides its votes, as
               \* pairs of its significance and of whether it passes the other checks
  MaxDelay,    \* bound: how late a vote arrives
  MaxTime      \* bound: ticks

Levels == 1..3        \* candidate, corroborated, confirmed
Corroborated == 2
Confirmed == 3

ASSUME VoteAssumption ==
  /\ IsFiniteSet(Vote)
  /\ UnitOf \in [Vote -> Unit]
  /\ PlaceOf \in [Vote -> Int]
  /\ Coherent \subseteq SUBSET Vote
  /\ \A S \in Coherent : Cardinality(S) >= 2

ASSUME ConfigAssumption ==
  /\ MinUnits \in [Levels -> Nat]
  /\ HoldSec \in [Levels -> Nat]
  /\ HoldSec[1] = 0
  /\ Assoc \in Nat \ {0}
  /\ Evidence \subseteq (0..3) \X BOOLEAN
  /\ Unsteady \subseteq Vote
  /\ {Quiet, MinAge, MergeSec, UnitVote, MergeDist, ReachDist, MaxDelay} \subseteq Nat
  /\ MaxTime \in Nat \ {0}

VARIABLES
  now,        \* processing time
  onset,      \* Vote.T; 0 before the vote is first formed
  heard,      \* Vote.LastArrival; 0 when its picks are gone
  consumed,   \* Engine.consumed; 0 when absent
  cache,      \* the clusters last found and the live votes they were found in
  todo,       \* clusters of this tick still to be applied
  ticking,    \* a tick has started
  touched,    \* events a cluster of this tick was applied to
  event,      \* every event ever created, in order
  C,          \* Counters
  background, \* unitRec.votes
  counted,    \* unitRec.lastCounted; before the first, as long ago as makes no difference
  seen        \* votes in unitRec.seen

voteVars == <<onset, heard>>
unitVars == <<background, counted, seen>>
vars == <<now, voteVars, consumed, cache, todo, ticking, touched, event, C, unitVars>>

Metrics == [units : Nat, sig : 0..3, clean : BOOLEAN]

Counters == {"created", "corroborated", "confirmed", "dismissed"}

(* levelTimes, passSince and closedAt are 0 when absent.  missed and       *)
(* failed are of no use to the engine: they record the last tick in which  *)
(* no cluster of the event was found, and the last evaluation that did not *)
(* meet each level.                                                        *)
EventAt(levels) ==
  [status : {"active", "recent", "gone"}, outcome : {"none", "dismissed", "closed"},
   level : levels, created : Nat, closedAt : Nat, levelTimes : [Levels -> Nat],
   passSince : [Levels -> Nat], m : Metrics, place : Int, origin : Nat,
   keys : SUBSET Vote, units : SUBSET Unit, lastSupport : Nat, explained : BOOLEAN,
   missed : Nat, failed : [Levels -> Nat]]

Event == EventAt(Levels)

Dist(a, b) == IF a < b THEN b - a ELSE a - b
Later(a, b) == IF a < b THEN b ELSE a
Highest(S) == CHOOSE x \in S : \A y \in S : y <= x
Lowest(S) == CHOOSE x \in S : \A y \in S : x <= y

Active == {i \in DOMAIN event : event[i].status = "active"}
Recent == {i \in DOMAIN event : event[i].status = "recent"}

Init ==
  /\ now = 1
  /\ onset = [v \in Vote |-> 0]
  /\ heard = [v \in Vote |-> 0]
  /\ consumed = [v \in Vote |-> 0]
  /\ cache = [live |-> {}, clusters |-> <<>>]
  /\ todo = <<>>
  /\ ticking = FALSE
  /\ touched = {}
  /\ event = <<>>
  /\ C = [k \in Counters |-> 0]
  /\ background = [u \in Unit |-> 0]
  /\ counted = [u \in Unit |-> -2 * UnitVote]
  /\ seen = {}

-----------------------------------------------------------------------------
(* Between ticks: the picks behind a vote come and go.                     *)

Fresh(v) == onset[v] >= now - Assoc

(* A pick forms the vote, late by up to MaxDelay, or joins one.  Picks of   *)
(* one unit within UnitVoteSec of each other are one vote.                 *)
Arrive(v) ==
  /\ ~ticking
  /\ now < MaxTime
  /\ \/ /\ onset[v] = 0
        /\ \E t \in 1..now :
             /\ t >= now - MaxDelay
             /\ t >= now - Assoc
             /\ \A w \in Vote : UnitOf[w] = UnitOf[v] /\ onset[w] # 0 => Dist(onset[w], t) > UnitVote
             /\ onset' = [onset EXCEPT ![v] = t]
     \/ /\ v \in Unsteady
        /\ onset[v] # 0
        /\ Fresh(v)
        /\ UNCHANGED onset
  /\ heard' = [heard EXCEPT ![v] = now]
  /\ cache' = [live |-> {}, clusters |-> <<>>]
  /\ UNCHANGED <<now, consumed, todo, ticking, touched, event, C, unitVars>>

(* Its picks are downgraded or their devices removed, or too few of the    *)
(* unit's eligible phones have picked.                                     *)
Withdraw(v) ==
  /\ v \in Unsteady
  /\ ~ticking
  /\ heard[v] # 0
  /\ heard' = [heard EXCEPT ![v] = 0]
  /\ UNCHANGED <<now, onset, consumed, cache, todo, ticking, touched, event, C, unitVars>>

-----------------------------------------------------------------------------
(* A tick.                                                                 *)

(* A vote is counted against its unit when it is first seen, unless        *)
(* another was counted just before.                                        *)
Formed == {v \in Vote : heard[v] # 0}

NewTimes(u) == {onset[v] : v \in {w \in Formed \ seen : UnitOf[w] = u}}

(* Of the new votes of unit u those at the times K are counted.            *)
Counts(u, K) ==
  K = {t \in NewTimes(u) : /\ t > counted[u] + 2 * UnitVote
                           /\ \A s \in K : s < t => t > s + 2 * UnitVote}

CountVotes ==
  \E K \in [Unit -> SUBSET {onset[v] : v \in Formed \ seen}] :
    /\ \A u \in Unit : Counts(u, K[u])
    /\ background' = [u \in Unit |-> background[u] + Cardinality(K[u])]
    /\ counted' = [u \in Unit |-> Highest({counted[u]} \cup K[u])]
    /\ seen' = seen \cup Formed

Live == {v \in Formed : consumed[v] = 0 /\ now + 1 - Assoc <= onset[v]}

(* associate: point sources are extracted until none is left, each with    *)
(* all the votes it explains, and applied by number of votes.  The same    *)
(* votes give the same sources.                                            *)
Sources(L) ==
  {s \in [votes : Coherent \cap SUBSET L, place : {PlaceOf[v] : v \in L}] :
     \E v \in s.votes : PlaceOf[v] = s.place}

Explains(s, L) ==
  LET Rest == L \ UNION {s[i].votes : i \in DOMAIN s} IN
  /\ \A S \in Coherent : ~ (S \subseteq Rest)
  /\ \A i, j \in DOMAIN s : i < j => /\ s[i].votes \cap s[j].votes = {}
                                     /\ Cardinality(s[j].votes) <= Cardinality(s[i].votes)
  /\ \A i \in DOMAIN s : \A S \in Coherent :
       s[i].votes \subseteq S /\ S \subseteq s[i].votes \cup Rest => S = s[i].votes

Clusters(L) ==
  {s \in UNION {[1..n -> Sources(L)] : n \in 0..(Cardinality(L) \div 2)} : Explains(s, L)}

ConsumedExpired(v) == consumed[v] # 0 /\ consumed[v] < now + 1 - 3 * Assoc

StartTick ==
  /\ ~ticking
  /\ now < MaxTime
  /\ now' = now + 1
  /\ ticking' = TRUE
  /\ CountVotes
  /\ consumed' = [v \in Vote |-> IF ConsumedExpired(v) THEN 0 ELSE consumed[v]]
  /\ \E cls \in IF cache.live = Live THEN {cache.clusters} ELSE Clusters(Live) :
       /\ todo' = cls
       /\ cache' = [live |-> Live, clusters |-> cls]
  /\ UNCHANGED <<voteVars, touched, event, C>>

(* apply: the head of todo, with the metrics evaluate gives it.            *)
Cluster == Head(todo).votes
Place   == Head(todo).place

Evaluations == {[units |-> Cardinality(Cluster), sig |-> e[1], clean |-> e[2]] : e \in Evidence}

Origin  == Lowest({onset[v] : v \in Cluster})
Support == Highest({heard[v] : v \in Cluster})

(* allPass(Checks): the unit count, the significance and, above candidate, *)
(* the checks that have nothing to do with either.                         *)
Passes(l, m) == m.units >= MinUnits[l] /\ m.sig >= l /\ (l >= Corroborated => m.clean)

(* The first active event that shares a vote, else the first one nearby.   *)
Sharing  == {i \in Active : event[i].keys \cap Cluster # {}}
Nearby   == {i \in Active : Dist(event[i].place, Place) <= MergeDist /\ Dist(event[i].origin, Origin) <= MergeSec}
Matching == IF Sharing # {} THEN {Lowest(Sharing)}
               ELSE IF Nearby # {} THEN {Lowest(Nearby)} ELSE {}

(* An event, active or recently closed, whose fragments the cluster is.    *)
Absorbs(i, m) ==
  /\ i \in Active \cup Recent
  /\ event[i].level >= Corroborated \/ event[i].m.units >= m.units
  /\ Dist(event[i].place, Place) <= ReachDist
  /\ event[i].origin - MergeSec <= Origin
  /\ Origin <= event[i].origin + Assoc

Applied ==
  /\ ticking
  /\ todo' = Tail(todo)
  /\ UNCHANGED <<now, voteVars, cache, ticking, counted, seen>>

(* A weaker cluster of an event that this tick has already updated.        *)
DropWeaker ==
  /\ todo # <<>>
  /\ Matching \cap touched # {}
  /\ Applied
  /\ UNCHANGED <<consumed, touched, event, C, background>>

Insignificant(m) ==
  /\ todo # <<>>
  /\ Matching = {}
  /\ ~Passes(1, m)
  /\ Applied
  /\ UNCHANGED <<consumed, touched, event, C, background>>

(* Its votes go to the first such event, the active ones first.            *)
Absorb(m) ==
  LET Takers == {i \in Active : Absorbs(i, m)} IN
  /\ todo # <<>>
  /\ Matching = {}
  /\ Passes(1, m)
  /\ \/ /\ Takers # {}
        /\ event' = [event EXCEPT ![Lowest(Takers)].keys = @ \cup Cluster,
                                  ![Lowest(Takers)].lastSupport = Later(@, Support)]
        /\ UNCHANGED consumed
     \/ /\ Takers = {}
        /\ \E i \in Recent : Absorbs(i, m)
        /\ consumed' = [v \in Vote |-> IF v \in Cluster THEN now ELSE consumed[v]]
        /\ UNCHANGED event
  /\ Applied
  /\ UNCHANGED <<touched, C, background>>

-----------------------------------------------------------------------------
(* grant: the hold timers, the level they give, and what follows from it.  *)

\* mutant: a level that fails keeps the time since which it passed
SinceFirst(r, m) ==
  [l \in Levels |-> IF Passes(l, m) /\ r.passSince[l] = 0 THEN now ELSE r.passSince[l]]

Since(r, m) ==
  [l \in Levels |-> IF ~Passes(l, m) THEN 0
                    ELSE IF r.passSince[l] = 0 THEN now ELSE r.passSince[l]]

\* mutant: the level is granted as soon as its criteria pass
GrantedAtOnce(r, m) == Highest({0} \cup {l \in Levels : Passes(l, m)})

Granted(r, m) ==
  Highest({0} \cup {l \in Levels : Passes(l, m) /\ now - Since(r, m)[l] >= HoldSec[l]})

(* r with metrics m evaluated at the current time.                         *)
Evaluated(r, m) ==
  LET lvl == Granted(r, m) IN
  [r EXCEPT !.passSince = Since(r, m),
            !.failed = [l \in Levels |-> IF Passes(l, m) THEN r.failed[l] ELSE now],
            !.level = Later(@, lvl),
            !.levelTimes = IF lvl > r.level THEN [r.levelTimes EXCEPT ![lvl] = now] ELSE @,
            !.explained = @ \/ (lvl > r.level /\ lvl >= Corroborated)]

\* mutant: a jump from candidate to confirmed counts once
CountsJumpOnce(k, old, new) ==
  CASE k = "created"      -> old.level = 0
    [] k = "corroborated" -> old.level < new.level /\ new.level = Corroborated
    [] k = "confirmed"    -> old.level < new.level /\ new.level = Confirmed
    [] k = "dismissed"    -> FALSE

CountsAs(k, old, new) ==
  CASE k = "created"      -> old.level = 0
    [] k = "corroborated" -> /\ old.level < new.level
                             /\ \/ new.level = Corroborated
                                \/ new.level = Confirmed /\ new.levelTimes[Corroborated] = 0
    [] k = "confirmed"    -> old.level < new.level /\ new.level = Confirmed
    [] k = "dismissed"    -> FALSE

\* mutant: a unit's background is not kept from falling below zero
AccountUnclamped(old, new) ==
  /\ C' = [k \in Counters |-> IF CountsAs(k, old, new) THEN C[k] + 1 ELSE C[k]]
  /\ background' =
       IF new.explained /\ ~old.explained
         THEN [u \in Unit |-> background[u] - Cardinality({v \in Cluster : UnitOf[v] = u})]
         ELSE background

(* The counters, and the votes that explain a corroborated event: they     *)
(* were not background.                                                    *)
Account(old, new) ==
  /\ C' = [k \in Counters |-> IF CountsAs(k, old, new) THEN C[k] + 1 ELSE C[k]]
  /\ background' =
       IF new.explained /\ ~old.explained
         THEN [u \in Unit |-> Later(0, background[u] - Cardinality({v \in Cluster : UnitOf[v] = u}))]
         ELSE background

(* r as the cluster shows it.                                              *)
Viewed(r, m) ==
  [r EXCEPT !.m = m, !.place = Place, !.origin = Origin, !.units = {UnitOf[v] : v \in Cluster}]

Backed(r) == [r EXCEPT !.keys = @ \cup Cluster, !.lastSupport = Later(@, Support)]

(* A new event; level 0 stands for the empty level it has before grant.    *)
Blank(m) ==
  [status |-> "active", outcome |-> "none", level |-> 0, created |-> now, closedAt |-> 0,
   levelTimes |-> [l \in Levels |-> 0], passSince |-> [l \in Levels |-> 0],
   m |-> m, place |-> Place, origin |-> Origin, keys |-> {}, units |-> {}, lastSupport |-> 0,
   explained |-> FALSE, missed |-> 0, failed |-> [l \in Levels |-> 0]]

\* mutant: a cluster is a new event wherever it is not an active one's
CreateUnabsorbed(m) ==
  LET old == Blank(m)
      new == Evaluated(Backed(Viewed(old, m)), m) IN
  /\ todo # <<>>
  /\ Sharing \cap touched = {}
  /\ Passes(1, m)
  /\ event' = Append(event, new)
  /\ touched' = touched \cup {Len(event) + 1}
  /\ Account(old, new)
  /\ Applied
  /\ UNCHANGED consumed

Create(m) ==
  LET old == Blank(m)
      new == Evaluated(Backed(Viewed(old, m)), m) IN
  /\ todo # <<>>
  /\ Matching = {}
  /\ Passes(1, m)
  /\ \A i \in DOMAIN event : ~Absorbs(i, m)
  /\ event' = Append(event, new)
  /\ touched' = touched \cup {Len(event) + 1}
  /\ Account(old, new)
  /\ Applied
  /\ UNCHANGED consumed

(* A weaker view leaves the evidence as it was, but the level decision     *)
(* still advances on it.                                                   *)
Weaker(r, m) == m.units < r.m.units /\ m.sig < r.m.sig

\* mutant: the level follows the latest evaluation down
UpdateDown(m) ==
  /\ todo # <<>>
  /\ \E i \in Matching \ touched :
       LET old == event[i]
           view == IF Weaker(old, m) THEN old ELSE Viewed(old, m)
           new == [Evaluated(Backed(view), view.m) EXCEPT !.level = Later(1, Granted(old, view.m))] IN
       /\ event' = [event EXCEPT ![i] = new]
       /\ touched' = touched \cup {i}
       /\ Account(old, new)
  /\ Applied
  /\ UNCHANGED consumed

Update(m) ==
  /\ todo # <<>>
  /\ \E i \in Matching \ touched :
       LET old == event[i]
           view == IF Weaker(old, m) THEN old ELSE Viewed(old, m)
           new == Evaluated(Backed(view), view.m) IN
       /\ event' = [event EXCEPT ![i] = new]
       /\ touched' = touched \cup {i}
       /\ Account(old, new)
  /\ Applied
  /\ UNCHANGED consumed

Apply == \E m \in Evaluations :
  \/ DropWeaker
  \/ Insignificant(m)
  \/ Absorb(m)
  \/ Create(m)
  \/ Update(m)

-----------------------------------------------------------------------------
(* The end of the tick: quiet events close and their votes are used up;    *)
(* closed ones are forgotten after a while.                                *)

IsQuiet(r) == now - r.lastSupport >= Quiet /\ now - r.origin >= MinAge

Closed(r) ==
  [r EXCEPT !.status = "recent", !.closedAt = now,
            !.outcome = IF r.level = 1 THEN "dismissed" ELSE "closed"]

CloseQuiet ==
  LET Closing == {i \in Active : IsQuiet(event[i])} IN
  /\ ticking
  /\ todo = <<>>
  /\ event' = [i \in DOMAIN event |->
       CASE i \in Closing -> Closed(event[i])
         [] i \in Recent /\ now - event[i].closedAt >= 2 * Assoc -> [event[i] EXCEPT !.status = "gone"]
         [] i \in (Active \ Closing) \ touched -> [event[i] EXCEPT !.missed = now]
         [] OTHER -> event[i]]
  /\ consumed' = [v \in Vote |-> IF \E i \in Closing : v \in event[i].keys THEN now ELSE consumed[v]]
  /\ C' = [C EXCEPT !["dismissed"] = @ + Cardinality({i \in Closing : event[i].level = 1})]
  /\ ticking' = FALSE
  /\ touched' = {}
  /\ UNCHANGED <<now, voteVars, cache, todo, unitVars>>

Next ==
  \/ \E v \in Vote : Arrive(v) \/ Withdraw(v)
  \/ StartTick
  \/ ticking /\ todo # <<>> /\ Apply
  \/ CloseQuiet

Spec == Init /\ [][Next]_vars

-----------------------------------------------------------------------------

TypeOK ==
  /\ now \in 1..MaxTime
  /\ onset \in [Vote -> 0..MaxTime]
  /\ heard \in [Vote -> 0..MaxTime]
  /\ consumed \in [Vote -> 0..MaxTime]
  /\ cache \in [live : SUBSET Vote, clusters : Seq([votes : SUBSET Vote, place : Int])]
  /\ todo \in Seq([votes : SUBSET Vote, place : Int])
  /\ ticking \in BOOLEAN
  /\ touched \subseteq DOMAIN event
  /\ event \in Seq(Event)
  /\ C \in [Counters -> Nat]
  /\ background \in [Unit -> Nat]
  /\ counted \in [Unit -> Int]
  /\ seen \subseteq Vote

(* No level is granted before its hold time has passed since the event was *)
(* created, and every level an event is at was granted at a known time.    *)
HeldLongEnough ==
  \A i \in DOMAIN event :
    /\ event[i].levelTimes[event[i].level] # 0
    /\ \A l \in Levels :
         event[i].levelTimes[l] # 0 => event[i].levelTimes[l] >= event[i].created + HoldSec[l]

(* When a level is granted, no evaluation within its hold time failed it:  *)
(* one failure restarts the hold, however strong the evidence became.      *)
NoFailureInHold ==
  [][\A i \in DOMAIN event :
       event'[i].level > event[i].level =>
         now - event[i].failed[event'[i].level] > HoldSec[event'[i].level]]_vars

(* "Criteria must hold continuously" (MODEL.md, config.go): in every tick  *)
(* of the hold time the engine saw the event and its criteria held.        *)
HeldEveryTick ==
  [][\A i \in DOMAIN event :
       event'[i].level > event[i].level =>
         now - event[i].missed > HoldSec[event'[i].level]]_vars

(* A new event is made of votes that no event before it has used: an       *)
(* active event takes the cluster instead, and what a closed one used is   *)
(* consumed for longer than a vote can live.                               *)
EvidenceUsedOnce ==
  [][\A n \in DOMAIN event' \ DOMAIN event :
       \A i \in DOMAIN event : event'[n].keys \cap event[i].keys = {}]_vars

(* The counters published for the engine count its events: each once at    *)
(* every level it reached or passed, however it got there.                 *)
CountersAgree ==
  /\ C["created"] = Len(event)
  /\ C["corroborated"] = Cardinality({i \in DOMAIN event : event[i].level >= Corroborated})
  /\ C["confirmed"] = Cardinality({i \in DOMAIN event : event[i].level = Confirmed})
  /\ C["dismissed"] = Cardinality({i \in DOMAIN event : event[i].outcome = "dismissed"})

(* "any number of phones in one building yields at most one vote" and so   *)
(* never an event (MODEL.md, TestOneBuildingNeverMakesAnEvent): a building *)
(* is one unit.                                                            *)
OneUnitMakesNoEvent ==
  \A i \in DOMAIN event : Cardinality(event[i].units) >= 2

(* What the rest of the server may assume of an event.                     *)
Life == INSTANCE EventLife WITH
  life <- [i \in DOMAIN event |-> [level |-> event[i].level,
                                   open |-> event[i].status = "active",
                                   outcome |-> event[i].outcome]]

LifeSpec == Life!Spec

=============================================================================
