---------------------------- MODULE Events_proofs ----------------------------
(***************************************************************************)
(* Proofs about Events: the types, the hold times, the counters, that no   *)
(* evidence is used for two events, and that events live as EventLife      *)
(* says.                                                                   *)
(***************************************************************************)
EXTENDS Events, TLAPS, FiniteSetTheorems, SequenceTheorems, WellFoundedInduction

-----------------------------------------------------------------------------
(* The inductive invariant.                                                *)

(* A vote that has picks was formed, and everything is dated in the past.  *)
VotesDated ==
  \A v \in Vote :
    /\ heard[v] # 0 => onset[v] # 0
    /\ onset[v] <= now /\ heard[v] <= now /\ consumed[v] <= now
    /\ consumed[v] # 0 => onset[v] # 0 /\ onset[v] <= consumed[v]

(* A vote that will not be live again: consumed, or too old for it.        *)
Spent(v) == consumed[v] # 0 \/ onset[v] < now + 1 - Assoc

(* What a closed event used is spent.                                      *)
KeysSpent ==
  \A i \in DOMAIN event : \A v \in event[i].keys :
    onset[v] # 0 /\ (event[i].status # "active" => Spent(v))

(* The clusters of the last search are made of the votes it was given, and *)
(* those that are still to be applied of votes that no closed event used.  *)
ClustersLive ==
  /\ \A k \in DOMAIN cache.clusters :
       cache.clusters[k].votes # {} /\ cache.clusters[k].votes \subseteq cache.live
  /\ \A k \in DOMAIN todo :
       /\ todo[k].votes # {}
       /\ \A v \in todo[k].votes :
            /\ onset[v] # 0
            /\ \A i \in DOMAIN event : event[i].status # "active" => v \notin event[i].keys

(* The hold timers: a level that passes has passed since after the event   *)
(* was created and since after it last failed; an event that this tick has *)
(* not updated has not failed in it.                                       *)
TimersDated ==
  \A i \in DOMAIN event :
    /\ event[i].created \in 1..now
    /\ \A l \in Levels :
         /\ event[i].passSince[l] # 0 => /\ event[i].passSince[l] \in event[i].created..now
                                         /\ event[i].failed[l] < event[i].passSince[l]
         /\ event[i].failed[l] <= now
         /\ ticking /\ i \notin touched => event[i].failed[l] < now

(* No level above the event's own was ever granted, and the outcome is the *)
(* one its level gives, once it is closed.                                 *)
Graded ==
  \A i \in DOMAIN event :
    /\ \A l \in Levels : event[i].levelTimes[l] # 0 => l <= event[i].level
    /\ event[i].outcome = IF event[i].status = "active" THEN "none"
                          ELSE IF event[i].level = 1 THEN "dismissed" ELSE "closed"

Inv ==
  /\ TypeOK
  /\ VotesDated
  /\ KeysSpent
  /\ ClustersLive
  /\ TimersDated
  /\ Graded
  /\ HeldLongEnough
  /\ CountersAgree

-----------------------------------------------------------------------------
(* Least and greatest elements.                                            *)

LEMMA LowestIn ==
  ASSUME NEW S \in SUBSET Nat, S # {}
  PROVE  Lowest(S) \in S /\ \A y \in S : Lowest(S) <= y
<1>1. OpToRel(<, Nat) = {ss \in Nat \X Nat : ss[1] < ss[2]}
  BY Zenon DEF OpToRel
<1>2. PICK x \in S : \A y \in S : ~ (<<y, x>> \in OpToRel(<, Nat))
  BY NatLessThanWellFounded, WFMin
<1>3. \A y \in S : x <= y
  <2> TAKE y \in S
  <2>1. ~ (<<y, x>> \in {ss \in Nat \X Nat : ss[1] < ss[2]})
    BY <1>1, <1>2
  <2>2. QED  BY <2>1
<1>4. QED  BY <1>3 DEF Lowest

LEMMA HighestIn ==
  ASSUME NEW S \in SUBSET Int, S # {}, NEW n \in Int, \A y \in S : y <= n
  PROVE  Highest(S) \in S /\ \A y \in S : y <= Highest(S)
<1> DEFINE Below == {n - y : y \in S}
<1>1. \A y \in S : y \in Int /\ n - y \in Nat
  OBVIOUS
<1>2. Below \in SUBSET Nat /\ Below # {}
  BY <1>1
<1> HIDE DEF Below
<1>3. PICK b \in Below : \A c \in Below : b <= c
  BY <1>2, LowestIn
<1>4. PICK x \in S : b = n - x
  BY DEF Below
<1>5. \A y \in S : y <= x
  <2> TAKE y \in S
  <2>1. n - y \in Below
    BY DEF Below
  <2>2. n - x <= n - y
    BY <1>3, <1>4, <2>1
  <2>3. QED  BY <1>1, <2>2
<1>6. QED  BY <1>5 DEF Highest

LEMMA LaterOf ==
  ASSUME NEW a \in Int, NEW b \in Int
  PROVE  /\ Later(a, b) \in {a, b} /\ a <= Later(a, b) /\ b <= Later(a, b)
  BY DEF Later

-----------------------------------------------------------------------------
(* What a tick finds, and what grant makes of it.  A new event has level 0  *)
(* until it is evaluated.                                                  *)

Draft == EventAt(0..3)

LEMMA Numbers ==
  ASSUME TypeOK
  PROVE  /\ now \in Nat \ {0} /\ MaxTime \in Nat /\ Assoc \in Nat \ {0}
         /\ \A v \in Vote : onset[v] \in Nat /\ heard[v] \in Nat /\ consumed[v] \in Nat
         /\ \A l \in Levels : HoldSec[l] \in Nat
  BY ConfigAssumption DEF TypeOK

LEMMA EventsFinite ==
  ASSUME TypeOK
  PROVE  /\ Len(event) \in Nat /\ DOMAIN event = 1..Len(event)
         /\ IsFiniteSet(DOMAIN event)
         /\ \A i \in DOMAIN event : event[i] \in Event
<1>1. event \in Seq(Event)
  BY DEF TypeOK
<1>2. Len(event) \in Nat /\ DOMAIN event = 1..Len(event)
  BY <1>1
<1>3. IsFiniteSet(1..Len(event))
  BY <1>2, FS_Interval
<1>4. \A i \in DOMAIN event : event[i] \in Event
  BY <1>1, <1>2
<1>5. QED  BY <1>2, <1>3, <1>4

(* Levels that are granted pass and have been held.                        *)
LEMMA GrantedIs ==
  ASSUME NEW r, NEW m
  PROVE  /\ Granted(r, m) \in 0..3
         /\ Granted(r, m) # 0 => /\ Passes(Granted(r, m), m)
                                 /\ now - Since(r, m)[Granted(r, m)] >= HoldSec[Granted(r, m)]
         /\ \A l \in Levels : Passes(l, m) /\ now - Since(r, m)[l] >= HoldSec[l] => l <= Granted(r, m)
<1> DEFINE G == {0} \cup {l \in Levels : Passes(l, m) /\ now - Since(r, m)[l] >= HoldSec[l]}
<1>1. G \in SUBSET Int /\ G # {} /\ \A y \in G : y <= 3
  BY DEF Levels
<1>2. Granted(r, m) = Highest(G)
  BY DEF Granted
<1> HIDE DEF G
<1>3. Highest(G) \in G /\ \A y \in G : y <= Highest(G)
  BY <1>1, HighestIn
<1>4. QED  BY <1>2, <1>3 DEF G, Levels

LEMMA SinceIs ==
  ASSUME NEW r \in Draft, NEW m, now \in Nat \ {0}
  PROVE  /\ Since(r, m) \in [Levels -> Nat]
         /\ \A l \in Levels : Since(r, m)[l] = IF ~Passes(l, m) THEN 0
                              ELSE IF r.passSince[l] = 0 THEN now ELSE r.passSince[l]
  BY DEF Since, Draft, EventAt

LEMMA EvaluatedIs ==
  ASSUME NEW r \in Draft, NEW m, now \in Nat \ {0}, Granted(r, m) # 0 \/ r.level # 0
  PROVE  LET e == Evaluated(r, m)
             lvl == Granted(r, m)
         IN  /\ e \in Event
             /\ e.passSince = Since(r, m)
             /\ \A l \in Levels : e.failed[l] = IF Passes(l, m) THEN r.failed[l] ELSE now
             /\ e.level = Later(r.level, lvl)
             /\ lvl <= r.level => e.levelTimes = r.levelTimes
             /\ lvl > r.level => /\ e.level = lvl /\ e.levelTimes[lvl] = now
                                 /\ \A l \in Levels \ {lvl} : e.levelTimes[l] = r.levelTimes[l]
             /\ e.keys = r.keys /\ e.created = r.created /\ e.status = r.status
             /\ e.outcome = r.outcome
             /\ r.explained => e.explained
<1> DEFINE e == Evaluated(r, m)
           lvl == Granted(r, m)
<1>1. lvl \in 0..3 /\ r.level \in 0..3 /\ r.explained \in BOOLEAN
      /\ r.levelTimes \in [Levels -> Nat] /\ r.failed \in [Levels -> Nat]
  BY GrantedIs DEF Draft, EventAt
<1>2. Since(r, m) \in [Levels -> Nat]
  BY SinceIs
<1> DEFINE failed == [l \in Levels |-> IF Passes(l, m) THEN r.failed[l] ELSE now]
           times == IF lvl > r.level THEN [r.levelTimes EXCEPT ![lvl] = now] ELSE r.levelTimes
           known == r.explained \/ (lvl > r.level /\ lvl >= Corroborated)
<1>3. e = [r EXCEPT !.passSince = Since(r, m), !.failed = failed, !.level = Later(@, lvl),
                    !.levelTimes = times, !.explained = known]
  BY DEF Evaluated
<1>4. failed \in [Levels -> Nat]
  BY <1>1
<1>5. times \in [Levels -> Nat]
  BY <1>1
<1>6. known \in BOOLEAN
  BY <1>1
<1>7. Later(r.level, lvl) \in Levels
  BY <1>1 DEF Later, Levels
<1> HIDE DEF failed, times, known, lvl
<1>8. /\ e.passSince = Since(r, m) /\ e.failed = failed /\ e.level = Later(r.level, lvl)
      /\ e.levelTimes = times /\ e.explained = known
      /\ e.keys = r.keys /\ e.created = r.created /\ e.status = r.status /\ e.outcome = r.outcome
      /\ e \in Event
  BY <1>2, <1>3, <1>4, <1>5, <1>6, <1>7 DEF Draft, Event, EventAt
<1>9. lvl > r.level => lvl \in Levels /\ Later(r.level, lvl) = lvl
  BY <1>1 DEF Later, Levels
<1>10. QED  BY <1>1, <1>8, <1>9 DEF failed, times, known, lvl

(* new is old after one evaluation of it, backed by the cluster applied.   *)
Advances(old, new) ==
  /\ new \in Event
  /\ new.keys = old.keys \cup Cluster
  /\ new.status = old.status /\ new.outcome = old.outcome /\ new.created = old.created
  /\ \A l \in Levels :
       \/ new.passSince[l] = 0 /\ new.failed[l] = now
       \/ /\ new.passSince[l] = IF old.passSince[l] = 0 THEN now ELSE old.passSince[l]
          /\ new.failed[l] = old.failed[l]
  /\ old.level <= new.level
  /\ new.level = old.level => new.levelTimes = old.levelTimes
  /\ new.level > old.level =>
       /\ new.levelTimes[new.level] = now
       /\ \A l \in Levels \ {new.level} : new.levelTimes[l] = old.levelTimes[l]
       /\ now - new.passSince[new.level] >= HoldSec[new.level]
       /\ new.passSince[new.level] = IF old.passSince[new.level] = 0 THEN now
                                     ELSE old.passSince[new.level]
       /\ new.failed[new.level] = old.failed[new.level]

LEMMA ClusterIs ==
  ASSUME Inv, todo # <<>>
  PROVE  /\ Cluster \subseteq Vote /\ Cluster # {} /\ IsFiniteSet(Cluster)
         /\ Cardinality(Cluster) \in Nat
         /\ Place \in Int /\ Origin \in Nat /\ Support \in Nat
         /\ \A v \in Cluster :
              /\ onset[v] # 0
              /\ \A i \in DOMAIN event : event[i].status # "active" => v \notin event[i].keys
         /\ Tail(todo) \in Seq([votes : SUBSET Vote, place : Int])
         /\ \A k \in DOMAIN Tail(todo) : \E j \in DOMAIN todo : Tail(todo)[k] = todo[j]
<1> DEFINE S == [votes : SUBSET Vote, place : Int]
<1>0. todo \in Seq(S)
  BY DEF Inv, TypeOK
<1> HIDE DEF S
<1>1. todo \in Seq(S) /\ Len(todo) \in Nat \ {0} /\ DOMAIN todo = 1..Len(todo)
  BY <1>0, EmptySeq
<1>2. 1 \in DOMAIN todo /\ Head(todo) = todo[1] /\ Head(todo) \in S
  BY <1>1
<1>3. /\ Cluster \subseteq Vote /\ Cluster # {} /\ Place \in Int
      /\ \A v \in Cluster :
              /\ onset[v] # 0
              /\ \A i \in DOMAIN event : event[i].status # "active" => v \notin event[i].keys
  BY <1>2 DEF S, Cluster, Place, Inv, ClustersLive
<1>4. IsFiniteSet(Cluster) /\ Cardinality(Cluster) \in Nat
  BY <1>3, FS_Subset, FS_CardinalityType, VoteAssumption
<1> HIDE DEF Cluster
<1>5. Origin \in Nat
  <2>1. \A v \in Cluster : onset[v] \in Nat
    BY <1>3, Numbers DEF Inv
  <2>2. {onset[v] : v \in Cluster} \in SUBSET Nat /\ {onset[v] : v \in Cluster} # {}
    BY <1>3, <2>1
  <2>3. QED  BY <2>2, LowestIn DEF Origin
<1>6. Support \in Nat
  <2> DEFINE H == {heard[v] : v \in Cluster}
  <2>1. \A v \in Cluster : heard[v] \in Nat /\ heard[v] <= MaxTime
    BY <1>3, ConfigAssumption DEF Inv, TypeOK
  <2>2. H \in SUBSET Nat /\ H # {} /\ \A y \in H : y <= MaxTime
    BY <1>3, <2>1
  <2>3. MaxTime \in Int /\ Support = Highest(H)
    BY ConfigAssumption DEF Support
  <2> HIDE DEF H
  <2>4. H \in SUBSET Int
    BY <2>2
  <2>5. QED  BY <2>2, <2>3, <2>4, HighestIn
<1>7. /\ Tail(todo) \in Seq(S)
      /\ \A k \in DOMAIN Tail(todo) : k + 1 \in DOMAIN todo /\ Tail(todo)[k] = todo[k + 1]
  BY <1>1
<1>8. QED  BY <1>3, <1>4, <1>5, <1>6, <1>7 DEF S

LEMMA AdvanceIs ==
  ASSUME Inv, todo # <<>>, NEW r \in Draft, NEW m \in Metrics,
         r.level # 0 \/ (Passes(1, m) /\ r.passSince[1] = 0)
  PROVE  Advances(r, Evaluated(Backed(r), m))
<1> DEFINE b == Backed(r)
           e == Evaluated(b, m)
           lvl == Granted(b, m)
<1>1. /\ b \in Draft /\ b.keys = r.keys \cup Cluster
      /\ b.status = r.status /\ b.outcome = r.outcome /\ b.created = r.created
      /\ b.level = r.level /\ b.passSince = r.passSince /\ b.failed = r.failed
      /\ b.levelTimes = r.levelTimes
  <2>1. Later(r.lastSupport, Support) \in Nat /\ r.keys \cup Cluster \in SUBSET Vote
    BY ClusterIs, LaterOf DEF Draft, EventAt
  <2>2. QED  BY <2>1 DEF Backed, Draft, EventAt
<1>2. /\ now \in Nat \ {0} /\ \A l \in Levels : HoldSec[l] \in Nat
      /\ r.level \in 0..3 /\ \A l \in Levels : r.passSince[l] \in Nat
  BY Numbers DEF Inv, Draft, EventAt
<1> HIDE DEF b
<1>3. /\ lvl \in 0..3
      /\ lvl # 0 => Passes(lvl, m) /\ now - Since(b, m)[lvl] >= HoldSec[lvl]
      /\ \A l \in Levels : Passes(l, m) /\ now - Since(b, m)[l] >= HoldSec[l] => l <= lvl
  BY GrantedIs
<1>4. \A l \in Levels : Since(b, m)[l] = IF ~Passes(l, m) THEN 0
                              ELSE IF r.passSince[l] = 0 THEN now ELSE r.passSince[l]
  BY <1>1, <1>2, SinceIs
<1>5. lvl # 0 \/ b.level # 0
  <2>1. HoldSec[1] = 0 /\ 1 \in Levels
    BY ConfigAssumption DEF Levels
  <2>2. QED  BY <1>1, <1>2, <1>3, <1>4, <2>1
<1>6. /\ e \in Event
      /\ e.passSince = Since(b, m)
      /\ \A l \in Levels : e.failed[l] = IF Passes(l, m) THEN b.failed[l] ELSE now
      /\ e.level = Later(b.level, lvl)
      /\ lvl <= b.level => e.levelTimes = b.levelTimes
      /\ lvl > b.level => /\ e.level = lvl /\ e.levelTimes[lvl] = now
                          /\ \A l \in Levels \ {lvl} : e.levelTimes[l] = b.levelTimes[l]
      /\ e.keys = b.keys /\ e.created = b.created /\ e.status = b.status /\ e.outcome = b.outcome
  BY <1>1, <1>2, <1>5, EvaluatedIs
<1> HIDE DEF e, lvl
<1>7. e.level = IF r.level < lvl THEN lvl ELSE r.level
  BY <1>1, <1>6 DEF Later
<1>8. \A l \in Levels :
       \/ e.passSince[l] = 0 /\ e.failed[l] = now
       \/ /\ e.passSince[l] = IF r.passSince[l] = 0 THEN now ELSE r.passSince[l]
          /\ e.failed[l] = r.failed[l]
  BY <1>1, <1>4, <1>6
<1>9. /\ r.level <= e.level
      /\ e.level = r.level => e.levelTimes = r.levelTimes
  BY <1>1, <1>2, <1>3, <1>6, <1>7
<1>10. e.level > r.level =>
       /\ e.levelTimes[e.level] = now
       /\ \A l \in Levels \ {e.level} : e.levelTimes[l] = r.levelTimes[l]
       /\ now - e.passSince[e.level] >= HoldSec[e.level]
       /\ e.passSince[e.level] = IF r.passSince[e.level] = 0 THEN now ELSE r.passSince[e.level]
       /\ e.failed[e.level] = r.failed[e.level]
  <2> HAVE e.level > r.level
  <2>1. e.level = lvl /\ lvl > b.level /\ lvl \in Levels /\ Passes(lvl, m)
        /\ now - Since(b, m)[lvl] >= HoldSec[lvl]
    BY <1>1, <1>2, <1>3, <1>7 DEF Levels
  <2>2. QED  BY <1>1, <1>4, <1>6, <2>1
<1>11. QED
  <2>1. /\ e \in Event /\ e.keys = r.keys \cup Cluster /\ e.status = r.status
        /\ e.outcome = r.outcome /\ e.created = r.created
    BY <1>1, <1>6
  <2>2. Advances(r, e)
    BY <1>8, <1>9, <1>10, <2>1 DEF Advances
  <2>3. QED  BY <2>2 DEF e, b

-----------------------------------------------------------------------------
(* The steps of a tick that update an event or create one.                 *)

(* What the invariant says of an event's record.                           *)
SameGrade(r, q) ==
  /\ r.status = q.status /\ r.outcome = q.outcome /\ r.level = q.level /\ r.created = q.created
  /\ r.keys = q.keys /\ r.levelTimes = q.levelTimes /\ r.passSince = q.passSince
  /\ r.failed = q.failed

Unborn(r) ==
  /\ r.status = "active" /\ r.outcome = "none" /\ r.level = 0 /\ r.created = now /\ r.keys = {}
  /\ \A l \in Levels : r.levelTimes[l] = 0 /\ r.passSince[l] = 0 /\ r.failed[l] = 0

(* Event i, that old describes, becomes new; if there is none, it is the   *)
(* next one.                                                               *)
Becomes(i, old, new) ==
  /\ todo # <<>> /\ Applied /\ UNCHANGED consumed
  /\ i \notin touched /\ touched' = touched \cup {i}
  /\ event' \in Seq(Event) /\ DOMAIN event' = DOMAIN event \cup {i} /\ event'[i] = new
  /\ \A j \in DOMAIN event \ {i} : event'[j] = event[j]
  /\ \/ i \in DOMAIN event /\ SameGrade(old, event[i]) /\ event[i].status = "active"
        /\ Len(event') = Len(event)
     \/ i = Len(event) + 1 /\ Unborn(old) /\ Len(event') = Len(event) + 1
  /\ Advances(old, new) /\ Account(old, new)

LEMMA TodoKept ==
  ASSUME Inv, todo # <<>>, todo' = Tail(todo), UNCHANGED <<onset, cache>>,
         \A i \in DOMAIN event' : event'[i].status # "active" =>
           i \in DOMAIN event /\ event[i].status # "active" /\ event'[i].keys \subseteq event[i].keys
  PROVE  ClustersLive'
<1>1. /\ \A k \in DOMAIN cache.clusters :
           cache.clusters[k].votes # {} /\ cache.clusters[k].votes \subseteq cache.live
      /\ \A k \in DOMAIN todo :
           /\ todo[k].votes # {}
           /\ \A v \in todo[k].votes :
                /\ onset[v] # 0
                /\ \A i \in DOMAIN event : event[i].status # "active" => v \notin event[i].keys
  BY DEF Inv, ClustersLive
<1>2. \A k \in DOMAIN todo' : \E j \in DOMAIN todo : todo'[k] = todo[j]
  BY ClusterIs
<1>3. QED  BY <1>1, <1>2 DEF ClustersLive

LEMMA AccountIs ==
  ASSUME Inv, todo # <<>>, NEW old, NEW new, Account(old, new)
  PROVE  /\ background' \in [Unit -> Nat] /\ C' \in [Counters -> Nat]
         /\ \A k \in Counters : C'[k] = IF CountsAs(k, old, new) THEN C[k] + 1 ELSE C[k]
<1>1. /\ C' = [k \in Counters |-> IF CountsAs(k, old, new) THEN C[k] + 1 ELSE C[k]]
      /\ background' =
           IF new.explained /\ ~old.explained
             THEN [u \in Unit |-> Later(0, background[u] - Cardinality({v \in Cluster : UnitOf[v] = u}))]
             ELSE background
  BY DEF Account
<1>2. C \in [Counters -> Nat] /\ background \in [Unit -> Nat]
  BY DEF Inv, TypeOK
<1>3. \A u \in Unit : Later(0, background[u] - Cardinality({v \in Cluster : UnitOf[v] = u})) \in Nat
  <2> TAKE u \in Unit
  <2>1. Cardinality({v \in Cluster : UnitOf[v] = u}) \in Nat
    BY ClusterIs, FS_Subset, FS_CardinalityType
  <2>2. QED  BY <1>2, <2>1 DEF Later
<1>4. QED  BY <1>1, <1>2, <1>3

(* Of a set of events that only i may come to belong to.                   *)
LEMMA CountOne ==
  ASSUME NEW S, IsFiniteSet(S), NEW i, NEW T, T = IF i \in T THEN S \cup {i} ELSE S
  PROVE  /\ IsFiniteSet(T)
         /\ Cardinality(T) = IF i \in T /\ i \notin S THEN Cardinality(S) + 1 ELSE Cardinality(S)
<1>1. CASE i \in T /\ i \notin S
  <2>1. T = S \cup {i}
    BY <1>1
  <2>2. QED  BY <1>1, <2>1, FS_AddElement
<1>2. CASE ~(i \in T /\ i \notin S)
  <2>1. T = S
    BY <1>2
  <2>2. QED  BY <1>2, <2>1
<1>3. QED  BY <1>1, <1>2

(* What old is, before it is looked up whether there is such an event.     *)
LEMMA BecomesFrom ==
  ASSUME Inv, NEW i, NEW old, NEW new, Becomes(i, old, new)
  PROVE  /\ new \in Event /\ new.level \in Levels
         /\ new.status = "active" /\ new.outcome = "none"
         /\ old.status = "active" /\ old.outcome = "none"
         /\ old.created \in 1..now /\ old.level \in 0..3
         /\ \A v \in old.keys : onset[v] # 0
         /\ \A l \in Levels :
              /\ old.passSince[l] # 0 => /\ old.passSince[l] \in old.created..now
                                         /\ old.failed[l] < old.passSince[l]
              /\ old.failed[l] \in Nat /\ old.passSince[l] \in Nat /\ old.levelTimes[l] \in Nat
              /\ old.failed[l] <= now
              /\ ticking => old.failed[l] < now
              /\ old.levelTimes[l] # 0 => l <= old.level /\ old.levelTimes[l] >= old.created + HoldSec[l]
         /\ old.level # 0 => old.levelTimes[old.level] # 0
<1>1. now \in Nat \ {0}
  BY Numbers DEF Inv
<1>2. new \in Event /\ new.level \in Levels /\ new.status = old.status /\ new.outcome = old.outcome
  BY DEF Becomes, Advances, Event, EventAt
<1>3. CASE i \in DOMAIN event /\ SameGrade(old, event[i]) /\ event[i].status = "active"
  <2>1. event[i] \in Event
    BY <1>3, EventsFinite DEF Inv
  <2>2. /\ event[i].level \in Levels /\ event[i].failed \in [Levels -> Nat]
        /\ event[i].passSince \in [Levels -> Nat] /\ event[i].levelTimes \in [Levels -> Nat]
        /\ event[i].level \in 0..3 /\ event[i].level # 0
    BY <2>1 DEF Event, EventAt, Levels
  <2>3. i \notin touched
    BY DEF Becomes
  <2>4. /\ event[i].created \in 1..now /\ event[i].outcome = "none"
        /\ \A v \in event[i].keys : onset[v] # 0
        /\ event[i].levelTimes[event[i].level] # 0
        /\ \A l \in Levels :
              /\ event[i].passSince[l] # 0 => /\ event[i].passSince[l] \in event[i].created..now
                                              /\ event[i].failed[l] < event[i].passSince[l]
              /\ event[i].failed[l] <= now
              /\ ticking => event[i].failed[l] < now
              /\ event[i].levelTimes[l] # 0 => l <= event[i].level
              /\ event[i].levelTimes[l] # 0 => event[i].levelTimes[l] >= event[i].created + HoldSec[l]
    BY <1>3, <2>3 DEF Inv, TimersDated, Graded, HeldLongEnough, KeysSpent
  <2>5. QED  BY <1>2, <1>3, <2>2, <2>4 DEF SameGrade
<1>4. CASE i = Len(event) + 1 /\ Unborn(old)
  BY <1>1, <1>2, <1>4 DEF Unborn
<1>5. QED  BY <1>3, <1>4 DEF Becomes

LEMMA InvBecomes ==
  ASSUME Inv, NEW i, NEW old, NEW new, Becomes(i, old, new)
  PROVE  Inv'
<1>1. /\ now \in Nat \ {0}
      /\ \A l \in Levels : HoldSec[l] \in Nat
      /\ UNCHANGED <<now, onset, heard, consumed, cache, ticking, counted, seen>>
      /\ ticking /\ todo # <<>> /\ todo' = Tail(todo)
      /\ i \notin touched /\ touched' = touched \cup {i}
      /\ event' \in Seq(Event) /\ DOMAIN event' = DOMAIN event \cup {i} /\ event'[i] = new
      /\ \A j \in DOMAIN event \ {i} : event'[j] = event[j]
      /\ Advances(old, new) /\ Account(old, new)
  BY Numbers DEF Inv, Becomes, Applied, voteVars
<1>2. /\ new \in Event /\ new.level \in Levels
      /\ new.status = "active" /\ new.outcome = "none"
      /\ old.status = "active" /\ old.outcome = "none"
      /\ old.created \in 1..now /\ old.level \in 0..3
      /\ \A v \in old.keys : onset[v] # 0
      /\ \A l \in Levels :
              /\ old.passSince[l] # 0 => /\ old.passSince[l] \in old.created..now
                                         /\ old.failed[l] < old.passSince[l]
              /\ old.failed[l] \in Nat /\ old.passSince[l] \in Nat /\ old.levelTimes[l] \in Nat
              /\ old.failed[l] <= now
              /\ old.failed[l] < now
              /\ old.levelTimes[l] # 0 => l <= old.level /\ old.levelTimes[l] >= old.created + HoldSec[l]
      /\ old.level # 0 => old.levelTimes[old.level] # 0
  BY <1>1, BecomesFrom
<1>3. TypeOK'
  <2>1. todo' \in Seq([votes : SUBSET Vote, place : Int])
    BY <1>1, ClusterIs
  <2>2. background' \in [Unit -> Nat] /\ C' \in [Counters -> Nat]
    BY <1>1, AccountIs
  <2>3. touched' \subseteq DOMAIN event'
    BY <1>1 DEF Inv, TypeOK
  <2>4. QED  BY <1>1, <2>1, <2>2, <2>3 DEF Inv, TypeOK
<1>4. VotesDated'
  BY <1>1 DEF Inv, VotesDated
<1>5. KeysSpent'
  <2>1. \A v \in new.keys : onset[v] # 0
    BY <1>1, <1>2, ClusterIs DEF Advances
  <2>2. QED  BY <1>1, <1>2, <2>1 DEF Inv, KeysSpent, Spent
<1>6. ClustersLive'
  <2>1. \A j \in DOMAIN event' : event'[j].status # "active" =>
           j \in DOMAIN event /\ event[j].status # "active" /\ event'[j].keys \subseteq event[j].keys
    BY <1>1, <1>2
  <2>2. QED  BY <1>1, <2>1, TodoKept
<1>7. TimersDated'
  <2>1. new.created = old.created
    BY <1>1 DEF Advances
  <2>2. \A l \in Levels :
         /\ new.passSince[l] # 0 => /\ new.passSince[l] \in new.created..now
                                    /\ new.failed[l] < new.passSince[l]
         /\ new.failed[l] <= now
    BY <1>1, <1>2 DEF Advances
  <2>3. QED  BY <1>1, <1>2, <2>1, <2>2 DEF Inv, TimersDated
<1>8. Graded'
  <2>1. ASSUME NEW l \in Levels, new.levelTimes[l] # 0 PROVE l <= new.level
    <3>1. /\ old.level <= new.level
          /\ new.level = old.level => new.levelTimes = old.levelTimes
          /\ new.level > old.level => l = new.level \/ new.levelTimes[l] = old.levelTimes[l]
      BY <1>1 DEF Advances
    <3>2. l \in 1..3 /\ new.level \in 1..3
      BY <1>2 DEF Levels
    <3>3. l = new.level \/ new.levelTimes[l] = old.levelTimes[l]
      BY <1>2, <3>1, <3>2
    <3>4. QED  BY <1>2, <2>1, <3>1, <3>2, <3>3
  <2>2. QED  BY <1>1, <1>2, <2>1 DEF Inv, Graded
<1>9. HeldLongEnough'
  <2>1. new.created = old.created
    BY <1>1 DEF Advances
  <2>2. CASE new.level = old.level
    <3>1. new.levelTimes = old.levelTimes /\ old.level # 0
      BY <1>1, <1>2, <2>2 DEF Advances, Levels
    <3>2. /\ new.levelTimes[new.level] # 0
          /\ \A l \in Levels : new.levelTimes[l] # 0 => new.levelTimes[l] >= new.created + HoldSec[l]
      BY <1>2, <2>1, <2>2, <3>1
    <3>3. QED  BY <1>1, <3>2 DEF Inv, HeldLongEnough
  <2>3. CASE new.level > old.level
    <3>1. /\ new.levelTimes[new.level] = now
          /\ \A l \in Levels \ {new.level} : new.levelTimes[l] = old.levelTimes[l]
          /\ now - new.passSince[new.level] >= HoldSec[new.level]
          /\ new.passSince[new.level] \in old.created..now
      BY <1>1, <1>2, <2>3 DEF Advances
    <3>2. \A l \in Levels : new.levelTimes[l] # 0 => new.levelTimes[l] >= new.created + HoldSec[l]
      BY <1>1, <1>2, <2>1, <3>1
    <3>3. new.levelTimes[new.level] # 0
      BY <1>1, <3>1
    <3>4. QED  BY <1>1, <3>2, <3>3 DEF Inv, HeldLongEnough
  <2>4. old.level <= new.level
    BY <1>1 DEF Advances
  <2>5. QED  BY <1>2, <2>2, <2>3, <2>4 DEF Levels
<1>10. CountersAgree'
  <2>1. /\ IsFiniteSet(DOMAIN event) /\ DOMAIN event = 1..Len(event) /\ Len(event) \in Nat
        /\ C["created"] = Len(event)
        /\ C["corroborated"] = Cardinality({j \in DOMAIN event : event[j].level >= Corroborated})
        /\ C["confirmed"] = Cardinality({j \in DOMAIN event : event[j].level = Confirmed})
        /\ C["dismissed"] = Cardinality({j \in DOMAIN event : event[j].outcome = "dismissed"})
    BY EventsFinite DEF Inv, CountersAgree
  <2>2. \A k \in Counters : C'[k] = IF CountsAs(k, old, new) THEN C[k] + 1 ELSE C[k]
    BY <1>1, AccountIs
  <2>3. /\ old.level \in 0..3 /\ new.level \in 1..3 /\ old.level <= new.level
        /\ new.level = Confirmed /\ old.level < Corroborated => new.levelTimes[Corroborated] = 0
        /\ new.level = Confirmed /\ old.level = Corroborated => new.levelTimes[Corroborated] # 0
    <3>1. old.level <= new.level /\ new.level \in 1..3
      BY <1>1, <1>2 DEF Advances, Levels
    <3>2. ASSUME new.level = Confirmed, old.level # Confirmed
          PROVE  new.levelTimes[Corroborated] = old.levelTimes[Corroborated]
      BY <1>1, <1>2, <3>1, <3>2 DEF Advances, Levels, Confirmed, Corroborated
    <3>3. /\ old.level < Corroborated => old.levelTimes[Corroborated] = 0
          /\ old.level = Corroborated => old.levelTimes[Corroborated] # 0
      BY <1>2 DEF Levels, Corroborated
    <3>4. QED  BY <1>2, <3>1, <3>2, <3>3 DEF Confirmed, Corroborated
  <2>4. \/ i \in DOMAIN event /\ event[i].level = old.level /\ event[i].outcome = "none"
           /\ Len(event') = Len(event) /\ old.level # 0
        \/ i \notin DOMAIN event /\ old.level = 0 /\ Len(event') = Len(event) + 1
    <3>1. i \in DOMAIN event => event[i].level # 0
      <4>1. \A e \in Event : e.level # 0
        BY DEF Event, EventAt, Levels
      <4>2. QED  BY <4>1, EventsFinite DEF Inv
    <3>2. i = Len(event) + 1 => i \notin DOMAIN event
      BY <2>1
    <3>3. QED  BY <1>2, <3>1, <3>2 DEF Becomes, SameGrade, Unborn
  <2>5. C'["created"] = Len(event')
    BY <2>1, <2>2, <2>4 DEF CountsAs, Counters
  <2>6. C'["corroborated"] = Cardinality({j \in DOMAIN event' : event'[j].level >= Corroborated})
    <3> DEFINE S == {j \in DOMAIN event : event[j].level >= Corroborated}
               T == {j \in DOMAIN event' : event'[j].level >= Corroborated}
    <3>1. IsFiniteSet(S) /\ T = IF i \in T THEN S \cup {i} ELSE S
      BY <1>1, <2>1, <2>3, <2>4, FS_Subset DEF Corroborated
    <3>2. i \in T <=> new.level >= Corroborated
      BY <1>1
    <3>3. i \in S <=> old.level >= Corroborated
      BY <2>4 DEF Corroborated
    <3>4. CountsAs("corroborated", old, new) <=> i \in T /\ i \notin S
      BY <2>3, <3>2, <3>3 DEF CountsAs, Corroborated, Confirmed
    <3> HIDE DEF S, T
    <3>5. Cardinality(T) = IF i \in T /\ i \notin S THEN Cardinality(S) + 1 ELSE Cardinality(S)
      BY <3>1, CountOne
    <3>6. C'["corroborated"] = Cardinality(T)
      BY <2>1, <2>2, <3>4, <3>5 DEF S, Counters
    <3>7. QED  BY <3>6 DEF T
  <2>7. C'["confirmed"] = Cardinality({j \in DOMAIN event' : event'[j].level = Confirmed})
    <3> DEFINE S == {j \in DOMAIN event : event[j].level = Confirmed}
               T == {j \in DOMAIN event' : event'[j].level = Confirmed}
    <3>1. IsFiniteSet(S) /\ T = IF i \in T THEN S \cup {i} ELSE S
      BY <1>1, <2>1, <2>3, <2>4, FS_Subset DEF Confirmed
    <3>2. i \in T <=> new.level = Confirmed
      BY <1>1
    <3>3. i \in S <=> old.level = Confirmed
      BY <2>4 DEF Confirmed
    <3>4. CountsAs("confirmed", old, new) <=> i \in T /\ i \notin S
      BY <2>3, <3>2, <3>3 DEF CountsAs, Confirmed
    <3> HIDE DEF S, T
    <3>5. Cardinality(T) = IF i \in T /\ i \notin S THEN Cardinality(S) + 1 ELSE Cardinality(S)
      BY <3>1, CountOne
    <3>6. C'["confirmed"] = Cardinality(T)
      BY <2>1, <2>2, <3>4, <3>5 DEF S, Counters
    <3>7. QED  BY <3>6 DEF T
  <2>8. C'["dismissed"] = Cardinality({j \in DOMAIN event' : event'[j].outcome = "dismissed"})
    <3>1. {j \in DOMAIN event' : event'[j].outcome = "dismissed"} =
            {j \in DOMAIN event : event[j].outcome = "dismissed"}
      BY <1>1, <1>2, <2>4
    <3>2. QED  BY <2>1, <2>2, <3>1 DEF CountsAs, Counters
  <2>9. QED  BY <2>5, <2>6, <2>7, <2>8 DEF CountersAgree
<1>11. QED  BY <1>3, <1>4, <1>5, <1>6, <1>7, <1>8, <1>9, <1>10 DEF Inv

LEMMA FirstOf ==
  ASSUME TypeOK, NEW S \in SUBSET DOMAIN event, S # {}
  PROVE  Lowest(S) \in S
<1>1. S \in SUBSET Nat
  BY EventsFinite
<1>2. QED  BY <1>1, LowestIn

LEMMA MatchingActive ==
  ASSUME TypeOK
  PROVE  Matching \subseteq Active
<1>1. Sharing \subseteq Active /\ Nearby \subseteq Active /\ Active \subseteq DOMAIN event
  BY DEF Sharing, Nearby, Active
<1>2. /\ Sharing # {} => Lowest(Sharing) \in Sharing
      /\ Nearby # {} => Lowest(Nearby) \in Nearby
  BY <1>1, FirstOf
<1>3. QED  BY <1>1, <1>2 DEF Matching

LEMMA EvaluationIs ==
  ASSUME Inv, todo # <<>>
  PROVE  Evaluations \subseteq Metrics
<1> SUFFICES ASSUME NEW m \in Evaluations PROVE m \in Metrics
  OBVIOUS
<1>1. PICK e \in Evidence : m = [units |-> Cardinality(Cluster), sig |-> e[1], clean |-> e[2]]
  BY DEF Evaluations
<1>2. e[1] \in 0..3 /\ e[2] \in BOOLEAN
  BY ConfigAssumption
<1>3. QED  BY <1>1, <1>2, ClusterIs DEF Metrics

LEMMA ViewedIs ==
  ASSUME Inv, todo # <<>>, NEW r \in Draft, NEW m \in Metrics
  PROVE  Viewed(r, m) \in Draft /\ SameGrade(Viewed(r, m), r)
<1>1. Place \in Int /\ Origin \in Nat /\ {UnitOf[v] : v \in Cluster} \in SUBSET Unit
  BY ClusterIs, VoteAssumption
<1> DEFINE units == {UnitOf[v] : v \in Cluster}
<1>2. Viewed(r, m) = [r EXCEPT !.m = m, !.place = Place, !.origin = Origin, !.units = units]
  BY DEF Viewed
<1> HIDE DEF units
<1>3. units \in SUBSET Unit
  BY <1>1 DEF units
<1>4. QED  BY <1>1, <1>2, <1>3 DEF Draft, EventAt, SameGrade

LEMMA BlankIs ==
  ASSUME Inv, todo # <<>>, NEW m \in Metrics
  PROVE  Blank(m) \in Draft /\ Unborn(Blank(m))
<1>1. Place \in Int /\ Origin \in Nat /\ now \in Nat
  BY ClusterIs, Numbers DEF Inv
<1>2. [l \in Levels |-> 0] \in [Levels -> Nat] /\ \A l \in Levels : [k \in Levels |-> 0][l] = 0
  OBVIOUS
<1> DEFINE none == [l \in Levels |-> 0]
<1>3. Blank(m) = [status |-> "active", outcome |-> "none", level |-> 0, created |-> now,
                  closedAt |-> 0, levelTimes |-> none, passSince |-> none, m |-> m,
                  place |-> Place, origin |-> Origin, keys |-> {}, units |-> {},
                  lastSupport |-> 0, explained |-> FALSE, missed |-> 0, failed |-> none]
  BY DEF Blank
<1>4. none \in [Levels -> Nat] /\ \A l \in Levels : none[l] = 0
  BY <1>2
<1> HIDE DEF none
<1>5. QED  BY <1>1, <1>3, <1>4 DEF Draft, EventAt, Unborn

LEMMA AdvancesSame ==
  ASSUME NEW r, NEW q, NEW new, SameGrade(r, q), Advances(r, new)
  PROVE  Advances(q, new)
  BY DEF SameGrade, Advances

LEMMA CreateBecomes ==
  ASSUME Inv, NEW m \in Evaluations, Create(m)
  PROVE  Becomes(Len(event) + 1, Blank(m), Evaluated(Backed(Viewed(Blank(m), m)), m))
<1> DEFINE old == Blank(m)
           view == Viewed(old, m)
           new == Evaluated(Backed(view), m)
           n == Len(event) + 1
<1>1. todo # <<>> /\ Passes(1, m) /\ Applied /\ UNCHANGED consumed
      /\ event' = Append(event, new) /\ touched' = touched \cup {n} /\ Account(old, new)
  BY DEF Create
<1>2. m \in Metrics
  BY <1>1, EvaluationIs
<1>3. old \in Draft /\ Unborn(old)
  BY <1>1, <1>2, BlankIs
<1>4. view \in Draft /\ SameGrade(view, old)
  BY <1>1, <1>2, <1>3, ViewedIs
<1>5. view.passSince[1] = 0
  BY <1>3, <1>4 DEF Unborn, SameGrade, Levels
<1> HIDE DEF old, view
<1>6. Advances(view, new)
  BY <1>1, <1>2, <1>4, <1>5, AdvanceIs
<1>7. Advances(old, new)
  BY <1>4, <1>6, AdvancesSame
<1> HIDE DEF new
<1>8. new \in Event
  BY <1>7 DEF Advances
<1>9. event \in Seq(Event) /\ Len(event) \in Nat /\ DOMAIN event = 1..Len(event)
      /\ touched \subseteq DOMAIN event
  BY EventsFinite DEF Inv, TypeOK
<1> HIDE DEF n
<1>10. /\ event' \in Seq(Event) /\ Len(event') = n /\ event'[n] = new
       /\ \A j \in 1..Len(event) : event'[j] = event[j]
  BY <1>1, <1>8, <1>9, AppendProperties DEF n
<1>11. DOMAIN event' = DOMAIN event \cup {n} /\ n \notin touched
  BY <1>9, <1>10 DEF n
<1>12. Becomes(n, old, new)
  BY <1>1, <1>3, <1>7, <1>9, <1>10, <1>11 DEF Becomes, n
<1>13. QED  BY <1>12 DEF n, old, view, new

LEMMA UpdateBecomes ==
  ASSUME Inv, NEW m \in Evaluations, Update(m)
  PROVE  \E i \in Active, new \in Event : Becomes(i, event[i], new)
<1>1. todo # <<>> /\ Applied /\ UNCHANGED consumed
  BY DEF Update
<1>2. PICK i \in Matching \ touched :
        LET old == event[i]
            view == IF Weaker(old, m) THEN old ELSE Viewed(old, m)
            new == Evaluated(Backed(view), view.m)
        IN  /\ event' = [event EXCEPT ![i] = new]
            /\ touched' = touched \cup {i}
            /\ Account(old, new)
  BY DEF Update
<1> DEFINE old == event[i]
           view == IF Weaker(old, m) THEN old ELSE Viewed(old, m)
           new == Evaluated(Backed(view), view.m)
<1>3. /\ event' = [event EXCEPT ![i] = new] /\ touched' = touched \cup {i}
      /\ Account(old, new)
  BY <1>2
<1>4. i \in Active /\ i \in DOMAIN event /\ event[i].status = "active" /\ i \notin touched
  BY <1>2, MatchingActive DEF Inv, Active
<1>5. m \in Metrics
  BY <1>1, EvaluationIs
<1>6. old \in Event
  BY <1>4, EventsFinite DEF Inv
<1>7. old \in Draft /\ old.level # 0 /\ old.m \in Metrics
  BY <1>6 DEF Draft, Event, EventAt, Levels
<1> HIDE DEF old
<1>8. view \in Draft /\ SameGrade(view, old) /\ view.level # 0
  BY <1>1, <1>5, <1>7, ViewedIs DEF SameGrade
<1>9. view.m \in Metrics
  BY <1>8 DEF Draft, EventAt
<1> HIDE DEF view
<1>10. Advances(view, new)
  BY <1>1, <1>8, <1>9, AdvanceIs
<1>11. Advances(old, new)
  BY <1>8, <1>10, AdvancesSame
<1> HIDE DEF new
<1>12. new \in Event
  BY <1>11 DEF Advances
<1>13. event \in Seq(Event) /\ DOMAIN event = 1..Len(event)
  BY EventsFinite DEF Inv, TypeOK
<1>14. /\ event' \in Seq(Event) /\ Len(event') = Len(event) /\ DOMAIN event' = DOMAIN event
       /\ event'[i] = new /\ \A j \in DOMAIN event \ {i} : event'[j] = event[j]
  BY <1>3, <1>4, <1>12, <1>13, ExceptSeq
<1>15. SameGrade(old, event[i])
  BY DEF SameGrade, old
<1>16. Becomes(i, old, new)
  BY <1>1, <1>3, <1>4, <1>11, <1>14, <1>15 DEF Becomes
<1>17. QED  BY <1>4, <1>12, <1>16 DEF old

(* Clusters that make no event, or go to one that is there or was.         *)
LEMMA InvSkip ==
  ASSUME Inv, todo # <<>>, Applied, UNCHANGED <<consumed, touched, event, C, background>>
  PROVE  Inv'
<1>1. /\ UNCHANGED <<now, onset, heard, consumed, cache, ticking, touched, event, C, background,
                     counted, seen>>
      /\ todo' = Tail(todo)
  BY DEF Applied, voteVars
<1>2. TypeOK'
  <2>1. todo' \in Seq([votes : SUBSET Vote, place : Int])
    BY <1>1, ClusterIs
  <2>2. QED  BY <1>1, <2>1 DEF Inv, TypeOK
<1>3. VotesDated' /\ KeysSpent'
  BY <1>1 DEF Inv, VotesDated, KeysSpent, Spent
<1>4. ClustersLive'
  BY <1>1, TodoKept
<1>5. TimersDated' /\ Graded' /\ HeldLongEnough' /\ CountersAgree'
  BY <1>1 DEF Inv, TimersDated, Graded, HeldLongEnough, CountersAgree
<1>6. QED  BY <1>2, <1>3, <1>4, <1>5 DEF Inv

(* An event that takes more votes, and is otherwise as it was.             *)
LEMMA TakesIs ==
  ASSUME Inv, todo # <<>>, NEW i \in Active,
         event' = [event EXCEPT ![i].keys = @ \cup Cluster, ![i].lastSupport = Later(@, Support)]
  PROVE  /\ event' \in Seq(Event) /\ DOMAIN event' = DOMAIN event /\ Len(event') = Len(event)
         /\ \A j \in DOMAIN event : j # i => event'[j] = event[j]
         /\ event'[i].keys = event[i].keys \cup Cluster
         /\ event'[i].status = "active" /\ event'[i].outcome = event[i].outcome
         /\ event'[i].level = event[i].level /\ event'[i].created = event[i].created
         /\ event'[i].levelTimes = event[i].levelTimes
         /\ event'[i].passSince = event[i].passSince /\ event'[i].failed = event[i].failed
<1> DEFINE r == event[i]
           q == [r EXCEPT !.keys = @ \cup Cluster, !.lastSupport = Later(@, Support)]
<1>1. event \in Seq(Event) /\ DOMAIN event = 1..Len(event) /\ i \in DOMAIN event
      /\ r \in Event /\ r.status = "active"
  BY EventsFinite DEF Inv, TypeOK, Active
<1>2. event' = [event EXCEPT ![i] = q]
  BY <1>1
<1> HIDE DEF r
<1>3. r.keys \cup Cluster \in SUBSET Vote /\ Later(r.lastSupport, Support) \in Nat
  <2>1. r.keys \in SUBSET Vote /\ r.lastSupport \in Nat
    BY <1>1 DEF Event, EventAt
  <2>2. QED  BY <2>1, ClusterIs, LaterOf
<1>4. /\ q \in Event /\ q.keys = r.keys \cup Cluster /\ q.status = "active"
      /\ q.outcome = r.outcome /\ q.level = r.level /\ q.created = r.created
      /\ q.levelTimes = r.levelTimes /\ q.passSince = r.passSince /\ q.failed = r.failed
  BY <1>1, <1>3 DEF Event, EventAt
<1> HIDE DEF q
<1>5. /\ event' \in Seq(Event) /\ Len(event') = Len(event) /\ DOMAIN event' = DOMAIN event
      /\ event'[i] = q /\ \A j \in DOMAIN event \ {i} : event'[j] = event[j]
  <2> DEFINE s == [event EXCEPT ![i] = q]
  <2>1. event \in Seq(Event) /\ i \in 1..Len(event) /\ q \in Event
    BY <1>1, <1>4
  <2>2. /\ s \in Seq(Event) /\ Len(s) = Len(event) /\ s[i] = q
        /\ \A j \in 1..Len(event) \ {i} : s[j] = event[j]
    BY <2>1, ExceptSeq
  <2>3. event' = s
    BY <1>2
  <2> HIDE DEF s
  <2>4. DOMAIN s = DOMAIN event
    BY <1>1, <2>2
  <2>5. QED  BY <1>1, <2>2, <2>3, <2>4, Zenon
<1>6. QED  BY <1>4, <1>5 DEF r

LEMMA CountsKept ==
  ASSUME CountersAgree, DOMAIN event' = DOMAIN event, Len(event') = Len(event), UNCHANGED C,
         \A i \in DOMAIN event : event'[i].level = event[i].level /\ event'[i].outcome = event[i].outcome
  PROVE  CountersAgree'
<1>1. /\ {i \in DOMAIN event' : event'[i].level >= Corroborated} =
           {i \in DOMAIN event : event[i].level >= Corroborated}
      /\ {i \in DOMAIN event' : event'[i].level = Confirmed} =
           {i \in DOMAIN event : event[i].level = Confirmed}
      /\ {i \in DOMAIN event' : event'[i].outcome = "dismissed"} =
           {i \in DOMAIN event : event[i].outcome = "dismissed"}
  OBVIOUS
<1>2. QED  BY <1>1 DEF CountersAgree

LEMMA InvAbsorb ==
  ASSUME Inv, NEW m, Absorb(m)
  PROVE  Inv'
<1> DEFINE Takers == {i \in Active : Absorbs(i, m)}
<1>1. /\ todo # <<>> /\ todo' = Tail(todo)
      /\ UNCHANGED <<now, onset, heard, cache, ticking, touched, C, background, counted, seen>>
  BY DEF Absorb, Applied, voteVars
<1>2. todo' \in Seq([votes : SUBSET Vote, place : Int])
  BY <1>1, ClusterIs
<1>3. CASE /\ Takers # {} /\ UNCHANGED consumed
           /\ event' = [event EXCEPT ![Lowest(Takers)].keys = @ \cup Cluster,
                                     ![Lowest(Takers)].lastSupport = Later(@, Support)]
  <2>1. PICK i : i = Lowest(Takers)
    OBVIOUS
  <2>2. i \in Active /\ i \in DOMAIN event
    <3>1. Takers \in SUBSET DOMAIN event /\ Takers \subseteq Active
      BY DEF Active
    <3>2. QED  BY <1>3, <2>1, <3>1, FirstOf DEF Inv
  <2>3. /\ event' \in Seq(Event) /\ DOMAIN event' = DOMAIN event /\ Len(event') = Len(event)
        /\ \A j \in DOMAIN event : j # i => event'[j] = event[j]
        /\ event'[i].keys = event[i].keys \cup Cluster
        /\ event'[i].status = "active" /\ event'[i].outcome = event[i].outcome
        /\ event'[i].level = event[i].level /\ event'[i].created = event[i].created
        /\ event'[i].levelTimes = event[i].levelTimes
        /\ event'[i].passSince = event[i].passSince /\ event'[i].failed = event[i].failed
    BY <1>1, <1>3, <2>1, <2>2, TakesIs
  <2>4. event[i].status = "active"
    BY <2>2 DEF Active
  <2>5. TypeOK'
    BY <1>1, <1>2, <1>3, <2>3 DEF Inv, TypeOK
  <2>6. VotesDated'
    BY <1>1, <1>3 DEF Inv, VotesDated
  <2>7. KeysSpent'
    <3>1. \A v \in event'[i].keys : onset'[v] # 0
      BY <1>1, <2>2, <2>3, ClusterIs DEF Inv, KeysSpent
    <3>2. \A j \in DOMAIN event : j # i => \A v \in event'[j].keys :
            onset'[v] # 0 /\ (event'[j].status # "active" => Spent(v)')
      <4>1. \A v : Spent(v)' <=> Spent(v)
        BY <1>1, <1>3 DEF Spent
      <4>2. \A j \in DOMAIN event : \A v \in event[j].keys :
              onset[v] # 0 /\ (event[j].status # "active" => Spent(v))
        BY DEF Inv, KeysSpent
      <4>3. \A j \in DOMAIN event : j # i => event'[j] = event[j]
        BY <2>3
      <4>4. onset' = onset
        BY <1>1
      <4>5. QED  BY <4>1, <4>2, <4>3, <4>4, Zenon
    <3>3. QED  BY <2>3, <3>1, <3>2 DEF KeysSpent
  <2>8. ClustersLive'
    BY <1>1, <2>3, TodoKept
  <2>9. \A j \in DOMAIN event :
          /\ event'[j].status = event[j].status /\ event'[j].outcome = event[j].outcome
          /\ event'[j].level = event[j].level /\ event'[j].created = event[j].created
          /\ event'[j].levelTimes = event[j].levelTimes
          /\ event'[j].passSince = event[j].passSince /\ event'[j].failed = event[j].failed
    BY <2>3, <2>4
  <2>10. TimersDated' /\ Graded' /\ HeldLongEnough'
    BY <1>1, <2>3, <2>9 DEF Inv, TimersDated, Graded, HeldLongEnough
  <2>11. CountersAgree'
    BY <1>1, <2>3, <2>9, CountsKept DEF Inv
  <2>12. QED  BY <2>5, <2>6, <2>7, <2>8, <2>10, <2>11 DEF Inv
<1>4. CASE /\ consumed' = [v \in Vote |-> IF v \in Cluster THEN now ELSE consumed[v]]
           /\ UNCHANGED event
  <2>1. TypeOK'
    BY <1>1, <1>2, <1>4 DEF Inv, TypeOK
  <2>2. VotesDated'
    <3>1. \A v \in Vote : onset[v] \in Nat /\ now \in Nat \ {0}
      BY Numbers DEF Inv
    <3>2. QED  BY <1>1, <1>4, <3>1, ClusterIs DEF Inv, VotesDated
  <2>3. KeysSpent'
    <3>1. \A i \in DOMAIN event : event[i].keys \subseteq Vote
      BY EventsFinite DEF Inv, Event, EventAt
    <3>2. now # 0
      BY Numbers DEF Inv
    <3>3. QED  BY <1>1, <1>4, <3>1, <3>2 DEF Inv, KeysSpent, Spent
  <2>4. ClustersLive'
    BY <1>1, <1>4, TodoKept
  <2>5. TimersDated' /\ Graded' /\ HeldLongEnough' /\ CountersAgree'
    BY <1>1, <1>4 DEF Inv, TimersDated, Graded, HeldLongEnough, CountersAgree
  <2>6. QED  BY <2>1, <2>2, <2>3, <2>4, <2>5 DEF Inv
<1>5. QED  BY <1>3, <1>4 DEF Absorb

-----------------------------------------------------------------------------
(* Picks that come and go, and the two ends of a tick.                     *)

LEMMA InvArrive ==
  ASSUME Inv, NEW v \in Vote, Arrive(v)
  PROVE  Inv'
<1>1. /\ UNCHANGED <<now, consumed, todo, ticking, touched, event, C, background, counted, seen>>
      /\ heard' = [heard EXCEPT ![v] = now]
      /\ cache' = [live |-> {}, clusters |-> <<>>]
      /\ \/ onset[v] = 0 /\ \E t \in 1..now : onset' = [onset EXCEPT ![v] = t]
         \/ onset[v] # 0 /\ UNCHANGED onset
  BY DEF Arrive, unitVars
<1>2. now \in 1..MaxTime /\ MaxTime \in Nat
  BY ConfigAssumption DEF Inv, TypeOK
<1>3. /\ onset' \in [Vote -> 0..MaxTime] /\ onset'[v] \in 1..now
      /\ \A w \in Vote : w # v => onset'[w] = onset[w]
      /\ \A w \in Vote : onset[w] # 0 => onset'[w] = onset[w]
  <2>1. onset \in [Vote -> 0..MaxTime] /\ onset[v] <= now
    BY DEF Inv, TypeOK, VotesDated
  <2>2. QED  BY <1>1, <1>2, <2>1
<1>4. /\ heard' \in [Vote -> 0..MaxTime] /\ heard'[v] = now
      /\ \A w \in Vote : w # v => heard'[w] = heard[w]
  BY <1>1, <1>2 DEF Inv, TypeOK
<1>5. TypeOK'
  <2>1. cache' \in [live : SUBSET Vote, clusters : Seq([votes : SUBSET Vote, place : Int])]
    BY <1>1, EmptySeq
  <2>2. QED  BY <1>1, <1>3, <1>4, <2>1 DEF Inv, TypeOK
<1>6. VotesDated'
  <2>1. \A w \in Vote : /\ heard[w] # 0 => onset[w] # 0
                        /\ onset[w] <= now /\ heard[w] <= now /\ consumed[w] <= now
                        /\ consumed[w] # 0 => onset[w] # 0 /\ onset[w] <= consumed[w]
    BY DEF Inv, VotesDated
  <2>2. consumed[v] # 0 => onset'[v] = onset[v]
    BY <1>3, <2>1
  <2>3. QED  BY <1>1, <1>2, <1>3, <1>4, <2>1, <2>2 DEF VotesDated
<1>7. KeysSpent'
  <2>1. \A i \in DOMAIN event : \A w \in event[i].keys : w \in Vote
    BY EventsFinite DEF Inv, Event, EventAt
  <2>2. QED  BY <1>1, <1>3, <2>1 DEF Inv, KeysSpent, Spent
<1>8. ClustersLive'
  <2>1. \A k \in DOMAIN todo : todo[k].votes \subseteq Vote
    <3> DEFINE R == [votes : SUBSET Vote, place : Int]
    <3>1. todo \in Seq(R)
      BY DEF Inv, TypeOK
    <3> HIDE DEF R
    <3>2. \A k \in DOMAIN todo : todo[k] \in R
      BY <3>1
    <3>3. QED  BY <3>2 DEF R
  <2>2. DOMAIN cache'.clusters = {}
    BY <1>1
  <2>3. QED  BY <1>1, <1>3, <2>1, <2>2 DEF Inv, ClustersLive
<1>9. TimersDated' /\ Graded' /\ HeldLongEnough' /\ CountersAgree'
  BY <1>1 DEF Inv, TimersDated, Graded, HeldLongEnough, CountersAgree
<1>10. QED  BY <1>5, <1>6, <1>7, <1>8, <1>9 DEF Inv

LEMMA InvWithdraw ==
  ASSUME Inv, NEW v \in Vote, Withdraw(v)
  PROVE  Inv'
<1>1. /\ UNCHANGED <<now, onset, consumed, cache, todo, ticking, touched, event, C, background,
                     counted, seen>>
      /\ heard' = [heard EXCEPT ![v] = 0]
  BY DEF Withdraw, unitVars
<1>2. TypeOK' /\ VotesDated'
  BY <1>1, ConfigAssumption DEF Inv, TypeOK, VotesDated
<1>3. KeysSpent' /\ ClustersLive'
  BY <1>1 DEF Inv, KeysSpent, Spent, ClustersLive
<1>4. TimersDated' /\ Graded' /\ HeldLongEnough' /\ CountersAgree'
  BY <1>1 DEF Inv, TimersDated, Graded, HeldLongEnough, CountersAgree
<1>5. QED  BY <1>2, <1>3, <1>4 DEF Inv

(* Every cluster that association finds has votes, all of them live.       *)
LEMMA ClustersFound ==
  ASSUME NEW L \in SUBSET Vote, NEW cls \in Clusters(L)
  PROVE  /\ cls \in Seq([votes : SUBSET Vote, place : Int])
         /\ \A k \in DOMAIN cls : cls[k].votes # {} /\ cls[k].votes \subseteq L
<1>1. Cardinality(L) \in Nat
  BY FS_Subset, FS_CardinalityType, VoteAssumption
<1>2. PICK n \in 0..(Cardinality(L) \div 2) : cls \in [1..n -> Sources(L)]
  BY DEF Clusters
<1>3. n \in Nat
  BY <1>1, <1>2
<1>4. \A s \in Sources(L) : /\ s \in [votes : SUBSET Vote, place : Int]
                            /\ s.votes # {} /\ s.votes \subseteq L
  <2> TAKE s \in Sources(L)
  <2>1. s \in [votes : Coherent \cap SUBSET L, place : {PlaceOf[v] : v \in L}]
    BY DEF Sources
  <2>2. s.votes # {}
    BY <2>1, VoteAssumption, FS_EmptySet
  <2>3. {PlaceOf[v] : v \in L} \subseteq Int
    BY VoteAssumption
  <2>4. QED  BY <2>1, <2>2, <2>3
<1> DEFINE R == [votes : SUBSET Vote, place : Int]
<1>5. \A k \in DOMAIN cls : cls[k] \in R /\ cls[k].votes # {} /\ cls[k].votes \subseteq L
  BY <1>2, <1>4
<1> HIDE DEF R
<1>6. cls \in [1..n -> R]
  BY <1>2, <1>5
<1>7. cls \in Seq(R)
  BY <1>3, <1>6
<1>8. QED  BY <1>5, <1>7 DEF R

LEMMA CountsTyped ==
  ASSUME TypeOK, CountVotes
  PROVE  background' \in [Unit -> Nat] /\ counted' \in [Unit -> Int] /\ seen' \subseteq Vote
<1> DEFINE T == {onset[v] : v \in Formed \ seen}
<1>1. PICK K \in [Unit -> SUBSET T] :
        /\ background' = [u \in Unit |-> background[u] + Cardinality(K[u])]
        /\ counted' = [u \in Unit |-> Highest({counted[u]} \cup K[u])]
        /\ seen' = seen \cup Formed
  BY DEF CountVotes
<1>2. T \subseteq 0..MaxTime /\ MaxTime \in Nat
  BY ConfigAssumption DEF TypeOK, Formed
<1> HIDE DEF T
<1>3. IsFiniteSet(0..MaxTime)
  BY <1>2, FS_Interval
<1>4. \A u \in Unit : Cardinality(K[u]) \in Nat /\ Highest({counted[u]} \cup K[u]) \in Int
  <2> TAKE u \in Unit
  <2>1. K[u] \subseteq 0..MaxTime
    BY <1>1, <1>2
  <2>2. Cardinality(K[u]) \in Nat
    BY <1>3, <2>1, FS_Subset, FS_CardinalityType
  <2> DEFINE S == {counted[u]} \cup K[u]
             n == Later(counted[u], MaxTime)
  <2>3. counted[u] \in Int
    BY DEF TypeOK
  <2>4. n \in Int /\ counted[u] <= n /\ MaxTime <= n
    BY <1>2, <2>3 DEF Later
  <2> HIDE DEF n
  <2>5. S \in SUBSET Int /\ S # {} /\ \A y \in S : y <= n
    BY <1>2, <2>1, <2>3, <2>4
  <2> HIDE DEF S
  <2>6. Highest(S) \in S
    BY <2>4, <2>5, HighestIn
  <2>7. QED  BY <2>2, <2>5, <2>6 DEF S
<1>5. background \in [Unit -> Nat] /\ seen \subseteq Vote /\ Formed \subseteq Vote
  BY DEF TypeOK, Formed
<1>6. background' \in [Unit -> Nat]
  <2>1. ASSUME NEW u \in Unit PROVE background[u] + Cardinality(K[u]) \in Nat
    <3> DEFINE c == Cardinality(K[u])
    <3>1. c \in Nat /\ background[u] \in Nat
      BY <1>4, <1>5
    <3> HIDE DEF c
    <3>2. background[u] + c \in Nat
      BY <3>1
    <3>3. QED  BY <3>2 DEF c
  <2>2. QED  BY <1>1, <2>1
<1>7. counted' \in [Unit -> Int]
  BY <1>1, <1>4
<1>8. seen' \subseteq Vote
  BY <1>1, <1>5
<1>9. QED  BY <1>6, <1>7, <1>8

LEMMA InvStartTick ==
  ASSUME Inv, StartTick
  PROVE  Inv'
<1>1. /\ now < MaxTime /\ now' = now + 1 /\ ticking' /\ CountVotes
      /\ consumed' = [v \in Vote |-> IF ConsumedExpired(v) THEN 0 ELSE consumed[v]]
      /\ UNCHANGED <<onset, heard, touched, event, C>>
  BY DEF StartTick, voteVars
<1>2. PICK cls \in IF cache.live = Live THEN {cache.clusters} ELSE Clusters(Live) :
        todo' = cls /\ cache' = [live |-> Live, clusters |-> cls]
  BY DEF StartTick
<1>3. /\ now \in Nat \ {0} /\ MaxTime \in Nat /\ Assoc \in Nat \ {0}
      /\ \A v \in Vote : onset[v] \in Nat /\ heard[v] \in Nat /\ consumed[v] \in Nat
  BY Numbers DEF Inv
<1>4. Live \in SUBSET Vote
  BY DEF Live, Formed
<1>5. /\ cls \in Seq([votes : SUBSET Vote, place : Int])
      /\ \A k \in DOMAIN cls : cls[k].votes # {} /\ cls[k].votes \subseteq Live
  <2>1. CASE cache.live = Live
    BY <1>2, <2>1 DEF Inv, TypeOK, ClustersLive
  <2>2. CASE cache.live # Live
    BY <1>2, <1>4, <2>2, ClustersFound
  <2>3. QED  BY <2>1, <2>2
<1>6. TypeOK'
  <2>1. background' \in [Unit -> Nat] /\ counted' \in [Unit -> Int] /\ seen' \subseteq Vote
    BY <1>1, CountsTyped DEF Inv
  <2>2. consumed' \in [Vote -> 0..MaxTime] /\ now' \in 1..MaxTime
    BY <1>1, <1>3 DEF Inv, TypeOK
  <2>3. QED  BY <1>1, <1>2, <1>4, <1>5, <2>1, <2>2 DEF Inv, TypeOK
<1>7. VotesDated'
  BY <1>1, <1>3 DEF Inv, VotesDated
<1>8. KeysSpent'
  <2>1. ASSUME NEW v \in Vote, Spent(v) PROVE Spent(v)'
    <3>1. CASE consumed[v] # 0 /\ ConsumedExpired(v)
      <4>1. onset[v] <= consumed[v] /\ consumed[v] < now + 1 - 3 * Assoc
        BY <3>1 DEF Inv, VotesDated, ConsumedExpired
      <4>2. onset'[v] < now' + 1 - Assoc
        BY <1>1, <1>3, <4>1
      <4>3. QED  BY <4>2 DEF Spent
    <3>2. CASE consumed[v] # 0 /\ ~ConsumedExpired(v)
      BY <1>1, <3>2 DEF Spent
    <3>3. CASE onset[v] < now + 1 - Assoc
      BY <1>1, <1>3, <3>3 DEF Spent
    <3>4. QED  BY <2>1, <3>1, <3>2, <3>3 DEF Spent
  <2>2. \A i \in DOMAIN event : \A v \in event[i].keys : v \in Vote
    BY EventsFinite DEF Inv, Event, EventAt
  <2>3. \A i \in DOMAIN event : \A v \in event[i].keys :
          onset[v] # 0 /\ (event[i].status # "active" => Spent(v))
    BY DEF Inv, KeysSpent
  <2>4. event' = event /\ onset' = onset
    BY <1>1
  <2>5. \A i \in DOMAIN event' : \A v \in event'[i].keys :
          onset'[v] # 0 /\ (event'[i].status # "active" => Spent(v)')
    BY <2>1, <2>2, <2>3, <2>4
  <2>6. QED  BY <2>5 DEF KeysSpent
<1>9. ClustersLive'
  <2>1. ASSUME NEW v \in Live
        PROVE  /\ onset[v] # 0
               /\ \A i \in DOMAIN event : event[i].status # "active" => v \notin event[i].keys
    <3>1. v \in Vote /\ heard[v] # 0 /\ consumed[v] = 0 /\ now + 1 - Assoc <= onset[v]
      BY DEF Live, Formed
    <3>2. onset[v] # 0
      BY <3>1 DEF Inv, VotesDated
    <3>3. ~Spent(v)
      BY <1>3, <3>1 DEF Spent
    <3>4. QED  BY <3>2, <3>3 DEF Inv, KeysSpent
  <2>2. cache'.clusters = cls /\ cache'.live = Live /\ todo' = cls
    BY <1>2
  <2>3. QED  BY <1>1, <1>5, <2>1, <2>2 DEF ClustersLive
<1>10. TimersDated'
  <2>1. \A i \in DOMAIN event :
          /\ event[i].created \in 1..now
          /\ event[i].passSince \in [Levels -> Nat] /\ event[i].failed \in [Levels -> Nat]
          /\ \A l \in Levels :
               /\ event[i].passSince[l] # 0 => /\ event[i].passSince[l] \in event[i].created..now
                                               /\ event[i].failed[l] < event[i].passSince[l]
               /\ event[i].failed[l] <= now
    BY EventsFinite DEF Inv, TimersDated, Event, EventAt
  <2>2. QED  BY <1>1, <1>3, <2>1 DEF TimersDated
<1>11. Graded' /\ HeldLongEnough' /\ CountersAgree'
  BY <1>1 DEF Inv, Graded, HeldLongEnough, CountersAgree
<1>12. QED  BY <1>6, <1>7, <1>8, <1>9, <1>10, <1>11 DEF Inv

(* What the end of a tick does to each event.                              *)
Closing == {i \in Active : IsQuiet(event[i])}

LEMMA ClosedIs ==
  ASSUME Inv, CloseQuiet
  PROVE  /\ event' \in Seq(Event) /\ DOMAIN event' = DOMAIN event /\ Len(event') = Len(event)
         /\ \A i \in DOMAIN event :
              /\ event'[i].keys = event[i].keys /\ event'[i].created = event[i].created
              /\ event'[i].level = event[i].level /\ event'[i].levelTimes = event[i].levelTimes
              /\ event'[i].passSince = event[i].passSince /\ event'[i].failed = event[i].failed
              /\ i \in Closing =>
                   /\ event[i].status = "active" /\ event'[i].status = "recent"
                   /\ event'[i].outcome = IF event[i].level = 1 THEN "dismissed" ELSE "closed"
              /\ i \notin Closing =>
                   /\ event'[i].status = "active" <=> event[i].status = "active"
                   /\ event'[i].outcome = event[i].outcome
<1> DEFINE next(i) ==
       CASE i \in Closing -> Closed(event[i])
         [] i \in Recent /\ now - event[i].closedAt >= 2 * Assoc -> [event[i] EXCEPT !.status = "gone"]
         [] i \in (Active \ Closing) \ touched -> [event[i] EXCEPT !.missed = now]
         [] OTHER -> event[i]
<1>1. event' = [i \in DOMAIN event |-> next(i)]
  BY DEF CloseQuiet, Closing
<1>2. DOMAIN event = 1..Len(event) /\ Len(event) \in Nat /\ now \in Nat
      /\ \A i \in DOMAIN event : event[i] \in Event
  BY EventsFinite, Numbers DEF Inv
<1>3. ASSUME NEW i \in DOMAIN event
      PROVE  /\ next(i) \in Event
             /\ next(i).keys = event[i].keys /\ next(i).created = event[i].created
             /\ next(i).level = event[i].level /\ next(i).levelTimes = event[i].levelTimes
             /\ next(i).passSince = event[i].passSince /\ next(i).failed = event[i].failed
             /\ i \in Closing =>
                  /\ event[i].status = "active" /\ next(i).status = "recent"
                  /\ next(i).outcome = IF event[i].level = 1 THEN "dismissed" ELSE "closed"
             /\ i \notin Closing =>
                  /\ next(i).status = "active" <=> event[i].status = "active"
                  /\ next(i).outcome = event[i].outcome
  <2> DEFINE r == event[i]
             q == next(i)
  <2>1. r \in Event
    BY <1>2
  <2>2. CASE i \in Closing
    <3>1. q = [r EXCEPT !.status = "recent", !.closedAt = now,
                        !.outcome = IF r.level = 1 THEN "dismissed" ELSE "closed"]
      BY <2>2 DEF Closed, Closing, Active, Recent
    <3>2. r.status = "active"
      BY <2>2 DEF Closing, Active
    <3> HIDE DEF q, r
    <3>3. /\ q \in Event /\ q.keys = r.keys /\ q.created = r.created
          /\ q.level = r.level /\ q.levelTimes = r.levelTimes
          /\ q.passSince = r.passSince /\ q.failed = r.failed
          /\ q.status = "recent" /\ q.outcome = IF r.level = 1 THEN "dismissed" ELSE "closed"
      BY <1>2, <2>1, <3>1 DEF Event, EventAt
    <3>4. QED  BY <2>2, <3>2, <3>3 DEF q, r
  <2>3. CASE i \notin Closing
    <3>1. \/ r.status = "recent" /\ q = [r EXCEPT !.status = "gone"]
          \/ q = [r EXCEPT !.missed = now]
          \/ q = r
      BY <2>3 DEF Recent
    <3> HIDE DEF q, r
    <3>2. /\ q \in Event /\ q.keys = r.keys /\ q.created = r.created
          /\ q.level = r.level /\ q.levelTimes = r.levelTimes
          /\ q.passSince = r.passSince /\ q.failed = r.failed
          /\ (q.status = "active" <=> r.status = "active") /\ q.outcome = r.outcome
      BY <1>2, <2>1, <3>1 DEF Event, EventAt
    <3>3. QED  BY <2>3, <3>2 DEF q, r
  <2>4. QED  BY <2>2, <2>3
<1> HIDE DEF next
<1>4. event' \in [1..Len(event) -> Event]
  BY <1>1, <1>2, <1>3
<1>5. event' \in Seq(Event) /\ DOMAIN event' = DOMAIN event /\ Len(event') = Len(event)
  BY <1>2, <1>4
<1>6. \A i \in DOMAIN event : event'[i] = next(i)
  BY <1>1
<1>7. QED  BY <1>3, <1>5, <1>6

LEMMA InvCloseQuiet ==
  ASSUME Inv, CloseQuiet
  PROVE  Inv'
<1>1. /\ todo = <<>> /\ ticking' = FALSE /\ touched' = {}
      /\ UNCHANGED <<now, onset, heard, cache, todo, background, counted, seen>>
      /\ consumed' = [v \in Vote |-> IF \E i \in Closing : v \in event[i].keys THEN now ELSE consumed[v]]
      /\ C' = [C EXCEPT !["dismissed"] = @ + Cardinality({i \in Closing : event[i].level = 1})]
  BY DEF CloseQuiet, Closing, voteVars, unitVars
<1>2. /\ event' \in Seq(Event) /\ DOMAIN event' = DOMAIN event /\ Len(event') = Len(event)
      /\ \A i \in DOMAIN event :
           /\ event'[i].keys = event[i].keys /\ event'[i].created = event[i].created
           /\ event'[i].level = event[i].level /\ event'[i].levelTimes = event[i].levelTimes
           /\ event'[i].passSince = event[i].passSince /\ event'[i].failed = event[i].failed
           /\ i \in Closing =>
                /\ event[i].status = "active" /\ event'[i].status = "recent"
                /\ event'[i].outcome = IF event[i].level = 1 THEN "dismissed" ELSE "closed"
           /\ i \notin Closing =>
                /\ event'[i].status = "active" <=> event[i].status = "active"
                /\ event'[i].outcome = event[i].outcome
  BY ClosedIs
<1>3. Closing \subseteq DOMAIN event /\ now \in Nat \ {0} /\ now \in 1..MaxTime
      /\ \A i \in DOMAIN event : event[i].keys \subseteq Vote
  BY Numbers, EventsFinite DEF Closing, Active, Inv, TypeOK, Event, EventAt
<1> DEFINE K == {i \in Closing : event[i].level = 1}
           D == {i \in DOMAIN event : event[i].outcome = "dismissed"}
<1>4. IsFiniteSet(K) /\ IsFiniteSet(D) /\ Cardinality(K) \in Nat
  BY <1>3, EventsFinite, FS_Subset, FS_CardinalityType DEF Inv
<1>5. /\ C'["dismissed"] = C["dismissed"] + Cardinality(K)
      /\ C' \in [Counters -> Nat] /\ \A k \in Counters \ {"dismissed"} : C'[k] = C[k]
  <2>1. C \in [Counters -> Nat] /\ "dismissed" \in Counters
    BY DEF Inv, TypeOK, Counters
  <2> DEFINE c == Cardinality(K)
  <2>2. c \in Nat /\ C' = [C EXCEPT !["dismissed"] = @ + c]
    BY <1>1, <1>4
  <2> HIDE DEF c, K
  <2>3. QED  BY <2>1, <2>2 DEF c
<1> HIDE DEF K
<1>6. TypeOK'
  <2>1. consumed' \in [Vote -> 0..MaxTime]
    BY <1>1, <1>3, ConfigAssumption DEF Inv, TypeOK
  <2>2. QED  BY <1>1, <1>2, <1>5, <2>1 DEF Inv, TypeOK
<1>7. VotesDated'
  <2>1. ASSUME NEW v \in Vote, NEW i \in Closing, v \in event[i].keys PROVE onset[v] # 0
    BY <1>3, <2>1 DEF Inv, KeysSpent
  <2>2. QED  BY <1>1, <1>3, <2>1 DEF Inv, VotesDated
<1>8. KeysSpent'
  <2>1. ASSUME NEW i \in DOMAIN event, NEW v \in event[i].keys
        PROVE  onset[v] # 0 /\ (event'[i].status # "active" => consumed'[v] # 0 \/ onset[v] < now + 1 - Assoc)
    <3>1. v \in Vote /\ consumed'[v] \in {now, consumed[v]}
      BY <1>1, <1>3
    <3>2. i \in Closing => consumed'[v] = now
      BY <1>1, <3>1
    <3>3. i \notin Closing /\ event'[i].status # "active" => Spent(v)
      BY <1>2 DEF Inv, KeysSpent
    <3>4. QED  BY <1>3, <3>1, <3>2, <3>3 DEF Inv, KeysSpent, Spent
  <2>2. ASSUME NEW i \in DOMAIN event, NEW v \in event[i].keys
        PROVE  onset'[v] # 0 /\ (event'[i].status # "active" => Spent(v)')
    <3>1. onset' = onset /\ now' = now
      BY <1>1
    <3>2. QED  BY <2>1, <3>1 DEF Spent
  <2>3. \A i \in DOMAIN event' : \A v \in event'[i].keys :
          onset'[v] # 0 /\ (event'[i].status # "active" => Spent(v)')
    BY <1>2, <2>2
  <2>4. QED  BY <2>3 DEF KeysSpent
<1>9. ClustersLive'
  <2>1. DOMAIN todo' = {}
    BY <1>1
  <2>2. QED  BY <1>1, <2>1 DEF Inv, ClustersLive
<1>10. TimersDated'
  BY <1>1, <1>2 DEF Inv, TimersDated
<1>11. Graded'
  BY <1>2 DEF Inv, Graded
<1>12. HeldLongEnough'
  BY <1>2 DEF Inv, HeldLongEnough
<1>13. CountersAgree'
  <2>1. /\ {i \in DOMAIN event' : event'[i].level >= Corroborated} =
             {i \in DOMAIN event : event[i].level >= Corroborated}
        /\ {i \in DOMAIN event' : event'[i].level = Confirmed} =
             {i \in DOMAIN event : event[i].level = Confirmed}
    BY <1>2
  <2>2. {i \in DOMAIN event' : event'[i].outcome = "dismissed"} = D \cup K /\ D \cap K = {}
    <3>1. \A i \in Closing : event[i].outcome = "none"
      BY <1>2, <1>3 DEF Inv, Graded
    <3>2. QED  BY <1>2, <1>3, <3>1 DEF K
  <2>3. C["dismissed"] = Cardinality(D)
    BY DEF Inv, CountersAgree
  <2> HIDE DEF D
  <2>4. Cardinality(D \cup K) = Cardinality(D) + Cardinality(K)
    <3>1. Cardinality(D \cap K) = 0 /\ Cardinality(D) \in Nat
      BY <1>4, <2>2, FS_EmptySet, FS_CardinalityType
    <3>2. Cardinality(D \cup K) = Cardinality(D) + Cardinality(K) - Cardinality(D \cap K)
      BY <1>4, FS_Union
    <3>3. QED  BY <1>4, <3>1, <3>2
  <2>5. C'["dismissed"] = Cardinality({i \in DOMAIN event' : event'[i].outcome = "dismissed"})
    BY <1>5, <2>2, <2>3, <2>4
  <2>6. C'["created"] = C["created"] /\ C'["corroborated"] = C["corroborated"]
        /\ C'["confirmed"] = C["confirmed"]
    BY <1>5 DEF Counters
  <2>7. QED  BY <1>2, <2>1, <2>5, <2>6 DEF Inv, CountersAgree
<1>14. QED  BY <1>6, <1>7, <1>8, <1>9, <1>10, <1>11, <1>12, <1>13 DEF Inv

-----------------------------------------------------------------------------
(* The invariant.                                                          *)

LEMMA InvInit == Init => Inv
<1> SUFFICES ASSUME Init PROVE Inv
  OBVIOUS
<1>1. /\ now = 1 /\ todo = <<>> /\ event = <<>> /\ cache.clusters = <<>> /\ touched = {}
      /\ onset = [v \in Vote |-> 0] /\ heard = [v \in Vote |-> 0] /\ consumed = [v \in Vote |-> 0]
      /\ DOMAIN event = {} /\ DOMAIN todo = {} /\ DOMAIN cache.clusters = {} /\ Len(event) = 0
  BY DEF Init
<1>2. TypeOK
  <2>1. \A S : <<>> \in Seq(S)
    OBVIOUS
  <2>2. cache \in [live : SUBSET Vote, clusters : Seq([votes : SUBSET Vote, place : Int])]
    BY <2>1 DEF Init
  <2>3. -2 * UnitVote \in Int /\ 1 \in 1..MaxTime /\ 0 \in 0..MaxTime
    BY ConfigAssumption
  <2>4. QED  BY <1>1, <2>1, <2>2, <2>3 DEF Init, TypeOK
<1>3. VotesDated
  BY <1>1 DEF VotesDated
<1>4. KeysSpent /\ ClustersLive /\ TimersDated /\ Graded /\ HeldLongEnough
  BY <1>1 DEF KeysSpent, ClustersLive, TimersDated, Graded, HeldLongEnough
<1>5. CountersAgree
  <2>1. Cardinality({}) = 0
    BY FS_EmptySet
  <2>2. /\ {i \in DOMAIN event : event[i].level >= Corroborated} = {}
        /\ {i \in DOMAIN event : event[i].level = Confirmed} = {}
        /\ {i \in DOMAIN event : event[i].outcome = "dismissed"} = {}
    BY <1>1
  <2>3. \A k \in Counters : C[k] = 0
    BY DEF Init
  <2>4. QED  BY <1>1, <2>1, <2>2, <2>3 DEF CountersAgree, Counters
<1>6. QED  BY <1>2, <1>3, <1>4, <1>5 DEF Inv

LEMMA InvNext == Inv /\ [Next]_vars => Inv'
<1> SUFFICES ASSUME Inv, [Next]_vars PROVE Inv'
  OBVIOUS
<1>1. ASSUME NEW v \in Vote, Arrive(v) PROVE Inv'
  BY <1>1, InvArrive
<1>2. ASSUME NEW v \in Vote, Withdraw(v) PROVE Inv'
  BY <1>2, InvWithdraw
<1>3. CASE StartTick
  BY <1>3, InvStartTick
<1>4. ASSUME NEW m \in Evaluations, DropWeaker \/ Insignificant(m) PROVE Inv'
  BY <1>4, InvSkip DEF DropWeaker, Insignificant
<1>5. ASSUME NEW m \in Evaluations, Absorb(m) PROVE Inv'
  BY <1>5, InvAbsorb
<1>6. ASSUME NEW m \in Evaluations, Create(m) PROVE Inv'
  BY <1>6, CreateBecomes, InvBecomes
<1>7. ASSUME NEW m \in Evaluations, Update(m) PROVE Inv'
  BY <1>7, UpdateBecomes, InvBecomes
<1>8. CASE CloseQuiet
  BY <1>8, InvCloseQuiet
<1>9. CASE UNCHANGED vars
  BY <1>9 DEF vars, voteVars, unitVars, Inv, TypeOK, VotesDated, KeysSpent, Spent, ClustersLive,
              TimersDated, Graded, HeldLongEnough, CountersAgree
<1>10. QED  BY <1>1, <1>2, <1>3, <1>4, <1>5, <1>6, <1>7, <1>8, <1>9 DEF Next, Apply

LEMMA InvAlways == Spec => []Inv
  BY InvInit, InvNext, PTL DEF Spec

-----------------------------------------------------------------------------
(* What a step may do to the events.                                       *)

Kept(r, q) ==
  r.status = q.status /\ r.outcome = q.outcome /\ r.level = q.level

LEMMA StepKinds ==
  ASSUME Inv, [Next]_vars
  PROVE  \/ \E m \in Evaluations : Create(m)
         \/ \E i \in Active, new \in Event : Becomes(i, event[i], new)
         \/ CloseQuiet
         \/ /\ DOMAIN event' = DOMAIN event
            /\ \A i \in DOMAIN event : Kept(event'[i], event[i])
<1>1. ASSUME UNCHANGED event
      PROVE  /\ DOMAIN event' = DOMAIN event
             /\ \A i \in DOMAIN event : Kept(event'[i], event[i])
  BY <1>1 DEF Kept
<1>2. ASSUME NEW v \in Vote, Arrive(v) \/ Withdraw(v) PROVE UNCHANGED event
  BY <1>2 DEF Arrive, Withdraw
<1>3. StartTick => UNCHANGED event
  BY DEF StartTick
<1>4. ASSUME NEW m \in Evaluations, DropWeaker \/ Insignificant(m) PROVE UNCHANGED event
  BY <1>4 DEF DropWeaker, Insignificant
<1>5. ASSUME NEW m \in Evaluations, Update(m)
      PROVE  \E i \in Active, new \in Event : Becomes(i, event[i], new)
  BY <1>5, UpdateBecomes
<1>6. ASSUME NEW m \in Evaluations, Absorb(m)
      PROVE  /\ DOMAIN event' = DOMAIN event
             /\ \A i \in DOMAIN event : Kept(event'[i], event[i])
  <2> DEFINE Takers == {i \in Active : Absorbs(i, m)}
  <2>1. CASE UNCHANGED event
    BY <1>1, <2>1
  <2>2. CASE /\ Takers # {}
             /\ event' = [event EXCEPT ![Lowest(Takers)].keys = @ \cup Cluster,
                                       ![Lowest(Takers)].lastSupport = Later(@, Support)]
    <3>1. PICK i : i = Lowest(Takers)
      OBVIOUS
    <3>2. Takers \in SUBSET DOMAIN event /\ Takers \subseteq Active
      BY DEF Active
    <3>3. i \in Active /\ event[i].status = "active"
      BY <2>2, <3>1, <3>2, FirstOf DEF Inv, Active
    <3>4. /\ DOMAIN event' = DOMAIN event
          /\ \A j \in DOMAIN event : j # i => event'[j] = event[j]
          /\ event'[i].status = "active" /\ event'[i].outcome = event[i].outcome
          /\ event'[i].level = event[i].level
      BY <1>6, <2>2, <3>1, <3>3, TakesIs DEF Absorb
    <3>5. QED  BY <3>3, <3>4 DEF Kept
  <2>3. QED  BY <1>6, <2>1, <2>2 DEF Absorb
<1>7. QED
  <2>1. UNCHANGED vars => UNCHANGED event
    BY DEF vars
  <2>2. QED  BY <1>1, <1>2, <1>3, <1>4, <1>5, <1>6, <2>1 DEF Next, Apply

LEMMA BecomesNoFailure ==
  ASSUME Inv, NEW i \in Active, NEW new \in Event, Becomes(i, event[i], new),
         new.level > event[i].level
  PROVE  now - event[i].failed[new.level] > HoldSec[new.level]
<1> DEFINE l == new.level
           f == event[i].failed[l]
           p == event[i].passSince[l]
<1>1. l \in Levels
  BY BecomesFrom
<1>2. /\ f \in Nat /\ p \in Nat /\ f < now
      /\ p # 0 => f < p
  BY <1>1, BecomesFrom DEF Becomes, Applied
<1>3. /\ now - new.passSince[l] >= HoldSec[l]
      /\ new.passSince[l] = IF p = 0 THEN now ELSE p
  BY DEF Becomes, Advances
<1>4. now \in Nat /\ HoldSec[l] \in Nat
  BY <1>1, Numbers DEF Inv
<1> HIDE DEF f, p, l
<1>5. now - f > HoldSec[l]
  BY <1>2, <1>3, <1>4
<1>6. QED  BY <1>5 DEF f, l

LEMMA StepNoFailure ==
  ASSUME Inv, [Next]_vars, NEW j \in DOMAIN event, event'[j].level > event[j].level
  PROVE  now - event[j].failed[event'[j].level] > HoldSec[event'[j].level]
<1>1. event[j].level \in Int
  BY EventsFinite DEF Inv, Event, EventAt, Levels
<1>2. ASSUME NEW m \in Evaluations, Create(m) PROVE FALSE
  <2>1. event'[j] = event[j]
    <3>1. PICK e : event' = Append(event, e)
      BY <1>2 DEF Create
    <3>2. j \in 1..Len(event) /\ event \in Seq(Event)
      BY EventsFinite DEF Inv, TypeOK
    <3>3. QED  BY <3>1, <3>2
  <2>2. QED  BY <1>1, <2>1
<1>3. ASSUME NEW i \in Active, NEW new \in Event, Becomes(i, event[i], new)
      PROVE  now - event[j].failed[event'[j].level] > HoldSec[event'[j].level]
  <2>1. event'[i] = new /\ (j # i => event'[j] = event[j])
    BY <1>3 DEF Becomes
  <2>2. j = i
    BY <1>1, <2>1
  <2>3. QED  BY <1>3, <2>1, <2>2, BecomesNoFailure
<1>4. ~CloseQuiet
  BY <1>1, ClosedIs
<1>5. QED
  <2>1. ~ Kept(event'[j], event[j])
    BY <1>1 DEF Kept
  <2>2. QED  BY <1>2, <1>3, <1>4, <2>1, StepKinds

LEMMA StepUsesOnce ==
  ASSUME Inv, [Next]_vars, NEW n \in DOMAIN event' \ DOMAIN event, NEW i \in DOMAIN event
  PROVE  event'[n].keys \cap event[i].keys = {}
<1>1. PICK m \in Evaluations : Create(m)
  <2>1. \A k \in Active, new \in Event : ~ Becomes(k, event[k], new)
    BY DEF Becomes, Active
  <2>2. ~ CloseQuiet
    BY ClosedIs
  <2>3. QED  BY <2>1, <2>2, StepKinds
<1> DEFINE old == Blank(m)
           new == Evaluated(Backed(Viewed(Blank(m), m)), m)
<1>2. Becomes(Len(event) + 1, old, new)
  BY <1>1, CreateBecomes
<1>3. todo # <<>> /\ Matching = {}
  BY <1>1 DEF Create
<1>4. event'[n].keys = Cluster
  <2>1. n = Len(event) + 1 /\ event'[n] = new /\ new.keys = old.keys \cup Cluster
    <3> HIDE DEF old, new
    <3>1. QED  BY <1>2 DEF Becomes, Advances
  <2>2. old.keys = {}
    BY DEF Blank
  <2>3. QED  BY <2>1, <2>2
<1>5. CASE event[i].status = "active"
  <2>1. Sharing = {}
    BY <1>3 DEF Matching
  <2>2. QED  BY <1>4, <1>5, <2>1 DEF Sharing, Active
<1>6. CASE event[i].status # "active"
  BY <1>3, <1>4, <1>6, ClusterIs
<1>7. QED  BY <1>5, <1>6

-----------------------------------------------------------------------------
(* How events live.                                                        *)

LifeOf(r) == [level |-> r.level, open |-> r.status = "active", outcome |-> r.outcome]
View == [i \in DOMAIN event |-> LifeOf(event[i])]
Lives == [level : Int, open : BOOLEAN, outcome : {"none", "dismissed", "closed"}]

LEMMA ViewIs ==
  ASSUME NEW s \in Seq(Event)
  PROVE  LET lives == [i \in DOMAIN s |-> LifeOf(s[i])]
         IN  lives \in Seq(Lives) /\ Len(lives) = Len(s) /\ DOMAIN lives = 1..Len(s)
<1>1. DOMAIN s = 1..Len(s) /\ Len(s) \in Nat
  OBVIOUS
<1>2. ASSUME NEW i \in DOMAIN s PROVE LifeOf(s[i]) \in Lives
  <2>1. s[i] \in Event
    OBVIOUS
  <2>2. s[i].level \in Int /\ s[i].outcome \in {"none", "dismissed", "closed"}
    BY <2>1 DEF Event, EventAt, Levels
  <2>3. QED  BY <2>2 DEF LifeOf, Lives
<1> DEFINE lives == [i \in DOMAIN s |-> LifeOf(s[i])]
<1>3. lives \in [1..Len(s) -> Lives]
  BY <1>1, <1>2
<1> HIDE DEF lives
<1>4. lives \in Seq(Lives) /\ Len(lives) = Len(s) /\ DOMAIN lives = 1..Len(s)
  BY <1>1, <1>3
<1>5. QED  BY <1>4 DEF lives

LEMMA LifeNew ==
  ASSUME Inv, NEW m \in Evaluations, Create(m)
  PROVE  Life!Create
<1> DEFINE old == Blank(m)
           new == Evaluated(Backed(Viewed(old, m)), m)
<1>1. Becomes(Len(event) + 1, old, new)
  BY CreateBecomes
<1> HIDE DEF old, new
<1>2. /\ event \in Seq(Event) /\ event' \in Seq(Event) /\ Len(event) \in Nat
      /\ Len(event') = Len(event) + 1
      /\ event'[Len(event) + 1] = new /\ \A j \in 1..Len(event) : event'[j] = event[j]
  BY <1>1, EventsFinite DEF Inv, TypeOK, Becomes
<1>3. new.status = "active" /\ new.outcome = "none" /\ new.level \in 1..3
  BY <1>1, BecomesFrom DEF Levels
<1> DEFINE r == LifeOf(new)
<1>4. r = Life!Fresh(new.level)
  BY <1>3 DEF LifeOf, Life!Fresh
<1>5. /\ View \in Seq(Lives) /\ Len(View) = Len(event) /\ View' \in Seq(Lives) /\ Len(View') = Len(event')
  BY <1>2, ViewIs DEF View
<1>6. View'[Len(event) + 1] = r /\ \A j \in 1..Len(event) : View'[j] = View[j]
  BY <1>2 DEF View
<1>7. r \in Lives
  BY <1>2, <1>5, <1>6
<1> HIDE DEF r
<1>8. View' = Append(View, r)
  <2> DEFINE a == Append(View, r)
  <2>1. /\ a \in Seq(Lives) /\ Len(a) = Len(event) + 1 /\ a[Len(event) + 1] = r
        /\ \A j \in 1..Len(event) : a[j] = View[j]
    BY <1>2, <1>5, <1>7, AppendProperties
  <2> HIDE DEF a
  <2>2. \A j \in 1..Len(View') : View'[j] = a[j]
    BY <1>2, <1>5, <1>6, <2>1
  <2>3. View' = a
    BY <1>2, <1>5, <2>1, <2>2, SeqEqual
  <2>4. QED  BY <2>3 DEF a
<1>9. QED  BY <1>3, <1>4, <1>8 DEF Life!Create, Life!Candidate, Life!Confirmed, View, LifeOf

LEMMA LifeHigher ==
  ASSUME Inv, NEW i \in Active, NEW new \in Event, Becomes(i, event[i], new)
  PROVE  Life!Raise \/ View' = View
<1>1. /\ event \in Seq(Event) /\ event' \in Seq(Event) /\ DOMAIN event' = DOMAIN event
      /\ i \in DOMAIN event /\ event[i].status = "active"
      /\ event'[i] = new /\ \A j \in DOMAIN event : j # i => event'[j] = event[j]
  BY DEF Inv, TypeOK, Becomes, Active
<1>2. /\ new.status = event[i].status /\ new.outcome = event[i].outcome
      /\ event[i].level <= new.level /\ new.level \in 1..3 /\ event[i].level \in 1..3
  BY <1>1, BecomesFrom, EventsFinite DEF Inv, Event, EventAt, Levels, Becomes, Advances
<1>3. CASE new.level = event[i].level
  <2>1. \A j \in DOMAIN event : LifeOf(event'[j]) = LifeOf(event[j])
    BY <1>1, <1>2, <1>3 DEF LifeOf
  <2>2. QED  BY <1>1, <2>1 DEF View
<1>4. CASE new.level > event[i].level
  <2>1. View' = [View EXCEPT ![i].level = new.level]
    <3>1. [View EXCEPT ![i].level = new.level] = [View EXCEPT ![i] = [LifeOf(event[i]) EXCEPT !.level = new.level]]
      BY <1>1 DEF View
    <3>2. [LifeOf(event[i]) EXCEPT !.level = new.level] = LifeOf(new)
      BY <1>2 DEF LifeOf
    <3>3. View' = [View EXCEPT ![i] = LifeOf(new)]
      BY <1>1 DEF View
    <3>4. QED  BY <3>1, <3>2, <3>3
  <2>2. View[i].open /\ View[i].level = event[i].level /\ i \in DOMAIN View
    BY <1>1 DEF View, LifeOf
  <2>3. QED  BY <1>2, <1>4, <2>1, <2>2 DEF Life!Raise, Life!Candidate, Life!Confirmed, View, LifeOf
<1>5. QED  BY <1>2, <1>3, <1>4

LEMMA LifeClosed ==
  ASSUME Inv, CloseQuiet
  PROVE  Life!Close \/ View' = View
<1>1. /\ DOMAIN event' = DOMAIN event
      /\ \A i \in DOMAIN event :
           /\ event'[i].level = event[i].level
           /\ i \in Closing =>
                /\ event[i].status = "active" /\ event'[i].status = "recent"
                /\ event'[i].outcome = IF event[i].level = 1 THEN "dismissed" ELSE "closed"
           /\ i \notin Closing =>
                /\ event'[i].status = "active" <=> event[i].status = "active"
                /\ event'[i].outcome = event[i].outcome
  BY ClosedIs
<1>2. Closing \subseteq DOMAIN event
  BY DEF Closing, Active
<1>3. ASSUME NEW i \in DOMAIN event
      PROVE  LifeOf(event'[i]) =
               IF i \in Closing THEN [LifeOf(event[i]) EXCEPT !.open = FALSE, !.outcome = Life!Verdict(LifeOf(event[i]))]
                                ELSE LifeOf(event[i])
  <2>1. CASE i \in Closing
    <3>1. Life!Verdict(LifeOf(event[i])) = event'[i].outcome
      BY <1>1, <2>1 DEF Life!Verdict, Life!Candidate, LifeOf
    <3>2. event'[i].level = event[i].level /\ (event'[i].status = "active") = FALSE
      BY <1>1, <2>1
    <3>3. QED  BY <2>1, <3>1, <3>2 DEF LifeOf
  <2>2. CASE i \notin Closing
    <3>1. /\ event'[i].level = event[i].level /\ event'[i].outcome = event[i].outcome
          /\ (event'[i].status = "active") = (event[i].status = "active")
      BY <1>1, <2>2
    <3>2. QED  BY <2>2, <3>1 DEF LifeOf
  <2>3. QED  BY <2>1, <2>2
<1>4. CASE Closing = {}
  BY <1>1, <1>3, <1>4 DEF View
<1>5. CASE Closing # {}
  <2>1. \A i \in Closing : View[i].open
    BY <1>1, <1>2 DEF View, LifeOf
  <2>2. View' = [i \in DOMAIN View |->
                  IF i \in Closing THEN [View[i] EXCEPT !.open = FALSE, !.outcome = Life!Verdict(View[i])]
                                   ELSE View[i]]
    <3>1. DOMAIN View = DOMAIN event /\ \A i \in DOMAIN event : View[i] = LifeOf(event[i])
      BY DEF View
    <3>2. View' = [i \in DOMAIN event |-> LifeOf(event'[i])]
      BY <1>1 DEF View
    <3>3. QED  BY <1>3, <3>1, <3>2
  <2>3. Closing \in SUBSET DOMAIN View
    BY <1>2 DEF View
  <2>4. QED  BY <1>5, <2>1, <2>2, <2>3 DEF Life!Close, View, LifeOf
<1>6. QED  BY <1>4, <1>5

LEMMA LifeStep ==
  ASSUME Inv, [Next]_vars
  PROVE  Life!Next \/ View' = View
<1>1. ASSUME DOMAIN event' = DOMAIN event, \A i \in DOMAIN event : Kept(event'[i], event[i])
      PROVE  View' = View
  <2>1. \A i \in DOMAIN event : LifeOf(event'[i]) = LifeOf(event[i])
    BY <1>1 DEF Kept, LifeOf
  <2>2. QED  BY <1>1, <2>1 DEF View
<1>2. QED  BY <1>1, StepKinds, LifeNew, LifeHigher, LifeClosed DEF Life!Next

-----------------------------------------------------------------------------
(* The theorems.                                                           *)

(* The types of the engine's state (engine.go, Engine and Event).          *)
THEOREM TypeCorrect == Spec => []TypeOK
<1>1. Inv => TypeOK
  BY DEF Inv
<1>2. QED  BY <1>1, InvAlways, PTL

(* Every level of an event was granted, and none before its hold time has  *)
(* passed since the event was created (engine.go, grant).                  *)
THEOREM HeldCorrect == Spec => []HeldLongEnough
<1>1. Inv => HeldLongEnough
  BY DEF Inv
<1>2. QED  BY <1>1, InvAlways, PTL

(* The counters count every event once at each level it reached or passed, *)
(* and every dismissed one (engine.go, apply, grant and Tick).             *)
THEOREM CountersCorrect == Spec => []CountersAgree
<1>1. Inv => CountersAgree
  BY DEF Inv
<1>2. QED  BY <1>1, InvAlways, PTL

(* A failed evaluation restarts the hold of a level: none that was granted *)
(* failed within its hold time (engine.go, grant).                         *)
THEOREM HoldCorrect == Spec => NoFailureInHold
<1> DEFINE A == \A i \in DOMAIN event :
                  event'[i].level > event[i].level =>
                    now - event[i].failed[event'[i].level] > HoldSec[event'[i].level]
<1>1. Inv /\ [Next]_vars => A
  BY StepNoFailure
<1> HIDE DEF A
<1>2. Spec => [][A]_vars
  BY <1>1, InvAlways, PTL DEF Spec
<1>3. QED  BY <1>2 DEF NoFailureInHold, A

(* No event is made of votes that another has used (engine.go, matchActive *)
(* and consumed).                                                          *)
THEOREM UsedOnceCorrect == Spec => EvidenceUsedOnce
<1> DEFINE A == \A n \in DOMAIN event' \ DOMAIN event :
                  \A i \in DOMAIN event : event'[n].keys \cap event[i].keys = {}
<1>1. Inv /\ [Next]_vars => A
  BY StepUsesOnce
<1> HIDE DEF A
<1>2. Spec => [][A]_vars
  BY <1>1, InvAlways, PTL DEF Spec
<1>3. QED  BY <1>2 DEF EvidenceUsedOnce, A

(* Events live as everything downstream of onEventUpdate assumes: levels   *)
(* rise while an event is open, and it closes once (engine.go, closeQuiet).*)
THEOREM LivesCorrect == Spec => LifeSpec
<1>1. Init => Life!Init
  <2> SUFFICES ASSUME Init PROVE Life!Init
    OBVIOUS
  <2>1. event = <<>>
    BY DEF Init
  <2>2. DOMAIN event = {}
    BY <2>1
  <2>3. QED  BY <2>2 DEF Life!Init
<1>2. Inv /\ [Next]_vars => [Life!Next]_[i \in DOMAIN event |->
                                  [level |-> event[i].level,
                                   open |-> event[i].status = "active",
                                   outcome |-> event[i].outcome]]
  BY LifeStep DEF View, LifeOf
<1>3. QED  BY <1>1, <1>2, InvAlways, PTL DEF Spec, LifeSpec, Life!Spec

=============================================================================
