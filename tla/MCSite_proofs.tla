----------------------------- MODULE MCSite_proofs -----------------------------
(***************************************************************************)
(* What the pages of the website promise, for every value of the           *)
(* constants.  Each page has an invariant of its own, which is proved      *)
(* under the names that the page's variables have in MCSite; SiteInv says  *)
(* that the invariant of the page that is shown holds.                     *)
(***************************************************************************)
EXTENDS MCSite, TLAPS, Integers, Sequences, SequenceTheorems, FiniteSetTheorems, WellFoundedInduction

-----------------------------------------------------------------------------
LEMMA LeastExists ==
  ASSUME NEW S, S \subseteq Nat, S # {}
  PROVE  \E x \in S : \A y \in S : x <= y
<1> DEFINE L == OpToRel(<, Nat)
<1>1. \A x, y \in Nat : x < y => <<x, y>> \in L
  BY DEF OpToRel
<1>2. IsWellFoundedOn(L, Nat)
  BY NatLessThanWellFounded
<1> HIDE DEF L
<1>3. PICK x \in S : \A y \in S : ~ (<<y, x>> \in L)
  BY <1>2, WFMin
<1>4. ASSUME NEW y \in S PROVE x <= y
  <2>1. x \in Nat /\ y \in Nat /\ ~ (y < x)
    BY <1>1, <1>3
  <2>2. QED  BY <2>1
<1>5. QED  BY <1>4

LEMMA GreatestExists ==
  ASSUME NEW S, IsFiniteSet(S), S \subseteq Int, S # {}
  PROVE  \E x \in S : \A y \in S : y <= x
<1> DEFINE Above(x) == {y \in S : y > x}
           T == {Cardinality(Above(x)) : x \in S}
<1>1. \A x \in S : IsFiniteSet(Above(x)) /\ Cardinality(Above(x)) \in Nat
  BY FS_Subset, FS_CardinalityType
<1>2. PICK k \in T : \A j \in T : k <= j
  <2>1. T \subseteq Nat /\ T # {}
    BY <1>1
  <2> HIDE DEF T
  <2>2. QED  BY <2>1, LeastExists
<1>3. PICK x \in S : k = Cardinality(Above(x))
  OBVIOUS
<1>4. ASSUME NEW y \in S PROVE y <= x
  <2>1. x \in Int /\ y \in Int
    OBVIOUS
  <2>2. SUFFICES ASSUME y > x PROVE FALSE
    BY <2>1
  <2>3. Above(y) \subseteq Above(x)
    <3> SUFFICES ASSUME NEW z \in S, z > y PROVE z > x
      OBVIOUS
    <3>1. z \in Int
      OBVIOUS
    <3>2. QED  BY <2>1, <2>2, <3>1
  <2>4. Above(y) # Above(x)
    BY <2>1, <2>2
  <2>5. Cardinality(Above(y)) <= Cardinality(Above(x)) /\ Cardinality(Above(y)) # Cardinality(Above(x))
    <3> HIDE DEF Above
    <3>1. QED  BY <1>1, <2>3, <2>4, FS_Subset
  <2>6. Cardinality(Above(x)) <= Cardinality(Above(y))
    BY <1>2, <1>3
  <2>7. QED
    <3> HIDE DEF Above
    <3>1. QED  BY <1>1, <2>5, <2>6
<1>5. QED  BY <1>4

LEMMA GreatestIs ==
  ASSUME NEW S, IsFiniteSet(S), S \subseteq Int, S # {}
  PROVE  Rp!Max(S) \in S /\ \A y \in S : y <= Rp!Max(S)
<1>1. \E x \in S : \A y \in S : x >= y
  BY GreatestExists
<1>2. QED  BY <1>1 DEF Rp!Max

-----------------------------------------------------------------------------
(* The page that explains how the network works: s1 is the selected step,  *)
(* s6 what the address says.                                               *)

HowInv == Ho!TypeOK /\ Ho!AddressOpensStep

LEMMA HowNumbers == Steps \in Nat \ {0} /\ Opened \subseteq Nat /\ Selections \in Nat
  BY SiteAssumption DEF Ho!HowAssumption

LEMMA HowInit == Ho!Init => HowInv
<1> SUFFICES ASSUME Ho!Init PROVE HowInv
  OBVIOUS
<1>1. s6 \in Nat /\ s1 = Ho!StepOf(s6) /\ s1 \in 0..Steps - 1
  BY HowNumbers DEF Ho!Init, Ho!StepOf
<1>2. QED  BY <1>1, HowNumbers DEF Ho!Init, HowInv, Ho!TypeOK, Ho!AddressOpensStep

LEMMA HowNext == HowInv /\ [Ho!Next]_(Ho!vars) => HowInv'
<1> SUFFICES ASSUME HowInv, [Ho!Next]_(Ho!vars) PROVE HowInv'
  OBVIOUS
<1>1. Steps \in Nat \ {0} /\ Selections \in Nat
  BY HowNumbers
<1>2. ASSUME NEW to \in Int, Ho!Go(to), s3' = s3, s7' \in 0..Selections PROVE HowInv'
  <2> DEFINE n == to % Steps
  <2>1. n \in 0..Steps - 1
    BY <1>1
  <2>2. s1' = n /\ s6' = n + 1 /\ s2' \in {-1, 1} /\ s5' = (n # s3) /\ s4' = (s4 \/ n # s3)
    BY <1>2 DEF Ho!Go, Ho!Fade
  <2> HIDE DEF n
  <2>3. s6' \in 1..Steps /\ s6' - 1 = s1' /\ s6' \in Nat
    BY <1>1, <2>1, <2>2
  <2>4. Ho!AddressOpensStep'
    BY <2>3 DEF Ho!AddressOpensStep, Ho!StepOf
  <2>5. s4' \in BOOLEAN /\ s5' \in BOOLEAN
    BY <2>2 DEF HowInv, Ho!TypeOK
  <2>6. QED  BY <1>2, <2>1, <2>2, <2>3, <2>4, <2>5 DEF HowInv, Ho!TypeOK
<1>3. CASE Ho!Select
  <2>1. s7' \in 0..Selections /\ s3' = s3 /\ s1 \in 0..Steps - 1
    BY <1>1, <1>3 DEF Ho!Select, HowInv, Ho!TypeOK
  <2>2. PICK to \in (0..Steps - 1) \cup {s1 - 1, s1 + 1} : Ho!Go(to)
    BY <1>3 DEF Ho!Select
  <2>3. to \in Int
    BY <1>1, <2>1
  <2>4. QED  BY <1>2, <2>1, <2>2, <2>3
<1>4. CASE Ho!Swap
  BY <1>4 DEF Ho!Swap, HowInv, Ho!TypeOK, Ho!AddressOpensStep, Ho!StepOf
<1>5. CASE UNCHANGED Ho!vars
  BY <1>5 DEF Ho!vars, HowInv, Ho!TypeOK, Ho!AddressOpensStep, Ho!StepOf
<1>6. QED  BY <1>3, <1>4, <1>5 DEF Ho!Next

-----------------------------------------------------------------------------
(* The replay of an event: s1 is the event, s2 its clock, s4 whether it    *)
(* plays, s6 whether it came to its end.  Then its clock is at the end.    *)

ReplayInv == Rp!TypeOK /\ (s6 => ~s4 /\ s2 = Rp!End(s1))

LEMMA ReplayNumbers ==
  /\ IsFiniteSet(ReplayAreas) /\ IsFiniteSet(Times) /\ Times \subseteq Nat \ {0}
  /\ Before \in Nat /\ Beyond \in Nat /\ Empty \in Nat /\ ReplayClicks \in Nat
  /\ Speeds \subseteq Nat /\ 1 \in Speeds
<1>1. Rp!IsFiniteSet(ReplayAreas) /\ Rp!IsFiniteSet(Times) /\ Times \subseteq Nat \ {0}
  BY SiteAssumption DEF Rp!ReplayAssumption
<1>2. {Before, Beyond, Empty, ReplayClicks} \subseteq Nat /\ 1 \in Speeds /\ Speeds \subseteq Nat
  BY SiteAssumption DEF Rp!ReplayAssumption
<1>3. Before \in Nat /\ Beyond \in Nat /\ Empty \in Nat /\ ReplayClicks \in Nat
  BY <1>2
<1>4. IsFiniteSet(ReplayAreas) /\ IsFiniteSet(Times)
  BY <1>1 DEF Rp!IsFiniteSet, IsFiniteSet
<1>5. QED  BY <1>1, <1>2, <1>3, <1>4

LEMMA EndIsLast ==
  ASSUME NEW e \in Rp!Events
  PROVE  /\ Rp!End(e) \in Nat
         /\ \A a \in Rp!Cells(e) : e.first[a] + Before <= Rp!End(e)
         /\ \A l \in e.levels : l + Before <= Rp!End(e)
<1>1. e.first \in [ReplayAreas -> Times \cup {0}] /\ e.levels \subseteq Times
  BY DEF Rp!Events
<1> DEFINE F == {e.first[a] : a \in Rp!Cells(e)}
           c == IF Rp!Cells(e) = {} THEN Empty ELSE Rp!Max(F)
           l == Rp!Later(e.levels)
<1>2. c \in Nat /\ \A a \in Rp!Cells(e) : e.first[a] <= c
  <2>1. F \subseteq Times /\ IsFiniteSet(F) /\ F \subseteq Int
    <3>1. F \subseteq Times
      BY <1>1 DEF Rp!Cells
    <3> HIDE DEF F
    <3>2. IsFiniteSet(F)
      BY <3>1, ReplayNumbers, FS_Subset
    <3>3. F \subseteq Int
      BY <3>1, ReplayNumbers
    <3>4. QED  BY <3>1, <3>2, <3>3
  <2>2. CASE Rp!Cells(e) = {}
    BY <2>2, ReplayNumbers
  <2>3. CASE Rp!Cells(e) # {}
    <3>1. F # {} /\ \A a \in Rp!Cells(e) : e.first[a] \in F
      BY <2>3
    <3>2. c = Rp!Max(F)
      BY <2>3
    <3> HIDE DEF F, c
    <3>3. Rp!Max(F) \in F /\ \A y \in F : y <= Rp!Max(F)
      BY <2>1, <3>1, GreatestIs
    <3>4. QED  BY <2>1, <3>1, <3>2, <3>3, ReplayNumbers
  <2>4. QED  BY <2>2, <2>3
<1>3. l \in Nat /\ \A x \in e.levels : x <= l
  <2>1. CASE e.levels = {}
    BY <2>1 DEF Rp!Later
  <2>2. CASE e.levels # {}
    <3>1. l = Rp!Max(e.levels)
      BY <2>2 DEF Rp!Later
    <3>2. IsFiniteSet(e.levels)
      BY <1>1, ReplayNumbers, FS_Subset
    <3> HIDE DEF c, l, F
    <3>3. e.levels \subseteq Int
      <4>1. Times \subseteq Int
        BY ReplayNumbers
      <4>2. QED  BY <1>1, <4>1
    <3>4. Rp!Max(e.levels) \in e.levels /\ \A y \in e.levels : y <= Rp!Max(e.levels)
      BY <2>2, <3>2, <3>3, GreatestIs
    <3>5. QED  BY <1>1, <3>1, <3>4, ReplayNumbers
  <2>3. QED  BY <2>1, <2>2
<1>4. Rp!End(e) = Before + Beyond + Rp!Max({c, l})
  BY DEF Rp!End
<1> HIDE DEF c, l
<1>5. Rp!Max({c, l}) \in Nat /\ c <= Rp!Max({c, l}) /\ l <= Rp!Max({c, l})
  <2>1. IsFiniteSet({c, l})
    <3>1. {c, l} = {c} \cup {l}
      OBVIOUS
    <3>2. IsFiniteSet({c}) /\ IsFiniteSet({l})
      BY FS_Singleton
    <3>3. QED  BY <3>1, <3>2, FS_Union
  <2>2. Rp!Max({c, l}) \in {c, l} /\ \A y \in {c, l} : y <= Rp!Max({c, l})
    BY <1>2, <1>3, <2>1, GreatestIs
  <2>3. QED  BY <1>2, <1>3, <2>2
<1>6. ASSUME NEW a \in Rp!Cells(e) PROVE e.first[a] + Before <= Rp!End(e)
  <2>1. e.first[a] \in Nat
    BY <1>1, ReplayNumbers DEF Rp!Cells
  <2>2. QED  BY <1>2, <1>4, <1>5, <2>1, ReplayNumbers
<1>7. ASSUME NEW x \in e.levels PROVE x + Before <= Rp!End(e)
  <2>1. x \in Nat /\ x <= l
    BY <1>1, <1>3, ReplayNumbers
  <2>2. QED  BY <1>3, <1>4, <1>5, <2>1, ReplayNumbers
<1>8. QED  BY <1>4, <1>5, <1>6, <1>7, ReplayNumbers

LEMMA ReplayInit == Rp!Init => ReplayInv
<1> SUFFICES ASSUME Rp!Init PROVE ReplayInv
  OBVIOUS
<1>1. s1 \in Rp!Events /\ s2 \in Nat /\ s3 \in Nat /\ s4 \in BOOLEAN /\ s6 \in BOOLEAN
  BY DEF Rp!Init
<1>2. s5 \in Speeds /\ s7 \in 0..ReplayClicks
  BY ReplayNumbers DEF Rp!Init
<1>3. ~s6
  BY DEF Rp!Init
<1>4. QED  BY <1>1, <1>2, <1>3 DEF ReplayInv, Rp!TypeOK

LEMMA ReplayNext == ReplayInv /\ [Rp!Next]_(Rp!vars) => ReplayInv'
<1> SUFFICES ASSUME ReplayInv, [Rp!Next]_(Rp!vars) PROVE ReplayInv'
  OBVIOUS
<1>1. ReplayClicks \in Nat /\ Speeds \subseteq Nat
  BY ReplayNumbers
<1>2. Rp!End(s1) \in Nat /\ s1 \in Rp!Events
  BY EndIsLast DEF ReplayInv, Rp!TypeOK
<1>3. CASE Rp!Frame
  <2>1. /\ s2' \in Nat /\ s4' \in BOOLEAN /\ s6' \in BOOLEAN /\ UNCHANGED <<s1, s5, s7>>
        /\ s6' => ~s4' /\ s2' = Rp!End(s1)
    <3> DEFINE to == s2 + s5
               over == s4 /\ to > Rp!End(s1)
    <3>1. /\ s2' = IF over THEN Rp!End(s1) ELSE IF s4 THEN to ELSE s2
          /\ s4' = (s4 /\ ~over) /\ s6' = (s6 \/ over) /\ UNCHANGED <<s1, s5, s7>>
      BY <1>3 DEF Rp!Frame
    <3>2. to \in Nat /\ s2 \in Nat /\ s4 \in BOOLEAN /\ s6 \in BOOLEAN /\ over \in BOOLEAN
          /\ (over => s4) /\ (s6 => ~s4 /\ s2 = Rp!End(s1))
      BY <1>1 DEF ReplayInv, Rp!TypeOK
    <3> HIDE DEF to, over
    <3>3. QED  BY <1>2, <3>1, <3>2
  <2>2. s3' \in Nat
    BY <1>3, <2>1 DEF Rp!Frame, ReplayInv, Rp!TypeOK
  <2>3. QED  BY <2>1, <2>2 DEF ReplayInv, Rp!TypeOK, Rp!End, Rp!Cells
<1>4. CASE Rp!PlayPause
  <2>1. /\ s7' \in 0..ReplayClicks /\ s4' \in BOOLEAN /\ s6' = FALSE /\ UNCHANGED <<s1, s3, s5>>
        /\ s2' \in {0, s2}
    BY <1>1, <1>4 DEF Rp!PlayPause, Rp!Click, ReplayInv, Rp!TypeOK
  <2>2. ~s6' /\ s6' \in BOOLEAN
    BY <2>1
  <2>3. s2' \in Nat
    BY <2>1 DEF ReplayInv, Rp!TypeOK
  <2>4. Rp!TypeOK'
    BY <2>1, <2>2, <2>3 DEF ReplayInv, Rp!TypeOK
  <2>5. QED  BY <2>2, <2>4 DEF ReplayInv
<1>5. ASSUME NEW s \in Speeds, Rp!SetSpeed(s) PROVE ReplayInv'
  <2>1. /\ s7' \in 0..ReplayClicks /\ s5' = s /\ UNCHANGED <<s1, s2, s3, s4, s6>>
    BY <1>1, <1>5 DEF Rp!SetSpeed, Rp!Click, ReplayInv, Rp!TypeOK
  <2>2. QED  BY <2>1 DEF ReplayInv, Rp!TypeOK, Rp!End, Rp!Cells
<1>6. ASSUME NEW t \in 0..Rp!End(s1), Rp!Scrub(t) PROVE ReplayInv'
  <2>1. /\ s7' \in 0..ReplayClicks /\ s2' = t /\ s3' = t /\ s4' = FALSE /\ s6' = FALSE
        /\ UNCHANGED <<s1, s5>>
    BY <1>1, <1>6 DEF Rp!Scrub, Rp!Click, ReplayInv, Rp!TypeOK
  <2>2. s4' \in BOOLEAN /\ s6' \in BOOLEAN /\ ~s6'
    BY <2>1
  <2>3. t \in Nat
    BY <1>2
  <2>4. Rp!TypeOK'
    BY <2>1, <2>2, <2>3 DEF ReplayInv, Rp!TypeOK
  <2>5. QED  BY <2>2, <2>4 DEF ReplayInv
<1>7. ASSUME NEW e \in Rp!Events, Rp!Loaded(e) PROVE ReplayInv'
  <2>1. /\ s7' \in 0..ReplayClicks /\ s1' = e /\ s6' = FALSE /\ UNCHANGED <<s2, s3, s4, s5>>
    BY <1>1, <1>7 DEF Rp!Loaded, Rp!Click, ReplayInv, Rp!TypeOK
  <2>2. QED  BY <2>1 DEF ReplayInv, Rp!TypeOK, Rp!Events
<1>8. CASE UNCHANGED Rp!vars
  BY <1>8 DEF Rp!vars, ReplayInv, Rp!TypeOK, Rp!End, Rp!Cells
<1>9. QED  BY <1>3, <1>4, <1>5, <1>6, <1>7, <1>8 DEF Rp!Next

LEMMA ReplayPlaysAll == ReplayInv => Rp!PlayedAll
<1> SUFFICES ASSUME ReplayInv, s6 PROVE Rp!PlayedAll
  BY DEF Rp!PlayedAll
<1>1. s2 = Rp!End(s1) /\ s1 \in Rp!Events
  BY DEF ReplayInv, Rp!TypeOK
<1>2. Rp!Reached(s1, s2) = Rp!Cells(s1) /\ Rp!Passed(s1, s2) = s1.levels
  BY <1>1, EndIsLast DEF Rp!Reached, Rp!Passed
<1>3. QED  BY <1>2 DEF Rp!PlayedAll

-----------------------------------------------------------------------------
(* The drawing of the network: s2 says whether motion is reduced, s3 are   *)
(* the areas of the snapshot, s4 those that are drawn, s8 the areas from   *)
(* which a packet is under way.  With reduced motion there are none.       *)

DrawingInv == Ne!TypeOK /\ Ne!PacketsHaveAreas /\ (s2 => s8 = {})

LEMMA DrawingNumbers ==
  /\ Most \in Nat /\ Motion \subseteq BOOLEAN /\ NetworkChanges \in Nat /\ NetworkMoves \in Nat
  BY SiteAssumption DEF Ne!NetworkAssumption

LEMMA NothingDrawn ==
  Ne!Nothing \in [version : 0..NetworkChanges, areas : 0..Most] /\ Ne!Nothing.areas = 0
  BY DrawingNumbers DEF Ne!Nothing

LEMMA DrawingInit == Ne!Init => DrawingInv
<1> SUFFICES ASSUME Ne!Init PROVE DrawingInv
  OBVIOUS
<1>1. s2 \in BOOLEAN /\ s9 \in 0..NetworkMoves /\ s8 = {}
  BY DrawingNumbers DEF Ne!Init
<1>2. {s3, s4} \subseteq [version : 0..NetworkChanges, areas : 0..Most]
  BY NothingDrawn DEF Ne!Init
<1>3. QED  BY <1>1, <1>2 DEF Ne!Init, DrawingInv, Ne!TypeOK, Ne!PacketsHaveAreas

LEMMA DrawingNext == DrawingInv /\ [Ne!Next]_(Ne!vars) => DrawingInv'
<1> SUFFICES ASSUME DrawingInv, [Ne!Next]_(Ne!vars) PROVE DrawingInv'
  OBVIOUS
<1> USE DrawingNumbers
<1>1. ASSUME NEW v \in {"field", "graph", "map"}, Ne!Tab(v) PROVE DrawingInv'
  <2>1. /\ s1' = v /\ s4' = Ne!Nothing /\ s9' \in 0..NetworkMoves /\ UNCHANGED <<s2, s3, s6>>
    BY <1>1 DEF Ne!Tab, Ne!Move, DrawingInv, Ne!TypeOK
  <2>2. s5' \in BOOLEAN /\ s8' = {} /\ s7' \in [visible : BOOLEAN, spoke : BOOLEAN]
    <3>1. Ne!Mount \/ Ne!Unmount
      BY <1>1 DEF Ne!Tab
    <3>2. CASE Ne!Mount
      BY ONLY <3>2 DEF Ne!Mount
    <3>3. CASE Ne!Unmount
      BY ONLY <3>3 DEF Ne!Unmount
    <3>4. QED  BY <3>1, <3>2, <3>3
  <2>3. QED  BY <2>1, <2>2, NothingDrawn DEF DrawingInv, Ne!TypeOK, Ne!PacketsHaveAreas
<1>2. CASE Ne!Language
  BY <1>2 DEF Ne!Language, Ne!Mount, Ne!Move, DrawingInv, Ne!TypeOK, Ne!PacketsHaveAreas
<1>3. CASE Ne!Scroll
  BY <1>3 DEF Ne!Scroll, Ne!Move, DrawingInv, Ne!TypeOK, Ne!PacketsHaveAreas
<1>4. CASE Ne!Observe
  BY <1>4 DEF Ne!Observe, DrawingInv, Ne!TypeOK, Ne!PacketsHaveAreas
<1>5. CASE Ne!Frame
  <2>1. /\ s4' = s3 /\ s5' = (s7.visible /\ ~s2) /\ UNCHANGED <<s1, s2, s3, s6, s7, s9>>
        /\ s3.areas \in 0..Most
    BY <1>5 DEF Ne!Frame, DrawingInv, Ne!TypeOK
  <2>2. s8' \subseteq 1..s3.areas /\ (s2 => s8' = {})
    <3>1. CASE s2
      BY <1>5, <3>1 DEF Ne!Frame, DrawingInv
    <3>2. CASE ~s2
      <4>1. PICK new \in Ne!Launched(s3.areas) : s8' \in Ne!Flying(s8 \cup new, s3.areas)
        BY <1>5, <3>2 DEF Ne!Frame
      <4>2. new \subseteq 1..s3.areas /\ s8 \subseteq 1..Most
        BY <4>1 DEF Ne!Launched, DrawingInv, Ne!TypeOK
      <4>3. \A a \in s8 \cup new : a \in Int /\ 1 <= a
        BY <2>1, <4>2
      <4>4. QED  BY <2>1, <3>2, <4>1, <4>3 DEF Ne!Flying
    <3>3. QED  BY <3>1, <3>2 DEF DrawingInv, Ne!TypeOK
  <2>3. QED  BY <2>1, <2>2 DEF DrawingInv, Ne!TypeOK, Ne!PacketsHaveAreas
<1>6. ASSUME NEW n \in 0..Most, Ne!Arrives(n) PROVE DrawingInv'
  BY <1>6 DEF Ne!Arrives, DrawingInv, Ne!TypeOK, Ne!PacketsHaveAreas
<1>7. CASE UNCHANGED Ne!vars
  BY <1>7 DEF Ne!vars, DrawingInv, Ne!TypeOK, Ne!PacketsHaveAreas
<1>8. QED  BY <1>1, <1>2, <1>3, <1>4, <1>5, <1>6, <1>7 DEF Ne!Next

-----------------------------------------------------------------------------
(* The card that ties a phone to a chat: s1 is what the page knows of the  *)
(* bot, s2 the link, s3 its interval, s4 the timeouts of tapped(), s5 the  *)
(* requests, s6 the bot, s7 the pad of labels, s8 the button of alerts, s9 *)
(* what is left of the story.                                              *)

LinkUrls     == [shown : BOOLEAN, age : Te!Ages, tapped : BOOLEAN, claimed : BOOLEAN]
LinkPaces    == [waits : BOOLEAN, timer : 0..LinkRenew, runs : BOOLEAN]
LinkRequests == [stage : {"free", "sent", "served"}, age : Te!Ages]
LinkBots     == [on : BOOLEAN, linked : BOOLEAN, given : BOOLEAN, age : Te!Ages]
LinkAlerts   == [bot : {"unknown", "known", "none"}, busy : BOOLEAN, opened : {"none", "area", "bare"}]
LinkPads     == [recent : Seq(LinkKinds), sent : LinkKinds \cup {"none"}, noted : BOOLEAN, err : BOOLEAN]

LinkTypes ==
  /\ s1 \in {"unknown", "off", "on", "linked"} /\ s2 \in LinkUrls /\ s3 \in LinkPaces
  /\ s4 \in Nat /\ s5 \in [Te!Slots -> LinkRequests] /\ s6 \in LinkBots
  /\ s7 \in LinkPads /\ Len(s7.recent) <= 4
  /\ s8 \in LinkAlerts /\ s9 \in [{"link", "rest"} -> Nat]

Requested == \E i \in Te!Slots : s5[i].stage # "free"

\* A link that is used up, or old, is about to be replaced.
LinkKept ==
  /\ s1 = "on" => s3.runs
  /\ s2.claimed => s2.tapped
  /\ s2.tapped => s4 > 0 \/ Requested
  /\ \A i \in Te!Slots : s5[i].stage = "served" => s5[i].age <= 1
  /\ s1 = "on" /\ s2.shown /\ s3.timer > 0 => Requested \/ s2.age + s3.timer <= LinkRenew + 1

LinkInv == LinkTypes /\ LinkKept

LEMMA LinkNumbers ==
  /\ LinkValid \in Nat /\ LinkRenew \in Nat /\ 1 <= LinkRenew /\ LinkRenew <= LinkValid
  /\ LinkStories \subseteq [{"link", "rest"} -> Nat]
<1>1. LinkValid \in Nat /\ LinkRenew \in 1..LinkValid
  BY SiteAssumption DEF Te!TelegramAssumption
<1>2. LinkStories \subseteq [{"link", "rest"} -> Nat]
  BY SiteAssumption DEF Te!TelegramAssumption
<1>3. QED  BY <1>1, <1>2

LEMMA LinkTypesOK == LinkTypes => Te!TypeOK
<1> SUFFICES ASSUME LinkTypes PROVE Te!TypeOK
  OBVIOUS
<1>1. s3 \in [waits : BOOLEAN, timer : 0..(LinkRenew + 1), runs : BOOLEAN]
  <2>1. 0..LinkRenew \subseteq 0..(LinkRenew + 1)
    BY LinkNumbers
  <2>2. QED  BY <2>1 DEF LinkTypes, LinkPaces
<1>2. QED  BY <1>1 DEF LinkTypes, Te!TypeOK, LinkUrls, LinkRequests, LinkBots, LinkAlerts

LEMMA AgesAre ==
  /\ 0 \in Te!Ages /\ Te!Ages \subseteq Nat
  /\ \A a \in Te!Ages : Te!Older(a) \in Te!Ages /\ Te!Older(a) <= a + 1
  /\ Te!Older(0) <= 1
  BY LinkNumbers DEF Te!Ages, Te!Older

LEMMA LinkNothing == Te!NoUrl \in LinkUrls /\ Te!NoAsk \in LinkRequests /\ Te!NoPace \in LinkPaces
                     /\ Te!NoAlerts \in LinkAlerts
  BY AgesAre, LinkNumbers DEF Te!NoUrl, Te!NoAsk, Te!NoPace, Te!NoAlerts, LinkUrls, LinkRequests, LinkPaces, LinkAlerts

LEMMA LinkIntervals ==
  ASSUME NEW w \in BOOLEAN
  PROVE  /\ Te!Interval(w) \in LinkPaces /\ Te!Interval(w).runs
  BY LinkNumbers DEF Te!Interval, LinkPaces

LEMMA Prepared ==
  ASSUME NEW a \in [Te!Slots -> LinkRequests], Te!Prepare(a),
         \A i \in Te!Slots : a[i].stage = "served" => a[i].age <= 1
  PROVE  /\ s5' \in [Te!Slots -> LinkRequests] /\ Requested'
         /\ \A i \in Te!Slots : s5'[i].stage = "served" => s5'[i].age <= 1
<1>1. PICK i \in Te!Slots : s5' = [a EXCEPT ![i].stage = "sent"]
  BY DEF Te!Prepare, Te!Free
<1>2. s5' \in [Te!Slots -> LinkRequests] /\ s5'[i].stage = "sent" /\ \A j \in Te!Slots : j # i => s5'[j] = a[j]
  BY <1>1 DEF LinkRequests
<1>3. QED  BY <1>2 DEF Requested

LEMMA LinkUses ==
  ASSUME LinkTypes, NEW w \in {"link", "rest"}, Te!Use(w)
  PROVE  s9' \in [{"link", "rest"} -> Nat]
<1>1. s9 \in [{"link", "rest"} -> Nat] /\ s9[w] > 0 /\ s9' = [s9 EXCEPT ![w] = @ - 1]
  BY DEF LinkTypes, Te!Use
<1>2. s9[w] - 1 \in Nat
  BY <1>1
<1>3. QED  BY <1>1, <1>2

LEMMA LinkInit == Te!Init => LinkInv
<1> SUFFICES ASSUME Te!Init PROVE LinkInv
  OBVIOUS
<1>1. /\ s1 = "unknown" /\ s2 = Te!NoUrl /\ s3 = Te!NoPace /\ s4 = 0
      /\ s5 = [i \in Te!Slots |-> Te!NoAsk] /\ s8 = Te!NoAlerts /\ s9 \in [{"link", "rest"} -> Nat]
  BY LinkNumbers DEF Te!Init
<1>2. s6 \in LinkBots
  BY AgesAre DEF Te!Init, LinkBots
<1>3. s7 \in LinkPads /\ Len(s7.recent) <= 4
  <2>1. s7 = [recent |-> <<>>, sent |-> "none", noted |-> FALSE, err |-> FALSE]
    BY DEF Te!Init
  <2>2. <<>> \in Seq(LinkKinds) /\ Len(<<>>) = 0
    OBVIOUS
  <2>3. QED  BY <2>1, <2>2 DEF LinkPads
<1>4. LinkTypes
  BY <1>1, <1>2, <1>3, LinkNothing DEF LinkTypes
<1>5. LinkKept
  <2>1. ~s2.claimed /\ ~s2.tapped /\ ~s2.shown
    BY <1>1 DEF Te!NoUrl
  <2>2. \A i \in Te!Slots : s5[i].stage = "free"
    BY <1>1 DEF Te!NoAsk
  <2>3. QED  BY <1>1, <2>1, <2>2 DEF LinkKept
<1>6. QED  BY <1>4, <1>5 DEF LinkInv

\* What follows an answer.
LEMMA PacedIs ==
  ASSUME LinkInv, NEW i \in Te!Slots, NEW w \in BOOLEAN, Te!Paced([s5 EXCEPT ![i] = Te!NoAsk], w)
  PROVE  /\ s5' \in [Te!Slots -> LinkRequests] /\ s3' \in LinkPaces
         /\ \A j \in Te!Slots : s5'[j].stage = "served" => s5'[j].age <= 1
         /\ s3.runs => s3'.runs
<1> DEFINE a == [s5 EXCEPT ![i] = Te!NoAsk]
<1>1. s5 \in [Te!Slots -> LinkRequests] /\ s3 \in LinkPaces /\ Te!NoAsk.stage = "free"
  BY DEF LinkInv, LinkTypes, Te!NoAsk
<1>2. a \in [Te!Slots -> LinkRequests] /\ \A j \in Te!Slots : a[j].stage = "served" => a[j].age <= 1
  BY <1>1, LinkNothing DEF LinkInv, LinkKept
<1> HIDE DEF a
<1>3. \/ s5' = a /\ s3' = [s3 EXCEPT !.waits = w]
      \/ Te!Prepare(a) /\ s3' = Te!Interval(w)
  BY DEF Te!Paced, a
<1>4. CASE s5' = a /\ s3' = [s3 EXCEPT !.waits = w]
  BY <1>1, <1>2, <1>4 DEF LinkPaces
<1>5. CASE Te!Prepare(a) /\ s3' = Te!Interval(w)
  BY <1>2, <1>5, Prepared, LinkIntervals
<1>6. QED  BY <1>3, <1>4, <1>5

LEMMA LinkNext == LinkInv /\ [Te!Next]_(Te!vars) => LinkInv'
<1> SUFFICES ASSUME LinkInv, [Te!Next]_(Te!vars) PROVE LinkInv'
  OBVIOUS
<1>1. /\ s1 \in {"unknown", "off", "on", "linked"} /\ s2 \in LinkUrls /\ s3 \in LinkPaces
      /\ s4 \in Nat /\ s5 \in [Te!Slots -> LinkRequests] /\ s6 \in LinkBots
      /\ s7 \in LinkPads /\ Len(s7.recent) <= 4
      /\ s8 \in LinkAlerts /\ s9 \in [{"link", "rest"} -> Nat]
      /\ \A i \in Te!Slots : s5[i].stage = "served" => s5[i].age <= 1
  BY DEF LinkInv, LinkTypes, LinkKept
\* The rest of the page.
<1>2. ASSUME UNCHANGED <<s1, s2, s3, s4, s5, s6>>, s7' \in LinkPads, Len(s7'.recent) <= 4,
             s8' \in LinkAlerts, s9' \in [{"link", "rest"} -> Nat]
      PROVE  LinkInv'
  <2>1. LinkTypes'
    BY <1>1, <1>2 DEF LinkTypes
  <2>2. LinkKept'
    BY <1>2 DEF LinkInv, LinkKept, Requested
  <2>3. QED  BY <2>1, <2>2 DEF LinkInv
<1>3. CASE Te!MeLoaded
  <2>1. /\ s1' \in {"off", "linked", "on"} /\ s8' = Te!NoAlerts /\ UNCHANGED <<s2, s4, s6, s7, s9>>
    BY <1>3 DEF Te!MeLoaded
  <2>2. CASE s1' = "on"
    <3>1. Te!Prepare(s5) /\ s3' = Te!Interval(s3.waits) /\ s3.waits \in BOOLEAN
      BY <1>1, <1>3, <2>2 DEF Te!MeLoaded, LinkPaces
    <3>2. s5' \in [Te!Slots -> LinkRequests] /\ Requested' /\ s3' \in LinkPaces /\ s3'.runs
          /\ \A i \in Te!Slots : s5'[i].stage = "served" => s5'[i].age <= 1
      BY <1>1, <3>1, Prepared, LinkIntervals
    <3>3. LinkTypes'
      BY <1>1, <2>1, <2>2, <3>2, LinkNothing DEF LinkTypes
    <3>4. LinkKept'
      BY <2>1, <3>2 DEF LinkInv, LinkKept
    <3>5. QED  BY <3>3, <3>4 DEF LinkInv
  <2>3. CASE s1' # "on"
    <3>1. s5' = s5 /\ s3' = [s3 EXCEPT !.runs = FALSE]
      BY <1>3, <2>3 DEF Te!MeLoaded
    <3>2. s3' \in LinkPaces
      BY <1>1, <3>1 DEF LinkPaces
    <3>3. LinkTypes'
      BY <1>1, <2>1, <3>1, <3>2, LinkNothing DEF LinkTypes
    <3>4. LinkKept'
      BY <2>1, <2>3, <3>1 DEF LinkInv, LinkKept, Requested
    <3>5. QED  BY <3>3, <3>4 DEF LinkInv
  <2>4. QED  BY <2>2, <2>3
<1>4. CASE Te!TimerRuns
  <2>1. /\ Te!Prepare(s5) /\ s3' = Te!Interval(s3.waits) /\ s3.waits \in BOOLEAN
        /\ UNCHANGED <<s1, s2, s4, s6, s7, s8, s9>>
    BY <1>1, <1>4 DEF Te!TimerRuns, LinkPaces
  <2>2. s5' \in [Te!Slots -> LinkRequests] /\ Requested' /\ s3' \in LinkPaces /\ s3'.runs
        /\ \A i \in Te!Slots : s5'[i].stage = "served" => s5'[i].age <= 1
    BY <1>1, <2>1, Prepared, LinkIntervals
  <2>3. LinkTypes'
    BY <1>1, <2>1, <2>2 DEF LinkTypes
  <2>4. LinkKept'
    BY <2>1, <2>2 DEF LinkInv, LinkKept
  <2>5. QED  BY <2>3, <2>4 DEF LinkInv
<1>5. CASE Te!ShortPasses
  <2>1. s3' = [s3 EXCEPT !.timer = 0] /\ UNCHANGED <<s1, s2, s4, s5, s6, s7, s8, s9>>
    BY <1>5 DEF Te!ShortPasses
  <2>2. s3' \in LinkPaces /\ s3'.timer = 0 /\ s3'.runs = s3.runs
    BY <1>1, <2>1, LinkNumbers DEF LinkPaces
  <2>3. LinkTypes'
    BY <1>1, <2>1, <2>2 DEF LinkTypes
  <2>4. LinkKept'
    BY <2>1, <2>2 DEF LinkInv, LinkKept, Requested
  <2>5. QED  BY <2>3, <2>4 DEF LinkInv
<1>6. ASSUME NEW i \in Te!Slots, Te!Served(i) PROVE LinkInv'
  <2>1. /\ s5' = [s5 EXCEPT ![i] = [stage |-> "served", age |-> 0]]
        /\ UNCHANGED <<s1, s2, s3, s4, s6, s7, s8, s9>>
    BY <1>6 DEF Te!Served
  <2>2. [stage |-> "served", age |-> 0] \in LinkRequests
    BY AgesAre DEF LinkRequests
  <2>3. s5' \in [Te!Slots -> LinkRequests] /\ s5'[i].stage = "served" /\ s5'[i].age = 0
        /\ \A j \in Te!Slots : j # i => s5'[j] = s5[j]
    BY <1>1, <2>1, <2>2
  <2>4. LinkTypes'
    BY <1>1, <2>1, <2>3 DEF LinkTypes
  <2>5. Requested' /\ \A j \in Te!Slots : s5'[j].stage = "served" => s5'[j].age <= 1
    BY <1>1, <2>3 DEF Requested
  <2>6. LinkKept'
    BY <2>1, <2>5 DEF LinkInv, LinkKept
  <2>7. QED  BY <2>4, <2>6 DEF LinkInv
<1>7. ASSUME NEW i \in Te!Slots, Te!Answered(i) PROVE LinkInv'
  <2>1. /\ s5[i].stage = "served" /\ s2' = [Te!NoUrl EXCEPT !.shown = TRUE, !.age = s5[i].age]
        /\ Te!Paced([s5 EXCEPT ![i] = Te!NoAsk], FALSE) /\ UNCHANGED <<s1, s4, s6, s7, s8, s9>>
    BY <1>7 DEF Te!Answered
  <2>2. /\ s5' \in [Te!Slots -> LinkRequests] /\ s3' \in LinkPaces /\ (s3.runs => s3'.runs)
        /\ \A j \in Te!Slots : s5'[j].stage = "served" => s5'[j].age <= 1
    BY <2>1, PacedIs
  <2>3. s5[i].age \in Te!Ages /\ s5[i].age <= 1
    BY <1>1, <2>1 DEF LinkRequests
  <2>4. s2' \in LinkUrls /\ s2'.age = s5[i].age /\ ~s2'.tapped /\ ~s2'.claimed
    BY <2>1, <2>3, LinkNothing DEF LinkUrls, Te!NoUrl
  <2>5. LinkTypes'
    BY <1>1, <2>1, <2>2, <2>4 DEF LinkTypes
  <2>6. s2'.age + s3'.timer <= LinkRenew + 1
    <3>1. s3'.timer \in 0..LinkRenew /\ s2'.age \in Nat /\ s2'.age <= 1
      BY <2>2, <2>3, <2>4, AgesAre DEF LinkPaces
    <3>2. QED  BY <3>1, LinkNumbers
  <2>7. LinkKept'
    BY <2>1, <2>2, <2>4, <2>6 DEF LinkInv, LinkKept
  <2>8. QED  BY <2>5, <2>7 DEF LinkInv
<1>8. ASSUME NEW i \in Te!Slots, Te!PrepareFails(i) PROVE LinkInv'
  <2>1. /\ s2' = Te!NoUrl /\ Te!Use("link") /\ UNCHANGED <<s1, s4, s6, s7, s8>>
        /\ Te!Paced([s5 EXCEPT ![i] = Te!NoAsk], TRUE)
    BY <1>8 DEF Te!PrepareFails
  <2>2. /\ s5' \in [Te!Slots -> LinkRequests] /\ s3' \in LinkPaces /\ (s3.runs => s3'.runs)
        /\ \A j \in Te!Slots : s5'[j].stage = "served" => s5'[j].age <= 1
    BY <2>1, PacedIs
  <2>3. s2' \in LinkUrls /\ ~s2'.shown /\ ~s2'.tapped /\ ~s2'.claimed
    BY <2>1, LinkNothing DEF Te!NoUrl
  <2>4. LinkTypes'
    BY <1>1, <2>1, <2>2, <2>3, LinkUses DEF LinkTypes, LinkInv
  <2>5. LinkKept'
    BY <2>1, <2>2, <2>3 DEF LinkInv, LinkKept
  <2>6. QED  BY <2>4, <2>5 DEF LinkInv
<1>9. CASE Te!Tapped
  <2>1. /\ s2' = [s2 EXCEPT !.tapped = TRUE] /\ s6' = [s6 EXCEPT !.given = TRUE, !.age = s2.age]
        /\ s4' = s4 + 1 /\ Te!Use("link") /\ UNCHANGED <<s1, s3, s5, s7, s8>>
    BY <1>9 DEF Te!Tapped
  <2>2. s2' \in LinkUrls /\ s2'.tapped /\ s2'.age = s2.age /\ s2'.shown = s2.shown
    BY <1>1, <2>1 DEF LinkUrls
  <2>3. s6' \in LinkBots
    BY <1>1, <2>1 DEF LinkBots, LinkUrls
  <2>4. s4' \in Nat /\ s4' > 0
    BY <1>1, <2>1
  <2>5. LinkTypes'
    BY <1>1, <2>1, <2>2, <2>3, <2>4, LinkUses DEF LinkTypes, LinkInv
  <2>6. LinkKept'
    BY <2>1, <2>2, <2>4 DEF LinkInv, LinkKept, Requested
  <2>7. QED  BY <2>5, <2>6 DEF LinkInv
<1>10. CASE Te!SoonRuns
  <2>1. /\ s4 > 0 /\ s4' = s4 - 1 /\ Te!Prepare(s5) /\ UNCHANGED <<s1, s2, s3, s6, s7, s8, s9>>
    BY <1>10 DEF Te!SoonRuns
  <2>2. s5' \in [Te!Slots -> LinkRequests] /\ Requested'
        /\ \A i \in Te!Slots : s5'[i].stage = "served" => s5'[i].age <= 1
    BY <1>1, <2>1, Prepared
  <2>3. s4' \in Nat
    BY <1>1, <2>1
  <2>4. LinkTypes'
    BY <1>1, <2>1, <2>2, <2>3 DEF LinkTypes
  <2>5. LinkKept'
    BY <2>1, <2>2 DEF LinkInv, LinkKept
  <2>6. QED  BY <2>4, <2>5 DEF LinkInv
<1>11. CASE Te!Claimed
  <2>1. /\ s6' = [s6 EXCEPT !.given = FALSE, !.linked = @ \/ s6.age <= LinkValid]
        /\ s2' = [s2 EXCEPT !.claimed = @ \/ s2.tapped] /\ UNCHANGED <<s1, s3, s4, s5, s7, s8, s9>>
    BY <1>11 DEF Te!Claimed
  <2>2. /\ s2' \in LinkUrls /\ s2'.tapped = s2.tapped /\ s2'.age = s2.age /\ s2'.shown = s2.shown
        /\ s2'.claimed => s2.claimed \/ s2.tapped
    BY <1>1, <2>1 DEF LinkUrls
  <2>3. s6' \in LinkBots
    BY <1>1, <2>1 DEF LinkBots
  <2>4. LinkTypes'
    BY <1>1, <2>1, <2>2, <2>3 DEF LinkTypes
  <2>5. LinkKept'
    BY <2>1, <2>2 DEF LinkInv, LinkKept, Requested
  <2>6. QED  BY <2>4, <2>5 DEF LinkInv
<1>12. CASE Te!Unlinked
  <2>1. s6' = [s6 EXCEPT !.linked = FALSE] /\ Te!Use("link") /\ UNCHANGED <<s1, s2, s3, s4, s5, s7, s8>>
    BY <1>12 DEF Te!Unlinked
  <2>2. s6' \in LinkBots
    BY <1>1, <2>1 DEF LinkBots
  <2>3. LinkTypes'
    BY <1>1, <2>1, <2>2, LinkUses DEF LinkTypes, LinkInv
  <2>4. LinkKept'
    BY <2>1 DEF LinkInv, LinkKept, Requested
  <2>5. QED  BY <2>3, <2>4 DEF LinkInv
<1>13. CASE Te!TimePasses
  <2>1. /\ \A i \in Te!Slots : s5[i].stage = "served" => s5[i].age = 0
        /\ s2' = [s2 EXCEPT !.age = IF s2.shown THEN Te!Older(@) ELSE @]
        /\ s6' = [s6 EXCEPT !.age = IF s6.given THEN Te!Older(@) ELSE @]
        /\ s5' = [i \in Te!Slots |-> IF s5[i].stage = "served" THEN [s5[i] EXCEPT !.age = Te!Older(@)]
                                     ELSE s5[i]]
        /\ s3' = [s3 EXCEPT !.timer = IF @ > 0 THEN @ - 1 ELSE 0]
        /\ UNCHANGED <<s1, s4, s7, s8, s9>>
    BY <1>13 DEF Te!TimePasses
  <2>2. s2.age \in Te!Ages /\ s3.timer \in 0..LinkRenew
    BY <1>1 DEF LinkUrls, LinkPaces
  <2>3. /\ s2' \in LinkUrls /\ s2'.tapped = s2.tapped /\ s2'.claimed = s2.claimed /\ s2'.shown = s2.shown
        /\ s2'.age \in {s2.age, Te!Older(s2.age)}
    BY <1>1, <2>1, AgesAre DEF LinkUrls
  <2>4. s6' \in LinkBots
    BY <1>1, <2>1, AgesAre DEF LinkBots
  <2>5. ASSUME NEW i \in Te!Slots
        PROVE  s5'[i] \in LinkRequests /\ s5'[i].stage = s5[i].stage /\ (s5'[i].stage = "served" => s5'[i].age <= 1)
    <3>1. s5[i] \in LinkRequests
      BY <1>1
    <3>2. CASE s5[i].stage = "served"
      <4>1. s5'[i] = [s5[i] EXCEPT !.age = Te!Older(0)] /\ Te!Older(0) \in Te!Ages
        BY <2>1, <3>2, AgesAre
      <4>2. QED  BY <3>1, <3>2, <4>1, AgesAre DEF LinkRequests
    <3>3. CASE s5[i].stage # "served"
      BY <2>1, <3>1, <3>3
    <3>4. QED  BY <3>2, <3>3
  <2>6. s5' \in [Te!Slots -> LinkRequests]
    BY <2>1, <2>5
  <2>7. /\ s3' \in LinkPaces /\ s3'.runs = s3.runs /\ s3'.timer = IF s3.timer > 0 THEN s3.timer - 1 ELSE 0
    <3>1. PICK t \in 0..LinkRenew : t = IF s3.timer > 0 THEN s3.timer - 1 ELSE 0
      BY <2>2, LinkNumbers
    <3>2. s3' = [s3 EXCEPT !.timer = t]
      BY <2>1, <3>1
    <3>3. QED  BY <1>1, <3>1, <3>2 DEF LinkPaces
  <2>8. LinkTypes'
    BY <1>1, <2>1, <2>3, <2>4, <2>6, <2>7 DEF LinkTypes
  <2>9. Requested' <=> Requested
    BY <2>5 DEF Requested
  <2>10. s3'.timer > 0 => s3.timer > 0 /\ s2'.age + s3'.timer <= s2.age + s3.timer
    <3>1. /\ Te!Older(s2.age) \in Nat /\ Te!Older(s2.age) <= s2.age + 1 /\ s2.age \in Nat
          /\ s2'.age = s2.age \/ s2'.age = Te!Older(s2.age)
      BY <2>2, <2>3, AgesAre
    <3>2. s2'.age <= s2.age + 1 /\ s2'.age \in Nat
      BY <3>1
    <3>3. QED  BY <2>2, <2>7, <3>1, <3>2, LinkNumbers
  <2>11. s2.age + s3.timer <= LinkRenew + 1 /\ s3'.timer > 0 => s2'.age + s3'.timer <= LinkRenew + 1
    <3>0. s2.age \in Te!Ages /\ s2'.age \in Te!Ages
      BY <2>2, <2>3, AgesAre
    <3>1. s2.age \in Nat /\ s2'.age \in Nat /\ s3.timer \in Nat /\ s3'.timer \in Nat
      <4>1. s3.timer \in Nat /\ s3'.timer \in Nat
        BY <2>2, <2>7
      <4>2. QED  BY <3>0, <4>1, AgesAre
    <3>2. QED  BY <2>10, <3>1, LinkNumbers
  <2>12. LinkKept'
    BY <2>1, <2>3, <2>5, <2>7, <2>9, <2>10, <2>11 DEF LinkInv, LinkKept
  <2>13. QED  BY <2>8, <2>12 DEF LinkInv
<1>14. ASSUME NEW k \in LinkKinds, Te!Mark(k) PROVE LinkInv'
  <2>1. s7' = [s7 EXCEPT !.sent = k] /\ Te!Use("rest") /\ UNCHANGED <<s1, s2, s3, s4, s5, s6, s8>>
    BY <1>14 DEF Te!Mark
  <2>2. s7' \in LinkPads /\ s7'.recent = s7.recent
    BY <1>1, <2>1 DEF LinkPads
  <2>3. s9' \in [{"link", "rest"} -> Nat]
    BY <2>1, LinkUses DEF LinkInv
  <2>4. QED  BY <1>1, <1>2, <2>1, <2>2, <2>3
<1>15. CASE Te!MarkNoted
  <2>1. s7' = [s7 EXCEPT !.noted = TRUE] /\ UNCHANGED <<s1, s2, s3, s4, s5, s6, s8, s9>>
    BY <1>15 DEF Te!MarkNoted
  <2>2. s7' \in LinkPads /\ s7'.recent = s7.recent
    BY <1>1, <2>1 DEF LinkPads
  <2>3. QED  BY <1>1, <1>2, <2>1, <2>2
<1>16. CASE Te!MarkAnswered
  <2>1. s7.sent # "none" /\ UNCHANGED <<s1, s2, s3, s4, s5, s6, s8, s9>>
    BY <1>16 DEF Te!MarkAnswered
  <2> DEFINE l == <<s7.sent>> \o s7.recent
             n == IF Len(l) > 4 THEN 4 ELSE Len(l)
  <2>2. \/ s7' = [sent |-> "none", noted |-> FALSE, err |-> FALSE, recent |-> SubSeq(l, 1, n)]
        \/ \E shown \in BOOLEAN : s7' = [s7 EXCEPT !.sent = "none", !.noted = FALSE, !.err = shown]
    BY <1>16 DEF Te!MarkAnswered
  <2>3. l \in Seq(LinkKinds)
    <3>1. s7.sent \in LinkKinds /\ s7.recent \in Seq(LinkKinds)
      BY <1>1, <2>1 DEF LinkPads
    <3>2. <<s7.sent>> \in Seq(LinkKinds)
      BY <3>1
    <3>3. QED  BY <3>1, <3>2, ConcatProperties
  <2>4. n \in 0..Len(l) /\ n <= 4
    <3>1. Len(l) \in Nat
      BY <2>3, LenProperties
    <3>2. QED  BY <3>1
  <2> HIDE DEF l, n
  <2>5. SubSeq(l, 1, n) \in Seq(LinkKinds) /\ Len(SubSeq(l, 1, n)) <= 4
    <3>1. Len(l) \in Nat
      BY <2>3, LenProperties
    <3>2. 1 \in 1..Len(l) + 1 /\ n \in 1 - 1..Len(l)
      BY <2>4, <3>1
    <3>3. SubSeq(l, 1, n) \in Seq(LinkKinds) /\ Len(SubSeq(l, 1, n)) = n - 1 + 1
      BY <2>3, <3>2, SubSeqProperties
    <3>4. QED  BY <2>4, <3>3
  <2>6. s7' \in LinkPads /\ Len(s7'.recent) <= 4
    <3>1. ASSUME NEW shown \in BOOLEAN, s7' = [s7 EXCEPT !.sent = "none", !.noted = FALSE, !.err = shown]
          PROVE  s7' \in LinkPads /\ s7'.recent = s7.recent
      BY <1>1, <3>1 DEF LinkPads
    <3>2. CASE s7' = [sent |-> "none", noted |-> FALSE, err |-> FALSE, recent |-> SubSeq(l, 1, n)]
      BY <2>5, <3>2 DEF LinkPads
    <3>3. QED  BY <1>1, <2>2, <3>1, <3>2
  <2>7. QED  BY <1>1, <1>2, <2>1, <2>6
<1>17. ASSUME NEW b \in {"known", "none"}, Te!ConfigLoaded(b) PROVE LinkInv'
  <2>1. s8' = [s8 EXCEPT !.bot = b] /\ UNCHANGED <<s1, s2, s3, s4, s5, s6, s7, s9>>
    BY <1>17 DEF Te!ConfigLoaded
  <2>2. s8' \in LinkAlerts
    BY <1>1, <2>1 DEF LinkAlerts
  <2>3. QED  BY <1>1, <1>2, <2>1, <2>2
<1>18. ASSUME NEW yes \in BOOLEAN, Te!AlertsClicked(yes) \/ Te!AlertsLocated(yes) PROVE LinkInv'
  <2>1. s8' \in LinkAlerts
    BY <1>1, <1>18 DEF Te!AlertsClicked, Te!AlertsLocated, LinkAlerts
  <2>2. s9' \in [{"link", "rest"} -> Nat] /\ UNCHANGED <<s1, s2, s3, s4, s5, s6, s7>>
    BY <1>1, <1>18, LinkUses DEF Te!AlertsClicked, Te!AlertsLocated, LinkInv
  <2>3. QED  BY <1>1, <1>2, <2>1, <2>2
<1>19. CASE UNCHANGED Te!vars
  BY <1>1, <1>2, <1>19 DEF Te!vars
<1>20. QED  BY <1>3, <1>4, <1>5, <1>6, <1>7, <1>8, <1>9, <1>10, <1>11, <1>12, <1>13, <1>14, <1>15,
               <1>16, <1>17, <1>18, <1>19 DEF Te!Next

LEMMA OfferedWorks == LinkInv => Te!LinkWorks
<1> SUFFICES ASSUME LinkInv, Te!Offered, ~Te!Due, s4 = 0, \A i \in Te!Slots : s5[i].stage = "free"
             PROVE  s2.age <= LinkValid /\ ~s2.claimed
  BY DEF Te!LinkWorks
<1>1. s2.age \in Nat /\ s3.timer \in 0..LinkRenew
  BY AgesAre DEF LinkInv, LinkTypes, LinkUrls, LinkPaces
<1>2. s1 = "on" /\ s2.shown /\ s3.timer # 0
  BY DEF Te!Offered, Te!Due, LinkInv, LinkKept
<1>3. s3.timer > 0 /\ ~Requested
  BY <1>1, <1>2 DEF Requested
<1>4. s2.age + s3.timer <= LinkRenew + 1
  BY <1>2, <1>3 DEF LinkInv, LinkKept
<1>5. ~s2.claimed
  BY <1>3 DEF LinkInv, LinkKept
<1>6. QED  BY <1>1, <1>3, <1>4, <1>5, LinkNumbers

-----------------------------------------------------------------------------
(* A phone that joins: s1 is the page, s2 the visit, s3 the form of /join, *)
(* s4 the calls of start(), s5 the state of /device, s6 the deletion, s7   *)
(* the device that is stored, s8 the area, s9 the client, s10 the server,  *)
(* s11 the history, s12 what is left of the clicks.                        *)

JoinForms ==
  [step : {"consent", "location", "start"}, agreed : BOOLEAN, code : Typed,
   ok : BOOLEAN, aged : BOOLEAN, cell : Ph!Cells \cup {"none"}, place : BOOLEAN,
   map : BOOLEAN, busy : BOOLEAN, checking : Typed, locating : BOOLEAN]
JoinRuns ==
  [stage : {"none", "permission", "probe", "enroll", "enrolled", "class", "place", "go", "ended"},
   visit : Nat, code : Typed, cell : Ph!Cells \cup {"none"}, place : BOOLEAN,
   dev : Devices \cup {"none"}, felt : BOOLEAN]
JoinPanels ==
  [has : BOOLEAN, dev : Devices \cup {"none"}, shows : BOOLEAN,
   me : {"unknown", "asked", "placed"}, edit : BOOLEAN, confirm : BOOLEAN, starting : BOOLEAN]
Deletions == [dev : Devices \cup {"none"}, stage : {"none", "sent", "served"}]
Clients   == [dev : Devices \cup {"none"}, cell : Ph!Areas,
              phase : {"none", "running", "stopped", "error"}]
Enrolments == [state : {"unused", "live", "gone"}, class : Typed, placed : BOOLEAN]
Histories == [agreed : BOOLEAN, classes : SUBSET Typed, proper : SUBSET Devices]

Used(d) == d \in Devices /\ s10[d].state # "unused"

\* Until the user agreed, nothing that leads to start() has happened.
AgreedFirst ==
  s11.agreed \/ (/\ s3.step = "consent" /\ s3.checking = "" /\ s7 = "none"
                 /\ \A k \in Ph!Runs : s4[k] = Ph!NoRun)

\* Whatever holds a device holds one that was enrolled.
DevicesUsed ==
  /\ s7 # "none" => Used(s7)
  /\ \A k \in Ph!Runs : /\ s4[k].stage = "enroll" => s4[k].felt
                        /\ s4[k].stage = "enrolled" => Used(s4[k].dev)
  /\ s6.stage # "none" => Used(s6.dev)
  /\ s6.stage = "served" => s10[s6.dev].state = "gone"
  /\ s9.phase = "running" => Used(s9.dev)

EnrolledTwice == \E d, e \in Devices : d # e /\ Used(d) /\ Used(e)

OwnOrTwice ==
  s9.phase = "running" /\ s10[s9.dev].state = "live" => s7 = s9.dev \/ EnrolledTwice

PhoneInv ==
  /\ Ph!TypeOK /\ s11 \in Histories /\ AgreedFirst /\ DevicesUsed /\ OwnOrTwice
  /\ Ph!EnrolledProperly

LEMMA PhoneNumbers ==
  /\ IsFiniteSet(Devices) /\ "none" \notin Devices /\ Kept \subseteq Devices \cup {"none"}
  /\ "" \in Typed /\ JoinClicks \in Nat
  BY SiteAssumption DEF Ph!PhoneAssumption, Ph!IsFiniteSet, IsFiniteSet

LEMMA PhoneTypes ==
  Ph!TypeOK <=>
    /\ s1 \in {"join", "device", "away"} /\ s2 \in Nat /\ s12 \in 0..JoinClicks
    /\ s3 \in JoinForms /\ s4 \in [Ph!Runs -> JoinRuns] /\ s5 \in JoinPanels /\ s6 \in Deletions
    /\ s7 \in Devices \cup {"none"} /\ s8 \in Ph!Areas /\ s9 \in Clients
    /\ s10 \in [Devices -> Enrolments]
  BY DEF Ph!TypeOK, JoinForms, JoinRuns, JoinPanels, Deletions, Clients, Enrolments

LEMMA PhoneTypesNext ==
  Ph!TypeOK' <=>
    /\ s1' \in {"join", "device", "away"} /\ s2' \in Nat /\ s12' \in 0..JoinClicks
    /\ s3' \in JoinForms /\ s4' \in [Ph!Runs -> JoinRuns] /\ s5' \in JoinPanels
    /\ s6' \in Deletions /\ s7' \in Devices \cup {"none"} /\ s8' \in Ph!Areas
    /\ s9' \in Clients /\ s10' \in [Devices -> Enrolments]
  BY DEF Ph!TypeOK, JoinForms, JoinRuns, JoinPanels, Deletions, Clients, Enrolments

LEMMA OffersOfStep ==
  /\ s3.step = "consent" => Ph!JoinOffers \subseteq {"agree", "code", "class", "continue"}
  /\ "start" \in Ph!JoinOffers => "consent" # s3.step
<1>1. s3.step = "consent" => Ph!JoinOffers = Ph!ConsentStep
  BY DEF Ph!JoinOffers
<1>2. Ph!ConsentStep \subseteq {"agree", "code", "class", "continue"}
  BY DEF Ph!ConsentStep
<1>3. QED  BY <1>1, <1>2

LEMMA MountedIs ==
  ASSUME NEW c \in Typed, Ph!TypeOK, AgreedFirst
  PROVE  /\ Ph!Mounted(c) \in JoinForms /\ Ph!Mounted(c).checking = ""
         /\ s11.agreed \/ Ph!Mounted(c).step = "consent"
<1>1. Ph!FirstStep(s7, s8) \in {"consent", "start"} /\ (s7 = "none" => Ph!FirstStep(s7, s8) = "consent")
  BY DEF Ph!FirstStep
<1>2. (IF s8 = "old" THEN "none" ELSE s8) \in Ph!Cells \cup {"none"}
  BY DEF Ph!TypeOK, Ph!Areas
<1>3. Ph!Mounted(c) \in JoinForms
  BY <1>1, <1>2, PhoneNumbers DEF Ph!Mounted, JoinForms
<1>4. Ph!Mounted(c).checking = "" /\ Ph!Mounted(c).step = Ph!FirstStep(s7, s8)
  BY DEF Ph!Mounted
<1>5. QED  BY <1>1, <1>3, <1>4 DEF AgreedFirst

LEMMA PanelIs == ASSUME NEW c, Ph!TypeOK PROVE Ph!Panel(c) \in JoinPanels
  BY PhoneTypes DEF Ph!Panel, JoinPanels

LEMMA PhoneInit == Ph!Init => PhoneInv
<1> SUFFICES ASSUME Ph!Init PROVE PhoneInv
  OBVIOUS
<1>1. s7 \in Devices \cup {"none"} /\ s8 \in Ph!Areas /\ s1 = "away" /\ s2 = 0 /\ s12 = JoinClicks
  BY PhoneNumbers DEF Ph!Init
<1>2. s11 = [agreed |-> s7 # "none", classes |-> {}, proper |-> {s7} \ {"none"}]
  BY DEF Ph!Init
<1>3. s11 \in Histories /\ s11.agreed = (s7 # "none") /\ s11.proper = {s7} \ {"none"}
  BY <1>1, <1>2 DEF Histories
<1>4. s10 = [d \in Devices |-> [state |-> IF d = s7 THEN "live" ELSE "unused", class |-> "", placed |-> FALSE]]
  BY DEF Ph!Init
<1>5. s10 \in [Devices -> Enrolments] /\ \A d \in Devices : Used(d) <=> d = s7
  BY <1>4, PhoneNumbers DEF Enrolments, Used
<1>6. s4 \in [Ph!Runs -> JoinRuns] /\ \A k \in Ph!Runs : s4[k] = Ph!NoRun /\ s4[k].stage = "none"
  BY PhoneNumbers DEF Ph!Init, Ph!NoRun, JoinRuns
<1>7. s6 \in Deletions /\ s6.stage = "none" /\ s9 \in Clients /\ s9.phase = "none"
  BY DEF Ph!Init, Ph!NoneUnderWay, Ph!NoOne, Deletions, Clients, Ph!Areas
<1>8. /\ s3 \in JoinForms /\ s3.checking = "" /\ (s7 = "none" => s3.step = "consent")
      /\ s5 \in JoinPanels
  <2>1. s3 = [step |-> Ph!FirstStep(s7, s8), agreed |-> FALSE, code |-> "", ok |-> FALSE, aged |-> FALSE,
              cell |-> IF s8 = "old" THEN "none" ELSE s8, place |-> FALSE, map |-> FALSE,
              busy |-> FALSE, checking |-> "", locating |-> FALSE]
    BY DEF Ph!Init, Ph!Mounted
  <2>2. Ph!FirstStep(s7, s8) \in {"consent", "start"} /\ (s7 = "none" => Ph!FirstStep(s7, s8) = "consent")
    BY DEF Ph!FirstStep
  <2>3. (IF s8 = "old" THEN "none" ELSE s8) \in Ph!Cells \cup {"none"}
    BY <1>1 DEF Ph!Areas
  <2>4. s3 \in JoinForms /\ s3.checking = "" /\ (s7 = "none" => s3.step = "consent")
    BY <2>1, <2>2, <2>3, PhoneNumbers DEF JoinForms
  <2>5. s5 \in JoinPanels
    BY <1>1 DEF Ph!Init, Ph!Panel, JoinPanels
  <2>6. QED  BY <2>4, <2>5
<1>9. Ph!TypeOK
  <2>1. s2 \in Nat /\ s12 \in 0..JoinClicks
    <3>1. s2 = 0 /\ s12 = JoinClicks /\ JoinClicks \in Nat
      BY <1>1, PhoneNumbers
    <3>2. QED  BY <3>1
  <2>2. QED  BY <1>1, <1>5, <1>6, <1>7, <1>8, <2>1, PhoneTypes
<1>10. AgreedFirst
  BY <1>3, <1>6, <1>8 DEF AgreedFirst
<1>11. DevicesUsed /\ OwnOrTwice
  BY <1>1, <1>5, <1>6, <1>7 DEF DevicesUsed, OwnOrTwice
<1>12. Ph!EnrolledProperly
  BY <1>3, <1>5, PhoneNumbers DEF Ph!EnrolledProperly, Used
<1>13. QED  BY <1>3, <1>9, <1>10, <1>11, <1>12 DEF PhoneInv

\* What happens on /join before start(): only the page, the form and what was agreed change.
LEMMA OnJoinForm ==
  ASSUME PhoneInv, s1' \in {"join", "device", "away"}, s2' \in Nat, s12' \in 0..JoinClicks,
         s3' \in JoinForms, UNCHANGED <<s4, s5, s6, s7, s8, s9, s10>>,
         s11' \in Histories, s11'.proper = s11.proper, s11.agreed => s11'.agreed,
         s11'.agreed \/ (s3'.step = "consent" /\ s3'.checking = "")
  PROVE  PhoneInv'
<1>1. Ph!TypeOK'
  BY PhoneTypes, PhoneTypesNext DEF PhoneInv
<1>2. AgreedFirst'
  BY DEF PhoneInv, AgreedFirst
<1>3. DevicesUsed' /\ OwnOrTwice' /\ Ph!EnrolledProperly'
  BY DEF PhoneInv, DevicesUsed, OwnOrTwice, EnrolledTwice, Ph!EnrolledProperly, Used
<1>4. QED  BY <1>1, <1>2, <1>3 DEF PhoneInv

LEMMA ClickIs ==
  ASSUME Ph!TypeOK
  PROVE  /\ Ph!Click => s12' \in 0..JoinClicks
         /\ UNCHANGED s12 => s12' \in 0..JoinClicks
<1>1. s12 \in 0..JoinClicks /\ JoinClicks \in Nat
  BY PhoneNumbers DEF Ph!TypeOK
<1>2. QED  BY <1>1 DEF Ph!Click

LEMMA FormIs ==
  ASSUME PhoneInv, NEW b, NEW f, Ph!Form(b, f)
  PROVE  /\ b \in Ph!JoinOffers /\ s3' = f /\ UNCHANGED <<s1, s2, s4, s5, s6, s7, s8, s9, s10>>
         /\ s1' \in {"join", "device", "away"} /\ s2' \in Nat
  BY DEF Ph!Form, PhoneInv, Ph!TypeOK

LEMMA JoinFormNext ==
  ASSUME PhoneInv,
         \/ \E c \in Typed : Ph!OpenJoin(c) \/ Ph!TypeCode(c)
         \/ \E found \in BOOLEAN : Ph!CodeChecked(found)
         \/ \E c \in Ph!Cells : Ph!Pick(c)
         \/ Ph!Leave \/ Ph!Agree \/ Ph!ConfirmClass \/ Ph!Continue \/ Ph!Locate \/ Ph!ShowMap
         \/ Ph!UseArea \/ Ph!Located \/ Ph!ChangeArea \/ Ph!ChoosePlace
  PROVE  PhoneInv'
<1>1. /\ Ph!TypeOK /\ AgreedFirst /\ s11 \in Histories
      /\ s1 \in {"join", "device", "away"} /\ s2 \in Nat /\ s3 \in JoinForms
  BY PhoneTypes DEF PhoneInv
<1>2. ASSUME NEW c \in Typed, Ph!OpenJoin(c) PROVE PhoneInv'
  <2>1. /\ s1' = "join" /\ s2' = s2 + 1 /\ s3' = Ph!Mounted(c) /\ s12' \in 0..JoinClicks
        /\ UNCHANGED <<s4, s5, s6, s7, s8, s9, s10, s11>>
    BY <1>1, <1>2, ClickIs DEF Ph!OpenJoin
  <2>2. s2' \in Nat /\ s1' \in {"join", "device", "away"} /\ s11' = s11
    BY <1>1, <2>1
  <2>3. s3' \in JoinForms /\ s3'.checking = "" /\ (s11.agreed \/ s3'.step = "consent")
    BY <1>1, <2>1, MountedIs
  <2>4. QED  BY <1>1, <2>1, <2>2, <2>3, OnJoinForm
<1>3. ASSUME NEW c \in Typed, Ph!TypeCode(c) PROVE PhoneInv'
  <2>1. s3' = [s3 EXCEPT !.code = c] /\ s12' \in 0..JoinClicks /\ s11' = s11
    BY <1>1, <1>3, FormIs, ClickIs DEF Ph!TypeCode
  <2>2. s3' \in JoinForms /\ s3'.checking = s3.checking /\ s3'.step = s3.step
    BY <1>1, <2>1 DEF JoinForms
  <2>3. QED  BY <1>1, <1>3, <2>1, <2>2, FormIs, OnJoinForm DEF Ph!TypeCode, AgreedFirst
<1>4. ASSUME NEW found \in BOOLEAN, Ph!CodeChecked(found) PROVE PhoneInv'
  <2>1. /\ s3.checking # "" /\ s12' = s12 /\ s11' = s11
        /\ UNCHANGED <<s1, s2, s4, s5, s6, s7, s8, s9, s10>>
        /\ s3' = [s3 EXCEPT !.checking = "", !.busy = FALSE, !.step = IF found THEN "location" ELSE @]
    BY <1>4 DEF Ph!CodeChecked
  <2>2. s3' \in JoinForms /\ s11.agreed
    BY <1>1, <2>1, PhoneNumbers DEF JoinForms, AgreedFirst
  <2>3. QED  BY <1>1, <2>1, <2>2, ClickIs, OnJoinForm
<1>5. ASSUME NEW c \in Ph!Cells, Ph!Pick(c) PROVE PhoneInv'
  <2>1. s3' = [s3 EXCEPT !.cell = c] /\ s12' \in 0..JoinClicks /\ s11' = s11
    BY <1>1, <1>5, FormIs, ClickIs DEF Ph!Pick
  <2>2. s3' \in JoinForms /\ s3'.checking = s3.checking /\ s3'.step = s3.step
    BY <1>1, <2>1 DEF JoinForms
  <2>3. QED  BY <1>1, <1>5, <2>1, <2>2, FormIs, OnJoinForm DEF Ph!Pick, AgreedFirst
<1>6. CASE Ph!Leave
  <2>1. /\ s1' = "away" /\ s12' \in 0..JoinClicks
        /\ UNCHANGED <<s2, s3, s4, s5, s6, s7, s8, s9, s10, s11>>
    BY <1>1, <1>6, ClickIs DEF Ph!Leave
  <2>2. s1' \in {"join", "device", "away"} /\ s2' \in Nat /\ s3' \in JoinForms /\ s11' = s11
    BY <1>1, <2>1
  <2>3. QED  BY <1>1, <2>1, <2>2, OnJoinForm DEF AgreedFirst
<1>7. CASE Ph!Agree
  <2>1. s3' = [s3 EXCEPT !.agreed = ~@] /\ s12' \in 0..JoinClicks /\ s11' = s11
    BY <1>1, <1>7, FormIs, ClickIs DEF Ph!Agree
  <2>2. s3' \in JoinForms /\ s3'.checking = s3.checking /\ s3'.step = s3.step
    BY <1>1, <2>1 DEF JoinForms
  <2>3. QED  BY <1>1, <1>7, <2>1, <2>2, FormIs, OnJoinForm DEF Ph!Agree, AgreedFirst
<1>8. CASE Ph!ConfirmClass
  <2>1. s3' = [s3 EXCEPT !.ok = TRUE, !.aged = TRUE] /\ s12' \in 0..JoinClicks /\ s11' = s11
    BY <1>1, <1>8, FormIs, ClickIs DEF Ph!ConfirmClass
  <2>2. s3' \in JoinForms /\ s3'.checking = s3.checking /\ s3'.step = s3.step
    BY <1>1, <2>1 DEF JoinForms
  <2>3. QED  BY <1>1, <1>8, <2>1, <2>2, FormIs, OnJoinForm DEF Ph!ConfirmClass, AgreedFirst
<1>9. CASE Ph!Continue
  <2> DEFINE f == IF s3.code = "" THEN [s3 EXCEPT !.step = "location"]
                  ELSE [s3 EXCEPT !.busy = TRUE, !.checking = s3.code]
  <2>0. Ph!Form("continue", f)
    BY <1>9 DEF Ph!Continue
  <2>1. /\ s11' = [s11 EXCEPT !.agreed = TRUE,
                              !.classes = IF s3.code = "" THEN @ ELSE @ \cup {s3.code}]
        /\ s12' = s12
    BY <1>9 DEF Ph!Continue
  <2>2. f \in JoinForms
    BY <1>1 DEF JoinForms
  <2> HIDE DEF f
  <2>3. s3.code \in Typed
    BY <1>1 DEF JoinForms
  <2>4. s11' \in Histories /\ s11'.agreed /\ s11'.proper = s11.proper
    BY <1>1, <2>1, <2>3 DEF Histories
  <2>5. /\ s3' = f /\ UNCHANGED <<s1, s2, s4, s5, s6, s7, s8, s9, s10>>
        /\ s1' \in {"join", "device", "away"} /\ s2' \in Nat
    BY <2>0, FormIs
  <2>6. QED  BY <1>1, <2>1, <2>2, <2>4, <2>5, ClickIs, OnJoinForm
<1>10. CASE Ph!Locate
  <2>1. s3' = [s3 EXCEPT !.locating = TRUE] /\ s12' \in 0..JoinClicks /\ s11' = s11
    BY <1>1, <1>10, FormIs, ClickIs DEF Ph!Locate
  <2>2. s3' \in JoinForms /\ s3'.checking = s3.checking /\ s3'.step = s3.step
    BY <1>1, <2>1 DEF JoinForms
  <2>3. QED  BY <1>1, <1>10, <2>1, <2>2, FormIs, OnJoinForm DEF Ph!Locate, AgreedFirst
<1>11. CASE Ph!ShowMap
  <2>1. s3' = [s3 EXCEPT !.map = TRUE] /\ s12' \in 0..JoinClicks /\ s11' = s11
    BY <1>1, <1>11, FormIs, ClickIs DEF Ph!ShowMap
  <2>2. s3' \in JoinForms /\ s3'.checking = s3.checking /\ s3'.step = s3.step
    BY <1>1, <2>1 DEF JoinForms
  <2>3. QED  BY <1>1, <1>11, <2>1, <2>2, FormIs, OnJoinForm DEF Ph!ShowMap, AgreedFirst
<1>12. CASE Ph!UseArea
  <2>1. "use" \in Ph!JoinOffers /\ s3' = [s3 EXCEPT !.step = "start"] /\ s12' = s12 /\ s11' = s11
    BY <1>12, FormIs DEF Ph!UseArea
  <2>2. s3.step # "consent"
    BY <2>1, OffersOfStep
  <2>3. s3' \in JoinForms /\ s11.agreed
    BY <1>1, <2>1, <2>2 DEF JoinForms, AgreedFirst
  <2>4. QED  BY <1>1, <1>12, <2>1, <2>3, FormIs, ClickIs, OnJoinForm DEF Ph!UseArea
<1>13. CASE Ph!Located
  <2>1. /\ UNCHANGED <<s1, s2, s4, s5, s6, s7, s8, s9, s10>> /\ s11' = s11 /\ s12' = s12
        /\ \/ s3' = [s3 EXCEPT !.locating = FALSE, !.cell = "here"]
           \/ s3' = [s3 EXCEPT !.locating = FALSE, !.map = TRUE]
    BY <1>13 DEF Ph!Located
  <2>2. s3' \in JoinForms /\ s3'.checking = s3.checking /\ s3'.step = s3.step
    BY <1>1, <2>1 DEF JoinForms, Ph!Cells
  <2>3. QED  BY <1>1, <2>1, <2>2, ClickIs, OnJoinForm DEF AgreedFirst
<1>14. CASE Ph!ChangeArea
  <2>1. "change" \in Ph!JoinOffers /\ s3' = [s3 EXCEPT !.step = "location"] /\ s12' \in 0..JoinClicks /\ s11' = s11
    BY <1>1, <1>14, FormIs, ClickIs DEF Ph!ChangeArea
  <2>2. s3.step # "consent"
    BY <2>1, OffersOfStep
  <2>3. s3' \in JoinForms /\ s11.agreed
    BY <1>1, <2>1, <2>2 DEF JoinForms, AgreedFirst
  <2>4. QED  BY <1>1, <1>14, <2>1, <2>3, FormIs, OnJoinForm DEF Ph!ChangeArea
<1>15. CASE Ph!ChoosePlace
  <2>1. s3' = [s3 EXCEPT !.place = TRUE] /\ s12' \in 0..JoinClicks /\ s11' = s11
    BY <1>1, <1>15, FormIs, ClickIs DEF Ph!ChoosePlace
  <2>2. s3' \in JoinForms /\ s3'.checking = s3.checking /\ s3'.step = s3.step
    BY <1>1, <2>1 DEF JoinForms
  <2>3. QED  BY <1>1, <1>15, <2>1, <2>2, FormIs, OnJoinForm DEF Ph!ChoosePlace, AgreedFirst
<1>16. QED  BY <1>2, <1>3, <1>4, <1>5, <1>6, <1>7, <1>8, <1>9, <1>10, <1>11, <1>12, <1>13, <1>14, <1>15

\* A call of start() goes on, by itself.
LEMMA OnRun ==
  ASSUME PhoneInv, s11.agreed, NEW k \in Ph!Runs, NEW r \in JoinRuns, s4' = [s4 EXCEPT ![k] = r],
         r.stage = "enroll" => r.felt, r.stage = "enrolled" => Used(r.dev),
         s3' \in JoinForms, s8' \in Ph!Areas,
         UNCHANGED <<s1, s2, s5, s6, s7, s9, s10, s11, s12>>
  PROVE  PhoneInv'
<1>1. Ph!TypeOK'
  BY PhoneTypes, PhoneTypesNext DEF PhoneInv
<1>2. s4 \in [Ph!Runs -> JoinRuns]
  BY PhoneTypes DEF PhoneInv
<1>3. DevicesUsed'
  BY <1>2 DEF PhoneInv, DevicesUsed, Used
<1>4. OwnOrTwice' /\ Ph!EnrolledProperly'
  BY DEF PhoneInv, OwnOrTwice, EnrolledTwice, Ph!EnrolledProperly, Used
<1>5. QED  BY <1>1, <1>3, <1>4 DEF PhoneInv, AgreedFirst

LEMMA ActiveAgreed ==
  ASSUME PhoneInv, NEW k \in Ph!Runs, s4[k].stage # "none"
  PROVE  s11.agreed
<1>1. Ph!NoRun.stage = "none"
  BY DEF Ph!NoRun
<1>2. QED  BY <1>1 DEF PhoneInv, AgreedFirst

LEMMA FreeIs ==
  ASSUME PhoneInv, NEW k, Ph!Free(k)
  PROVE  s3' \in JoinForms /\ s3'.step = s3.step /\ s3'.checking = s3.checking
<1>1. s3 \in JoinForms
  BY PhoneTypes DEF PhoneInv
<1>2. s3' = s3 \/ s3' = [s3 EXCEPT !.busy = FALSE]
  BY DEF Ph!Free
<1>3. QED  BY <1>1, <1>2 DEF JoinForms

\* The server knows the same devices as before, and what holds one holds none but those.
LEMMA SameDevices ==
  ASSUME PhoneInv, Ph!TypeOK', \A d \in Devices : s10'[d].state = s10[d].state,
         \A k \in Ph!Runs : /\ s4'[k].stage = "enroll" => s4[k].stage = "enroll" /\ s4'[k].felt = s4[k].felt
                            /\ s4'[k].stage = "enrolled" => s4[k].stage = "enrolled" /\ s4'[k].dev = s4[k].dev,
         UNCHANGED <<s6, s7, s9, s11>>, s11.agreed \/ UNCHANGED <<s3, s4>>
  PROVE  PhoneInv'
<1>1. \A d : Used(d)' <=> Used(d)
  BY DEF Used
<1>2. DevicesUsed'
  <2>1. /\ s7' # "none" => Used(s7)'
        /\ s6'.stage # "none" => Used(s6.dev)'
        /\ s9'.phase = "running" => Used(s9.dev)'
    BY <1>1 DEF PhoneInv, DevicesUsed, Used
  <2>2. s6'.stage = "served" => s10'[s6.dev].state = "gone"
    BY DEF PhoneInv, DevicesUsed, Used
  <2>3. \A k \in Ph!Runs : /\ s4'[k].stage = "enroll" => s4'[k].felt
                           /\ s4'[k].stage = "enrolled" => Used(s4[k].dev) /\ s4'[k].dev = s4[k].dev
    BY DEF PhoneInv, DevicesUsed
  <2>4. QED  BY <1>1, <2>1, <2>2, <2>3 DEF DevicesUsed, Used
<1>3. OwnOrTwice'
  <2>1. EnrolledTwice' <=> EnrolledTwice
    BY <1>1 DEF EnrolledTwice, Used
  <2>2. s9.phase = "running" => Used(s9.dev)
    BY DEF PhoneInv, DevicesUsed
  <2>3. QED  BY <2>1, <2>2 DEF PhoneInv, OwnOrTwice, Used
<1>4. Ph!EnrolledProperly' /\ AgreedFirst'
  BY DEF PhoneInv, Ph!EnrolledProperly, AgreedFirst
<1>5. QED  BY <1>2, <1>3, <1>4 DEF PhoneInv

LEMMA StartNext ==
  ASSUME PhoneInv, NEW k \in Ph!Runs,
         Ph!Start(k) \/ Ph!Fails(k) \/ Ph!Permitted(k) \/ Ph!Probed(k)
  PROVE  PhoneInv'
<1>1. /\ s3 \in JoinForms /\ s4 \in [Ph!Runs -> JoinRuns] /\ s4[k] \in JoinRuns
      /\ s2 \in Nat /\ s8 \in Ph!Areas /\ s7 \in Devices \cup {"none"}
  BY PhoneTypes DEF PhoneInv
<1>2. CASE Ph!Start(k)
  <2> DEFINE r == [Ph!NoRun EXCEPT !.stage = "permission", !.visit = s2,
                                   !.code = s3.code, !.cell = s3.cell, !.place = s3.place]
  <2>1. s4' = [s4 EXCEPT ![k] = r] /\ UNCHANGED <<s1, s2, s5, s6, s7, s8, s9, s10, s11, s12>>
    BY <1>2 DEF Ph!Start
  <2>2. r \in JoinRuns /\ r.stage = "permission"
    BY <1>1 DEF Ph!NoRun, JoinRuns, JoinForms
  <2>3. s3' \in JoinForms
    BY <1>1, <1>2 DEF Ph!Start, JoinForms
  <2>4. s11.agreed
    BY <1>2, OffersOfStep DEF Ph!Start, PhoneInv, AgreedFirst
  <2> HIDE DEF r
  <2>5. QED  BY <1>1, <2>1, <2>2, <2>3, <2>4, OnRun
<1>3. CASE Ph!Fails(k)
  <2> DEFINE r == [s4[k] EXCEPT !.stage = "ended"]
  <2>1. s4' = [s4 EXCEPT ![k] = r] /\ UNCHANGED <<s1, s2, s5, s6, s7, s8, s9, s10, s11, s12>>
    BY <1>3 DEF Ph!Fails
  <2>2. r \in JoinRuns /\ r.stage = "ended"
    BY <1>1 DEF JoinRuns
  <2>3. s11.agreed /\ s3' \in JoinForms
    BY <1>3, ActiveAgreed, FreeIs DEF Ph!Fails, Ph!Active
  <2> HIDE DEF r
  <2>4. QED  BY <1>1, <2>1, <2>2, <2>3, OnRun
<1>4. CASE Ph!Permitted(k)
  <2> DEFINE r == [s4[k] EXCEPT !.stage = "probe"]
  <2>1. s4' = [s4 EXCEPT ![k] = r] /\ UNCHANGED <<s1, s2, s3, s5, s6, s7, s8, s9, s10, s11, s12>>
    BY <1>4 DEF Ph!Permitted
  <2>2. r \in JoinRuns /\ r.stage = "probe"
    BY <1>1 DEF JoinRuns
  <2>3. s11.agreed
    BY <1>4, ActiveAgreed DEF Ph!Permitted
  <2> HIDE DEF r
  <2>4. QED  BY <1>1, <2>1, <2>2, <2>3, OnRun
<1>5. CASE Ph!Probed(k)
  <2> DEFINE r == [s4[k] EXCEPT !.felt = TRUE, !.dev = s7,
                                !.stage = IF s7 = "none" THEN "enroll"
                                          ELSE IF s4[k].code # "" THEN "class" ELSE "place"]
  <2>1. /\ s4' = [s4 EXCEPT ![k] = r] /\ s8' = s4[k].cell /\ s4[k].cell # "none"
        /\ UNCHANGED <<s1, s2, s3, s5, s6, s7, s9, s10, s11, s12>>
    BY <1>5 DEF Ph!Probed
  <2>2. r \in JoinRuns /\ r.stage # "enrolled" /\ r.felt
    BY <1>1 DEF JoinRuns
  <2>3. s11.agreed
    BY <1>5, ActiveAgreed DEF Ph!Probed
  <2>4. s8' \in Ph!Areas
    BY <1>1, <2>1 DEF JoinRuns, Ph!Areas
  <2> HIDE DEF r
  <2>5. QED  BY <1>1, <2>1, <2>2, <2>3, <2>4, OnRun
<1>6. QED  BY <1>2, <1>3, <1>4, <1>5

LEMMA EnrolNext ==
  ASSUME PhoneInv, NEW k \in Ph!Runs, NEW d \in Devices, Ph!Enrolled(k, d)
  PROVE  PhoneInv'
<1> DEFINE e == [s10[d] EXCEPT !.state = "live", !.class = s4[k].code]
           r == [s4[k] EXCEPT !.stage = "enrolled", !.dev = d]
<1>1. /\ s4 \in [Ph!Runs -> JoinRuns] /\ s4[k] \in JoinRuns /\ s11 \in Histories
      /\ s10 \in [Devices -> Enrolments] /\ s10[d] \in Enrolments
  BY PhoneTypes DEF PhoneInv
<1>2. /\ s4[k].stage = "enroll" /\ s10[d].state = "unused"
      /\ s10' = [s10 EXCEPT ![d] = e] /\ s4' = [s4 EXCEPT ![k] = r]
      /\ UNCHANGED <<s1, s2, s3, s5, s6, s7, s8, s9, s12>>
  BY DEF Ph!Enrolled
<1>3. s11.agreed /\ s4[k].felt
  BY <1>2, ActiveAgreed DEF PhoneInv, DevicesUsed
<1>4. s11' = [s11 EXCEPT !.proper = @ \cup {d}]
  BY <1>3 DEF Ph!Enrolled
<1>5. s11' \in Histories /\ s11'.agreed /\ s11'.proper = s11.proper \cup {d}
  BY <1>1, <1>3, <1>4 DEF Histories
<1>6. e \in Enrolments /\ e.state = "live" /\ r \in JoinRuns /\ r.stage = "enrolled" /\ r.dev = d
  BY <1>1 DEF Enrolments, JoinRuns
<1> HIDE DEF e, r
<1>7. s4' \in [Ph!Runs -> JoinRuns] /\ s10' \in [Devices -> Enrolments]
  BY <1>1, <1>2, <1>6
<1>8. Ph!TypeOK'
  BY <1>2, <1>7, PhoneTypes, PhoneTypesNext DEF PhoneInv
<1>9. /\ s10'[d].state = "live" /\ \A x \in Devices : x # d => s10'[x] = s10[x]
      /\ s4'[k].stage = "enrolled" /\ s4'[k].dev = d /\ \A j \in Ph!Runs : j # k => s4'[j] = s4[j]
  BY <1>1, <1>2, <1>6
<1>10. DevicesUsed'
  <2>1. \A x : Used(x) => x # d /\ Used(x)' /\ s10'[x].state = s10[x].state
    BY <1>2, <1>9 DEF Used
  <2>2. Used(d)'
    BY <1>9 DEF Used
  <2>3. \A j \in Ph!Runs : /\ s4'[j].stage = "enroll" => s4'[j].felt
                           /\ s4'[j].stage = "enrolled" => j = k \/ (s4'[j] = s4[j] /\ Used(s4[j].dev))
    BY <1>9 DEF PhoneInv, DevicesUsed
  <2>4. QED  BY <1>2, <1>9, <2>1, <2>2, <2>3 DEF PhoneInv, DevicesUsed, Used
<1>11. OwnOrTwice'
  <2>1. s9.phase = "running" => Used(s9.dev) /\ s9.dev # d /\ s10'[s9.dev] = s10[s9.dev]
    BY <1>2, <1>9 DEF PhoneInv, DevicesUsed, Used
  <2>2. EnrolledTwice => EnrolledTwice'
    BY <1>2, <1>9 DEF EnrolledTwice, Used
  <2>3. QED  BY <1>2, <2>1, <2>2 DEF PhoneInv, OwnOrTwice
<1>12. Ph!EnrolledProperly' /\ AgreedFirst'
  BY <1>5, <1>9 DEF PhoneInv, Ph!EnrolledProperly, AgreedFirst
<1>13. QED  BY <1>5, <1>8, <1>10, <1>11, <1>12 DEF PhoneInv

LEMMA AnswerNext ==
  ASSUME PhoneInv, NEW k \in Ph!Runs, Ph!EnrollAnswered(k)
  PROVE  PhoneInv'
<1> DEFINE r == [s4[k] EXCEPT !.stage = "place"]
<1>1. s4 \in [Ph!Runs -> JoinRuns] /\ s4[k] \in JoinRuns
  BY PhoneTypes DEF PhoneInv
<1>2. /\ s4[k].stage = "enrolled" /\ s7' = s4[k].dev /\ s4' = [s4 EXCEPT ![k] = r]
      /\ UNCHANGED <<s1, s2, s3, s5, s6, s8, s9, s10, s11, s12>>
  BY DEF Ph!EnrollAnswered
<1>3. s11.agreed /\ Used(s7')
  BY <1>2, ActiveAgreed DEF PhoneInv, DevicesUsed
<1>4. r \in JoinRuns /\ r.stage = "place"
  BY <1>1 DEF JoinRuns
<1> HIDE DEF r
<1>5. s4' \in [Ph!Runs -> JoinRuns] /\ s7' \in Devices
  BY <1>1, <1>2, <1>3, <1>4 DEF Used
<1>6. Ph!TypeOK'
  BY <1>2, <1>5, PhoneTypes, PhoneTypesNext DEF PhoneInv
<1>7. s4'[k].stage = "place" /\ \A j \in Ph!Runs : j # k => s4'[j] = s4[j]
  BY <1>1, <1>2, <1>4
<1>8. DevicesUsed'
  BY <1>2, <1>3, <1>7 DEF PhoneInv, DevicesUsed, Used
<1>9. OwnOrTwice'
  <2>1. s9.phase = "running" => Used(s9.dev)
    BY DEF PhoneInv, DevicesUsed
  <2>2. QED  BY <1>2, <1>3, <2>1 DEF OwnOrTwice, EnrolledTwice, Used
<1>10. QED  BY <1>2, <1>3, <1>6, <1>8, <1>9 DEF PhoneInv, AgreedFirst, Ph!EnrolledProperly

LEMMA ClassNext ==
  ASSUME PhoneInv, NEW k \in Ph!Runs, Ph!ClassSet(k) \/ Ph!Placed(k)
  PROVE  PhoneInv'
<1>1. /\ s4 \in [Ph!Runs -> JoinRuns] /\ s4[k] \in JoinRuns
      /\ s10 \in [Devices -> Enrolments] /\ s7 \in Devices \cup {"none"}
  BY PhoneTypes DEF PhoneInv
<1>2. /\ UNCHANGED <<s1, s2, s3, s5, s6, s7, s8, s9, s11, s12>>
      /\ s4[k].stage # "none"
  BY DEF Ph!ClassSet, Ph!Placed
<1>3. PICK st \in {"place", "go"} : s4' = [s4 EXCEPT ![k].stage = st]
  BY DEF Ph!ClassSet, Ph!Placed
<1>4. s4' \in [Ph!Runs -> JoinRuns] /\ s4'[k].stage = st /\ \A j \in Ph!Runs : j # k => s4'[j] = s4[j]
  BY <1>1, <1>3 DEF JoinRuns
<1>5. s10' \in [Devices -> Enrolments] /\ \A d \in Devices : s10'[d].state = s10[d].state
  <2>1. CASE Ph!ClassSet(k)
    <3>1. s4[k].dev \in Devices \cup {"none"} /\ s4[k].code \in Typed
      BY <1>1 DEF JoinRuns
    <3>2. PICK x \in Devices \cup {"none"}, c \in Typed : s10' = [s10 EXCEPT ![x].class = c]
      BY <2>1, <3>1 DEF Ph!ClassSet
    <3>3. QED  BY <1>1, <3>2 DEF Enrolments
  <2>2. CASE Ph!Placed(k)
    <3>1. s10' = s10 \/ s10' = [s10 EXCEPT ![s7].placed = TRUE]
      BY <2>2 DEF Ph!Placed
    <3>2. CASE s10' = s10
      BY <1>1, <3>2
    <3>3. CASE s10' = [s10 EXCEPT ![s7].placed = TRUE]
      BY <1>1, <3>3 DEF Enrolments
    <3>4. QED  BY <3>1, <3>2, <3>3
  <2>3. QED  BY <2>1, <2>2
<1>6. Ph!TypeOK'
  BY <1>2, <1>4, <1>5, PhoneTypes, PhoneTypesNext DEF PhoneInv
<1>7. s11.agreed
  BY <1>2, ActiveAgreed
<1>8. \A j \in Ph!Runs : /\ s4'[j].stage = "enroll" => s4[j].stage = "enroll" /\ s4'[j].felt = s4[j].felt
                         /\ s4'[j].stage = "enrolled" => s4[j].stage = "enrolled" /\ s4'[j].dev = s4[j].dev
  BY <1>3, <1>4
<1>9. QED  BY <1>2, <1>5, <1>6, <1>7, <1>8, SameDevices

\* The client, or a new one, for what is stored.
LEMMA StreamingIs ==
  ASSUME PhoneInv
  PROVE  /\ Ph!StartStreaming \in Clients
         /\ \/ Ph!StartStreaming = s9
            \/ Ph!StartStreaming.dev = s7 /\ Used(s7)
<1>1. s9 \in Clients /\ s7 \in Devices \cup {"none"} /\ s8 \in Ph!Areas
  BY PhoneTypes DEF PhoneInv
<1>2. CASE Ph!StartStreaming = s9
  BY <1>1, <1>2
<1>3. CASE Ph!StartStreaming # s9
  <2>1. s7 # "none" /\ Ph!StartStreaming = [dev |-> s7, cell |-> s8, phase |-> "running"]
    BY <1>3 DEF Ph!StartStreaming
  <2>2. QED  BY <1>1, <2>1 DEF Clients, PhoneInv, DevicesUsed
<1>4. QED  BY <1>2, <1>3

\* The client changes to one that runs for the stored device, or that does not run.
LEMMA OnClient ==
  ASSUME PhoneInv, Ph!TypeOK', UNCHANGED <<s3, s7, s10, s11>>,
         \/ s9' = s9
         \/ s9'.phase # "running"
         \/ s9'.dev = s7 /\ Used(s7),
         UNCHANGED s6 \/ (s6'.stage = "sent" /\ Used(s6'.dev)), UNCHANGED s4
  PROVE  PhoneInv'
<1>1. DevicesUsed'
  BY DEF PhoneInv, DevicesUsed, Used
<1>2. OwnOrTwice'
  BY DEF PhoneInv, OwnOrTwice, EnrolledTwice, Used
<1>3. QED  BY <1>1, <1>2 DEF PhoneInv, AgreedFirst, Ph!EnrolledProperly

LEMMA GoNext ==
  ASSUME PhoneInv, NEW k \in Ph!Runs, Ph!Go(k)
  PROVE  PhoneInv'
<1> DEFINE r == [s4[k] EXCEPT !.stage = "ended"]
<1>1. s4 \in [Ph!Runs -> JoinRuns] /\ s4[k] \in JoinRuns /\ s5 \in JoinPanels
  BY PhoneTypes DEF PhoneInv
<1>2. /\ s4[k].stage = "go" /\ s9' = Ph!StartStreaming /\ s1' = "device" /\ s4' = [s4 EXCEPT ![k] = r]
      /\ Ph!Free(k) /\ UNCHANGED <<s2, s6, s7, s8, s10, s11, s12>>
  BY DEF Ph!Go
<1>3. s3' \in JoinForms /\ s11.agreed
  BY <1>2, FreeIs, ActiveAgreed
<1>4. s5' \in JoinPanels
  BY <1>1, PanelIs DEF Ph!Go, PhoneInv
<1>5. r \in JoinRuns /\ r.stage = "ended"
  BY <1>1 DEF JoinRuns
<1> HIDE DEF r
<1>6. /\ s4' \in [Ph!Runs -> JoinRuns] /\ s4'[k].stage = "ended"
      /\ \A j \in Ph!Runs : j # k => s4'[j] = s4[j]
  BY <1>1, <1>2, <1>5
<1>7. Ph!TypeOK'
  BY <1>2, <1>3, <1>4, <1>6, StreamingIs, PhoneTypes, PhoneTypesNext DEF PhoneInv
<1>8. s9' = s9 \/ (s9'.dev = s7 /\ Used(s7))
  BY <1>2, StreamingIs
<1>9. DevicesUsed'
  BY <1>2, <1>6, <1>8 DEF PhoneInv, DevicesUsed, Used
<1>10. OwnOrTwice'
  BY <1>2, <1>8 DEF PhoneInv, OwnOrTwice, EnrolledTwice, Used
<1>11. QED  BY <1>2, <1>3, <1>7, <1>9, <1>10 DEF PhoneInv, AgreedFirst, Ph!EnrolledProperly

DevicePage ==
  \/ Ph!OpenDevice \/ Ph!Loaded \/ Ph!EditPlace \/ Ph!SavePlace \/ Ph!PressStart \/ Ph!Refused
  \/ Ph!StartGranted \/ Ph!SentToJoin \/ Ph!PressStop \/ Ph!AskDelete \/ Ph!Delete
  \/ Ph!DeleteServed \/ Ph!DeleteAnswered \/ Ph!DeleteFails \/ Ph!AuthError \/ Ph!LocationError

LEMMA DevicePageNext ==
  ASSUME PhoneInv, DevicePage
  PROVE  PhoneInv'
<1>1. /\ Ph!TypeOK /\ s1 \in {"join", "device", "away"} /\ s2 \in Nat /\ s12 \in 0..JoinClicks
      /\ s3 \in JoinForms /\ s4 \in [Ph!Runs -> JoinRuns] /\ s5 \in JoinPanels /\ s6 \in Deletions
      /\ s7 \in Devices \cup {"none"} /\ s8 \in Ph!Areas /\ s9 \in Clients
      /\ s10 \in [Devices -> Enrolments]
  BY PhoneTypes DEF PhoneInv
<1>2. ASSUME UNCHANGED <<s2, s3, s4, s6, s7, s8, s9, s10, s11>>,
             s1' \in {s1, "device"}, s12' \in 0..JoinClicks, s5' \in JoinPanels
      PROVE  PhoneInv'
  <2>1. Ph!TypeOK'
    BY <1>1, <1>2, PhoneTypesNext
  <2>2. QED  BY <1>2, <2>1, SameDevices
<1>3. CASE Ph!OpenDevice
  BY <1>1, <1>2, <1>3, ClickIs, PanelIs DEF Ph!OpenDevice, Ph!Device
<1>4. CASE Ph!Loaded
  <2>1. UNCHANGED <<s1, s2, s3, s4, s6, s7, s8, s9, s10, s11, s12>>
    BY <1>4 DEF Ph!Loaded, Ph!Device
  <2>2. s5' \in JoinPanels
    BY <1>1, <1>4 DEF Ph!Loaded, JoinPanels
  <2>3. QED  BY <1>1, <1>2, <2>1, <2>2, ClickIs
<1>5. CASE Ph!EditPlace
  <2>1. s5' \in JoinPanels
    BY <1>1, <1>5 DEF Ph!EditPlace, JoinPanels
  <2>2. QED  BY <1>1, <1>2, <1>5, <2>1, ClickIs DEF Ph!EditPlace, Ph!Pressed, Ph!Device
<1>6. CASE Ph!SavePlace
  <2>1. /\ UNCHANGED <<s1, s2, s3, s4, s6, s7, s8, s9, s11>> /\ s12' \in 0..JoinClicks
        /\ s10' = [s10 EXCEPT ![s7].placed = TRUE]
    BY <1>1, <1>6, ClickIs DEF Ph!SavePlace, Ph!Pressed, Ph!Device
  <2>2. s5' \in JoinPanels
    BY <1>1, <1>6 DEF Ph!SavePlace, JoinPanels
  <2>3. s10' \in [Devices -> Enrolments] /\ \A d \in Devices : s10'[d].state = s10[d].state
    BY <1>1, <2>1 DEF Enrolments
  <2>4. Ph!TypeOK'
    BY <1>1, <2>1, <2>2, <2>3, PhoneTypesNext
  <2>5. QED  BY <2>1, <2>3, <2>4, SameDevices
<1>7. CASE Ph!PressStart
  <2>1. s5' \in JoinPanels
    BY <1>1, <1>7 DEF Ph!PressStart, JoinPanels
  <2>2. QED  BY <1>1, <1>2, <1>7, <2>1, ClickIs DEF Ph!PressStart, Ph!Pressed, Ph!Device
<1>8. CASE Ph!Refused
  <2>1. s5' \in JoinPanels
    BY <1>1, <1>8 DEF Ph!Refused, JoinPanels
  <2>2. QED  BY <1>1, <1>2, <1>8, <2>1, ClickIs DEF Ph!Refused, Ph!Device
<1>9. CASE Ph!StartGranted
  <2>1. /\ UNCHANGED <<s1, s2, s3, s4, s6, s7, s8, s10, s11, s12>> /\ s9' = Ph!StartStreaming
    BY <1>9 DEF Ph!StartGranted, Ph!Device
  <2>2. s5' \in JoinPanels
    BY <1>1, <1>9 DEF Ph!StartGranted, JoinPanels
  <2>3. Ph!TypeOK'
    BY <1>1, <2>1, <2>2, StreamingIs, PhoneTypesNext
  <2>4. QED  BY <2>1, <2>3, StreamingIs, OnClient
<1>10. CASE Ph!SentToJoin
  <2>1. /\ s1' = "join" /\ s2' = s2 + 1 /\ s3' = Ph!Mounted("") /\ s9' = Ph!NoOne
        /\ s6' = Ph!NoneUnderWay /\ UNCHANGED <<s7, s8, s10, s11, s12>>
        /\ s4' = [k \in Ph!Runs |-> IF s4[k] = Ph!NoRun THEN Ph!NoRun
                                    ELSE [s4[k] EXCEPT !.stage = "ended"]]
    BY <1>10 DEF Ph!SentToJoin
  <2>2. s5' \in JoinPanels
    BY <1>1, <1>10 DEF Ph!SentToJoin, JoinPanels
  <2>3. s3' \in JoinForms /\ s3'.checking = "" /\ (s11.agreed \/ s3'.step = "consent")
    BY <1>1, <2>1, MountedIs, PhoneNumbers DEF PhoneInv
  <2>4. Ph!NoRun.stage = "none"
    BY DEF Ph!NoRun
  <2>5. /\ s4' \in [Ph!Runs -> JoinRuns] /\ \A k \in Ph!Runs : s4'[k].stage \in {"none", "ended"}
        /\ \A k \in Ph!Runs : s4[k] = Ph!NoRun => s4'[k] = Ph!NoRun
    BY <1>1, <2>1, <2>4 DEF JoinRuns
  <2>6. s6' \in Deletions /\ s6'.stage = "none" /\ s9' \in Clients /\ s9'.phase = "none"
    BY <2>1 DEF Ph!NoneUnderWay, Ph!NoOne, Deletions, Clients, Ph!Areas
  <2>7. s2' \in Nat /\ s1' \in {"join", "device", "away"}
    <3>1. s2' = s2 + 1 /\ s2 \in Nat
      BY <1>1, <2>1
    <3>2. s1' \in {"join", "device", "away"}
      BY <2>1
    <3>3. QED  BY <3>1, <3>2
  <2>8. Ph!TypeOK'
    BY <1>1, <2>1, <2>2, <2>3, <2>5, <2>6, <2>7, PhoneTypesNext
  <2>9. AgreedFirst'
    BY <2>1, <2>3, <2>5 DEF PhoneInv, AgreedFirst
  <2>10. DevicesUsed' /\ OwnOrTwice'
    BY <2>1, <2>5, <2>6 DEF PhoneInv, DevicesUsed, OwnOrTwice, Used
  <2>11. QED  BY <2>1, <2>8, <2>9, <2>10 DEF PhoneInv, Ph!EnrolledProperly
<1>11. Ph!Stopped \in Clients /\ Ph!Stopped.phase # "running"
  BY <1>1 DEF Ph!Stopped, Clients
<1>12. CASE Ph!PressStop
  <2>1. UNCHANGED <<s1, s2, s3, s4, s5, s6, s7, s8, s10, s11>> /\ s9' = Ph!Stopped /\ s12' \in 0..JoinClicks
    BY <1>1, <1>12, ClickIs DEF Ph!PressStop, Ph!Pressed, Ph!Device
  <2>2. Ph!TypeOK'
    BY <1>1, <1>11, <2>1, PhoneTypesNext
  <2>3. QED  BY <1>11, <2>1, <2>2, OnClient
<1>13. CASE Ph!AskDelete
  <2>1. s5' \in JoinPanels
    BY <1>1, <1>13 DEF Ph!AskDelete, JoinPanels
  <2>2. QED  BY <1>1, <1>2, <1>13, <2>1, ClickIs DEF Ph!AskDelete, Ph!Pressed, Ph!Device
<1>14. CASE Ph!Delete
  <2>1. /\ UNCHANGED <<s1, s2, s3, s4, s5, s7, s8, s10, s11>> /\ s9' = Ph!Stopped /\ s12' \in 0..JoinClicks
        /\ s7 # "none" /\ s6' = [dev |-> s7, stage |-> "sent"]
    BY <1>1, <1>14, ClickIs DEF Ph!Delete, Ph!Pressed, Ph!Device
  <2>2. s6' \in Deletions /\ s6'.stage = "sent" /\ s6'.dev = s7 /\ Used(s7)
    BY <1>1, <2>1 DEF Deletions, PhoneInv, DevicesUsed
  <2>3. Used(s6'.dev)
    BY <2>2
  <2>4. Ph!TypeOK'
    BY <1>1, <1>11, <2>1, <2>2, PhoneTypesNext
  <2>5. QED  BY <1>11, <2>1, <2>2, <2>3, <2>4, OnClient
<1>15. CASE Ph!DeleteServed
  <2>1. /\ UNCHANGED <<s1, s2, s3, s4, s5, s7, s8, s9, s11, s12>> /\ s6.stage = "sent"
        /\ s10' = [s10 EXCEPT ![s6.dev].state = "gone"] /\ s6' = [s6 EXCEPT !.stage = "served"]
    BY <1>15 DEF Ph!DeleteServed, Ph!Device
  <2>2. s6' \in Deletions /\ s6'.dev = s6.dev /\ s6.stage # "none"
    BY <1>1, <2>1 DEF Deletions
  <2>3. PICK d \in Devices : d = s6.dev /\ s10[d].state # "unused"
    BY <2>2 DEF PhoneInv, DevicesUsed, Used
  <2>4. s6'.dev = d
    BY <2>2, <2>3
  <2>5. /\ s10' \in [Devices -> Enrolments] /\ s10'[d].state = "gone"
        /\ \A x \in Devices : x # d => s10'[x] = s10[x]
    BY <1>1, <2>1, <2>3 DEF Enrolments
  <2>6. Ph!TypeOK'
    BY <1>1, <2>1, <2>2, <2>5, PhoneTypesNext
  <2>7. \A x \in Devices : s10'[x].state # "unused" <=> s10[x].state # "unused"
    BY <2>3, <2>5
  <2>8. DevicesUsed'
    <3>1. /\ s7' # "none" => Used(s7)'
          /\ s9'.phase = "running" => Used(s9.dev)'
      BY <2>1, <2>7 DEF PhoneInv, DevicesUsed, Used
    <3>2. \A k \in Ph!Runs :
            /\ s4[k].stage = "enroll" => s4[k].felt
            /\ s4[k].stage = "enrolled" => s4[k].dev \in Devices /\ s10'[s4[k].dev].state # "unused"
      BY <2>7 DEF PhoneInv, DevicesUsed, Used
    <3>3. Used(s6.dev)' /\ s10'[s6'.dev].state = "gone"
      BY <2>4, <2>5 DEF Used
    <3>4. QED  BY <2>1, <3>1, <3>2, <3>3 DEF DevicesUsed, Used
  <2>9. OwnOrTwice'
    <3>1. EnrolledTwice' <=> EnrolledTwice
      BY <2>7 DEF EnrolledTwice, Used
    <3>2. s9.phase = "running" /\ s10'[s9.dev].state = "live" => s10[s9.dev].state = "live"
      BY <2>5 DEF PhoneInv, DevicesUsed, Used
    <3>3. QED  BY <2>1, <3>1, <3>2 DEF PhoneInv, OwnOrTwice
  <2>10. Ph!EnrolledProperly' /\ AgreedFirst'
    BY <2>1, <2>3, <2>5 DEF PhoneInv, Ph!EnrolledProperly, AgreedFirst, Used
  <2>11. QED  BY <2>1, <2>6, <2>8, <2>9, <2>10 DEF PhoneInv
<1>16. CASE Ph!DeleteAnswered
  <2>1. /\ UNCHANGED <<s1, s2, s3, s4, s9, s10, s11, s12>> /\ s6.stage = "served"
        /\ s6' = Ph!NoneUnderWay /\ s7' = "none" /\ s8' = "none"
    BY <1>16 DEF Ph!DeleteAnswered, Ph!Device
  <2>2. s5' \in JoinPanels
    BY <1>1, <1>16 DEF Ph!DeleteAnswered, JoinPanels
  <2>3. s6' \in Deletions /\ s6'.stage = "none"
    BY <2>1 DEF Ph!NoneUnderWay, Deletions
  <2>4. s8' \in Ph!Areas
    BY <2>1 DEF Ph!Areas
  <2>5. Ph!TypeOK'
    BY <1>1, <2>1, <2>2, <2>3, <2>4, PhoneTypesNext
  <2>6. DevicesUsed'
    BY <2>1, <2>3 DEF PhoneInv, DevicesUsed, Used
  <2>7. OwnOrTwice'
    <3> SUFFICES ASSUME s9.phase = "running", s10[s9.dev].state = "live" PROVE EnrolledTwice'
      BY <2>1 DEF OwnOrTwice
    <3>1. Used(s9.dev) /\ Used(s6.dev) /\ s10[s6.dev].state = "gone"
      BY <2>1 DEF PhoneInv, DevicesUsed
    <3>2. EnrolledTwice
      BY <3>1 DEF EnrolledTwice, Used
    <3>3. QED  BY <2>1, <3>2 DEF EnrolledTwice, Used
  <2>8. QED  BY <2>1, <2>5, <2>6, <2>7 DEF PhoneInv, AgreedFirst, Ph!EnrolledProperly
<1>17. CASE Ph!DeleteFails
  <2>1. UNCHANGED <<s1, s2, s3, s4, s5, s7, s8, s9, s10, s11, s12>> /\ s6' = Ph!NoneUnderWay
    BY <1>17 DEF Ph!DeleteFails, Ph!Device
  <2>2. s6' \in Deletions /\ s6'.stage = "none"
    BY <2>1 DEF Ph!NoneUnderWay, Deletions
  <2>3. Ph!TypeOK'
    BY <1>1, <2>1, <2>2, PhoneTypesNext
  <2>4. DevicesUsed' /\ OwnOrTwice'
    BY <2>1, <2>2 DEF PhoneInv, DevicesUsed, OwnOrTwice, EnrolledTwice, Used
  <2>5. QED  BY <2>1, <2>3, <2>4 DEF PhoneInv, AgreedFirst, Ph!EnrolledProperly
<1>18. CASE Ph!AuthError
  <2>1. /\ UNCHANGED <<s1, s2, s3, s4, s5, s6, s10, s11, s12>> /\ s7' = "none" /\ s8' = "none"
        /\ s9' = [s9 EXCEPT !.phase = "stopped"]
    BY <1>18 DEF Ph!AuthError, Ph!Device
  <2>2. s9' \in Clients /\ s9'.phase # "running" /\ s8' \in Ph!Areas
    BY <1>1, <2>1 DEF Clients, Ph!Areas
  <2>3. Ph!TypeOK'
    BY <1>1, <2>1, <2>2, PhoneTypesNext
  <2>4. DevicesUsed' /\ OwnOrTwice'
    BY <2>1, <2>2 DEF PhoneInv, DevicesUsed, OwnOrTwice, Used
  <2>5. QED  BY <2>1, <2>3, <2>4 DEF PhoneInv, AgreedFirst, Ph!EnrolledProperly
<1>19. CASE Ph!LocationError
  <2>1. /\ UNCHANGED <<s1, s2, s3, s4, s5, s6, s7, s8, s10, s11, s12>>
        /\ s9' = [s9 EXCEPT !.phase = "error"]
    BY <1>19 DEF Ph!LocationError, Ph!Device
  <2>2. s9' \in Clients /\ s9'.phase # "running"
    BY <1>1, <2>1 DEF Clients
  <2>3. Ph!TypeOK'
    BY <1>1, <2>1, <2>2, PhoneTypesNext
  <2>4. QED  BY <2>1, <2>2, <2>3, OnClient
<1>20. QED  BY <1>3, <1>4, <1>5, <1>6, <1>7, <1>8, <1>9, <1>10, <1>12, <1>13, <1>14, <1>15, <1>16,
               <1>17, <1>18, <1>19 DEF DevicePage

LEMMA PhoneNext == PhoneInv /\ [Ph!Next]_(Ph!vars) => PhoneInv'
<1> SUFFICES ASSUME PhoneInv, [Ph!Next]_(Ph!vars) PROVE PhoneInv'
  OBVIOUS
<1>1. ASSUME NEW k \in Ph!Runs, Ph!Start(k) \/ Ph!Work(k) \/ Ph!Fails(k) PROVE PhoneInv'
  BY <1>1, StartNext, EnrolNext, AnswerNext, ClassNext, GoNext DEF Ph!Work
<1>2. CASE UNCHANGED Ph!vars
  <2>1. UNCHANGED <<s1, s2, s3, s4, s5, s6, s7, s8, s9, s10, s11, s12>>
    BY <1>2 DEF Ph!vars
  <2>2. Ph!TypeOK'
    BY <2>1, PhoneTypes, PhoneTypesNext DEF PhoneInv
  <2>3. QED  BY <2>1, <2>2, SameDevices
<1>3. QED  BY <1>1, <1>2, JoinFormNext, DevicePageNext DEF Ph!Next, DevicePage

LEMMA OwnDeviceHolds == PhoneInv => Ph!OwnDevice
<1> SUFFICES ASSUME PhoneInv, s9.phase = "running", s10[s9.dev].state = "live", s7 # s9.dev
             PROVE  Ph!Cardinality({d \in Devices : s10[d].state # "unused"}) > 1
  BY DEF Ph!OwnDevice
<1> DEFINE U == {d \in Devices : s10[d].state # "unused"}
<1>1. PICK d \in U, e \in U : d # e
  BY DEF PhoneInv, OwnOrTwice, EnrolledTwice, Used
<1>2. IsFiniteSet(U) /\ Cardinality(U) \in Nat
  BY PhoneNumbers, FS_Subset, FS_CardinalityType
<1>3. {d, e} \subseteq U
  BY <1>1
<1> HIDE DEF U
<1>4. IsFiniteSet({d}) /\ Cardinality({d}) = 1 /\ {d, e} = {d} \cup {e}
  BY FS_Singleton
<1>5. IsFiniteSet({d, e}) /\ Cardinality({d, e}) = 2
  <2>1. Cardinality({d} \cup {e}) = Cardinality({d}) + 1 /\ IsFiniteSet({d} \cup {e})
    BY <1>1, <1>4, FS_AddElement
  <2>2. QED  BY <1>4, <2>1
<1>6. Cardinality({d, e}) <= Cardinality(U)
  BY <1>2, <1>3, FS_Subset
<1>7. Cardinality(U) > 1
  BY <1>2, <1>5, <1>6
<1>8. Ph!Cardinality(U) = Cardinality(U)
  BY DEF Ph!Cardinality, Cardinality
<1>9. QED  BY <1>7, <1>8 DEF U

-----------------------------------------------------------------------------
(* The page that follows the network: s1 is the event, s2 what is          *)
(* published of it, s3 its row, s4 the last snapshot, s5 the sockets, s6   *)
(* the page, s7 the connection, s8 the first request, s9 the field, s10    *)
(* what is left of the story.                                              *)

LiveFrames == [kind : {"event", "network"}, of : Li!Shown]
LiveEvents == [v : 0..Versions, fate : {"closed", "dismissed"}, young : BOOLEAN, lost : BOOLEAN]
LiveSocks  == [visit : 0..Visits,
               stage : {"free", "connecting", "upgraded", "listed", "open", "closed"},
               queue : Seq(LiveFrames)]
LivePages  == [visit : 0..Visits, on : BOOLEAN, has : BOOLEAN, shown : Li!Shown, live : BOOLEAN,
               error : BOOLEAN]
LiveConns  == [current : Li!Slots, retry : 0..2, timer : BOOLEAN, framed : BOOLEAN,
               address : {"left", "right"}, asked : BOOLEAN]
LiveAsks   == [stage : {"none", "sent", "served"}, got : Li!Shown]
LiveFields == [replay : 0..Versions, asks : [Li!Slots -> LiveAsks]]

LiveTypes ==
  /\ s1 \in LiveEvents /\ s2 \in Li!Shown /\ s3 \in Li!Shown /\ s4 \in Li!Shown
  /\ s5 \in [Li!Slots -> LiveSocks] /\ s6 \in LivePages /\ s7 \in LiveConns
  /\ s8 \in LiveAsks /\ s9 \in LiveFields /\ s10 \in [{"fault", "store"} -> Nat]

\* A queue of older and older states, none newer than the top and none older than the bottom.
Ordered(q, top) ==
  \A j \in 1..Len(q) : q[j].of.v <= top /\ \A k \in j..Len(q) : q[j].of.v <= q[k].of.v
Above(q, bottom) == \A j \in 1..Len(q) : bottom <= q[j].of.v

Gone(i) == s5[i].stage \in {"free", "closed"}

\* A socket is that of the page that is open, and the only one of it.
SocketOf(i) ==
  /\ Gone(i) => s5[i].queue = <<>>
  /\ ~Gone(i) => s6.on /\ s5[i].visit = s6.visit
  /\ s5[i].stage # "free" /\ s5[i].visit = s6.visit => s7.current = i /\ ~s7.timer
  /\ s5[i].stage = "free" => s5[i].visit = 0
  /\ s5[i].visit <= s6.visit

\* What is under way to the page is in order, and from the first snapshot on not older than what it shows.
QueueOf(i) ==
  /\ Len(s5[i].queue) <= Room /\ Ordered(s5[i].queue, s2.v)
  /\ s5[i].stage \in {"connecting", "upgraded", "listed"} => ~s7.framed
  /\ s5[i].stage = "open" /\ s7.framed => s6.shown.v <= s2.v /\ Above(s5[i].queue, s6.shown.v)

LiveInv ==
  /\ LiveTypes
  /\ \A i \in Li!Slots : SocketOf(i) /\ QueueOf(i)
  /\ s2.v <= s1.v /\ s4.v <= s2.v
  /\ s6.on => s6.visit # 0
  /\ s7.timer => s6.on
  /\ s7.framed => s6.has

LEMMA LiveNumbers ==
  Versions \in Nat /\ Room \in Nat /\ 1 <= Room /\ Visits \in Nat /\ LiveStories \subseteq [{"fault", "store"} -> Nat]
<1>1. Versions \in Nat /\ Room \in Nat \ {0} /\ Visits \in Nat
  BY SiteAssumption DEF Li!LiveAssumption
<1>2. LiveStories \subseteq [{"fault", "store"} -> Nat]
  BY SiteAssumption DEF Li!LiveAssumption
<1>3. QED  BY <1>1, <1>2

LEMMA LiveTypesOK == LiveInv => Li!TypeOK
<1> SUFFICES ASSUME LiveInv PROVE Li!TypeOK
  OBVIOUS
<1>1. \A i \in Li!Slots : /\ s5[i].stage \in {"free", "connecting", "upgraded", "listed", "open", "closed"}
                         /\ Len(s5[i].queue) <= Room /\ s5[i].visit \in 0..Visits
  BY DEF LiveInv, LiveTypes, LiveSocks, QueueOf
<1>2. s9.replay \in 0..Versions
  BY DEF LiveInv, LiveTypes, LiveFields
<1>3. QED  BY <1>1, <1>2 DEF LiveInv, LiveTypes, Li!TypeOK, LiveEvents, LivePages, LiveConns

LEMMA NothingIsShown ==
  /\ Li!Nothing \in Li!Shown /\ Li!Nothing.v = 0
  /\ Li!NoAsk \in LiveAsks /\ Li!NoSock \in LiveSocks
  /\ \A s \in Li!Shown : s.v \in Nat /\ s.v <= Versions
<1>1. Li!Nothing \in Li!Shown /\ Li!Nothing.v = 0
  BY LiveNumbers DEF Li!Nothing, Li!Shown
<1>2. Li!NoAsk \in LiveAsks
  BY <1>1 DEF Li!NoAsk, LiveAsks
<1>3. Li!NoSock \in LiveSocks
  <2>1. <<>> \in Seq(LiveFrames) /\ 0 \in 0..Visits
    BY LiveNumbers
  <2>2. QED  BY <2>1 DEF Li!NoSock, LiveSocks
<1>4. \A s \in Li!Shown : s.v \in Nat /\ s.v <= Versions
  BY LiveNumbers DEF Li!Shown
<1>5. QED  BY <1>1, <1>2, <1>3, <1>4

LEMMA FramesNumbered ==
  ASSUME NEW q \in Seq(LiveFrames), NEW j \in 1..Len(q)
  PROVE  q[j].of.v \in Nat
<1>1. q[j] \in LiveFrames
  BY ElementOfSeq
<1>2. q[j].of \in Li!Shown
  BY <1>1 DEF LiveFrames
<1>3. QED  BY <1>2, NothingIsShown

LEMMA OrderedAppend ==
  ASSUME NEW q \in Seq(LiveFrames), NEW top \in Nat, NEW f \in LiveFrames, top <= f.of.v, Ordered(q, top)
  PROVE  /\ Append(q, f) \in Seq(LiveFrames) /\ Len(Append(q, f)) = Len(q) + 1
         /\ Ordered(Append(q, f), f.of.v)
         /\ \A b \in Nat : b <= top /\ Above(q, b) => Above(Append(q, f), b)
<1> DEFINE r == Append(q, f)
<1>1. /\ r \in Seq(LiveFrames) /\ Len(r) = Len(q) + 1 /\ Len(q) \in Nat /\ Len(r) \in Nat
      /\ \A i \in 1..Len(q) : r[i] = q[i]
      /\ r[Len(q) + 1] = f
  BY AppendProperties, LenProperties
<1>2. \A i \in 1..Len(q) : q[i].of.v \in Nat
  BY FramesNumbered
<1>3. f.of.v \in Nat
  BY NothingIsShown DEF LiveFrames
<1> HIDE DEF r
<1>4. Ordered(r, f.of.v)
  <2> SUFFICES ASSUME NEW j \in 1..Len(r), NEW k \in j..Len(r)
               PROVE  r[j].of.v <= f.of.v /\ r[j].of.v <= r[k].of.v
    BY <1>1 DEF Ordered
  <2>1. CASE j = Len(q) + 1
    <3>1. k = j
      BY <1>1, <2>1
    <3>2. QED  BY <1>1, <1>3, <2>1, <3>1
  <2>2. CASE j # Len(q) + 1
    <3>1. j \in 1..Len(q) /\ r[j] = q[j] /\ q[j].of.v <= top
      BY <1>1, <2>2 DEF Ordered
    <3>2. q[j].of.v <= f.of.v
      BY <1>2, <1>3, <3>1
    <3>3. CASE k = Len(q) + 1
      BY <1>1, <3>1, <3>2, <3>3
    <3>4. CASE k # Len(q) + 1
      <4>1. k \in j..Len(q) /\ k \in 1..Len(q)
        BY <1>1, <3>1, <3>4
      <4>2. QED  BY <1>1, <3>1, <3>2, <4>1 DEF Ordered
    <3>5. QED  BY <3>3, <3>4
  <2>3. QED  BY <2>1, <2>2
<1>5. ASSUME NEW b \in Nat, b <= top, Above(q, b) PROVE Above(r, b)
  <2> SUFFICES ASSUME NEW j \in 1..Len(r) PROVE b <= r[j].of.v
    BY DEF Above
  <2>1. CASE j = Len(q) + 1
    BY <1>1, <1>3, <1>5, <2>1
  <2>2. CASE j # Len(q) + 1
    BY <1>1, <1>5, <2>2 DEF Above
  <2>3. QED  BY <2>1, <2>2
<1>6. QED  BY <1>1, <1>4, <1>5 DEF r

LEMMA OrderedTail ==
  ASSUME NEW q \in Seq(LiveFrames), q # <<>>, NEW top, Ordered(q, top)
  PROVE  /\ Head(q) \in LiveFrames /\ Tail(q) \in Seq(LiveFrames) /\ Len(Tail(q)) <= Len(q)
         /\ Ordered(Tail(q), top) /\ Head(q).of.v <= top /\ Above(Tail(q), Head(q).of.v)
         /\ \A b : Above(q, b) => b <= Head(q).of.v
<1>1. /\ Head(q) \in LiveFrames /\ Tail(q) \in Seq(LiveFrames) /\ Len(Tail(q)) = Len(q) - 1
      /\ \A i \in 1..Len(Tail(q)) : Tail(q)[i] = q[i + 1]
  BY HeadTailProperties
<1>2. Len(q) \in Nat /\ Len(q) # 0 /\ Head(q) = q[1]
  BY EmptySeq, LenProperties
<1> DEFINE r == Tail(q)
<1> HIDE DEF r
<1>3. Ordered(r, top)
  BY <1>1, <1>2 DEF Ordered, r
<1>4. Head(q).of.v <= top /\ Above(r, Head(q).of.v)
  BY <1>1, <1>2 DEF Ordered, Above, r
<1>5. \A b : Above(q, b) => b <= Head(q).of.v
  BY <1>2 DEF Above
<1>6. QED  BY <1>1, <1>2, <1>3, <1>4, <1>5 DEF r

LEMMA EmptyOrdered == \A top : Ordered(<<>>, top) /\ Above(<<>>, top)
  BY DEF Ordered, Above

LEMMA Broadcast ==
  ASSUME LiveInv, NEW kind \in {"event", "network"}, NEW s \in Li!Shown, s2.v <= s.v,
         Li!BroadcastPublic(kind, s)
  PROVE  /\ s5' \in [Li!Slots -> LiveSocks]
         /\ \A i \in Li!Slots :
              /\ s5'[i].stage = s5[i].stage /\ s5'[i].visit = s5[i].visit
              /\ Gone(i) => s5'[i].queue = s5[i].queue
              /\ Len(s5'[i].queue) <= Room /\ Ordered(s5'[i].queue, s.v)
              /\ \A b \in Nat : b <= s2.v /\ Above(s5[i].queue, b) => Above(s5'[i].queue, b)
<1>1. s5 \in [Li!Slots -> LiveSocks] /\ s2 \in Li!Shown
  BY DEF LiveInv, LiveTypes
<1>2. s2.v \in Nat /\ s.v \in Nat
  BY <1>1, NothingIsShown
<1>3. ASSUME NEW i \in Li!Slots
      PROVE  /\ s5'[i] \in LiveSocks /\ s5'[i].stage = s5[i].stage /\ s5'[i].visit = s5[i].visit
             /\ Gone(i) => s5'[i].queue = s5[i].queue
             /\ Len(s5'[i].queue) <= Room /\ Ordered(s5'[i].queue, s.v)
             /\ \A b \in Nat : b <= s2.v /\ Above(s5[i].queue, b) => Above(s5'[i].queue, b)
  <2>1. s5[i] \in LiveSocks /\ s5[i].queue \in Seq(LiveFrames) /\ Len(s5[i].queue) <= Room
        /\ Ordered(s5[i].queue, s2.v) /\ Len(s5[i].queue) \in Nat
    BY <1>1, LenProperties DEF LiveSocks, LiveInv, QueueOf
  <2>2. CASE s5'[i] = s5[i]
    <3>1. \A j \in 1..Len(s5[i].queue) : s5[i].queue[j].of.v \in Nat
      BY <2>1, FramesNumbered
    <3>2. Ordered(s5[i].queue, s.v)
      <4> SUFFICES ASSUME NEW j \in 1..Len(s5[i].queue) PROVE s5[i].queue[j].of.v <= s.v
        BY <2>1 DEF Ordered
      <4>1. s5[i].queue[j].of.v <= s2.v
        BY <2>1 DEF Ordered
      <4>2. QED  BY <1>2, <3>1, <4>1
    <3>3. QED  BY <2>1, <2>2, <3>2
  <2>3. CASE s5'[i] # s5[i]
    <3> DEFINE f == [kind |-> kind, of |-> s]
    <3>1. /\ s5[i].stage \in {"listed", "open"} /\ Len(s5[i].queue) < Room
          /\ s5'[i] = [s5[i] EXCEPT !.queue = Append(s5[i].queue, f)]
      BY <2>3 DEF Li!BroadcastPublic
    <3>2. f \in LiveFrames /\ f.of.v = s.v
      BY DEF LiveFrames
    <3> HIDE DEF f
    <3>3. /\ Append(s5[i].queue, f) \in Seq(LiveFrames)
          /\ Len(Append(s5[i].queue, f)) = Len(s5[i].queue) + 1
          /\ Ordered(Append(s5[i].queue, f), s.v)
          /\ \A b \in Nat : b <= s2.v /\ Above(s5[i].queue, b) => Above(Append(s5[i].queue, f), b)
      BY <1>2, <2>1, <3>2, OrderedAppend
    <3>4. /\ s5'[i] \in LiveSocks /\ s5'[i].stage = s5[i].stage /\ s5'[i].visit = s5[i].visit
          /\ s5'[i].queue = Append(s5[i].queue, f)
      BY <2>1, <3>1, <3>3 DEF LiveSocks
    <3>5. Len(s5'[i].queue) <= Room
      BY <2>1, <3>1, <3>3, <3>4, LiveNumbers
    <3>6. ~Gone(i)
      BY <3>1 DEF Gone
    <3>7. QED  BY <3>3, <3>4, <3>5, <3>6
  <2>4. QED  BY <2>2, <2>3
<1>4. s5' \in [Li!Slots -> LiveSocks]
  BY <1>3 DEF Li!BroadcastPublic
<1>5. QED  BY <1>3, <1>4

LEMMA LiveInit == Li!Init => LiveInv
<1> SUFFICES ASSUME Li!Init PROVE LiveInv
  OBVIOUS
<1>1. LiveTypes
  <2>1. s1 \in LiveEvents
    <3>1. 0 \in 0..Versions
      BY LiveNumbers
    <3>2. [v : {0}, fate : {"closed", "dismissed"}, young : {TRUE}, lost : {FALSE}] \subseteq LiveEvents
      BY <3>1 DEF LiveEvents
    <3>3. QED  BY <3>2 DEF Li!Init
  <2>2. s6 \in LivePages
    BY LiveNumbers, NothingIsShown DEF Li!Init, LivePages
  <2>3. s7 \in LiveConns
    BY DEF Li!Init, LiveConns, Li!Slots
  <2>4. s9 \in LiveFields
    BY LiveNumbers, NothingIsShown DEF Li!Init, LiveFields
  <2>5. s10 \in [{"fault", "store"} -> Nat]
    BY LiveNumbers DEF Li!Init
  <2>6. QED  BY <2>1, <2>2, <2>3, <2>4, <2>5, NothingIsShown DEF Li!Init, LiveTypes
<1>2. \A i \in Li!Slots : SocketOf(i) /\ QueueOf(i)
  <2> SUFFICES ASSUME NEW i \in Li!Slots PROVE SocketOf(i) /\ QueueOf(i)
    OBVIOUS
  <2>1. s5[i].stage = "free" /\ s5[i].visit = 0 /\ s5[i].queue = <<>>
    BY DEF Li!Init, Li!NoSock
  <2>2. s6.visit = 0
    BY DEF Li!Init
  <2>3. Len(s5[i].queue) <= Room
    BY <2>1, LiveNumbers, EmptySeq
  <2>4. QED  BY <2>1, <2>2, <2>3, EmptyOrdered DEF SocketOf, QueueOf, Gone
<1>3. s2.v = 0 /\ s1.v = 0 /\ s4.v = 0 /\ ~s6.on /\ ~s7.timer /\ ~s7.framed
  BY NothingIsShown DEF Li!Init
<1>4. QED  BY <1>1, <1>2, <1>3 DEF LiveInv

\* What a step of the page leaves to the sockets when it only touches other things.
SocketsStay ==
  /\ s5' = s5 /\ s2' = s2 /\ s4' = s4 /\ s1'.v = s1.v
  /\ s6'.on = s6.on /\ s6'.visit = s6.visit
  /\ s7'.current = s7.current /\ s7'.timer = s7.timer /\ s7'.framed = s7.framed
  /\ s7.framed => s6'.shown = s6.shown /\ s6'.has

LEMMA LiveSocketsStay == ASSUME LiveInv, LiveTypes', SocketsStay PROVE LiveInv'
<1>1. \A i \in Li!Slots : SocketOf(i)'
  BY DEF LiveInv, SocketsStay, SocketOf, Gone
<1>2. \A i \in Li!Slots : QueueOf(i)'
  BY DEF LiveInv, SocketsStay, QueueOf, Ordered, Above
<1>3. QED  BY <1>1, <1>2 DEF LiveInv, SocketsStay

LEMMA LiveSpend ==
  ASSUME LiveInv, NEW what \in {"fault", "store"}, Li!Spend(what)
  PROVE  s10' \in [{"fault", "store"} -> Nat]
<1>1. s10 \in [{"fault", "store"} -> Nat] /\ s10[what] \in Nat
  BY DEF LiveInv, LiveTypes
<1>2. s10[what] > 0 /\ s10' = [s10 EXCEPT ![what] = s10[what] - 1]
  BY DEF Li!Spend
<1>3. s10[what] - 1 \in Nat
  BY <1>1, <1>2
<1>4. QED  BY <1>1, <1>2, <1>3

LEMMA LiveUpsert == ASSUME LiveInv, Li!UpsertEvent PROVE LiveInv'
<1>1. PICK v \in (s3.v + 1)..s1.v : s3' = [s3 EXCEPT !.v = v]
  BY DEF Li!UpsertEvent
<1>2. s3 \in Li!Shown /\ s3.v \in Nat /\ s1.v \in 0..Versions
  BY NothingIsShown DEF LiveInv, LiveTypes, LiveEvents
<1>3. v \in 0..Versions
  BY <1>1, <1>2, LiveNumbers
<1>4. s3' \in Li!Shown
  BY <1>1, <1>2, <1>3 DEF Li!Shown
<1>5. s10' \in [{"fault", "store"} -> Nat]
  BY LiveSpend DEF Li!UpsertEvent
<1>6. UNCHANGED <<s1, s2, s4, s5, s6, s7, s8, s9>>
  BY DEF Li!UpsertEvent, Li!Site
<1>7. LiveTypes' /\ SocketsStay
  BY <1>4, <1>5, <1>6 DEF LiveInv, LiveTypes, SocketsStay
<1>8. QED  BY <1>7, LiveSocketsStay

LEMMA LiveRetract == ASSUME LiveInv, Li!RetractEvent PROVE LiveInv'
<1>1. s3' \in Li!Shown
  BY DEF Li!RetractEvent, LiveInv, LiveTypes, Li!Shown
<1>2. s10' \in [{"fault", "store"} -> Nat]
  BY LiveSpend DEF Li!RetractEvent
<1>3. UNCHANGED <<s1, s2, s4, s5, s6, s7, s8, s9>>
  BY DEF Li!RetractEvent, Li!Site
<1>4. LiveTypes' /\ SocketsStay
  BY <1>1, <1>2, <1>3 DEF LiveInv, LiveTypes, SocketsStay
<1>5. QED  BY <1>4, LiveSocketsStay

LEMMA LiveAges == ASSUME LiveInv, Li!Ages PROVE LiveInv'
<1>1. s1' = [s1 EXCEPT !.young = FALSE] /\ s1 \in LiveEvents
  BY DEF Li!Ages, LiveInv, LiveTypes
<1>2. s1' \in LiveEvents /\ s1'.v = s1.v
  BY <1>1 DEF LiveEvents
<1>3. s10' \in [{"fault", "store"} -> Nat]
  BY LiveSpend DEF Li!Ages
<1>4. UNCHANGED <<s2, s3, s4, s5, s6, s7, s8, s9>>
  BY DEF Li!Ages, Li!Site
<1>5. LiveTypes' /\ SocketsStay
  BY <1>2, <1>3, <1>4 DEF LiveInv, LiveTypes, SocketsStay
<1>6. QED  BY <1>5, LiveSocketsStay

LEMMA LiveHttpServed == ASSUME LiveInv, Li!HttpServed PROVE LiveInv'
<1>1. s8' \in LiveAsks
  BY DEF Li!HttpServed, LiveInv, LiveTypes, LiveAsks
<1>2. UNCHANGED <<s1, s2, s3, s4, s5, s6, s7, s9, s10>>
  BY DEF Li!HttpServed, Li!Server
<1>3. LiveTypes' /\ SocketsStay
  BY <1>1, <1>2 DEF LiveInv, LiveTypes, SocketsStay
<1>4. QED  BY <1>3, LiveSocketsStay

LEMMA LiveAsk == \A f \in [Li!Slots -> LiveAsks] : Li!Ask(f) \in [Li!Slots -> LiveAsks]
<1> SUFFICES ASSUME NEW f \in [Li!Slots -> LiveAsks] PROVE Li!Ask(f) \in [Li!Slots -> LiveAsks]
  OBVIOUS
<1>1. ASSUME NEW k \in Li!Slots PROVE [f EXCEPT ![k].stage = "sent"] \in [Li!Slots -> LiveAsks]
  BY DEF LiveAsks
<1>2. 1 \in Li!Slots /\ 2 \in Li!Slots
  BY DEF Li!Slots
<1>3. QED  BY <1>1, <1>2 DEF Li!Ask

LEMMA LiveFollow ==
  ASSUME LiveInv, NEW p \in LivePages, Li!Follow(p)
  PROVE  s6' = p /\ s9' \in LiveFields
<1>1. s9 \in LiveFields /\ Li!Ask(s9.asks) \in [Li!Slots -> LiveAsks]
  BY LiveAsk DEF LiveInv, LiveTypes, LiveFields
<1>2. s6' = p /\ (s9' = s9 \/ s9' = [s9 EXCEPT !.asks = Li!Ask(s9.asks)])
  BY DEF Li!Follow
<1>3. [s9 EXCEPT !.asks = Li!Ask(s9.asks)] \in LiveFields
  BY <1>1 DEF LiveFields
<1>4. QED  BY <1>1, <1>2, <1>3

LEMMA LiveHttpAnswered == ASSUME LiveInv, Li!HttpAnswered PROVE LiveInv'
<1> DEFINE p == IF s6.has THEN s6 ELSE [s6 EXCEPT !.has = TRUE, !.shown = s8.got]
<1>1. s6 \in LivePages /\ s8 \in LiveAsks
  BY DEF LiveInv, LiveTypes
<1>2. p \in LivePages
  BY <1>1 DEF LivePages, LiveAsks
<1>3. p.on = s6.on /\ p.visit = s6.visit /\ (s6.has => p = s6)
  BY <1>1 DEF LivePages
<1>4. Li!Follow(p) /\ s8' = Li!NoAsk /\ UNCHANGED <<s1, s2, s3, s4, s5, s7, s10>>
  BY DEF Li!HttpAnswered, Li!Server
<1> HIDE DEF p
<1>5. s6' = p /\ s9' \in LiveFields
  BY <1>2, <1>4, LiveFollow
<1>6. LiveTypes'
  BY <1>2, <1>4, <1>5, NothingIsShown DEF LiveInv, LiveTypes
<1>7. SocketsStay
  BY <1>3, <1>4, <1>5 DEF LiveInv, SocketsStay
<1>8. QED  BY <1>6, <1>7, LiveSocketsStay

LEMMA LiveFails ==
  ASSUME LiveInv, (IF s7.address = "left" THEN UNCHANGED s10 ELSE Li!Fail)
  PROVE  s10' \in [{"fault", "store"} -> Nat]
<1>1. CASE s7.address = "left"
  BY <1>1 DEF LiveInv, LiveTypes
<1>2. CASE s7.address # "left"
  BY <1>2, LiveSpend DEF Li!Fail
<1>3. QED  BY <1>1, <1>2

LEMMA LiveHttpFails == ASSUME LiveInv, Li!HttpFails PROVE LiveInv'
<1>1. s6 \in LivePages /\ s6' = [s6 EXCEPT !.error = TRUE]
  BY DEF LiveInv, LiveTypes, Li!HttpFails
<1>2. s6' \in LivePages /\ s6'.on = s6.on /\ s6'.visit = s6.visit /\ s6'.shown = s6.shown /\ s6'.has = s6.has
  BY <1>1 DEF LivePages
<1>3. s10' \in [{"fault", "store"} -> Nat]
  BY LiveFails DEF Li!HttpFails
<1>4. s8' = Li!NoAsk /\ UNCHANGED <<s1, s2, s3, s4, s5, s7, s9>>
  BY DEF Li!HttpFails, Li!Server
<1>5. LiveTypes'
  BY <1>2, <1>3, <1>4, NothingIsShown DEF LiveInv, LiveTypes
<1>6. SocketsStay
  BY <1>2, <1>4 DEF LiveInv, SocketsStay
<1>7. QED  BY <1>5, <1>6, LiveSocketsStay

LEMMA LiveRefreshed == ASSUME LiveInv, Li!Refreshed PROVE LiveInv'
<1>1. s7 \in LiveConns /\ s7' = [s7 EXCEPT !.asked = FALSE, !.address = "right"]
  BY DEF LiveInv, LiveTypes, Li!Refreshed
<1>2. s7' \in LiveConns /\ s7'.current = s7.current /\ s7'.timer = s7.timer /\ s7'.framed = s7.framed
  BY <1>1 DEF LiveConns
<1>3. UNCHANGED <<s1, s2, s3, s4, s5, s6, s8, s9, s10>>
  BY DEF Li!Refreshed, Li!Server
<1>4. LiveTypes' /\ SocketsStay
  BY <1>2, <1>3 DEF LiveInv, LiveTypes, SocketsStay
<1>5. QED  BY <1>4, LiveSocketsStay

LEMMA LiveFieldStep ==
  ASSUME LiveInv, NEW k \in Li!Slots, Li!FieldServed(k) \/ Li!FieldAnswered(k) \/ Li!FieldFails(k)
  PROVE  LiveInv'
<1>1. s9 \in LiveFields /\ s9.asks \in [Li!Slots -> LiveAsks] /\ s9.asks[k].got \in Li!Shown /\ s3 \in Li!Shown
  BY DEF LiveInv, LiveTypes, LiveFields, LiveAsks
<1>2. UNCHANGED <<s1, s2, s3, s4, s5, s6, s7, s8>>
  BY DEF Li!FieldServed, Li!FieldAnswered, Li!FieldFails, Li!Server
<1>3. s9' \in LiveFields
  <2>1. CASE Li!FieldServed(k)
    <3>1. [stage |-> "served", got |-> s3] \in LiveAsks
      BY <1>1 DEF LiveAsks
    <3>2. QED  BY <1>1, <2>1, <3>1 DEF Li!FieldServed, LiveFields
  <2>2. CASE Li!FieldAnswered(k)
    <3>1. s9.asks[k].got.v \in 0..Versions /\ 0 \in 0..Versions
      BY <1>1, NothingIsShown, LiveNumbers DEF Li!Shown
    <3>2. QED  BY <1>1, <2>2, <3>1, NothingIsShown DEF Li!FieldAnswered, LiveFields
  <2>3. CASE Li!FieldFails(k)
    BY <1>1, <2>3, NothingIsShown DEF Li!FieldFails, LiveFields
  <2>4. QED  BY <2>1, <2>2, <2>3
<1>4. s10' \in [{"fault", "store"} -> Nat]
  BY LiveFails DEF Li!FieldServed, Li!FieldAnswered, Li!FieldFails, LiveInv, LiveTypes
<1>5. LiveTypes' /\ SocketsStay
  BY <1>2, <1>3, <1>4 DEF LiveInv, LiveTypes, SocketsStay
<1>6. QED  BY <1>5, LiveSocketsStay

LEMMA LiveBroadcasts ==
  ASSUME LiveInv, NEW kind \in {"event", "network"}, NEW s \in Li!Shown, s2.v <= s.v,
         Li!BroadcastPublic(kind, s), s2' = s, s6' = s6, s7' = s7
  PROVE  s5' \in [Li!Slots -> LiveSocks] /\ \A i \in Li!Slots : (SocketOf(i) /\ QueueOf(i))'
<1>1. /\ s5' \in [Li!Slots -> LiveSocks]
      /\ \A i \in Li!Slots :
           /\ s5'[i].stage = s5[i].stage /\ s5'[i].visit = s5[i].visit
           /\ Gone(i) => s5'[i].queue = s5[i].queue
           /\ Len(s5'[i].queue) <= Room /\ Ordered(s5'[i].queue, s.v)
           /\ \A b \in Nat : b <= s2.v /\ Above(s5[i].queue, b) => Above(s5'[i].queue, b)
  BY Broadcast
<1>2. ASSUME NEW i \in Li!Slots PROVE SocketOf(i)' /\ QueueOf(i)'
  <2>1. SocketOf(i) /\ QueueOf(i)
    BY DEF LiveInv
  <2>2. SocketOf(i)'
    BY <1>1, <2>1 DEF SocketOf, Gone
  <2>3. s6.shown.v \in Nat /\ s2.v \in Nat /\ s.v \in Nat
    BY NothingIsShown DEF LiveInv, LiveTypes, LivePages
  <2>4. s5[i].stage = "open" /\ s7.framed => s6.shown.v <= s.v /\ Above(s5'[i].queue, s6.shown.v)
    BY <1>1, <2>1, <2>3 DEF QueueOf
  <2>5. s5[i].stage \in {"connecting", "upgraded", "listed"} => ~s7.framed
    BY <2>1 DEF QueueOf
  <2>6. QueueOf(i)'
    BY <1>1, <2>4, <2>5 DEF QueueOf, Above, Ordered
  <2>7. QED  BY <2>2, <2>6
<1>3. QED  BY <1>1, <1>2

LEMMA LiveUpdate == ASSUME LiveInv, Li!OnEventUpdate PROVE LiveInv'
<1>1. s1 \in LiveEvents /\ s1.v \in Nat /\ s1.v < Versions /\ s1' = [s1 EXCEPT !.v = s1.v + 1]
  BY LiveNumbers DEF LiveInv, LiveTypes, LiveEvents, Li!OnEventUpdate
<1>2. s1.v + 1 \in 0..Versions
  BY <1>1, LiveNumbers
<1>3. s1' \in LiveEvents /\ s1'.v = s1.v + 1
  BY <1>1, <1>2 DEF LiveEvents
<1>4. s2' \in Li!Shown /\ s2'.v = s1.v + 1
  BY <1>2, NothingIsShown DEF Li!OnEventUpdate, Li!ToPublic, Li!Shown
<1>5. s2.v \in Nat /\ s4.v \in Nat /\ s2.v <= s1.v /\ s4.v <= s2.v
  BY NothingIsShown DEF LiveInv, LiveTypes
<1>6. s2.v <= s2'.v /\ s2'.v <= s1'.v /\ s4.v <= s2'.v
  BY <1>1, <1>3, <1>4, <1>5
<1>7. Li!BroadcastPublic("event", s2') /\ UNCHANGED <<s3, s4, s6, s7, s8, s9, s10>>
  BY DEF Li!OnEventUpdate, Li!Site
<1>8. s5' \in [Li!Slots -> LiveSocks] /\ \A i \in Li!Slots : (SocketOf(i) /\ QueueOf(i))'
  <2>1. PICK s \in Li!Shown : s = s2'
    BY <1>4
  <2>2. QED  BY <1>6, <1>7, <2>1, LiveBroadcasts
<1>9. LiveTypes'
  BY <1>3, <1>4, <1>7, <1>8 DEF LiveInv, LiveTypes
<1>10. QED  BY <1>6, <1>7, <1>8, <1>9 DEF LiveInv

LEMMA LivePublish == ASSUME LiveInv, Li!Publish PROVE LiveInv'
<1>1. s2 \in Li!Shown /\ s2.v \in Nat
  BY NothingIsShown DEF LiveInv, LiveTypes
<1>2. s4' = s2 /\ Li!BroadcastPublic("network", s2) /\ UNCHANGED <<s1, s2, s3, s6, s7, s8, s9, s10>>
  BY DEF Li!Publish, Li!Site
<1>3. s5' \in [Li!Slots -> LiveSocks] /\ \A i \in Li!Slots : (SocketOf(i) /\ QueueOf(i))'
  BY <1>1, <1>2, LiveBroadcasts
<1>4. LiveTypes'
  BY <1>2, <1>3 DEF LiveInv, LiveTypes
<1>5. QED  BY <1>1, <1>2, <1>3, <1>4 DEF LiveInv

\* The other sockets are as they were, one is as it should be.
LEMMA LiveOneSocket ==
  ASSUME LiveInv, NEW i \in Li!Slots, NEW sock \in LiveSocks, s5' = [s5 EXCEPT ![i] = sock],
         s2' = s2, s6' = s6, s7' = s7
  PROVE  /\ s5' \in [Li!Slots -> LiveSocks] /\ s5'[i] = sock
         /\ \A j \in Li!Slots \ {i} : s5'[j] = s5[j] /\ (SocketOf(j) /\ QueueOf(j))'
<1>1. s5 \in [Li!Slots -> LiveSocks]
  BY DEF LiveInv, LiveTypes
<1>2. \A j \in Li!Slots \ {i} : SocketOf(j) /\ QueueOf(j) /\ s5'[j] = s5[j]
  BY <1>1 DEF LiveInv
<1>3. \A j \in Li!Slots \ {i} : SocketOf(j)'
  BY <1>2 DEF SocketOf, Gone
<1>4. \A j \in Li!Slots \ {i} : QueueOf(j)'
  BY <1>2 DEF QueueOf, Ordered, Above
<1>5. QED  BY <1>1, <1>2, <1>3, <1>4

LEMMA LiveUpgraded == ASSUME LiveInv, NEW i \in Li!Slots, Li!Upgraded(i) PROVE LiveInv'
<1> DEFINE f == [kind |-> "network", of |-> s4]
           sock == [s5[i] EXCEPT !.stage = "upgraded", !.queue = <<f>>]
<1>1. s5 \in [Li!Slots -> LiveSocks] /\ s4 \in Li!Shown /\ s2 \in Li!Shown /\ s4.v <= s2.v
      /\ SocketOf(i) /\ QueueOf(i)
  BY DEF LiveInv, LiveTypes
<1>2. f \in LiveFrames /\ f.of.v = s4.v /\ s4.v \in Nat
  BY <1>1, NothingIsShown DEF LiveFrames
<1>3. /\ s5[i].stage = "connecting" /\ s5' = [s5 EXCEPT ![i] = sock]
      /\ UNCHANGED <<s1, s2, s3, s4, s6, s7, s8, s9, s10>>
  BY <1>1 DEF Li!Upgraded, Li!Site
<1> HIDE DEF f
<1>4. <<f>> \in Seq(LiveFrames) /\ Len(<<f>>) = 1 /\ <<f>>[1] = f
  BY <1>2
<1>5. sock \in LiveSocks /\ sock.stage = "upgraded" /\ sock.queue = <<f>> /\ sock.visit = s5[i].visit
  BY <1>1, <1>4 DEF LiveSocks
<1> HIDE DEF sock
<1>6. /\ s5' \in [Li!Slots -> LiveSocks] /\ s5'[i] = sock
      /\ \A j \in Li!Slots \ {i} : (SocketOf(j) /\ QueueOf(j))'
  BY <1>3, <1>5, LiveOneSocket
<1>7. SocketOf(i)'
  BY <1>1, <1>3, <1>5, <1>6 DEF SocketOf, Gone
<1>8. Ordered(<<f>>, s2.v) /\ Len(<<f>>) <= Room
  BY <1>1, <1>2, <1>4, LiveNumbers DEF Ordered
<1>9. QueueOf(i)'
  <2>1. ~s7.framed
    BY <1>1, <1>3 DEF QueueOf
  <2>2. QED  BY <1>3, <1>5, <1>6, <1>8, <2>1 DEF QueueOf, Ordered
<1>10. QED  BY <1>3, <1>6, <1>7, <1>9 DEF LiveInv, LiveTypes

LEMMA LiveListed == ASSUME LiveInv, NEW i \in Li!Slots, Li!ListedViewer(i) PROVE LiveInv'
<1> DEFINE sock == [s5[i] EXCEPT !.stage = "listed"]
<1>1. s5 \in [Li!Slots -> LiveSocks] /\ SocketOf(i) /\ QueueOf(i)
  BY DEF LiveInv, LiveTypes
<1>2. /\ s5[i].stage = "upgraded" /\ s5' = [s5 EXCEPT ![i] = sock]
      /\ UNCHANGED <<s1, s2, s3, s4, s6, s7, s8, s9, s10>>
  BY <1>1 DEF Li!ListedViewer, Li!Site
<1>3. sock \in LiveSocks /\ sock.stage = "listed" /\ sock.queue = s5[i].queue /\ sock.visit = s5[i].visit
  BY <1>1 DEF LiveSocks
<1> HIDE DEF sock
<1>4. /\ s5' \in [Li!Slots -> LiveSocks] /\ s5'[i] = sock
      /\ \A j \in Li!Slots \ {i} : (SocketOf(j) /\ QueueOf(j))'
  BY <1>2, <1>3, LiveOneSocket
<1>5. SocketOf(i)'
  BY <1>1, <1>2, <1>3, <1>4 DEF SocketOf, Gone
<1>6. QueueOf(i)'
  BY <1>1, <1>2, <1>3, <1>4 DEF QueueOf, Ordered
<1>7. QED  BY <1>2, <1>4, <1>5, <1>6 DEF LiveInv, LiveTypes

LEMMA LiveBroken ==
  ASSUME NEW sock \in LiveSocks
  PROVE  /\ Li!Break(sock) \in LiveSocks /\ Li!Break(sock).visit = sock.visit
         /\ Li!Break(sock).stage \in {"free", "closed"}
         /\ Li!Break(sock).stage = "free" <=> sock.stage = "free"
         /\ sock.stage \notin {"free", "closed"} => Li!Break(sock).queue = <<>>
         /\ sock.stage \in {"free", "closed"} => Li!Break(sock) = sock
<1>1. CASE sock.stage \in {"free", "closed"}
  BY <1>1 DEF Li!Break
<1>2. CASE sock.stage \notin {"free", "closed"}
  <2>1. Li!Break(sock) = [sock EXCEPT !.stage = "closed", !.queue = <<>>]
    BY <1>2 DEF Li!Break
  <2>2. <<>> \in Seq(LiveFrames)
    OBVIOUS
  <2>3. QED  BY <1>2, <2>1, <2>2 DEF LiveSocks
<1>3. QED  BY <1>1, <1>2

\* A socket that broke, in a page that goes on or is left.
LEMMA LiveBreak ==
  ASSUME LiveInv, NEW i \in Li!Slots, s5' \in [Li!Slots -> LiveSocks], s5'[i] = Li!Break(s5[i]),
         s6'.visit = s6.visit, s7'.current = s7.current, s7'.timer => s7.timer
  PROVE  (SocketOf(i) /\ QueueOf(i))' /\ Gone(i)'
<1>1. s5[i] \in LiveSocks /\ SocketOf(i) /\ QueueOf(i)
  BY DEF LiveInv, LiveTypes
<1>2. s5'[i].visit = s5[i].visit /\ s5'[i].stage \in {"free", "closed"}
      /\ (s5'[i].stage = "free" <=> s5[i].stage = "free") /\ s5'[i].queue = <<>>
  BY <1>1, LiveBroken DEF SocketOf, Gone
<1>3. SocketOf(i)' /\ Gone(i)'
  BY <1>1, <1>2 DEF SocketOf, Gone
<1>4. Len(<<>>) <= Room
  BY LiveNumbers, EmptySeq
<1>5. \A top : Ordered(<<>>, top)
  BY EmptyOrdered
<1>6. QueueOf(i)'
  BY <1>2, <1>4, <1>5 DEF QueueOf, Ordered
<1>7. QED  BY <1>3, <1>6

LEMMA LiveRestart == ASSUME LiveInv, Li!Restart PROVE LiveInv'
<1>1. s1 \in LiveEvents /\ s5 \in [Li!Slots -> LiveSocks] /\ s7 \in LiveConns
  BY DEF LiveInv, LiveTypes
<1>2. s1' \in LiveEvents /\ s1'.v = s1.v /\ s1.v \in Nat
  <2>1. s1' = [s1 EXCEPT !.lost = TRUE]
    BY DEF Li!Restart
  <2>2. s1' \in LiveEvents /\ s1'.v = s1.v
    BY <1>1, <2>1 DEF LiveEvents
  <2>3. s1.v \in 0..Versions
    BY <1>1 DEF LiveEvents
  <2>4. QED  BY <2>2, <2>3, LiveNumbers
<1>3. PICK a \in {s7.address, "left"} : s7' = [s7 EXCEPT !.address = a]
  BY DEF Li!Restart
<1>4. s7' \in LiveConns /\ s7'.current = s7.current /\ s7'.timer = s7.timer /\ s7'.framed = s7.framed
  BY <1>1, <1>3 DEF LiveConns
<1>5. s2' = Li!Nothing /\ s4' = Li!Nothing /\ UNCHANGED <<s3, s6, s8, s9>>
      /\ s5' = [i \in Li!Slots |-> Li!Break(s5[i])]
  BY DEF Li!Restart
<1>6. s10' \in [{"fault", "store"} -> Nat]
  BY LiveSpend DEF Li!Restart, Li!Fail
<1>7. s5' \in [Li!Slots -> LiveSocks]
  BY <1>1, <1>5, LiveBroken
<1>8. \A i \in Li!Slots : (SocketOf(i) /\ QueueOf(i))'
  BY <1>4, <1>5, <1>7, LiveBreak
<1>9. s2'.v <= s1'.v /\ s4'.v <= s2'.v
  BY <1>2, <1>5, NothingIsShown
<1>10. LiveTypes'
  BY <1>2, <1>4, <1>5, <1>6, <1>7, NothingIsShown DEF LiveInv, LiveTypes
<1>11. QED  BY <1>4, <1>5, <1>8, <1>9, <1>10 DEF LiveInv

LEMMA LiveBreaks == ASSUME LiveInv, NEW i \in Li!Slots, Li!Breaks(i) PROVE LiveInv'
<1>1. s5 \in [Li!Slots -> LiveSocks] /\ Li!Break(s5[i]) \in LiveSocks
  BY LiveBroken DEF LiveInv, LiveTypes
<1>2. s5' = [s5 EXCEPT ![i] = Li!Break(s5[i])] /\ UNCHANGED <<s1, s2, s3, s4, s6, s7, s8, s9>>
  BY DEF Li!Breaks, Li!Site
<1>3. s10' \in [{"fault", "store"} -> Nat]
  <2>1. CASE UNCHANGED s10
    BY <2>1 DEF LiveInv, LiveTypes
  <2>2. CASE Li!Spend("fault")
    BY <2>2, LiveSpend
  <2>3. QED  BY <2>1, <2>2 DEF Li!Breaks, Li!Fail
<1>4. /\ s5' \in [Li!Slots -> LiveSocks] /\ s5'[i] = Li!Break(s5[i])
      /\ \A j \in Li!Slots \ {i} : (SocketOf(j) /\ QueueOf(j))'
  BY <1>1, <1>2, LiveOneSocket
<1>5. (SocketOf(i) /\ QueueOf(i))'
  BY <1>2, <1>4, LiveBreak
<1>6. QED  BY <1>2, <1>3, <1>4, <1>5 DEF LiveInv, LiveTypes

LEMMA LiveLeave == ASSUME LiveInv, Li!Leave PROVE LiveInv'
<1> DEFINE c == s7.current
<1>1. s5 \in [Li!Slots -> LiveSocks] /\ s6 \in LivePages /\ s7 \in LiveConns /\ c \in Li!Slots
      /\ Li!Break(s5[c]) \in LiveSocks
  BY LiveBroken DEF LiveInv, LiveTypes, LiveConns
<1>2. /\ s5' = [s5 EXCEPT ![c] = Li!Break(s5[c])] /\ UNCHANGED <<s1, s2, s3, s4, s10>>
      /\ s6' = [s6 EXCEPT !.on = FALSE] /\ s7' = [s7 EXCEPT !.timer = FALSE]
      /\ s8' = Li!NoAsk /\ s9' = [replay |-> 0, asks |-> [i \in Li!Slots |-> Li!NoAsk]]
  BY DEF Li!Leave, Li!Server
<1>3. s6' \in LivePages /\ s6'.visit = s6.visit /\ ~s6'.on /\ s6'.has = s6.has
  BY <1>1, <1>2 DEF LivePages
<1>4. s7' \in LiveConns /\ s7'.current = c /\ ~s7'.timer /\ s7'.framed = s7.framed
  BY <1>1, <1>2 DEF LiveConns
<1>5. s9' \in LiveFields
  <2>1. 0 \in 0..Versions
    BY LiveNumbers
  <2>2. QED  BY <1>2, <2>1, NothingIsShown DEF LiveFields
<1> HIDE DEF c
<1>6. s5' \in [Li!Slots -> LiveSocks] /\ s5'[c] = Li!Break(s5[c]) /\ \A i \in Li!Slots \ {c} : s5'[i] = s5[i]
  BY <1>1, <1>2
<1>7. \A i \in Li!Slots \ {c} : Gone(i)
  <2> SUFFICES ASSUME NEW i \in Li!Slots \ {c}, ~Gone(i) PROVE FALSE
    OBVIOUS
  <2>1. s5[i].stage # "free" /\ s5[i].visit = s6.visit
    BY DEF LiveInv, SocketOf, Gone
  <2>2. s7.current = i
    BY <2>1 DEF LiveInv, SocketOf
  <2>3. QED  BY <2>2 DEF c
<1>8. \A i \in Li!Slots : s5'[i] = Li!Break(s5[i])
  BY <1>1, <1>6, <1>7, LiveBroken DEF Gone
<1>9. \A i \in Li!Slots : (SocketOf(i) /\ QueueOf(i))'
  BY <1>3, <1>4, <1>6, <1>8, LiveBreak DEF c
<1>10. LiveTypes'
  BY <1>2, <1>3, <1>4, <1>5, <1>6, NothingIsShown DEF LiveInv, LiveTypes
<1>11. QED  BY <1>2, <1>3, <1>4, <1>9, <1>10 DEF LiveInv

LEMMA LiveConnect ==
  ASSUME LiveInv, NEW visit \in 1..Visits, NEW retry \in 0..2, NEW address \in {"left", "right"},
         Li!Connect(visit, retry, address), s2' = s2, s6'.on, s6'.visit = visit,
         \A j \in Li!Slots :
           Gone(j) /\ s5[j].visit <= visit /\ (s5[j].stage # "free" => s5[j].visit # visit)
  PROVE  /\ s5' \in [Li!Slots -> LiveSocks] /\ s7' \in LiveConns /\ ~s7'.timer /\ ~s7'.framed
         /\ \A j \in Li!Slots : (SocketOf(j) /\ QueueOf(j))'
<1> DEFINE sock == [Li!NoSock EXCEPT !.visit = visit, !.stage = "connecting"]
<1>1. PICK i \in Li!Slots :
        /\ s5[i].stage = "free" /\ s5' = [s5 EXCEPT ![i] = sock]
        /\ s7' = [current |-> i, retry |-> retry, timer |-> FALSE, framed |-> FALSE,
                  address |-> address, asked |-> s7.asked \/ retry >= 2]
  BY DEF Li!Connect
<1>2. visit \in 0..Visits /\ visit # 0 /\ visit \in Nat
  BY LiveNumbers
<1>3. sock \in LiveSocks /\ sock.visit = visit /\ sock.stage = "connecting" /\ sock.queue = <<>>
  BY <1>2, NothingIsShown DEF LiveSocks, Li!NoSock
<1> HIDE DEF sock
<1>4. s5 \in [Li!Slots -> LiveSocks]
  BY DEF LiveInv, LiveTypes
<1>5. s5' \in [Li!Slots -> LiveSocks] /\ s5'[i] = sock /\ \A j \in Li!Slots \ {i} : s5'[j] = s5[j]
  BY <1>1, <1>3, <1>4
<1>6. s7' \in LiveConns /\ ~s7'.timer /\ ~s7'.framed /\ s7'.current = i
  <2>1. (s7.asked \/ retry >= 2) \in BOOLEAN
    OBVIOUS
  <2>2. QED  BY <1>1, <2>1 DEF LiveConns
<1>7. ASSUME NEW j \in Li!Slots \ {i} PROVE (SocketOf(j) /\ QueueOf(j))'
  <2>1. /\ SocketOf(j) /\ QueueOf(j) /\ Gone(j) /\ s5[j].visit <= visit
        /\ s5[j].stage # "free" => s5[j].visit # visit
    BY DEF LiveInv
  <2>2. SocketOf(j)'
    BY <1>5, <1>6, <2>1 DEF SocketOf, Gone
  <2>3. QueueOf(j)'
    BY <1>5, <1>6, <2>1 DEF QueueOf, Ordered, Gone
  <2>4. QED  BY <2>2, <2>3
<1>8. SocketOf(i)'
  BY <1>2, <1>3, <1>5, <1>6 DEF SocketOf, Gone
<1>9. QueueOf(i)'
  <2>1. Len(<<>>) <= Room /\ \A top : Ordered(<<>>, top)
    BY LiveNumbers, EmptySeq, EmptyOrdered
  <2>2. QED  BY <1>3, <1>5, <1>6, <2>1 DEF QueueOf, Ordered
<1>10. QED  BY <1>5, <1>6, <1>7, <1>8, <1>9

LEMMA LiveOpen == ASSUME LiveInv, Li!Open PROVE LiveInv'
<1> DEFINE visit == s6.visit + 1
<1>1. s6 \in LivePages /\ s6.visit \in 0..Visits /\ s6.visit < Visits /\ ~s6.on /\ s7 \in LiveConns
  BY DEF LiveInv, LiveTypes, LivePages, Li!Open
<1>2. s5 \in [Li!Slots -> LiveSocks] /\ \A j \in Li!Slots : s5[j].visit \in 0..Visits
  BY DEF LiveInv, LiveTypes, LiveSocks
<1>3. visit \in 1..Visits /\ visit \in 0..Visits /\ visit # 0 /\ visit # s6.visit
  BY <1>1, LiveNumbers
<1>4. \A j \in Li!Slots : Gone(j) /\ s5[j].visit <= visit /\ s5[j].visit # visit
  <2> SUFFICES ASSUME NEW j \in Li!Slots PROVE Gone(j) /\ s5[j].visit <= visit /\ s5[j].visit # visit
    OBVIOUS
  <2>1. Gone(j) /\ s5[j].visit <= s6.visit
    BY <1>1 DEF LiveInv, SocketOf
  <2>2. QED  BY <1>1, <1>2, <2>1, LiveNumbers
<1>5. /\ s6' = [visit |-> visit, on |-> TRUE, has |-> FALSE, shown |-> Li!Nothing,
                live |-> FALSE, error |-> FALSE]
      /\ Li!Connect(visit, 0, s7.address) /\ s8' = [Li!NoAsk EXCEPT !.stage = "sent"]
      /\ s9' = [replay |-> 0, asks |-> Li!Ask([i \in Li!Slots |-> Li!NoAsk])]
      /\ UNCHANGED <<s1, s2, s3, s4, s10>>
  BY DEF Li!Open, Li!Server
<1> HIDE DEF visit
<1>6. s6' \in LivePages /\ s6'.on /\ s6'.visit = visit
  BY <1>3, <1>5, NothingIsShown DEF LivePages
<1>7. s8' \in LiveAsks
  BY <1>5, NothingIsShown DEF LiveAsks
<1>8. s9' \in LiveFields
  <2>1. 0 \in 0..Versions
    BY LiveNumbers
  <2>2. [i \in Li!Slots |-> Li!NoAsk] \in [Li!Slots -> LiveAsks]
    BY NothingIsShown
  <2>3. Li!Ask([i \in Li!Slots |-> Li!NoAsk]) \in [Li!Slots -> LiveAsks]
    BY <2>2, LiveAsk
  <2>4. QED  BY <1>5, <2>1, <2>3 DEF LiveFields
<1>9. /\ s5' \in [Li!Slots -> LiveSocks] /\ s7' \in LiveConns /\ ~s7'.timer /\ ~s7'.framed
      /\ \A j \in Li!Slots : (SocketOf(j) /\ QueueOf(j))'
  <2>1. 0 \in 0..2 /\ s7.address \in {"left", "right"}
    BY <1>1 DEF LiveConns
  <2>2. QED  BY <1>3, <1>4, <1>5, <1>6, <2>1, LiveConnect
<1>10. LiveTypes'
  BY <1>5, <1>6, <1>7, <1>8, <1>9 DEF LiveInv, LiveTypes
<1>11. QED  BY <1>3, <1>5, <1>6, <1>9, <1>10 DEF LiveInv

LEMMA LiveTimerRuns == ASSUME LiveInv, Li!TimerRuns PROVE LiveInv'
<1>1. s6 \in LivePages /\ s6.visit \in 0..Visits /\ s7 \in LiveConns /\ s7.timer /\ s6.on /\ s6.visit # 0
  BY DEF LiveInv, LiveTypes, LivePages, Li!TimerRuns
<1>2. s6.visit \in 1..Visits
  BY <1>1, LiveNumbers
<1>3. \A j \in Li!Slots :
        Gone(j) /\ s5[j].visit <= s6.visit /\ (s5[j].stage # "free" => s5[j].visit # s6.visit)
  BY <1>1 DEF LiveInv, SocketOf, Gone
<1>4. Li!Connect(s6.visit, s7.retry, s7.address) /\ UNCHANGED <<s1, s2, s3, s4, s6, s8, s9, s10>>
  BY DEF Li!TimerRuns, Li!Server
<1>5. /\ s5' \in [Li!Slots -> LiveSocks] /\ s7' \in LiveConns /\ ~s7'.timer /\ ~s7'.framed
      /\ \A j \in Li!Slots : (SocketOf(j) /\ QueueOf(j))'
  <2>1. s7.retry \in 0..2 /\ s7.address \in {"left", "right"}
    BY <1>1 DEF LiveConns
  <2>2. QED  BY <1>1, <1>2, <1>3, <1>4, <2>1, LiveConnect
<1>6. LiveTypes'
  BY <1>4, <1>5 DEF LiveInv, LiveTypes
<1>7. QED  BY <1>4, <1>5, <1>6 DEF LiveInv

LEMMA LiveOnOpen == ASSUME LiveInv, NEW i \in Li!Slots, Li!OnOpen(i) PROVE LiveInv'
<1> DEFINE sock == [s5[i] EXCEPT !.stage = "open"]
<1>1. s5 \in [Li!Slots -> LiveSocks] /\ s6 \in LivePages /\ s7 \in LiveConns
      /\ \A j \in Li!Slots : SocketOf(j) /\ QueueOf(j)
  BY DEF LiveInv, LiveTypes
<1>2. /\ s5[i].stage = "listed" /\ s5' = [s5 EXCEPT ![i] = sock]
      /\ s7' = [s7 EXCEPT !.retry = 0] /\ s6' = [s6 EXCEPT !.live = TRUE, !.error = FALSE]
      /\ UNCHANGED <<s1, s2, s3, s4, s8, s9, s10>>
  BY <1>1 DEF Li!OnOpen, Li!Server
<1>3. sock \in LiveSocks /\ sock.stage = "open" /\ sock.queue = s5[i].queue /\ sock.visit = s5[i].visit
  BY <1>1 DEF LiveSocks
<1>4. s6' \in LivePages /\ s6'.on = s6.on /\ s6'.visit = s6.visit /\ s6'.shown = s6.shown /\ s6'.has = s6.has
  BY <1>1, <1>2 DEF LivePages
<1>5. s7' \in LiveConns /\ s7'.current = s7.current /\ s7'.timer = s7.timer /\ s7'.framed = s7.framed
  <2>1. 0 \in 0..2
    OBVIOUS
  <2>2. QED  BY <1>1, <1>2, <2>1 DEF LiveConns
<1> HIDE DEF sock
<1>6. s5' \in [Li!Slots -> LiveSocks] /\ s5'[i] = sock /\ \A j \in Li!Slots \ {i} : s5'[j] = s5[j]
  BY <1>1, <1>2, <1>3
<1>7. ASSUME NEW j \in Li!Slots PROVE (SocketOf(j) /\ QueueOf(j))'
  <2>1. CASE j # i
    <3>1. SocketOf(j)'
      BY <1>1, <1>4, <1>5, <1>6, <2>1 DEF SocketOf, Gone
    <3>2. QueueOf(j)'
      BY <1>1, <1>2, <1>4, <1>5, <1>6, <2>1 DEF QueueOf, Ordered, Above
    <3>3. QED  BY <3>1, <3>2
  <2>2. CASE j = i
    <3>1. SocketOf(j)'
      BY <1>1, <1>2, <1>3, <1>4, <1>5, <1>6, <2>2 DEF SocketOf, Gone
    <3>2. QueueOf(j)'
      BY <1>1, <1>2, <1>3, <1>4, <1>5, <1>6, <2>2 DEF QueueOf, Ordered
    <3>3. QED  BY <3>1, <3>2
  <2>3. QED  BY <2>1, <2>2
<1>8. LiveTypes'
  BY <1>2, <1>4, <1>5, <1>6 DEF LiveInv, LiveTypes
<1>9. QED  BY <1>2, <1>4, <1>5, <1>7, <1>8 DEF LiveInv

LEMMA LiveOnClose == ASSUME LiveInv, NEW i \in Li!Slots, Li!OnClose(i) PROVE LiveInv'
<1>1. s5 \in [Li!Slots -> LiveSocks] /\ s6 \in LivePages /\ s7 \in LiveConns
      /\ \A j \in Li!Slots : SocketOf(j) /\ QueueOf(j)
  BY DEF LiveInv, LiveTypes
<1>2. /\ s5[i].stage = "closed" /\ s5' = [s5 EXCEPT ![i] = Li!NoSock]
      /\ UNCHANGED <<s1, s2, s3, s4, s8, s9, s10>>
  BY DEF Li!OnClose, Li!Server
<1>3. s5' \in [Li!Slots -> LiveSocks] /\ s5'[i] = Li!NoSock /\ \A j \in Li!Slots \ {i} : s5'[j] = s5[j]
  BY <1>1, <1>2, NothingIsShown
<1>4. /\ s6' \in LivePages /\ s6'.on = s6.on /\ s6'.visit = s6.visit /\ s6'.shown = s6.shown
      /\ s6'.has = s6.has /\ s7' \in LiveConns /\ s7'.current = s7.current /\ s7'.framed = s7.framed
      /\ s7'.timer => s7.timer \/ (s6.on /\ s7.current = i)
  <2>1. CASE s7.current = i /\ Li!Mine(i)
    <3>1. s6' = [s6 EXCEPT !.live = FALSE]
      BY <2>1 DEF Li!OnClose
    <3>2. PICK r : r = IF s7.retry < 2 THEN s7.retry + 1 ELSE s7.retry
      OBVIOUS
    <3>3. s7' = [s7 EXCEPT !.timer = TRUE, !.retry = r]
      BY <2>1, <3>2 DEF Li!OnClose
    <3>4. r \in 0..2
      BY <1>1, <3>2 DEF LiveConns
    <3>5. s7' \in LiveConns /\ s7'.current = s7.current /\ s7'.framed = s7.framed
      BY <1>1, <3>3, <3>4 DEF LiveConns
    <3>6. QED  BY <1>1, <2>1, <3>1, <3>5 DEF LivePages, Li!Mine
  <2>2. CASE ~(s7.current = i /\ Li!Mine(i))
    BY <1>1, <2>2 DEF Li!OnClose
  <2>3. QED  BY <2>1, <2>2
<1>5. ASSUME NEW j \in Li!Slots PROVE (SocketOf(j) /\ QueueOf(j))'
  <2>1. CASE j # i
    <3>1. ~(s5[j].stage # "free" /\ s5[j].visit = s6.visit /\ s7'.timer)
      <4> SUFFICES ASSUME s5[j].stage # "free", s5[j].visit = s6.visit, s7'.timer PROVE FALSE
        OBVIOUS
      <4>1. s7.current = j /\ ~s7.timer
        BY <1>1 DEF SocketOf
      <4>2. QED  BY <1>4, <2>1, <4>1
    <3>2. SocketOf(j)'
      BY <1>1, <1>3, <1>4, <2>1, <3>1 DEF SocketOf, Gone
    <3>3. QueueOf(j)'
      BY <1>1, <1>2, <1>3, <1>4, <2>1 DEF QueueOf, Ordered, Above
    <3>4. QED  BY <3>2, <3>3
  <2>2. CASE j = i
    <3>1. s6.visit \in Nat
      BY <1>1, LiveNumbers DEF LivePages
    <3>2. SocketOf(j)'
      BY <1>3, <1>4, <2>2, <3>1 DEF SocketOf, Gone, Li!NoSock
    <3>3. Len(<<>>) <= Room /\ \A top : Ordered(<<>>, top)
      BY LiveNumbers, EmptySeq, EmptyOrdered
    <3>4. s5'[j].queue = <<>> /\ s5'[j].stage = "free"
      BY <1>3, <2>2 DEF Li!NoSock
    <3>5. QueueOf(j)'
      BY <3>3, <3>4 DEF QueueOf, Ordered
    <3>6. QED  BY <3>2, <3>5
  <2>3. QED  BY <2>1, <2>2
<1>6. LiveTypes'
  BY <1>2, <1>3, <1>4 DEF LiveInv, LiveTypes
<1>7. QED  BY <1>2, <1>4, <1>5, <1>6 DEF LiveInv

\* What the page shows after a message: its event, in order.
LEMMA LiveMessage ==
  ASSUME LiveInv, NEW i \in Li!Slots, Li!OnMessage(i)
  PROVE  /\ LiveInv'
         /\ s7.framed /\ s7'.framed => s6'.shown.v >= s6.shown.v
<1> DEFINE q == s5[i].queue
           sock == [s5[i] EXCEPT !.queue = Tail(q)]
           m == Head(q)
           p == IF m.kind = "event" /\ ~s6.has THEN s6 ELSE [s6 EXCEPT !.has = TRUE, !.shown = m.of]
<1>1. /\ s5 \in [Li!Slots -> LiveSocks] /\ s6 \in LivePages /\ s7 \in LiveConns
      /\ s5[i] \in LiveSocks /\ q \in Seq(LiveFrames) /\ Len(q) \in Nat
      /\ \A j \in Li!Slots : SocketOf(j) /\ QueueOf(j)
      /\ s7.framed => s6.has
  BY LenProperties DEF LiveInv, LiveTypes, LiveSocks
<1>2. /\ s5[i].stage = "open" /\ q # <<>> /\ s5[i].visit = s6.visit /\ s6.on
      /\ s5' = [s5 EXCEPT ![i] = sock] /\ UNCHANGED <<s1, s2, s3, s4, s8, s10>>
      /\ s7' = [s7 EXCEPT !.framed = s7.framed \/ m.kind = "network"] /\ Li!Follow(p)
  BY <1>1 DEF Li!OnMessage, Li!Server, Li!Mine
<1>3. s2.v \in Nat /\ s6.shown.v \in Nat
  BY NothingIsShown DEF LiveInv, LiveTypes, LivePages
<1>4. /\ m \in LiveFrames /\ Tail(q) \in Seq(LiveFrames) /\ Len(Tail(q)) <= Len(q) /\ Ordered(Tail(q), s2.v)
      /\ m.of.v <= s2.v /\ Above(Tail(q), m.of.v) /\ \A b : Above(q, b) => b <= m.of.v
  <2>1. Ordered(q, s2.v)
    BY <1>1 DEF QueueOf
  <2> HIDE DEF q
  <2>2. QED  BY <1>1, <1>2, <2>1, OrderedTail
<1>5. sock \in LiveSocks /\ sock.stage = "open" /\ sock.queue = Tail(q) /\ sock.visit = s5[i].visit
  BY <1>1, <1>2, <1>4 DEF LiveSocks
<1>6. p \in LivePages /\ p.on = s6.on /\ p.visit = s6.visit
      /\ (m.kind = "network" \/ s6.has => p.shown = m.of /\ p.has)
  BY <1>1, <1>4 DEF LivePages, LiveFrames
<1>7. s7' \in LiveConns /\ s7'.current = s7.current /\ s7'.timer = s7.timer
      /\ (s7'.framed => s7.framed \/ m.kind = "network")
  <2>1. (s7.framed \/ m.kind = "network") \in BOOLEAN
    OBVIOUS
  <2>2. QED  BY <1>1, <1>2, <2>1 DEF LiveConns
<1>8. m.of.v \in Nat
  BY <1>4, NothingIsShown DEF LiveFrames
<1> HIDE DEF q, sock, m, p
<1>9. s6' = p /\ s9' \in LiveFields
  BY <1>2, <1>6, LiveFollow
<1>10. s7'.framed => p.shown = m.of /\ p.has
  BY <1>1, <1>6, <1>7
<1>11. s5' \in [Li!Slots -> LiveSocks] /\ s5'[i] = sock /\ \A j \in Li!Slots \ {i} : s5'[j] = s5[j]
  BY <1>1, <1>2, <1>5
<1>12. ASSUME NEW j \in Li!Slots \ {i} PROVE (SocketOf(j) /\ QueueOf(j))'
  <2>1. s7.current = i
    BY <1>1, <1>2 DEF SocketOf
  <2>2. Gone(j)
    <3> SUFFICES ASSUME ~Gone(j) PROVE FALSE
      OBVIOUS
    <3>1. s5[j].stage # "free" /\ s5[j].visit = s6.visit
      BY <1>1 DEF SocketOf, Gone
    <3>2. s7.current = j
      BY <1>1, <3>1 DEF SocketOf
    <3>3. QED  BY <2>1, <3>2
  <2>3. SocketOf(j)'
    BY <1>1, <1>6, <1>7, <1>9, <1>11 DEF SocketOf, Gone
  <2>4. QueueOf(j)'
    BY <1>1, <1>2, <1>11, <2>2 DEF QueueOf, Ordered, Gone
  <2>5. QED  BY <2>3, <2>4
<1>13. SocketOf(i)'
  BY <1>1, <1>2, <1>5, <1>6, <1>7, <1>9, <1>11 DEF SocketOf, Gone
<1>14. QueueOf(i)'
  <2>1. Len(Tail(q)) <= Room
    <3>1. Len(q) <= Room
      BY <1>1 DEF QueueOf, q
    <3>2. Len(Tail(q)) \in Nat
      BY <1>4, LenProperties
    <3>3. QED  BY <1>1, <1>4, <3>1, <3>2, LiveNumbers DEF q
  <2>2. s7'.framed => s6'.shown.v <= s2.v /\ Above(Tail(q), s6'.shown.v)
    BY <1>4, <1>9, <1>10
  <2>3. QED  BY <1>2, <1>4, <1>5, <1>11, <2>1, <2>2 DEF QueueOf, Ordered, Above
<1>15. LiveTypes'
  BY <1>2, <1>6, <1>7, <1>9, <1>11 DEF LiveInv, LiveTypes
<1>16. LiveInv'
  BY <1>2, <1>6, <1>7, <1>9, <1>10, <1>12, <1>13, <1>14, <1>15 DEF LiveInv
<1>17. ASSUME s7.framed, s7'.framed PROVE s6'.shown.v >= s6.shown.v
  <2>1. Above(q, s6.shown.v)
    BY <1>1, <1>2, <1>17 DEF QueueOf, q
  <2>2. s6.shown.v <= m.of.v
    BY <1>4, <2>1
  <2>3. QED  BY <1>3, <1>8, <1>9, <1>10, <1>17, <2>2
<1>18. QED  BY <1>16, <1>17

LEMMA LiveNext == LiveInv /\ [Li!Next]_(Li!vars) => LiveInv' /\ Li!NotBack
<1> SUFFICES ASSUME LiveInv, [Li!Next]_(Li!vars) PROVE LiveInv' /\ Li!NotBack
  OBVIOUS
<1>1. s6.shown.v \in Nat /\ s6 \in LivePages /\ s7 \in LiveConns /\ (s7.framed => s6.has)
  BY NothingIsShown DEF LiveInv, LiveTypes, LivePages
<1>2. ASSUME s6' = s6 \/ s6'.shown = s6.shown PROVE Li!NotBack
  BY <1>1, <1>2 DEF Li!NotBack
<1>3. CASE Li!OnEventUpdate
  BY <1>2, <1>3, LiveUpdate DEF Li!OnEventUpdate, Li!Site
<1>4. CASE Li!UpsertEvent
  BY <1>2, <1>4, LiveUpsert DEF Li!UpsertEvent, Li!Site
<1>5. CASE Li!RetractEvent
  BY <1>2, <1>5, LiveRetract DEF Li!RetractEvent, Li!Site
<1>6. CASE Li!Publish
  BY <1>2, <1>6, LivePublish DEF Li!Publish, Li!Site
<1>7. CASE Li!Restart
  BY <1>2, <1>7, LiveRestart DEF Li!Restart
<1>8. CASE Li!Ages
  BY <1>2, <1>8, LiveAges DEF Li!Ages, Li!Site
<1>9. CASE Li!Open
  <2>1. ~s7'.framed
    BY <1>9 DEF Li!Open, Li!Connect
  <2>2. QED  BY <1>9, <2>1, LiveOpen DEF Li!NotBack
<1>10. CASE Li!HttpServed
  BY <1>2, <1>10, LiveHttpServed DEF Li!HttpServed
<1>11. CASE Li!HttpAnswered
  <2>1. s6.has => s6' = s6
    BY <1>11 DEF Li!HttpAnswered, Li!Follow
  <2>2. Li!NotBack
    BY <1>1, <2>1 DEF Li!NotBack
  <2>3. QED  BY <1>11, <2>2, LiveHttpAnswered
<1>12. CASE Li!HttpFails
  <2>1. s6'.shown = s6.shown
    BY <1>1, <1>12 DEF Li!HttpFails, LivePages
  <2>2. QED  BY <1>2, <1>12, <2>1, LiveHttpFails
<1>13. CASE Li!TimerRuns
  BY <1>2, <1>13, LiveTimerRuns DEF Li!TimerRuns
<1>14. CASE Li!Refreshed
  BY <1>2, <1>14, LiveRefreshed DEF Li!Refreshed
<1>15. CASE Li!Leave
  <2>1. s6'.shown = s6.shown
    BY <1>1, <1>15 DEF Li!Leave, LivePages
  <2>2. QED  BY <1>2, <1>15, <2>1, LiveLeave
<1>16. ASSUME NEW i \in Li!Slots, Li!Upgraded(i) PROVE LiveInv' /\ Li!NotBack
  BY <1>2, <1>16, LiveUpgraded DEF Li!Upgraded, Li!Site
<1>17. ASSUME NEW i \in Li!Slots, Li!ListedViewer(i) PROVE LiveInv' /\ Li!NotBack
  BY <1>2, <1>17, LiveListed DEF Li!ListedViewer, Li!Site
<1>18. ASSUME NEW i \in Li!Slots, Li!Breaks(i) PROVE LiveInv' /\ Li!NotBack
  BY <1>2, <1>18, LiveBreaks DEF Li!Breaks, Li!Site
<1>19. ASSUME NEW i \in Li!Slots, Li!OnOpen(i) PROVE LiveInv' /\ Li!NotBack
  <2>1. s6'.shown = s6.shown
    BY <1>1, <1>19 DEF Li!OnOpen, LivePages
  <2>2. QED  BY <1>2, <1>19, <2>1, LiveOnOpen
<1>20. ASSUME NEW i \in Li!Slots, Li!OnMessage(i) PROVE LiveInv' /\ Li!NotBack
  BY <1>20, LiveMessage DEF Li!NotBack
<1>21. ASSUME NEW i \in Li!Slots, Li!OnClose(i) PROVE LiveInv' /\ Li!NotBack
  <2>1. s6'.shown = s6.shown
    BY <1>1, <1>21 DEF Li!OnClose, LivePages
  <2>2. QED  BY <1>2, <1>21, <2>1, LiveOnClose
<1>22. ASSUME NEW k \in Li!Slots, Li!FieldServed(k) \/ Li!FieldAnswered(k) \/ Li!FieldFails(k)
       PROVE  LiveInv' /\ Li!NotBack
  <2>1. s6' = s6
    BY <1>22 DEF Li!FieldServed, Li!FieldAnswered, Li!FieldFails
  <2>2. QED  BY <1>2, <1>22, <2>1, LiveFieldStep
<1>23. CASE UNCHANGED Li!vars
  <2>1. UNCHANGED <<s1, s2, s3, s4, s5, s6, s7, s8, s9, s10>>
    BY <1>23 DEF Li!vars
  <2>2. LiveTypes' /\ SocketsStay
    BY <2>1 DEF LiveInv, LiveTypes, SocketsStay
  <2>3. QED  BY <1>2, <2>1, <2>2, LiveSocketsStay
<1>24. QED
  BY <1>3, <1>4, <1>5, <1>6, <1>7, <1>8, <1>9, <1>10, <1>11, <1>12, <1>13, <1>14, <1>15, <1>16,
     <1>17, <1>18, <1>19, <1>20, <1>21, <1>22, <1>23 DEF Li!Next

LEMMA LeftAlone == LiveInv => Li!NothingAfterLeaving
  BY DEF LiveInv, SocketOf, Gone, Li!NothingAfterLeaving

-----------------------------------------------------------------------------
(* The oscilloscope: s1 says whether it is mounted, s2 are the samples     *)
(* that wait, s3 is how many were tapped, s4 are the messages to the       *)
(* worker, s5 is the worker, s6 what comes back, s7 the ring, s8 the       *)
(* triggers, s9 the controls, s10 the readouts, s11 what came back, s12    *)
(* what is left of the moves.                                              *)

ScopeWorkers  == [seen : 0..Learn, last : BOOLEAN, fs : BOOLEAN, n : 0..Warm, band : Sc!Bands]
ScopeMessages == [kind : {"samples", "config"}, chunk : Seq(Nat), band : Sc!Bands \cup {"none"}]
ScopeReturns  == [point : Sc!Points, over : BOOLEAN]

ScopeTypes ==
  /\ s1 \in BOOLEAN /\ s2 \in Seq(Nat) /\ s3 \in 0..Samples /\ s4 \in Seq(ScopeMessages)
  /\ s5 \in ScopeWorkers /\ s6 \in Seq(Seq(Sc!Points)) /\ s7 \in [a : [0..(Cap - 1) -> Sc!Points], n : Nat]
  /\ s8 \in [n : Nat, on : BOOLEAN] /\ s9 \in Sc!Controls
  /\ s10 \in [last : Sc!Points, trig : 0..Samples]
  /\ s11 \in Seq(ScopeReturns) /\ s12 \in 0..ScopeMoves
  /\ \A k \in 1..Len(s4) : s4[k].kind = "config" => s4[k].band \in Sc!Bands

\* The samples after a and up to b, in order; and the points of them, at least one.
Run(q, a, b)    == a + Len(q) = b /\ \A i \in 1..Len(q) : q[i] = a + i
Traced(c, a, b) == c # <<>> /\ a + Len(c) = b /\ \A i \in 1..Len(c) : c[i].s = a + i

\* A message takes the worker from a to b; a band leaves it where it is.
Takes(m, a, b) == IF m.kind = "samples" THEN m.chunk # <<>> /\ Run(m.chunk, a, b) ELSE a = b

\* The places between one element of a sequence and the next.
Places(f, n, a, b) ==
  /\ f \in [0..n -> Nat] /\ f[0] = a /\ f[n] = b
  /\ \A j \in 0..n : \A k \in j..n : f[j] <= f[k]

Back(q, a, b) == \E f : Places(f, Len(q), a, b) /\ \A j \in 1..Len(q) : Traced(q[j], f[j - 1], f[j])
Wire(q, a, b) == \E f : Places(f, Len(q), a, b) /\ \A j \in 1..Len(q) : Takes(q[j], f[j - 1], f[j])

\* What came back are consecutive samples; after them come those on their way back, those on
\* the wire and those that wait.
Chained(z, b, c) ==
  /\ \A i \in 1..Len(s11) : s11[i].point.s = z + i
  /\ z + Len(s11) <= s3
  /\ s1 => Back(s6, z + Len(s11), b) /\ Wire(s4, b, c) /\ Run(s2, c, s3)
ScopeChain == \E z, b, c \in Nat : Chained(z, b, c)

\* As long as the worker does not know the rate nothing came back.
NothingYet == s5.seen < Learn => s6 = <<>> /\ s11 = <<>>

\* The places of the last Cap samples are theirs.
RingKept ==
  /\ s7.n = Len(s11)
  /\ \A j \in 1..Len(s11) : j > Len(s11) - Cap => s7.a[(j - 1) % Cap] = s11[j].point

\* The band of the controls is the last on the wire, or the worker's.
BandSent ==
  s1 =>
    /\ (\A k \in 1..Len(s4) : s4[k].kind # "config") => s5.band = s9.band
    /\ \A k \in 1..Len(s4) :
         s4[k].kind = "config" /\ (\A l \in (k + 1)..Len(s4) : s4[l].kind # "config") =>
           s4[k].band = s9.band

\* Of a page that was left nothing is on its way.
Left == ~s1 => s2 = <<>> /\ s4 = <<>> /\ s6 = <<>>

CountKept == Sc!TriggersCounted /\ (s11 = <<>> => ~s8.on)

ScopeInv ==
  ScopeTypes /\ ScopeChain /\ NothingYet /\ RingKept /\ BandSent /\ Left /\ CountKept

LEMMA ScopeNumbers ==
  /\ Cap \in Nat /\ Cap # 0 /\ Warm \in Nat /\ Learn \in Nat /\ Samples \in Nat /\ ScopeMoves \in Nat
<1>1. Cap \in Nat \ {0} /\ {Warm, Learn, Samples, ScopeMoves} \subseteq Nat
  BY SiteAssumption DEF Sc!ScopeAssumption
<1>2. QED  BY <1>1

\* Two numbers less than Cap apart have places of their own.
LEMMA PlacesApart ==
  ASSUME NEW a \in Nat, NEW b \in Nat, a < b, b < a + Cap
  PROVE  a % Cap # b % Cap
<1> USE ScopeNumbers
<1>1. a = Cap * (a \div Cap) + (a % Cap) /\ b = Cap * (b \div Cap) + (b % Cap)
      /\ a \div Cap \in Int /\ b \div Cap \in Int
  OBVIOUS
<1>2. SUFFICES ASSUME a % Cap = b % Cap PROVE FALSE
  OBVIOUS
<1> DEFINE x == a \div Cap
           y == b \div Cap
           r == a % Cap
<1>3. a = Cap * x + r /\ b = Cap * y + r /\ x \in Int /\ y \in Int /\ r \in Int
  BY <1>1, <1>2
<1> HIDE DEF x, y, r
<1>4. b - a = Cap * (y - x)
  BY <1>3
<1>5. b - a > 0 /\ b - a < Cap
  OBVIOUS
<1> DEFINE d == y - x
<1>6. d \in Int /\ b - a = Cap * d
  BY <1>3, <1>4
<1> HIDE DEF d
<1>7. CASE d <= 0
  <2>1. Cap * d <= 0
    BY <1>6, <1>7
  <2>2. QED  BY <1>5, <1>6, <2>1
<1>8. CASE d >= 1
  <2>1. Cap * d >= Cap
    BY <1>6, <1>8
  <2>2. QED  BY <1>5, <1>6, <2>1
<1>9. QED  BY <1>6, <1>7, <1>8

LEMMA PlaceIn == \A a \in Nat : a % Cap \in 0..(Cap - 1)
  BY ScopeNumbers

\* Chains: what is empty leads nowhere, and one grows at its end and shrinks at its beginning.
LEMMA NoPlaces == \A a \in Nat : Places([j \in 0..0 |-> a], 0, a, a)
  BY DEF Places

LEMMA EmptyChains == \A a \in Nat : Back(<<>>, a, a) /\ Wire(<<>>, a, a)
<1> SUFFICES ASSUME NEW a \in Nat PROVE Back(<<>>, a, a) /\ Wire(<<>>, a, a)
  OBVIOUS
<1>1. Len(<<>>) = 0 /\ Places([j \in 0..0 |-> a], 0, a, a)
  BY NoPlaces, EmptySeq
<1>2. \A j \in 1..0 : FALSE
  OBVIOUS
<1>3. QED  BY <1>1, <1>2 DEF Back, Wire

LEMMA EmptyChain ==
  ASSUME NEW a, NEW b, Back(<<>>, a, b) \/ Wire(<<>>, a, b)
  PROVE  a = b
<1>1. Len(<<>>) = 0
  BY EmptySeq
<1>2. QED  BY <1>1 DEF Back, Wire, Places

More(f, n, c) == [j \in 0..(n + 1) |-> IF j = n + 1 THEN c ELSE f[j]]

LEMMA MorePlaces ==
  ASSUME NEW n \in Nat, NEW a \in Nat, NEW b \in Nat, NEW c \in Nat, b <= c, NEW f, Places(f, n, a, b)
  PROVE  /\ Places(More(f, n, c), n + 1, a, c) /\ More(f, n, c)[n + 1] = c
         /\ \A j \in 0..n : More(f, n, c)[j] = f[j]
<1> DEFINE g == [j \in 0..(n + 1) |-> IF j = n + 1 THEN c ELSE f[j]]
<1>1. \A j \in 0..(n + 1) : j = n + 1 \/ j \in 0..n
  OBVIOUS
<1>2. \A j \in 0..n : g[j] = f[j] /\ f[j] \in Nat /\ f[j] <= c
  <2> SUFFICES ASSUME NEW j \in 0..n PROVE g[j] = f[j] /\ f[j] \in Nat /\ f[j] <= c
    OBVIOUS
  <2>1. g[j] = f[j]
    OBVIOUS
  <2>2. f[j] \in Nat /\ f[j] <= f[n] /\ f[n] = b
    <3>1. n \in j..n
      OBVIOUS
    <3>2. f \in [0..n -> Nat] /\ f[n] = b /\ f[j] <= f[n]
      BY <3>1 DEF Places
    <3>3. QED  BY <3>2
  <2>3. QED  BY <2>1, <2>2
<1>3. g[n + 1] = c
  OBVIOUS
<1>4. g \in [0..(n + 1) -> Nat]
  BY <1>1, <1>2
<1> HIDE DEF g
<1>5. g[0] = a
  BY <1>2 DEF Places
<1>6. ASSUME NEW j \in 0..(n + 1), NEW k \in j..(n + 1) PROVE g[j] <= g[k]
  <2>1. CASE k = n + 1
    BY <1>1, <1>2, <1>3, <2>1
  <2>2. CASE k # n + 1
    <3>1. j \in 0..n /\ k \in j..n /\ k \in 0..n
      BY <2>2
    <3>2. f[j] <= f[k]
      BY <3>1 DEF Places
    <3>3. QED  BY <1>2, <3>1, <3>2
  <2>3. QED  BY <2>1, <2>2
<1>7. Places(g, n + 1, a, c)
  BY <1>3, <1>4, <1>5, <1>6 DEF Places
<1>8. g = More(f, n, c)
  BY DEF g, More
<1>9. QED  BY <1>2, <1>3, <1>7, <1>8

LEMMA FewerPlaces ==
  ASSUME NEW n \in Nat, n # 0, NEW a, NEW b, NEW f, Places(f, n, a, b)
  PROVE  \E g : /\ Places(g, n - 1, f[1], b) /\ f[1] \in Nat /\ f[0] = a
                /\ \A j \in 0..(n - 1) : g[j] = f[j + 1]
<1> DEFINE g == [j \in 0..(n - 1) |-> f[j + 1]]
<1>1. n - 1 \in Nat /\ 0 \in 0..(n - 1) /\ n - 1 \in 0..(n - 1) /\ (n - 1) + 1 = n /\ 1 \in 0..n /\ 0 + 1 = 1
  OBVIOUS
<1>2. \A j \in 0..(n - 1) : g[j] = f[j + 1] /\ j + 1 \in 0..n
  OBVIOUS
<1>3. f \in [0..n -> Nat] /\ f[0] = a /\ f[n] = b
  BY DEF Places
<1>4. g \in [0..(n - 1) -> Nat]
  BY <1>2, <1>3
<1>5. ASSUME NEW j \in 0..(n - 1), NEW k \in j..(n - 1) PROVE g[j] <= g[k]
  <2>1. k \in 0..(n - 1) /\ j + 1 \in 0..n /\ k + 1 \in (j + 1)..n
    OBVIOUS
  <2>2. f[j + 1] <= f[k + 1]
    BY <2>1 DEF Places
  <2>3. QED  BY <1>2, <2>1, <2>2
<1> HIDE DEF g
<1>6. g[0] = f[1] /\ g[n - 1] = b
  BY <1>1, <1>2, <1>3
<1>7. QED  BY <1>1, <1>2, <1>3, <1>4, <1>5, <1>6 DEF Places

LEMMA ChainGrows ==
  ASSUME NEW S, NEW q \in Seq(S), NEW m \in S, NEW a \in Nat, NEW b \in Nat, NEW c \in Nat, b <= c
  PROVE  /\ Back(q, a, b) /\ Traced(m, b, c) => Back(Append(q, m), a, c)
         /\ Wire(q, a, b) /\ Takes(m, b, c) => Wire(Append(q, m), a, c)
<1> DEFINE r == Append(q, m)
           n == Len(q)
<1>1. /\ r \in Seq(S) /\ Len(r) = n + 1 /\ n \in Nat /\ r[n + 1] = m
      /\ \A i \in 1..n : r[i] = q[i]
  BY AppendProperties, LenProperties
<1>2. \A j \in 1..(n + 1) : j = n + 1 \/ j \in 1..n
  BY <1>1
<1> HIDE DEF r, n
<1>3. ASSUME Back(q, a, b), Traced(m, b, c) PROVE Back(r, a, c)
  <2>1. PICK f : Places(f, n, a, b) /\ \A j \in 1..n : Traced(q[j], f[j - 1], f[j])
    BY <1>3 DEF Back, n
  <2>2. PICK g : Places(g, n + 1, a, c) /\ g[n + 1] = c /\ \A j \in 0..n : g[j] = f[j]
    <3>1. Places(f, n, a, b) /\ n \in Nat
      BY <1>1, <2>1
    <3> DEFINE g == More(f, n, c)
    <3>2. Places(g, n + 1, a, c) /\ g[n + 1] = c /\ \A j \in 0..n : g[j] = f[j]
      BY <3>1, MorePlaces
    <3> HIDE DEF g
    <3>3. QED  BY <3>2
  <2>3. ASSUME NEW j \in 1..(n + 1) PROVE Traced(r[j], g[j - 1], g[j])
    <3>1. CASE j = n + 1
      <4>1. n \in 0..n /\ j - 1 = n
        BY <1>1, <3>1
      <4>2. f[n] = b
        BY <2>1 DEF Places
      <4>3. g[n] = b
        BY <2>2, <4>1, <4>2
      <4>4. QED  BY <1>1, <1>3, <2>2, <3>1, <4>1, <4>3
    <3>2. CASE j \in 1..n
      <4>1. j \in 0..n /\ j - 1 \in 0..n
        BY <1>1, <3>2
      <4>2. QED  BY <1>1, <2>1, <2>2, <3>2, <4>1
    <3>3. QED  BY <1>2, <3>1, <3>2
  <2>4. QED  BY <1>1, <2>2, <2>3 DEF Back
<1>4. ASSUME Wire(q, a, b), Takes(m, b, c) PROVE Wire(r, a, c)
  <2>1. PICK f : Places(f, n, a, b) /\ \A j \in 1..n : Takes(q[j], f[j - 1], f[j])
    BY <1>4 DEF Wire, n
  <2>2. PICK g : Places(g, n + 1, a, c) /\ g[n + 1] = c /\ \A j \in 0..n : g[j] = f[j]
    <3>1. Places(f, n, a, b) /\ n \in Nat
      BY <1>1, <2>1
    <3> DEFINE g == More(f, n, c)
    <3>2. Places(g, n + 1, a, c) /\ g[n + 1] = c /\ \A j \in 0..n : g[j] = f[j]
      BY <3>1, MorePlaces
    <3> HIDE DEF g
    <3>3. QED  BY <3>2
  <2>3. ASSUME NEW j \in 1..(n + 1) PROVE Takes(r[j], g[j - 1], g[j])
    <3>1. CASE j = n + 1
      <4>1. n \in 0..n /\ j - 1 = n
        BY <1>1, <3>1
      <4>2. f[n] = b
        BY <2>1 DEF Places
      <4>3. g[n] = b
        BY <2>2, <4>1, <4>2
      <4>4. QED  BY <1>1, <1>4, <2>2, <3>1, <4>1, <4>3
    <3>2. CASE j \in 1..n
      <4>1. j \in 0..n /\ j - 1 \in 0..n
        BY <1>1, <3>2
      <4>2. QED  BY <1>1, <2>1, <2>2, <3>2, <4>1
    <3>3. QED  BY <1>2, <3>1, <3>2
  <2>4. QED  BY <1>1, <2>2, <2>3 DEF Wire
<1>5. QED  BY <1>3, <1>4 DEF r

LEMMA ChainShrinks ==
  ASSUME NEW S, NEW q \in Seq(S), q # <<>>, NEW a, NEW b
  PROVE  /\ Back(q, a, b) => \E c \in Nat : Traced(Head(q), a, c) /\ Back(Tail(q), c, b)
         /\ Wire(q, a, b) => \E c \in Nat : Takes(Head(q), a, c) /\ Wire(Tail(q), c, b)
<1> DEFINE r == Tail(q)
           n == Len(q)
<1>1. n \in Nat /\ n # 0 /\ Head(q) = q[1] /\ Len(r) = n - 1 /\ \A i \in 1..(n - 1) : r[i] = q[i + 1]
  BY HeadTailProperties, EmptySeq, LenProperties
<1> HIDE DEF r, n
<1>2. ASSUME Back(q, a, b) PROVE \E c \in Nat : Traced(q[1], a, c) /\ Back(r, c, b)
  <2>1. PICK f : Places(f, n, a, b) /\ \A j \in 1..n : Traced(q[j], f[j - 1], f[j])
    BY <1>2 DEF Back, n
  <2>2. PICK g : /\ Places(g, n - 1, f[1], b) /\ f[1] \in Nat /\ f[0] = a
                 /\ \A j \in 0..(n - 1) : g[j] = f[j + 1]
    BY <1>1, <2>1, FewerPlaces
  <2>3. ASSUME NEW j \in 1..(n - 1) PROVE Traced(r[j], g[j - 1], g[j])
    <3>1. j + 1 \in 1..n /\ (j + 1) - 1 = j /\ j \in 0..(n - 1) /\ j - 1 \in 0..(n - 1) /\ (j - 1) + 1 = j
      BY <1>1
    <3>2. Traced(q[j + 1], f[j], f[j + 1])
      BY <2>1, <3>1
    <3>3. g[j] = f[j + 1] /\ g[j - 1] = f[j]
      BY <2>2, <3>1
    <3>4. QED  BY <1>1, <3>2, <3>3
  <2>4. Traced(q[1], a, f[1])
    <3>1. 1 \in 1..n /\ 1 - 1 = 0
      BY <1>1
    <3>2. QED  BY <2>1, <2>2, <3>1
  <2>5. QED  BY <1>1, <2>2, <2>3, <2>4 DEF Back
<1>3. ASSUME Wire(q, a, b) PROVE \E c \in Nat : Takes(q[1], a, c) /\ Wire(r, c, b)
  <2>1. PICK f : Places(f, n, a, b) /\ \A j \in 1..n : Takes(q[j], f[j - 1], f[j])
    BY <1>3 DEF Wire, n
  <2>2. PICK g : /\ Places(g, n - 1, f[1], b) /\ f[1] \in Nat /\ f[0] = a
                 /\ \A j \in 0..(n - 1) : g[j] = f[j + 1]
    BY <1>1, <2>1, FewerPlaces
  <2>3. ASSUME NEW j \in 1..(n - 1) PROVE Takes(r[j], g[j - 1], g[j])
    <3>1. j + 1 \in 1..n /\ (j + 1) - 1 = j /\ j \in 0..(n - 1) /\ j - 1 \in 0..(n - 1) /\ (j - 1) + 1 = j
      BY <1>1
    <3>2. Takes(q[j + 1], f[j], f[j + 1])
      BY <2>1, <3>1
    <3>3. g[j] = f[j + 1] /\ g[j - 1] = f[j]
      BY <2>2, <3>1
    <3>4. QED  BY <1>1, <3>2, <3>3
  <2>4. Takes(q[1], a, f[1])
    <3>1. 1 \in 1..n /\ 1 - 1 = 0
      BY <1>1
    <3>2. QED  BY <2>1, <2>2, <3>1
  <2>5. QED  BY <1>1, <2>2, <2>3, <2>4 DEF Wire
<1>4. QED  BY <1>1, <1>2, <1>3 DEF r

LEMMA ChainUp ==
  ASSUME NEW S, NEW q \in Seq(S), NEW a, NEW b, Back(q, a, b) \/ Wire(q, a, b)
  PROVE  a \in Nat /\ b \in Nat /\ a <= b
<1>1. PICK f : Places(f, Len(q), a, b)
  BY DEF Back, Wire
<1>2. Len(q) \in Nat /\ 0 \in 0..Len(q) /\ Len(q) \in 0..Len(q)
  BY LenProperties
<1>3. f[0] = a /\ f[Len(q)] = b /\ f[0] \in Nat /\ f[Len(q)] \in Nat /\ f[0] <= f[Len(q)]
  BY <1>1, <1>2 DEF Places
<1>4. QED  BY <1>3

LEMMA FunctionIsSeq == ASSUME NEW S, NEW n \in Nat, NEW q \in [1..n -> S] PROVE q \in Seq(S) /\ Len(q) = n
  OBVIOUS

LEMMA ScopeCounting == \A S : Sc!Cardinality(S) = Cardinality(S)
  BY DEF Sc!Cardinality, Cardinality

\* Of samples that are still kept a later one is less than Cap further on.
LEMMA Within ==
  ASSUME NEW n \in Nat, NEW m \in Nat, NEW j \in Nat, NEW i \in 1..m, NEW h \in 1..m,
         n + i = j, i < h, j > n + m - Cap
  PROVE  n + h - 1 \in Nat /\ j - 1 < n + h - 1 /\ n + h - 1 < (j - 1) + Cap
<1>1. Cap \in Nat
  BY ScopeNumbers
<1>2. QED  BY <1>1

\* The chunk that is pushed takes the places of the oldest samples.
LEMMA RingPush ==
  ASSUME NEW r \in [a : [0..(Cap - 1) -> Sc!Points], n : Nat], NEW c \in Seq(Sc!Points), NEW p,
         \A j \in 1..r.n : j > r.n - Cap => r.a[(j - 1) % Cap] = p[j],
         \A i \in 1..Len(c) : p[r.n + i] = c[i]
  PROVE  /\ Sc!Push(r, c) \in [a : [0..(Cap - 1) -> Sc!Points], n : Nat]
         /\ Sc!Push(r, c).n = r.n + Len(c)
         /\ \A j \in 1..(r.n + Len(c)) :
              j > r.n + Len(c) - Cap => Sc!Push(r, c).a[(j - 1) % Cap] = p[j]
<1> DEFINE Here(k) == {i \in 1..Len(c) : (r.n + i - 1) % Cap = k}
           Last(k) == CHOOSE i \in Here(k) : \A j \in Here(k) : j <= i
           at == [k \in 0..(Cap - 1) |-> IF Here(k) = {} THEN r.a[k] ELSE c[Last(k)]]
<1>1. Sc!Push(r, c) = [a |-> at, n |-> r.n + Len(c)]
  BY DEF Sc!Push
<1>2. r.n \in Nat /\ Len(c) \in Nat /\ Cap \in Nat /\ Cap # 0 /\ r.a \in [0..(Cap - 1) -> Sc!Points]
  BY ScopeNumbers, LenProperties
<1>3. ASSUME NEW k \in 0..(Cap - 1), Here(k) # {} PROVE Last(k) \in 1..Len(c) /\ \A j \in Here(k) : j <= Last(k)
  <2>1. IsFiniteSet(1..Len(c))
    BY <1>2, FS_Interval
  <2>2. IsFiniteSet(Here(k)) /\ Here(k) \subseteq Int
    BY <2>1, FS_Subset
  <2> HIDE DEF Here
  <2>3. \E i \in Here(k) : \A j \in Here(k) : j <= i
    BY <1>3, <2>2, GreatestExists
  <2>4. Last(k) \in Here(k) /\ \A j \in Here(k) : j <= Last(k)
    BY <2>3
  <2>5. QED  BY <2>4 DEF Here
<1>4. at \in [0..(Cap - 1) -> Sc!Points]
  <2>1. ASSUME NEW k \in 0..(Cap - 1) PROVE at[k] \in Sc!Points
    <3>1. at[k] = IF Here(k) = {} THEN r.a[k] ELSE c[Last(k)]
      OBVIOUS
    <3> HIDE DEF at, Here, Last
    <3>2. CASE Here(k) = {}
      BY <1>2, <3>1, <3>2
    <3>3. CASE Here(k) # {}
      <4>1. Last(k) \in 1..Len(c)
        BY <1>3, <3>3
      <4>2. c[Last(k)] \in Sc!Points
        BY <4>1, ElementOfSeq
      <4>3. QED  BY <3>1, <3>3, <4>2
    <3>4. QED  BY <3>2, <3>3
  <2>2. at = [k \in 0..(Cap - 1) |-> at[k]]
    OBVIOUS
  <2> HIDE DEF at
  <2>3. QED  BY <2>1, <2>2
<1> DEFINE n == r.n
           m == Len(c)
<1>a. n \in Nat /\ m \in Nat /\ Cap \in Nat /\ n = r.n /\ m = Len(c)
  BY <1>2
<1> HIDE DEF n, m
<1>5. ASSUME NEW j \in 1..(r.n + Len(c)), j > r.n + Len(c) - Cap PROVE at[(j - 1) % Cap] = p[j]
  <2> DEFINE k == (j - 1) % Cap
  <2>z. j \in 1..(n + m) /\ j > n + m - Cap
    BY <1>5, <1>a
  <2>0. j - 1 \in Nat
    BY <2>z, <1>a
  <2>1. j - 1 \in Nat /\ k \in 0..(Cap - 1)
    BY <2>0, PlaceIn
  <2>2. at[k] = IF Here(k) = {} THEN r.a[k] ELSE c[Last(k)]
    BY <2>1
  <2>3. \A i \in Here(k) : i \in 1..Len(c) /\ (r.n + i - 1) % Cap = k
    OBVIOUS
  <2>4. \A i \in 1..Len(c) : (r.n + i - 1) % Cap = k => i \in Here(k)
    OBVIOUS
  <2> HIDE DEF at, Here, Last
  <2>5. CASE j <= r.n
    <3>1. Here(k) = {}
      <4> SUFFICES ASSUME NEW i \in Here(k) PROVE FALSE
        OBVIOUS
      <4>1. i \in 1..Len(c) /\ (r.n + i - 1) % Cap = (j - 1) % Cap
        BY <2>3
      <4>2. r.n + i - 1 \in Nat /\ j - 1 < r.n + i - 1 /\ r.n + i - 1 < (j - 1) + Cap
        <5>1. i \in 1..m /\ j <= n
          BY <4>1, <2>5, <1>a
        <5>2. n + i - 1 \in Nat /\ j - 1 < n + i - 1 /\ n + i - 1 < (j - 1) + Cap
          BY <1>a, <2>z, <5>1
        <5>3. QED  BY <5>2, <1>a
      <4>3. QED  BY <2>1, <4>1, <4>2, PlacesApart
    <3>2. j \in 1..r.n /\ j > r.n - Cap
      BY <1>2, <1>5, <2>5
    <3>3. r.a[k] = p[j]
      BY <3>2
    <3>4. QED  BY <2>2, <3>1, <3>3
  <2>6. CASE j > r.n
    <3> DEFINE i == j - r.n
    <3>1. i \in 1..Len(c) /\ r.n + i = j
      BY <1>2, <2>6
    <3>2. i \in Here(k)
      BY <2>4, <3>1
    <3>3. Last(k) \in 1..Len(c) /\ i <= Last(k) /\ (r.n + Last(k) - 1) % Cap = (j - 1) % Cap
      <4>1. Here(k) # {}
        BY <3>2
      <4>2. Last(k) \in 1..Len(c) /\ i <= Last(k)
        BY <1>3, <2>1, <3>2, <4>1
      <4>3. Last(k) \in Here(k)
        <5>1. \E g \in Here(k) : \A h \in Here(k) : h <= g
          <6>1. Here(k) \subseteq 1..Len(c) /\ IsFiniteSet(1..Len(c)) /\ 1..Len(c) \subseteq Int
            BY <1>2, <2>3, FS_Interval
          <6>2. IsFiniteSet(Here(k)) /\ Here(k) \subseteq Int
            BY <6>1, FS_Subset
          <6>3. QED  BY <4>1, <6>2, GreatestExists
        <5>2. QED  BY <5>1 DEF Last
      <4>4. QED  BY <2>3, <4>2, <4>3
    <3>4. i = Last(k)
      <4> SUFFICES ASSUME i < Last(k) PROVE FALSE
        BY <1>2, <3>1, <3>3
      <4>1. r.n + Last(k) - 1 \in Nat /\ j - 1 < r.n + Last(k) - 1 /\ r.n + Last(k) - 1 < (j - 1) + Cap
        <5> DEFINE h == Last(k)
        <5>1. h \in 1..m /\ n + i = j /\ i < h /\ i \in 1..m /\ j \in Nat
          BY <3>1, <3>3, <1>a, <2>z
        <5> HIDE DEF h, i
        <5>2. n + h - 1 \in Nat /\ j - 1 < n + h - 1 /\ n + h - 1 < (j - 1) + Cap
          BY <1>a, <2>z, <5>1, Within
        <5>3. QED  BY <5>2, <1>a DEF h
      <4>2. QED  BY <2>1, <3>3, <4>1, PlacesApart
    <3>5. p[j] = c[i]
      BY <3>1
    <3>6. QED  BY <2>2, <3>2, <3>4, <3>5
  <2>7. QED  BY <1>2, <2>5, <2>6
<1> HIDE DEF at
<1>6. QED  BY <1>1, <1>2, <1>4, <1>5

\* A set of numbers has as many members when it is moved.
LEMMA Moved ==
  ASSUME NEW S \in SUBSET Nat, IsFiniteSet(S), NEW n \in Nat
  PROVE  IsFiniteSet({n + i : i \in S}) /\ Cardinality({n + i : i \in S}) = Cardinality(S)
<1> DEFINE T == {n + i : i \in S}
           f == [i \in S |-> n + i]
<1>1. f \in [S -> T] /\ \A y \in T : \E x \in S : f[x] = y
  OBVIOUS
<1>2. \A x, y \in S : f[x] = f[y] => x = y
  OBVIOUS
<1> HIDE DEF f, T
<1>3. f \in Surjection(S, T) /\ f \in Injection(S, T)
  BY <1>1, <1>2 DEF Surjection, Injection, IsInjective
<1>4. IsFiniteSet(T) /\ Cardinality(T) = Cardinality(S)
  BY <1>3, FS_Surjection
<1>5. QED  BY <1>4 DEF T

\* However samples are cut into chunks: the crossings of what came before and of the chunk,
\* which goes on from where that ended, are those of both.
\* H is F followed by G, and before is what F ends with; at first it is no.
Joined(L, m, F, G, H, before, no) ==
  /\ L \in Nat /\ m \in Nat /\ before \in BOOLEAN /\ no = FALSE
  /\ F \in [1..L -> BOOLEAN] /\ G \in [1..m -> BOOLEAN] /\ H \in [1..(L + m) -> BOOLEAN]
  /\ \A i \in 1..L : H[i] = F[i]
  /\ \A i \in 1..m : H[L + i] = G[i]
  /\ L = 0 => before = FALSE
  /\ L # 0 => before = F[L]

LEMMA RisesAdd ==
  ASSUME NEW L, NEW m, NEW F, NEW G, NEW H, NEW before, NEW no, Joined(L, m, F, G, H, before, no)
  PROVE  Cardinality(Sc!Rises(H, no)) =
           Cardinality(Sc!Rises(F, no)) + Cardinality(Sc!Rises(G, before))
<1> L \in Nat /\ m \in Nat /\ before \in BOOLEAN /\ no = FALSE
  BY DEF Joined
<1> F \in [1..L -> BOOLEAN] /\ G \in [1..m -> BOOLEAN] /\ H \in [1..(L + m) -> BOOLEAN]
  BY DEF Joined
<1> \A i \in 1..L : H[i] = F[i]
  BY DEF Joined
<1> \A i \in 1..m : H[L + i] = G[i]
  BY DEF Joined
<1> (L = 0 => before = FALSE) /\ (L # 0 => before = F[L])
  BY DEF Joined
<1> DEFINE A == {i \in 1..L : F[i] /\ ~(IF i = 1 THEN FALSE ELSE F[i - 1])}
           B == {i \in 1..m : G[i] /\ ~(IF i = 1 THEN before ELSE G[i - 1])}
           C == {i \in 1..(L + m) : H[i] /\ ~(IF i = 1 THEN FALSE ELSE H[i - 1])}
           D == {L + i : i \in B}
<1>1. Len(F) = L /\ Len(G) = m /\ Len(H) = L + m
  BY FunctionIsSeq
<1>2. Sc!Rises(F, FALSE) = A /\ Sc!Rises(G, before) = B /\ Sc!Rises(H, FALSE) = C
  BY <1>1 DEF Sc!Rises
<1>3. ASSUME NEW x \in 1..(L + m) PROVE x \in C <=> x \in A \/ x \in D
  <2>1. CASE x <= L
    <3>1. x \in 1..L /\ x \notin D
      BY <2>1
    <3>2. x # 1 => x - 1 \in 1..L
      BY <3>1
    <3>3. H[x] = F[x] /\ (x # 1 => H[x - 1] = F[x - 1])
      BY <3>1, <3>2
    <3>4. x \in C <=> x \in A
      BY <3>1, <3>3
    <3>5. QED  BY <3>1, <3>4
  <2>2. CASE x > L
    <3> DEFINE y == x - L
    <3>1. y \in 1..m /\ L + y = x /\ x \notin A
      BY <2>2
    <3>2. H[x] = G[y]
      BY <3>1
    <3>3. x \in D <=> y \in B
      <4>1. \A i \in B : L + i = x => i = y
        BY <3>1
      <4>2. QED  BY <3>1, <4>1
    <3>4. (IF x = 1 THEN FALSE ELSE H[x - 1]) = (IF y = 1 THEN before ELSE G[y - 1])
      <4>1. CASE y # 1
        <5>1. y - 1 \in 1..m /\ L + (y - 1) = x - 1 /\ x # 1
          BY <3>1, <4>1
        <5>2. H[x - 1] = G[y - 1]
          BY <5>1
        <5>3. QED  BY <4>1, <5>1, <5>2
      <4>2. CASE y = 1 /\ L = 0
        <5>1. x = 1
          BY <3>1, <4>2
        <5>2. before = FALSE
          BY <4>2, Zenon
        <5>3. QED  BY <5>1, <5>2, <4>2
      <4>3. CASE y = 1 /\ L # 0
        <5>1. x - 1 = L /\ L \in 1..L /\ x # 1
          BY <3>1, <4>3
        <5>2. H[x - 1] = F[L]
          BY <5>1
        <5>3. QED  BY <4>3, <5>1, <5>2
      <4>4. QED  BY <4>1, <4>2, <4>3
    <3>5. x \in C <=> y \in B
      BY <3>1, <3>2, <3>4
    <3>6. QED  BY <3>1, <3>3, <3>5
  <2>3. QED  BY <2>1, <2>2
<1>4. C = A \cup D /\ A \cap D = {} /\ A \subseteq 1..L /\ B \subseteq 1..m /\ B \subseteq Nat
  <2>1. A \subseteq 1..L /\ B \subseteq 1..m /\ B \subseteq Nat
    OBVIOUS
  <2>2. \A x \in D : x \in 1..(L + m) /\ x > L
    BY <2>1
  <2>3. \A x \in C : x \in 1..(L + m)
    OBVIOUS
  <2> HIDE DEF A, B, C, D
  <2>4. A \cap D = {}
    BY <2>1, <2>2
  <2>5. \A x \in A : x \in 1..(L + m)
    BY <2>1
  <2>6. C = A \cup D
    BY <1>3, <2>2, <2>3, <2>5
  <2>7. QED  BY <2>1, <2>4, <2>6
<1> HIDE DEF A, B, C
<1>5. IsFiniteSet(A) /\ IsFiniteSet(B)
  <2>1. IsFiniteSet(1..L) /\ IsFiniteSet(1..m)
    BY FS_Interval
  <2>2. QED  BY <1>4, <2>1, FS_Subset
<1>6. IsFiniteSet(D) /\ Cardinality(D) = Cardinality(B)
  BY <1>4, <1>5, Moved
<1> HIDE DEF D
<1>7. Cardinality(A \cup D) = Cardinality(A) + Cardinality(D) - Cardinality(A \cap D)
  BY <1>5, <1>6, FS_Union
<1>8. Cardinality(A \cap D) = 0 /\ Cardinality(A) \in Nat /\ Cardinality(D) \in Nat
  BY <1>4, <1>5, <1>6, FS_EmptySet, FS_CardinalityType
<1>9. Cardinality(C) = Cardinality(A) + Cardinality(B)
  BY <1>4, <1>6, <1>7, <1>8
<1>10. QED  BY <1>2, <1>9

LEMMA RisesBound ==
  ASSUME NEW L \in Nat, NEW F \in [1..L -> BOOLEAN], NEW before \in BOOLEAN
  PROVE  Cardinality(Sc!Rises(F, before)) \in 0..L
<1>1. Sc!Rises(F, before) \subseteq 1..L
  BY FunctionIsSeq DEF Sc!Rises
<1>2. IsFiniteSet(1..L) /\ Cardinality(1..L) = L
  BY FS_Interval
<1>3. IsFiniteSet(Sc!Rises(F, before)) /\ Cardinality(Sc!Rises(F, before)) <= Cardinality(1..L)
  BY <1>1, <1>2, FS_Subset
<1>4. QED  BY <1>2, <1>3, FS_CardinalityType

-----------------------------------------------------------------------------
LEMMA ScopeInit == Sc!Init => ScopeInv
<1> SUFFICES ASSUME Sc!Init PROVE ScopeInv
  OBVIOUS
<1> USE ScopeNumbers
<1>1. /\ s1 = TRUE /\ s2 = <<>> /\ s3 = 0 /\ s4 = <<Sc!Config("net")>> /\ s5 = Sc!Worker
      /\ s6 = <<>> /\ s7 = [a |-> [k \in 0..(Cap - 1) |-> Sc!NoPoint], n |-> 0]
      /\ s8 = [n |-> 0, on |-> FALSE] /\ s9 = Sc!Net
      /\ s10 = [last |-> Sc!NoPoint, trig |-> 0] /\ s11 = <<>> /\ s12 = ScopeMoves
  BY DEF Sc!Init
<1> DEFINE m == Sc!Config("net")
<1>2. m \in ScopeMessages /\ m.kind = "config" /\ m.band = "net" /\ Len(s4) = 1 /\ s4[1] = m
      /\ s4 \in Seq(ScopeMessages)
  <2>1. m = [kind |-> "config", chunk |-> <<>>, band |-> "net"] /\ <<>> \in Seq(Nat)
    BY DEF Sc!Config
  <2>a. "net" \in Sc!Bands \cup {"none"} /\ "config" \in {"samples", "config"}
    BY DEF Sc!Bands
  <2>2. m \in ScopeMessages /\ m.kind = "config" /\ m.band = "net"
    <3> HIDE DEF m
    <3> DEFINE e == <<>>
    <3>1. m = [kind |-> "config", chunk |-> e, band |-> "net"] /\ e \in Seq(Nat)
      BY <2>1
    <3> HIDE DEF e
    <3>2. QED  BY <3>1, <2>a DEF ScopeMessages
  <2> HIDE DEF m
  <2>3. QED  BY <1>1, <2>2 DEF m
<1>3. ScopeTypes
  <2>1. Sc!NoPoint \in Sc!Points
    BY DEF Sc!NoPoint, Sc!Points, Sc!Ratios
  <2>2. s5 \in ScopeWorkers
    BY <1>1 DEF Sc!Worker, ScopeWorkers, Sc!Bands
  <2>3. s7 \in [a : [0..(Cap - 1) -> Sc!Points], n : Nat]
    BY <1>1, <2>1
  <2>4. s8 \in [n : Nat, on : BOOLEAN] /\ s9 \in Sc!Controls /\ s10 \in [last : Sc!Points, trig : 0..Samples]
    BY <1>1, <2>1 DEF Sc!Net, Sc!Controls, Sc!Bands
  <2>5. s2 \in Seq(Nat) /\ s6 \in Seq(Seq(Sc!Points)) /\ s11 \in Seq(ScopeReturns)
    BY <1>1, EmptySeq
  <2>6. \A k \in 1..Len(s4) : s4[k].kind = "config" => s4[k].band \in Sc!Bands
    BY <1>2 DEF Sc!Bands
  <2>7. s1 \in BOOLEAN /\ s3 \in 0..Samples /\ s12 \in 0..ScopeMoves
    BY <1>1
  <2>8. QED  BY <1>2, <2>2, <2>3, <2>4, <2>5, <2>6, <2>7 DEF ScopeTypes
<1>4. ScopeChain
  <2>1. Len(s11) = 0 /\ Len(s2) = 0
    BY <1>1
  <2>2. Back(s6, 0, 0)
    BY <1>1, EmptyChains
  <2>3. Wire(s4, 0, 0)
    <3>1. Wire(<<>>, 0, 0) /\ <<>> \in Seq(ScopeMessages)
      BY EmptyChains, EmptySeq
    <3>2. Takes(m, 0, 0)
      BY <1>2 DEF Takes
    <3> HIDE DEF m
    <3>a. \A q \in Seq(ScopeMessages), x \in ScopeMessages :
            Wire(q, 0, 0) /\ Takes(x, 0, 0) => Wire(Append(q, x), 0, 0)
      BY ChainGrows
    <3>3. Wire(Append(<<>>, m), 0, 0)
      BY <1>2, <3>1, <3>2, <3>a, Zenon
    <3>4. Append(<<>>, m) = s4
      BY <1>1, <1>2 DEF m
    <3>5. QED  BY <3>3, <3>4
  <2>4. Run(s2, 0, s3)
    BY <1>1, <2>1 DEF Run
  <2>5. 0 + Len(s11) <= s3 /\ 0 + Len(s11) = 0 /\ \A i \in 1..Len(s11) : s11[i].point.s = 0 + i
    BY <1>1, <2>1
  <2>6. Chained(0, 0, 0)
    BY <2>2, <2>3, <2>4, <2>5 DEF Chained
  <2>7. QED  BY <2>6 DEF ScopeChain
<1>5. NothingYet /\ Left
  BY <1>1 DEF NothingYet, Left
<1>6. RingKept
  BY <1>1 DEF RingKept
<1>7. BandSent
  <2>1. \A k \in 1..1 : k = 1
    OBVIOUS
  <2>2. s9.band = "net"
    BY <1>1 DEF Sc!Net
  <2>3. QED  BY <1>2, <2>1, <2>2 DEF BandSent
<1>8. CountKept
  <2> DEFINE F == [i \in 1..Len(s11) |-> s11[i].over]
  <2>1. Len(s11) = 0
    BY <1>1
  <2>2. F \in [1..0 -> BOOLEAN]
    BY <2>1
  <2> HIDE DEF F
  <2>3. Cardinality(Sc!Rises(F, FALSE)) \in 0..0
    BY <2>2, RisesBound
  <2>4. s8.n = Sc!Cardinality(Sc!Rises(F, FALSE))
    BY <1>1, <2>3, ScopeCounting
  <2>5. QED  BY <1>1, <2>4 DEF CountKept, Sc!TriggersCounted, F
<1>9. QED  BY <1>3, <1>4, <1>5, <1>6, <1>7, <1>8 DEF ScopeInv

LEMMA ScopeSameOut ==
  ScopeInv /\ UNCHANGED <<s7, s8, s11>> => RingKept' /\ CountKept'
  BY DEF ScopeInv, RingKept, CountKept, Sc!TriggersCounted

\* As much came back as was tapped, and no more triggers were counted.
LEMMA ScopeCount == ScopeInv => Len(s11) \in 0..Samples /\ s8.n \in 0..Samples
<1> SUFFICES ASSUME ScopeInv PROVE Len(s11) \in 0..Samples /\ s8.n \in 0..Samples
  OBVIOUS
<1> DEFINE n == Len(s11)
<1>1. s3 \in 0..Samples /\ s11 \in Seq(ScopeReturns) /\ n \in Nat
  BY LenProperties DEF ScopeInv, ScopeTypes
<1>2. PICK z \in Nat : z + n <= s3
  BY DEF ScopeInv, ScopeChain, Chained
<1>3. n \in 0..Samples
  <2> HIDE DEF n
  <2>1. QED  BY <1>1, <1>2, ScopeNumbers
<1> DEFINE F == [i \in 1..n |-> s11[i].over]
<1>4. F \in [1..n -> BOOLEAN]
  <2>1. ASSUME NEW i \in 1..n PROVE s11[i].over \in BOOLEAN
    <3>1. s11[i] \in ScopeReturns
      BY <1>1, ElementOfSeq
    <3>2. QED  BY <3>1 DEF ScopeReturns
  <2>2. QED  BY <2>1
<1>5. s8.n = Sc!Cardinality(Sc!Rises(F, FALSE))
  BY DEF ScopeInv, CountKept, Sc!TriggersCounted
<1> HIDE DEF F, n
<1>6. s8.n \in 0..n
  BY <1>1, <1>4, <1>5, RisesBound, ScopeCounting
<1>7. n \in 0..Samples /\ s8.n \in 0..Samples
  BY <1>3, <1>6, ScopeNumbers
<1>8. QED  BY <1>7 DEF n

LEMMA ScopeTap == ScopeInv /\ Sc!Tap => ScopeInv'
<1> SUFFICES ASSUME ScopeInv, Sc!Tap PROVE ScopeInv'
  OBVIOUS
<1> USE ScopeNumbers
<1>1. /\ s1 /\ s3 < Samples /\ s3' = s3 + 1 /\ s2' = Append(s2, s3 + 1)
      /\ UNCHANGED <<s1, s4, s5, s6, s7, s8, s9, s10, s11, s12>>
  BY DEF Sc!Tap
<1>2. ScopeTypes
  BY DEF ScopeInv
<1>3. s3 \in Nat /\ s3' \in 0..Samples /\ s2 \in Seq(Nat) /\ s3 + 1 \in Nat
  BY <1>1, <1>2 DEF ScopeTypes
<1>4. s2' \in Seq(Nat) /\ Len(s2') = Len(s2) + 1 /\ s2'[Len(s2) + 1] = s3 + 1 /\ Len(s2) \in Nat
      /\ \A i \in 1..Len(s2) : s2'[i] = s2[i]
  BY <1>1, <1>3, AppendProperties, LenProperties
<1>5. ScopeTypes'
  BY <1>1, <1>2, <1>3, <1>4 DEF ScopeTypes
<1>6. ScopeChain'
  <2>1. PICK z \in Nat, b \in Nat, c \in Nat : Chained(z, b, c)
    BY DEF ScopeInv, ScopeChain
  <2>2. Run(s2, c, s3) /\ Back(s6, z + Len(s11), b) /\ Wire(s4, b, c)
        /\ z + Len(s11) <= s3 /\ \A i \in 1..Len(s11) : s11[i].point.s = z + i
    BY <1>1, <2>1 DEF Chained
  <2>3. Run(s2', c, s3')
    <3>1. c + Len(s2) = s3 /\ \A i \in 1..Len(s2) : s2[i] = c + i
      BY <2>2 DEF Run
    <3>2. ASSUME NEW i \in 1..Len(s2') PROVE s2'[i] = c + i
      <4>1. i \in 1..Len(s2) \/ i = Len(s2) + 1
        BY <1>4
      <4>2. QED  BY <1>4, <3>1, <4>1
    <3>3. c + Len(s2') = s3'
      BY <1>1, <1>4, <3>1
    <3>4. QED  BY <3>2, <3>3 DEF Run
  <2>4. Len(s11) \in Nat
    BY <1>2, LenProperties DEF ScopeTypes
  <2>5. z + Len(s11) <= s3'
    BY <1>1, <1>3, <2>2, <2>4
  <2>6. Chained(z, b, c)'
    BY <1>1, <2>2, <2>3, <2>5 DEF Chained
  <2>7. QED  BY <2>6 DEF ScopeChain
<1>7. NothingYet' /\ Left' /\ BandSent'
  BY <1>1 DEF ScopeInv, NothingYet, Left, BandSent
<1>8. RingKept' /\ CountKept'
  BY <1>1, ScopeSameOut
<1>9. QED  BY <1>5, <1>6, <1>7, <1>8 DEF ScopeInv
LEMMA ScopeShip == ScopeInv /\ Sc!Ship => ScopeInv'
<1> SUFFICES ASSUME ScopeInv, Sc!Ship PROVE ScopeInv'
  OBVIOUS
<1> DEFINE m == Sc!Chunk(s2)
<1>1. /\ s1 /\ s2 # <<>> /\ s4' = Append(s4, m) /\ s2' = <<>>
      /\ UNCHANGED <<s1, s3, s5, s6, s7, s8, s9, s10, s11, s12>>
  BY DEF Sc!Ship
<1>2. ScopeTypes /\ s4 \in Seq(ScopeMessages)
  BY DEF ScopeInv, ScopeTypes
<1>3. m \in ScopeMessages /\ m.kind = "samples" /\ m.chunk = s2
  <2>1. s2 \in Seq(Nat) /\ "none" \in Sc!Bands \cup {"none"} /\ "samples" \in {"samples", "config"}
    BY <1>2 DEF ScopeTypes
  <2>2. m = [kind |-> "samples", chunk |-> s2, band |-> "none"]
    BY DEF Sc!Chunk
  <2> HIDE DEF m
  <2>3. QED  BY <2>1, <2>2 DEF ScopeMessages
<1> HIDE DEF m
<1>4. s4' \in Seq(ScopeMessages) /\ Len(s4') = Len(s4) + 1 /\ s4'[Len(s4) + 1] = m /\ Len(s4) \in Nat
      /\ \A i \in 1..Len(s4) : s4'[i] = s4[i]
  BY <1>1, <1>2, <1>3, AppendProperties, LenProperties
<1>5. ScopeTypes'
  <2>1. \A k \in 1..Len(s4') : s4'[k].kind = "config" => s4'[k].band \in Sc!Bands
    <3> SUFFICES ASSUME NEW k \in 1..Len(s4'), s4'[k].kind = "config" PROVE s4'[k].band \in Sc!Bands
      OBVIOUS
    <3>1. k \in 1..Len(s4) \/ k = Len(s4) + 1
      BY <1>4
    <3>2. QED  BY <1>2, <1>3, <1>4, <3>1 DEF ScopeTypes
  <2>2. s2' \in Seq(Nat)
    BY <1>1, EmptySeq
  <2>3. QED  BY <1>1, <1>2, <1>4, <2>1, <2>2 DEF ScopeTypes
<1>6. ScopeChain'
  <2>1. PICK z \in Nat, b \in Nat, c \in Nat : Chained(z, b, c)
    BY DEF ScopeInv, ScopeChain
  <2>2. Run(s2, c, s3) /\ Back(s6, z + Len(s11), b) /\ Wire(s4, b, c)
        /\ z + Len(s11) <= s3 /\ \A i \in 1..Len(s11) : s11[i].point.s = z + i
    BY <1>1, <2>1 DEF Chained
  <2>3. Takes(m, c, s3)
    BY <1>1, <1>3, <2>2 DEF Takes
  <2>4. s3 \in Nat /\ c <= s3
    <3>1. s3 \in Nat /\ Len(s2) \in Nat
      BY <1>2, ScopeNumbers, LenProperties DEF ScopeTypes
    <3>2. c + Len(s2) = s3
      BY <2>2 DEF Run
    <3>3. QED  BY <3>1, <3>2
  <2>5. Wire(s4', b, s3)
    <3>1. \A q \in Seq(ScopeMessages), x \in ScopeMessages :
            Wire(q, b, c) /\ Takes(x, c, s3) => Wire(Append(q, x), b, s3)
      BY <2>4, ChainGrows
    <3>2. QED  BY <1>1, <1>2, <1>3, <2>2, <2>3, <3>1, Zenon
  <2>6. Run(s2', s3, s3')
    BY <1>1, <2>4, EmptySeq DEF Run
  <2>7. PICK d \in Nat : d = s3
    BY <2>4
  <2>8. Chained(z, b, d)'
    BY <1>1, <2>2, <2>5, <2>6, <2>7 DEF Chained
  <2>9. QED  BY <2>8 DEF ScopeChain
<1>7. NothingYet' /\ Left'
  BY <1>1 DEF ScopeInv, NothingYet, Left
<1>8. BandSent'
  <2>1. BandSent /\ s1
    BY <1>1 DEF ScopeInv
  <2>2. Len(s4) + 1 \in 1..Len(s4') /\ \A k \in 1..Len(s4) : k \in 1..Len(s4')
    BY <1>4
  <2>3. ASSUME \A k \in 1..Len(s4') : s4'[k].kind # "config" PROVE s5'.band = s9'.band
    BY <1>1, <1>4, <2>1, <2>2, <2>3 DEF BandSent
  <2>4. ASSUME NEW k \in 1..Len(s4'), s4'[k].kind = "config",
               \A l \in (k + 1)..Len(s4') : s4'[l].kind # "config"
        PROVE  s4'[k].band = s9'.band
    <3>1. k \in 1..Len(s4)
      <4>1. k # Len(s4) + 1
        BY <1>3, <1>4, <2>4
      <4>2. QED  BY <1>4, <4>1
    <3>2. \A l \in (k + 1)..Len(s4) : s4[l].kind # "config"
      <4> SUFFICES ASSUME NEW l \in (k + 1)..Len(s4) PROVE s4[l].kind # "config"
        OBVIOUS
      <4>1. l \in 1..Len(s4) /\ l \in (k + 1)..Len(s4')
        BY <1>4, <3>1
      <4>2. QED  BY <1>4, <2>4, <4>1
    <3>3. QED  BY <1>1, <1>4, <2>1, <2>4, <3>1, <3>2 DEF BandSent
  <2>5. QED  BY <2>3, <2>4 DEF BandSent
<1>9. RingKept' /\ CountKept'
  BY <1>1, ScopeSameOut
<1>10. QED  BY <1>5, <1>6, <1>7, <1>8, <1>9 DEF ScopeInv

LEMMA ScopeSetCfg == ASSUME NEW g \in Sc!Controls PROVE ScopeInv /\ Sc!SetCfg(g) => ScopeInv'
<1> SUFFICES ASSUME ScopeInv, Sc!SetCfg(g) PROVE ScopeInv'
  OBVIOUS
<1> DEFINE m == Sc!Config(g.band)
<1>1. /\ s1 /\ s4' = Append(s4, m) /\ s9' = g /\ s12 > 0 /\ s12' = s12 - 1
      /\ UNCHANGED <<s1, s2, s3, s5, s6, s7, s8, s10, s11>>
  BY DEF Sc!SetCfg, Sc!Move
<1>2. ScopeTypes /\ s4 \in Seq(ScopeMessages)
  BY DEF ScopeInv, ScopeTypes
<1>3. m \in ScopeMessages /\ m.kind = "config" /\ m.band = g.band /\ g.band \in Sc!Bands
  <2>a. g.band \in Sc!Bands
    BY DEF Sc!Controls
  <2> DEFINE e == <<>>
  <2>1. e \in Seq(Nat) /\ g.band \in Sc!Bands \cup {"none"} /\ "config" \in {"samples", "config"}
    BY <2>a, EmptySeq
  <2>2. m = [kind |-> "config", chunk |-> e, band |-> g.band]
    BY DEF Sc!Config
  <2> HIDE DEF m, e
  <2>3. QED  BY <2>a, <2>1, <2>2 DEF ScopeMessages
<1> HIDE DEF m
<1>4. s4' \in Seq(ScopeMessages) /\ Len(s4') = Len(s4) + 1 /\ s4'[Len(s4) + 1] = m /\ Len(s4) \in Nat
      /\ \A i \in 1..Len(s4) : s4'[i] = s4[i]
  BY <1>1, <1>2, <1>3, AppendProperties, LenProperties
<1>5. ScopeTypes'
  <2>1. \A k \in 1..Len(s4') : s4'[k].kind = "config" => s4'[k].band \in Sc!Bands
    <3> SUFFICES ASSUME NEW k \in 1..Len(s4'), s4'[k].kind = "config" PROVE s4'[k].band \in Sc!Bands
      OBVIOUS
    <3>1. k \in 1..Len(s4) \/ k = Len(s4) + 1
      BY <1>4
    <3>2. QED  BY <1>2, <1>3, <1>4, <3>1 DEF ScopeTypes
  <2>2. s12' \in 0..ScopeMoves
    BY <1>1, <1>2, ScopeNumbers DEF ScopeTypes
  <2>3. QED  BY <1>1, <1>2, <1>4, <2>1, <2>2 DEF ScopeTypes
<1>6. ScopeChain'
  <2>1. PICK z \in Nat, b \in Nat, c \in Nat : Chained(z, b, c)
    BY DEF ScopeInv, ScopeChain
  <2>2. Run(s2, c, s3) /\ Back(s6, z + Len(s11), b) /\ Wire(s4, b, c)
        /\ z + Len(s11) <= s3 /\ \A i \in 1..Len(s11) : s11[i].point.s = z + i
    BY <1>1, <2>1 DEF Chained
  <2>3. Takes(m, c, c)
    BY <1>3 DEF Takes
  <2>5. Wire(s4', b, c)
    <3>1. c <= c
      OBVIOUS
    <3>2. \A q \in Seq(ScopeMessages), x \in ScopeMessages :
            Wire(q, b, c) /\ Takes(x, c, c) => Wire(Append(q, x), b, c)
      BY <3>1, ChainGrows
    <3>3. QED  BY <1>1, <1>2, <1>3, <2>2, <2>3, <3>2, Zenon
  <2>7. Chained(z, b, c)'
    BY <1>1, <2>2, <2>5 DEF Chained
  <2>8. QED  BY <2>7 DEF ScopeChain
<1>7. NothingYet' /\ Left'
  BY <1>1 DEF ScopeInv, NothingYet, Left
<1>8. BandSent'
  <2>2. Len(s4) + 1 \in 1..Len(s4')
    BY <1>4
  <2>3. ~\A k \in 1..Len(s4') : s4'[k].kind # "config"
    BY <1>3, <1>4, <2>2
  <2>4. ASSUME NEW k \in 1..Len(s4'), s4'[k].kind = "config",
               \A l \in (k + 1)..Len(s4') : s4'[l].kind # "config"
        PROVE  s4'[k].band = s9'.band
    <3>1. k = Len(s4) + 1
      <4>1. k \in 1..Len(s4) => Len(s4) + 1 \in (k + 1)..Len(s4')
        BY <1>4
      <4>2. k \notin 1..Len(s4)
        BY <1>3, <1>4, <2>4, <4>1
      <4>3. QED  BY <1>4, <4>2
    <3>2. QED  BY <1>1, <1>3, <1>4, <3>1
  <2>5. QED  BY <2>3, <2>4 DEF BandSent
<1>9. RingKept' /\ CountKept'
  BY <1>1, ScopeSameOut
<1>10. QED  BY <1>5, <1>6, <1>7, <1>8, <1>9 DEF ScopeInv

LEMMA ScopeDraw == ScopeInv /\ Sc!Draw => ScopeInv'
<1> SUFFICES ASSUME ScopeInv, Sc!Draw PROVE ScopeInv'
  OBVIOUS
<1> USE ScopeNumbers
<1>1. /\ s10' = [last |-> Sc!At(s7, Sc!Count(s7) - 1), trig |-> s8.n] /\ Sc!Count(s7) >= 2
      /\ UNCHANGED <<s1, s2, s3, s4, s5, s6, s7, s8, s9, s11, s12>>
  BY DEF Sc!Draw
<1>2. ScopeTypes
  BY DEF ScopeInv
<1>3. Sc!At(s7, Sc!Count(s7) - 1) \in Sc!Points
  <2> DEFINE n == s7.n
             k == Sc!Count(s7)
             j == n - k + (k - 1)
  <2>1. n \in Nat /\ k \in Nat /\ k <= n /\ k >= 2 /\ s7.a \in [0..(Cap - 1) -> Sc!Points]
    BY <1>1, <1>2 DEF ScopeTypes, Sc!Count
  <2>2. j \in Nat
    <3> HIDE DEF n, k
    <3>1. QED  BY <2>1
  <2>3. j % Cap \in 0..(Cap - 1)
    <3> HIDE DEF j
    <3>1. QED  BY <2>2, PlaceIn
  <2>4. Sc!At(s7, k - 1) = s7.a[j % Cap]
    BY DEF Sc!At
  <2> HIDE DEF j, k, n
  <2>5. QED  BY <2>1, <2>3, <2>4 DEF k
<1>4. s8.n \in 0..Samples
  BY ScopeCount
<1>5. ScopeTypes'
  BY <1>1, <1>2, <1>3, <1>4 DEF ScopeTypes
<1>6. ScopeChain'
  BY <1>1 DEF ScopeInv, ScopeChain, Chained
<1>7. NothingYet' /\ Left' /\ BandSent'
  BY <1>1 DEF ScopeInv, NothingYet, Left, BandSent
<1>8. RingKept' /\ CountKept'
  BY <1>1, ScopeSameOut
<1>9. QED  BY <1>5, <1>6, <1>7, <1>8 DEF ScopeInv

LEMMA ScopeClose == ScopeInv /\ Sc!Close => ScopeInv'
<1> SUFFICES ASSUME ScopeInv, Sc!Close PROVE ScopeInv'
  OBVIOUS
<1>1. /\ s1' = FALSE /\ s2' = <<>> /\ s4' = <<>> /\ s6' = <<>>
      /\ UNCHANGED <<s3, s5, s7, s8, s9, s10, s11, s12>>
  BY DEF Sc!Close
<1>2. ScopeTypes
  BY DEF ScopeInv
<1>3. ScopeTypes'
  <2>1. s2' \in Seq(Nat) /\ s4' \in Seq(ScopeMessages) /\ s6' \in Seq(Seq(Sc!Points)) /\ Len(s4') = 0
    BY <1>1, EmptySeq
  <2>2. \A k \in 1..Len(s4') : FALSE
    BY <2>1
  <2>3. s1' \in BOOLEAN
    BY <1>1
  <2>4. QED  BY <1>1, <1>2, <2>1, <2>2, <2>3 DEF ScopeTypes
<1>4. ScopeChain'
  <2>1. PICK z \in Nat, b \in Nat, c \in Nat : Chained(z, b, c)
    BY DEF ScopeInv, ScopeChain
  <2>2. Chained(z, b, c)'
    BY <1>1, <2>1 DEF Chained
  <2>3. QED  BY <2>2 DEF ScopeChain
<1>5. NothingYet' /\ Left' /\ BandSent'
  BY <1>1 DEF ScopeInv, NothingYet, Left, BandSent
<1>6. RingKept' /\ CountKept'
  BY <1>1, ScopeSameOut
<1>7. QED  BY <1>3, <1>4, <1>5, <1>6 DEF ScopeInv
\* The worker takes a message: what came of it, and what is left on the wire.
LEMMA ScopeConfigured == ScopeInv /\ Sc!Configured => ScopeInv'
<1> SUFFICES ASSUME ScopeInv, Sc!Configured PROVE ScopeInv'
  OBVIOUS
<1> DEFINE m == Head(s4)
           w == [s5 EXCEPT !.band = m.band]
<1>1. /\ s4 # <<>> /\ m.kind = "config" /\ s4' = Tail(s4)
      /\ s5' = (IF w.fs THEN Sc!Design(w) ELSE w)
      /\ UNCHANGED <<s1, s2, s3, s6, s7, s8, s9, s10, s11, s12>>
  BY DEF Sc!Configured
<1>2. ScopeTypes /\ s4 \in Seq(ScopeMessages) /\ s1
  BY <1>1 DEF ScopeInv, ScopeTypes, Left
<1>3. /\ s4' \in Seq(ScopeMessages) /\ Len(s4') = Len(s4) - 1 /\ Len(s4) \in Nat \ {0}
      /\ \A i \in 1..Len(s4') : s4'[i] = s4[i + 1]
      /\ m = s4[1]
  BY <1>1, <1>2, HeadTailProperties, EmptySeq
<1> HIDE DEF m
<1>4. m.band \in Sc!Bands
  <2>1. 1 \in 1..Len(s4)
    BY <1>3
  <2>2. QED  BY <1>1, <1>2, <1>3, <2>1 DEF ScopeTypes
<1>5. s5' \in ScopeWorkers /\ s5'.band = m.band /\ s5'.seen = s5.seen
  <2>1. s5 \in ScopeWorkers /\ 0 \in 0..Warm
    BY <1>2, ScopeNumbers DEF ScopeTypes
  <2>2. w \in ScopeWorkers /\ w.band = m.band /\ w.seen = s5.seen
    BY <1>4, <2>1 DEF ScopeWorkers
  <2> HIDE DEF w
  <2>3. Sc!Design(w) \in ScopeWorkers /\ Sc!Design(w).band = w.band /\ Sc!Design(w).seen = w.seen
    BY <2>1, <2>2 DEF ScopeWorkers, Sc!Design
  <2>4. QED  BY <1>1, <2>2, <2>3
<1>6. ScopeTypes'
  <2>1. \A k \in 1..Len(s4') : s4'[k].kind = "config" => s4'[k].band \in Sc!Bands
    <3> SUFFICES ASSUME NEW k \in 1..Len(s4'), s4'[k].kind = "config" PROVE s4'[k].band \in Sc!Bands
      OBVIOUS
    <3>1. k + 1 \in 1..Len(s4) /\ s4'[k] = s4[k + 1]
      BY <1>3
    <3>2. QED  BY <1>2, <3>1 DEF ScopeTypes
  <2>2. QED  BY <1>1, <1>2, <1>3, <1>5, <2>1 DEF ScopeTypes
<1>7. ScopeChain'
  <2>1. PICK z \in Nat, b \in Nat, c \in Nat : Chained(z, b, c)
    BY DEF ScopeInv, ScopeChain
  <2>2. Run(s2, c, s3) /\ Back(s6, z + Len(s11), b) /\ Wire(s4, b, c)
        /\ z + Len(s11) <= s3 /\ \A i \in 1..Len(s11) : s11[i].point.s = z + i
    BY <1>2, <2>1 DEF Chained
  <2>3. PICK d \in Nat : Takes(m, b, d) /\ Wire(s4', d, c)
    BY <1>1, <1>2, <2>2, ChainShrinks DEF m
  <2>4. d = b
    BY <1>1, <2>3 DEF Takes
  <2>5. Chained(z, b, c)'
    BY <1>1, <2>2, <2>3, <2>4 DEF Chained
  <2>6. QED  BY <2>5 DEF ScopeChain
<1>8. NothingYet' /\ Left'
  BY <1>1, <1>2, <1>5 DEF ScopeInv, NothingYet, Left
<1>9. BandSent'
  <2>1. BandSent
    BY DEF ScopeInv
  <2>2. ASSUME \A k \in 1..Len(s4') : s4'[k].kind # "config" PROVE s5'.band = s9'.band
    <3>1. 1 \in 1..Len(s4)
      BY <1>3
    <3>2. \A l \in (1 + 1)..Len(s4) : s4[l].kind # "config"
      <4> SUFFICES ASSUME NEW l \in (1 + 1)..Len(s4) PROVE s4[l].kind # "config"
        OBVIOUS
      <4>1. l - 1 \in 1..Len(s4') /\ (l - 1) + 1 = l
        BY <1>3
      <4>2. QED  BY <1>3, <2>2, <4>1
    <3>3. s4[1].band = s9.band
      BY <1>1, <1>2, <1>3, <2>1, <3>1, <3>2 DEF BandSent
    <3>4. QED  BY <1>1, <1>3, <1>5, <3>3
  <2>3. ASSUME NEW k \in 1..Len(s4'), s4'[k].kind = "config",
               \A l \in (k + 1)..Len(s4') : s4'[l].kind # "config"
        PROVE  s4'[k].band = s9'.band
    <3>1. k + 1 \in 1..Len(s4) /\ s4'[k] = s4[k + 1]
      BY <1>3
    <3>2. \A l \in ((k + 1) + 1)..Len(s4) : s4[l].kind # "config"
      <4> SUFFICES ASSUME NEW l \in ((k + 1) + 1)..Len(s4) PROVE s4[l].kind # "config"
        OBVIOUS
      <4>1. l - 1 \in (k + 1)..Len(s4') /\ l - 1 \in 1..Len(s4') /\ (l - 1) + 1 = l
        BY <1>3
      <4>2. QED  BY <1>3, <2>3, <4>1
    <3>3. QED  BY <1>1, <1>2, <2>1, <2>3, <3>1, <3>2 DEF BandSent
  <2>4. QED  BY <2>2, <2>3 DEF BandSent
<1>10. RingKept' /\ CountKept'
  BY <1>1, ScopeSameOut
<1>11. QED  BY <1>6, <1>7, <1>8, <1>9, <1>10 DEF ScopeInv

-----------------------------------------------------------------------------
LEMMA LearntIs ==
  ASSUME NEW c \in Seq(Nat), c # <<>>, s5 \in ScopeWorkers
  PROVE  /\ Sc!Learnt(c) \in ScopeWorkers /\ s5.seen <= Sc!Learnt(c).seen
         /\ Sc!Learnt(c).band = s5.band
<1> USE ScopeNumbers
<1> DEFINE l == Len(c)
           e == IF s5.last THEN 0 ELSE 1
           k == s5.seen
<1>1. l \in Nat /\ l # 0 /\ e \in {0, 1} /\ k \in 0..Learn
  BY EmptySeq DEF ScopeWorkers
<1>2. PICK v : v = Sc!Least(Learn, k + l - e)
  OBVIOUS
<1>3. Sc!Learnt(c) = [s5 EXCEPT !.seen = v, !.last = TRUE]
  BY <1>2 DEF Sc!Learnt
<1> HIDE DEF l, e
<1>4. v \in 0..Learn /\ k <= v
  <2> HIDE DEF k
  <2>1. QED  BY <1>1, <1>2 DEF Sc!Least
<1>5. QED  BY <1>3, <1>4 DEF ScopeWorkers

LEMMA PointsMade ==
  ASSUME NEW c \in Seq(Nat), NEW n \in Nat, NEW a \in Nat, NEW b \in Nat, c # <<>>, Run(c, a, b), b <= Samples
  PROVE  /\ [i \in 1..Len(c) |-> [s |-> c[i], ratio |-> Sc!Ratio(n + i, c[i])]] \in Seq(Sc!Points)
         /\ Traced([i \in 1..Len(c) |-> [s |-> c[i], ratio |-> Sc!Ratio(n + i, c[i])]], a, b)
<1> USE ScopeNumbers
<1> DEFINE l == Len(c)
           q == [i \in 1..l |-> [s |-> c[i], ratio |-> Sc!Ratio(n + i, c[i])]]
<1>1. l \in Nat /\ l # 0 /\ a + l = b /\ \A i \in 1..l : c[i] = a + i
  BY EmptySeq DEF Run
<1>2. ASSUME NEW i \in 1..l PROVE q[i] \in Sc!Points /\ q[i].s = a + i
  <2>1. q[i] = [s |-> c[i], ratio |-> Sc!Ratio(n + i, c[i])]
    OBVIOUS
  <2>2. Sc!Ratio(n + i, c[i]) \in Sc!Ratios
    BY DEF Sc!Ratio, Sc!Ratios
  <2>3. c[i] \in 0..Samples /\ c[i] = a + i
    <3> HIDE DEF l
    <3>1. a + i \in 0..Samples /\ c[i] = a + i
      BY <1>1
    <3>2. QED  BY <3>1
  <2> HIDE DEF q
  <2>4. QED  BY <2>1, <2>2, <2>3 DEF Sc!Points
<1>3. q \in [1..l -> Sc!Points]
  <2>1. q = [i \in 1..l |-> q[i]]
    OBVIOUS
  <2> HIDE DEF q
  <2>2. QED  BY <1>2, <2>1
<1> HIDE DEF q
<1>4. q \in Seq(Sc!Points) /\ Len(q) = l
  BY <1>1, <1>3, FunctionIsSeq
<1>5. q # <<>>
  BY <1>1, <1>4, EmptySeq
<1>6. Traced(q, a, b)
  BY <1>1, <1>2, <1>4, <1>5 DEF Traced
<1>7. QED  BY <1>4, <1>6 DEF q

LEMMA DesignIs ==
  ASSUME NEW w \in ScopeWorkers
  PROVE  Sc!Design(w) \in ScopeWorkers /\ Sc!Design(w).band = w.band /\ Sc!Design(w).seen = w.seen
<1>1. 0 \in 0..Warm
  BY ScopeNumbers
<1>2. QED  BY <1>1 DEF ScopeWorkers, Sc!Design

LEMMA ScopeProcessed == ASSUME NEW moved \in BOOLEAN PROVE ScopeInv /\ Sc!Processed(moved) => ScopeInv'
<1> SUFFICES ASSUME ScopeInv, Sc!Processed(moved) PROVE ScopeInv'
  OBVIOUS
<1> DEFINE m == Head(s4)
           q == m.chunk
           w == Sc!Learnt(q)
           v == IF ~w.fs \/ moved THEN Sc!Design(w) ELSE w
           r == [i \in 1..Len(q) |-> [s |-> q[i], ratio |-> Sc!Ratio(v.n + i, q[i])]]
<1>1. /\ s4 # <<>> /\ m.kind = "samples" /\ s4' = Tail(s4)
      /\ UNCHANGED <<s1, s2, s3, s7, s8, s9, s10, s11>>
  BY DEF Sc!Processed
<1>2. \/ w.seen < Learn /\ s5' = w /\ UNCHANGED <<s6, s12>>
      \/ /\ ~(w.seen < Learn) /\ Sc!Process(v, q)
         /\ (s12 > 0 /\ s12' = s12 - 1) \/ UNCHANGED s12
  <2>1. IF w.seen < Learn THEN s5' = w /\ ~moved /\ UNCHANGED <<s6, s12>>
        ELSE Sc!Process(v, q) /\ (IF moved /\ w.fs THEN Sc!Move ELSE ~moved /\ UNCHANGED s12)
    BY DEF Sc!Processed
  <2> HIDE DEF w, v, q
  <2>2. QED  BY <2>1 DEF Sc!Move
<1>3. ScopeTypes /\ s4 \in Seq(ScopeMessages) /\ s1 /\ s5 \in ScopeWorkers /\ s6 \in Seq(Seq(Sc!Points))
  BY <1>1 DEF ScopeInv, ScopeTypes, Left
<1>4. /\ s4' \in Seq(ScopeMessages) /\ Len(s4') = Len(s4) - 1 /\ Len(s4) \in Nat \ {0}
      /\ \A i \in 1..Len(s4') : s4'[i] = s4[i + 1]
      /\ m = s4[1] /\ m \in ScopeMessages
  BY <1>1, <1>3, HeadTailProperties, EmptySeq
<1>5. PICK z \in Nat, b \in Nat, c \in Nat : Chained(z, b, c)
  BY DEF ScopeInv, ScopeChain
<1>6. Run(s2, c, s3) /\ Back(s6, z + Len(s11), b) /\ Wire(s4, b, c)
      /\ z + Len(s11) <= s3 /\ \A i \in 1..Len(s11) : s11[i].point.s = z + i
  BY <1>3, <1>5 DEF Chained
<1>7. PICK d \in Nat : Takes(m, b, d) /\ Wire(s4', d, c)
  BY <1>1, <1>3, <1>6, ChainShrinks
<1> HIDE DEF m
<1>8. q \in Seq(Nat) /\ q # <<>> /\ Run(q, b, d)
  BY <1>1, <1>4, <1>7 DEF Takes, ScopeMessages
<1>9. b <= d /\ d <= c /\ c <= s3 /\ s3 \in 0..Samples /\ d <= Samples
  <2>1. d <= c
    BY <1>4, <1>7, ChainUp
  <2>2. s3 \in 0..Samples /\ Len(s2) \in Nat /\ Len(q) \in Nat
    BY <1>3, <1>8, LenProperties DEF ScopeTypes
  <2>3. c + Len(s2) = s3 /\ b + Len(q) = d
    BY <1>6, <1>8 DEF Run
  <2>4. c <= s3 /\ b <= d
    <3> HIDE DEF q
    <3>1. QED  BY <2>2, <2>3, ScopeNumbers
  <2>5. d <= Samples
    BY <2>1, <2>2, <2>4, ScopeNumbers
  <2>6. QED  BY <2>1, <2>2, <2>4, <2>5
<1>10. w \in ScopeWorkers /\ s5.seen <= w.seen /\ w.band = s5.band
  BY <1>3, <1>8, LearntIs
<1>11. s12' \in 0..ScopeMoves
  <2>1. s12 \in 0..ScopeMoves
    BY <1>3 DEF ScopeTypes
  <2> HIDE DEF w, v, q
  <2>2. QED  BY <1>2, <2>1, ScopeNumbers
<1>12. \A k \in 1..Len(s4') : s4'[k].kind = "config" => s4'[k].band \in Sc!Bands
  <2> SUFFICES ASSUME NEW k \in 1..Len(s4'), s4'[k].kind = "config" PROVE s4'[k].band \in Sc!Bands
    OBVIOUS
  <2>1. k + 1 \in 1..Len(s4) /\ s4'[k] = s4[k + 1]
    BY <1>4
  <2>2. QED  BY <1>3, <2>1 DEF ScopeTypes
<1> HIDE DEF w, q
<1>13. ASSUME w.seen < Learn /\ s5' = w /\ UNCHANGED <<s6, s12>>
       PROVE  ScopeTypes' /\ ScopeChain' /\ NothingYet' /\ Left' /\ s5'.band = s5.band
  <2>1. ScopeTypes'
    BY <1>1, <1>3, <1>4, <1>10, <1>12, <1>13 DEF ScopeTypes
  <2>2. s6 = <<>> /\ s11 = <<>>
    <3>1. s5.seen \in Nat /\ w.seen \in Nat
      BY <1>3, <1>10, ScopeNumbers DEF ScopeWorkers
    <3>2. s5.seen < Learn
      BY <1>10, <1>13, <3>1, ScopeNumbers
    <3>3. QED  BY <3>2 DEF ScopeInv, NothingYet
  <2>3. Back(s6', d + Len(s11'), d) /\ d + Len(s11') <= s3' /\ Len(s11') = 0
    <3>1. Len(s11') = 0 /\ s6' = <<>> /\ d + Len(s11') = d
      BY <1>1, <1>13, <2>2, EmptySeq
    <3>2. d <= s3'
      BY <1>1, <1>9, ScopeNumbers
    <3>3. QED  BY <3>1, <3>2, EmptyChains
  <2>4. Run(s2', c, s3') /\ Wire(s4', d, c)
    BY <1>1, <1>6, <1>7
  <2>5. Chained(d, d, c)'
    BY <2>3, <2>4 DEF Chained
  <2>6. ScopeChain'
    BY <2>5 DEF ScopeChain
  <2>7. NothingYet' /\ Left' /\ s5'.band = s5.band
    BY <1>1, <1>3, <1>10, <1>13, <2>2 DEF NothingYet, Left
  <2>8. QED  BY <2>1, <2>6, <2>7
<1>14. ASSUME /\ ~(w.seen < Learn) /\ Sc!Process(v, q)
              /\ (s12 > 0 /\ s12' = s12 - 1) \/ UNCHANGED s12
       PROVE  ScopeTypes' /\ ScopeChain' /\ NothingYet' /\ Left' /\ s5'.band = s5.band
  <2>1. v \in ScopeWorkers /\ v.band = w.band /\ v.seen = w.seen
    BY <1>10, DesignIs
  <2> HIDE DEF v
  <2>2. s5' = [v EXCEPT !.n = Sc!Least(Warm, v.n + Len(q))] /\ s6' = Append(s6, r)
    BY <1>14 DEF Sc!Process
  <2>3. r \in Seq(Sc!Points) /\ Traced(r, b, d) /\ v.n \in Nat
    <3>1. v.n \in Nat
      BY <2>1, ScopeNumbers DEF ScopeWorkers
    <3>2. QED  BY <1>8, <1>9, <3>1, PointsMade
  <2> HIDE DEF r
  <2>4. s5' \in ScopeWorkers /\ s5'.band = s5.band /\ s5'.seen = w.seen
    <3>1. Len(q) \in Nat
      BY <1>8, LenProperties
    <3>2. PICK n : n = Sc!Least(Warm, v.n + Len(q))
      OBVIOUS
    <3>3. n \in 0..Warm
      BY <2>3, <3>1, <3>2, ScopeNumbers DEF Sc!Least
    <3>4. QED  BY <1>10, <2>1, <2>2, <3>2, <3>3 DEF ScopeWorkers
  <2>5. s6' \in Seq(Seq(Sc!Points))
    BY <1>3, <2>2, <2>3, AppendProperties
  <2>6. ScopeTypes'
    BY <1>1, <1>3, <1>4, <1>11, <1>12, <2>4, <2>5 DEF ScopeTypes
  <2>7. Back(s6', z + Len(s11), d)
    <3> DEFINE a == z + Len(s11)
    <3>1. a \in Nat
      BY <1>3, LenProperties DEF ScopeTypes
    <3>2. Back(s6, a, b)
      BY <1>6
    <3> HIDE DEF a
    <3>3. Back(Append(s6, r), a, d)
      <4>1. \A x \in Seq(Seq(Sc!Points)), y \in Seq(Sc!Points) :
              Back(x, a, b) /\ Traced(y, b, d) => Back(Append(x, y), a, d)
        BY <1>9, <3>1, ChainGrows
      <4>2. QED  BY <1>3, <2>3, <3>2, <4>1, Zenon
    <3>4. QED  BY <2>2, <3>3 DEF a
  <2>8. Chained(z, d, c)'
    BY <1>1, <1>6, <1>7, <2>7 DEF Chained
  <2>9. ScopeChain'
    BY <2>8 DEF ScopeChain
  <2>10. NothingYet' /\ Left'
    <3>1. ~(s5'.seen < Learn)
      BY <1>14, <2>4
    <3>2. QED  BY <1>1, <1>3, <3>1 DEF NothingYet, Left
  <2>11. QED  BY <2>4, <2>6, <2>9, <2>10
<1>15. ScopeTypes' /\ ScopeChain' /\ NothingYet' /\ Left' /\ s5'.band = s5.band
  BY <1>2, <1>13, <1>14
<1>16. BandSent'
  <2>1. BandSent
    BY DEF ScopeInv
  <2>2. ASSUME \A k \in 1..Len(s4') : s4'[k].kind # "config" PROVE s5'.band = s9'.band
    <3>1. \A l \in 1..Len(s4) : s4[l].kind # "config"
      <4> SUFFICES ASSUME NEW l \in 1..Len(s4) PROVE s4[l].kind # "config"
        OBVIOUS
      <4>1. CASE l = 1
        BY <1>1, <1>4, <4>1
      <4>2. CASE l # 1
        <5>1. l - 1 \in 1..Len(s4') /\ (l - 1) + 1 = l
          BY <1>4, <4>2
        <5>2. QED  BY <1>4, <2>2, <5>1
      <4>3. QED  BY <4>1, <4>2
    <3>2. QED  BY <1>1, <1>3, <1>15, <2>1, <3>1 DEF BandSent
  <2>3. ASSUME NEW k \in 1..Len(s4'), s4'[k].kind = "config",
               \A l \in (k + 1)..Len(s4') : s4'[l].kind # "config"
        PROVE  s4'[k].band = s9'.band
    <3>1. k + 1 \in 1..Len(s4) /\ s4'[k] = s4[k + 1]
      BY <1>4
    <3>2. \A l \in ((k + 1) + 1)..Len(s4) : s4[l].kind # "config"
      <4> SUFFICES ASSUME NEW l \in ((k + 1) + 1)..Len(s4) PROVE s4[l].kind # "config"
        OBVIOUS
      <4>1. l - 1 \in (k + 1)..Len(s4') /\ l - 1 \in 1..Len(s4') /\ (l - 1) + 1 = l
        BY <1>4
      <4>2. QED  BY <1>4, <2>3, <4>1
    <3>3. QED  BY <1>1, <1>3, <2>1, <2>3, <3>1, <3>2 DEF BandSent
  <2>4. QED  BY <2>2, <2>3 DEF BandSent
<1>17. RingKept' /\ CountKept'
  BY <1>1, ScopeSameOut
<1>18. QED  BY <1>15, <1>16, <1>17 DEF ScopeInv
LEMMA ScopeOnOut == ScopeInv /\ Sc!OnOut => ScopeInv'
<1> SUFFICES ASSUME ScopeInv, Sc!OnOut PROVE ScopeInv'
  OBVIOUS
<1> DEFINE c == Head(s6)
           m == Len(c)
           L == Len(s11)
           G == [i \in 1..m |-> Sc!Over(c[i].ratio)]
           q == [i \in 1..m |-> [point |-> c[i], over |-> G[i]]]
<1>1. /\ s1 /\ s6 # <<>> /\ s7' = Sc!Push(s7, c) /\ s8' = Sc!Counted(G) /\ s11' = s11 \o q
      /\ s6' = Tail(s6) /\ UNCHANGED <<s1, s2, s3, s4, s5, s9, s10, s12>>
  BY DEF Sc!OnOut
<1>2. /\ ScopeTypes /\ s6 \in Seq(Seq(Sc!Points)) /\ s11 \in Seq(ScopeReturns) /\ L \in Nat
      /\ s7 \in [a : [0..(Cap - 1) -> Sc!Points], n : Nat] /\ s8 \in [n : Nat, on : BOOLEAN]
  BY LenProperties DEF ScopeInv, ScopeTypes
<1>3. s6' \in Seq(Seq(Sc!Points)) /\ c \in Seq(Sc!Points)
  BY <1>1, <1>2, HeadTailProperties
<1>4. PICK z \in Nat, b \in Nat, d \in Nat : Chained(z, b, d)
  BY DEF ScopeInv, ScopeChain
<1>5. Run(s2, d, s3) /\ Back(s6, z + L, b) /\ Wire(s4, b, d)
      /\ z + L <= s3 /\ \A i \in 1..L : s11[i].point.s = z + i
  BY <1>1, <1>4 DEF Chained
<1>6. PICK a \in Nat : Traced(c, z + L, a) /\ Back(s6', a, b)
  BY <1>1, <1>2, <1>5, ChainShrinks
<1> HIDE DEF c
<1>7. m \in Nat /\ m # 0 /\ z + L + m = a /\ \A i \in 1..m : c[i].s = (z + L) + i
  <2>1. c # <<>> /\ (z + L) + Len(c) = a /\ \A i \in 1..Len(c) : c[i].s = (z + L) + i
    BY <1>6 DEF Traced
  <2>2. m \in Nat /\ m # 0
    BY <1>3, <2>1, EmptySeq
  <2>3. QED  BY <2>1, <2>2
<1>8. q \in Seq(ScopeReturns) /\ Len(q) = m /\ \A i \in 1..m : q[i].point = c[i] /\ q[i].over = G[i]
  <2>1. ASSUME NEW i \in 1..m PROVE q[i] \in ScopeReturns /\ q[i].point = c[i] /\ q[i].over = G[i]
    <3>1. c[i] \in Sc!Points
      BY <1>3, ElementOfSeq
    <3>2. G[i] \in BOOLEAN
      BY DEF Sc!Over
    <3>3. q[i] = [point |-> c[i], over |-> G[i]]
      OBVIOUS
    <3> HIDE DEF q, G
    <3>4. QED  BY <3>1, <3>2, <3>3 DEF ScopeReturns
  <2>2. q = [i \in 1..m |-> q[i]]
    OBVIOUS
  <2> HIDE DEF q, G
  <2>3. q \in [1..m -> ScopeReturns]
    BY <2>1, <2>2
  <2>4. QED  BY <1>7, <2>1, <2>3, FunctionIsSeq
<1>9. G \in [1..m -> BOOLEAN]
  <2>1. \A i \in 1..m : G[i] \in BOOLEAN
    BY DEF Sc!Over
  <2>2. QED  BY <2>1
<1> HIDE DEF q, G
<1>10. /\ s11' \in Seq(ScopeReturns) /\ Len(s11') = L + m
       /\ \A i \in 1..L : s11'[i] = s11[i]
       /\ \A i \in 1..m : s11'[L + i] = q[i]
  <2>1. /\ s11 \o q \in Seq(ScopeReturns) /\ Len(s11 \o q) = L + m
        /\ \A i \in 1..(L + m) : (s11 \o q)[i] = IF i <= L THEN s11[i] ELSE q[i - L]
    <3>1. \A x, y \in Seq(ScopeReturns) :
            /\ x \o y \in Seq(ScopeReturns) /\ Len(x \o y) = Len(x) + Len(y)
            /\ \A i \in 1..(Len(x) + Len(y)) : (x \o y)[i] = IF i <= Len(x) THEN x[i] ELSE y[i - Len(x)]
      BY ConcatProperties
    <3>2. s11 \in Seq(ScopeReturns) /\ q \in Seq(ScopeReturns) /\ Len(q) = m /\ Len(s11) = L
      BY <1>2, <1>8
    <3> HIDE DEF m, L
    <3>3. QED  BY <3>1, <3>2
  <2> HIDE DEF m, L
  <2>2. \A i \in 1..L : s11'[i] = s11[i]
    BY <1>1, <1>2, <1>7, <2>1
  <2>3. ASSUME NEW i \in 1..m PROVE s11'[L + i] = q[i]
    <3>1. L + i \in 1..(L + m) /\ ~(L + i <= L) /\ (L + i) - L = i
      BY <1>2, <1>7
    <3>2. QED  BY <1>1, <2>1, <3>1
  <2>4. QED  BY <1>1, <2>1, <2>2, <2>3
<1>11. a <= s3
  <2>1. a <= b /\ b <= d
    BY <1>2, <1>3, <1>5, <1>6, ChainUp DEF ScopeTypes
  <2>2. s3 \in 0..Samples /\ Len(s2) \in Nat
    BY <1>2, LenProperties DEF ScopeTypes
  <2>3. d + Len(s2) = s3
    BY <1>5 DEF Run
  <2>4. QED  BY <2>1, <2>2, <2>3, ScopeNumbers
<1>12. ScopeChain'
  <2>1. ASSUME NEW i \in 1..Len(s11') PROVE s11'[i].point.s = z + i
    <3>1. CASE i \in 1..L
      BY <1>5, <1>10, <3>1
    <3>2. CASE i \notin 1..L
      <4> DEFINE k == i - L
      <4>1. k \in 1..m /\ L + k = i /\ (z + L) + k = z + i
        <5> HIDE DEF L, m
        <5>1. QED  BY <1>2, <1>7, <1>10, <3>2
      <4>2. s11'[i] = q[k] /\ q[k].point = c[k] /\ c[k].s = (z + L) + k
        BY <1>7, <1>8, <1>10, <4>1
      <4>3. QED  BY <4>1, <4>2
    <3>3. QED  BY <3>1, <3>2
  <2>2. z + Len(s11') = a
    <3> HIDE DEF L, m
    <3>1. QED  BY <1>2, <1>7, <1>10
  <2>3. z + Len(s11') <= s3'
    BY <1>1, <1>11, <2>2
  <2>4. Back(s6', z + Len(s11'), b)
    BY <1>6, <2>2
  <2>5. Chained(z, b, d)'
    BY <1>1, <1>5, <2>1, <2>3, <2>4 DEF Chained
  <2>6. QED  BY <2>5 DEF ScopeChain
<1>13. /\ s7' \in [a : [0..(Cap - 1) -> Sc!Points], n : Nat] /\ s7'.n = L + m
       /\ \A j \in 1..(L + m) : j > L + m - Cap => s7'.a[(j - 1) % Cap] = s11'[j].point
  <2> DEFINE p == [j \in 1..(L + m) |-> s11'[j].point]
  <2>1. s7.n = L /\ \A j \in 1..L : j > L - Cap => s7.a[(j - 1) % Cap] = s11[j].point
    BY DEF ScopeInv, RingKept
  <2>2. \A j \in 1..L : p[j] = s11[j].point
    <3> SUFFICES ASSUME NEW j \in 1..L PROVE p[j] = s11[j].point
      OBVIOUS
    <3>1. j \in 1..(L + m)
      <4> HIDE DEF L, m
      <4>1. QED  BY <1>2, <1>7
    <3>2. QED  BY <1>10, <3>1
  <2>3. \A i \in 1..m : p[L + i] = c[i]
    <3> SUFFICES ASSUME NEW i \in 1..m PROVE p[L + i] = c[i]
      OBVIOUS
    <3>1. L + i \in 1..(L + m)
      <4> HIDE DEF L, m
      <4>1. QED  BY <1>2, <1>7
    <3>2. QED  BY <1>8, <1>10, <3>1
  <2>4. \A j \in 1..(L + m) : p[j] = s11'[j].point
    OBVIOUS
  <2> HIDE DEF p
  <2>5. \A j \in 1..s7.n : j > s7.n - Cap => s7.a[(j - 1) % Cap] = p[j]
    BY <2>1, <2>2
  <2>6. \A i \in 1..Len(c) : p[s7.n + i] = c[i]
    BY <2>1, <2>3
  <2>7. /\ Sc!Push(s7, c) \in [a : [0..(Cap - 1) -> Sc!Points], n : Nat]
        /\ Sc!Push(s7, c).n = s7.n + Len(c)
        /\ \A j \in 1..(s7.n + Len(c)) :
             j > s7.n + Len(c) - Cap => Sc!Push(s7, c).a[(j - 1) % Cap] = p[j]
    <3>1. \A r \in [a : [0..(Cap - 1) -> Sc!Points], n : Nat], x \in Seq(Sc!Points) :
            /\ \A j \in 1..r.n : j > r.n - Cap => r.a[(j - 1) % Cap] = p[j]
            /\ \A i \in 1..Len(x) : p[r.n + i] = x[i]
            => /\ Sc!Push(r, x) \in [a : [0..(Cap - 1) -> Sc!Points], n : Nat]
               /\ Sc!Push(r, x).n = r.n + Len(x)
               /\ \A j \in 1..(r.n + Len(x)) :
                    j > r.n + Len(x) - Cap => Sc!Push(r, x).a[(j - 1) % Cap] = p[j]
      BY RingPush
    <3> HIDE DEF m, L
    <3>2. QED  BY <1>2, <1>3, <2>5, <2>6, <3>1
  <2>8. QED  BY <1>1, <2>1, <2>4, <2>7
<1>14. RingKept'
  <2>1. PICK n \in Nat : n = L + m
    BY <1>2, <1>7
  <2>2. Len(s11') = n /\ s7'.n = n
    BY <1>10, <1>13, <2>1
  <2>3. ASSUME NEW j \in 1..n, j > n - Cap PROVE s7'.a[(j - 1) % Cap] = s11'[j].point
    <3>1. j \in 1..(L + m)
      BY <2>1
    <3>2. j > L + m - Cap
      BY <1>2, <1>7, <2>1, <2>3, ScopeNumbers
    <3>3. QED  BY <1>13, <3>1, <3>2
  <2>4. QED  BY <2>2, <2>3 DEF RingKept
<1>15. s8' \in [n : Nat, on : BOOLEAN] /\ CountKept'
  <2> DEFINE F == [i \in 1..L |-> s11[i].over]
             H == [i \in 1..(L + m) |-> s11'[i].over]
  <2>1. F \in [1..L -> BOOLEAN]
    <3>1. \A i \in 1..L : s11[i] \in ScopeReturns
      BY <1>2, ElementOfSeq
    <3>2. \A i \in 1..L : s11[i].over \in BOOLEAN
      BY <3>1 DEF ScopeReturns
    <3>3. QED  BY <3>2
  <2>2. H \in [1..(L + m) -> BOOLEAN]
    <3>1. \A i \in 1..(L + m) : s11'[i] \in ScopeReturns
      BY <1>10, ElementOfSeq
    <3>2. \A i \in 1..(L + m) : s11'[i].over \in BOOLEAN
      BY <3>1 DEF ScopeReturns
    <3>3. QED  BY <3>2
  <2>3. \A i \in 1..L : i \in 1..(L + m) /\ H[i] = F[i]
    <3>1. \A i \in 1..L : i \in 1..(L + m)
      <4> HIDE DEF L, m
      <4>1. QED  BY <1>2, <1>7
    <3>2. QED  BY <1>10, <3>1
  <2>4. \A i \in 1..m : L + i \in 1..(L + m) /\ H[L + i] = G[i]
    <3>1. \A i \in 1..m : L + i \in 1..(L + m)
      <4> HIDE DEF L, m
      <4>1. QED  BY <1>2, <1>7
    <3>2. QED  BY <1>8, <1>10, <3>1
  <2>5. CountKept /\ s8.n = Cardinality(Sc!Rises(F, FALSE)) /\ s8.on \in BOOLEAN
    BY <1>2, ScopeCounting DEF ScopeInv, CountKept, Sc!TriggersCounted
  <2>6. (L = 0 => s8.on = FALSE) /\ (L # 0 => s8.on = F[L])
    <3>1. CASE L = 0
      <4>1. s11 = <<>>
        BY <1>2, <3>1, EmptySeq
      <4>2. QED  BY <2>5, <3>1, <4>1 DEF CountKept
    <3>2. CASE L # 0
      <4>1. s11 # <<>> /\ L \in 1..L
        BY <1>2, <3>2, EmptySeq
      <4>2. s8.on = s11[L].over /\ F[L] = s11[L].over
        BY <2>5, <4>1 DEF CountKept, Sc!TriggersCounted
      <4> HIDE DEF F, L
      <4>3. QED  BY <3>2, <4>2
    <3>3. QED  BY <3>1, <3>2
  <2>7. s8' = [n |-> s8.n + Sc!Cardinality(Sc!Rises(G, s8.on)), on |-> G[Len(G)]] /\ Len(G) = m
    BY <1>1, <1>7, <1>9, FunctionIsSeq DEF Sc!Counted
  <2>8. H = [i \in 1..Len(s11') |-> s11'[i].over]
    BY <1>10
  <2>9. H[L + m] = s11'[L + m].over /\ m \in 1..m /\ L + m \in 1..(L + m)
    <3>1. m \in 1..m /\ L + m \in 1..(L + m)
      <4> HIDE DEF L, m
      <4>1. QED  BY <1>2, <1>7
    <3>2. QED  BY <3>1
  <2> HIDE DEF F, H
  <2>10. Cardinality(Sc!Rises(H, FALSE)) = Cardinality(Sc!Rises(F, FALSE)) + Cardinality(Sc!Rises(G, s8.on))
    <3>1. PICK before : before = s8.on
      OBVIOUS
    <3>2. PICK l, k, f, g, h : l = L /\ k = m /\ f = F /\ g = G /\ h = H
      OBVIOUS
    <3>3. l \in Nat /\ k \in Nat /\ before \in BOOLEAN /\ (l = 0 => before = FALSE) /\ (l # 0 => before = f[l])
      BY <1>2, <1>7, <2>5, <2>6, <3>1, <3>2
    <3>4. f \in [1..l -> BOOLEAN] /\ g \in [1..k -> BOOLEAN] /\ h \in [1..(l + k) -> BOOLEAN]
      BY <1>9, <2>1, <2>2, <3>2
    <3>5. (\A i \in 1..l : h[i] = f[i]) /\ \A i \in 1..k : h[l + i] = g[i]
      BY <2>3, <2>4, <3>2
    <3>6. Cardinality(Sc!Rises(h, FALSE)) =
            Cardinality(Sc!Rises(f, FALSE)) + Cardinality(Sc!Rises(g, before))
      <4>1. PICK no : no = FALSE
        OBVIOUS
      <4>2. Joined(l, k, f, g, h, before, no)
        BY <3>3, <3>4, <3>5, <4>1 DEF Joined
      <4>3. Cardinality(Sc!Rises(h, no)) = Cardinality(Sc!Rises(f, no)) + Cardinality(Sc!Rises(g, before))
        BY <4>2, RisesAdd
      <4>4. QED  BY <4>1, <4>3
    <3>7. QED  BY <3>1, <3>2, <3>6
  <2>11. Cardinality(Sc!Rises(G, s8.on)) \in Nat
    <3>1. PICK n, g, before : n = m /\ g = G /\ before = s8.on
      OBVIOUS
    <3>2. n \in Nat /\ g \in [1..n -> BOOLEAN] /\ before \in BOOLEAN
      BY <1>7, <1>9, <2>5, <3>1
    <3>3. Cardinality(Sc!Rises(g, before)) \in 0..n
      BY <3>2, RisesBound
    <3>4. Cardinality(Sc!Rises(g, before)) \in Nat
      BY <3>2, <3>3
    <3>5. QED  BY <3>1, <3>4
  <2>12. s8'.n = Cardinality(Sc!Rises(H, FALSE)) /\ s8'.n \in Nat /\ s8' \in [n : Nat, on : BOOLEAN]
    <3>1. G[m] \in BOOLEAN
      BY <1>9, <2>9
    <3>2. PICK x : x = Sc!Cardinality(Sc!Rises(G, s8.on))
      OBVIOUS
    <3>3. x \in Nat /\ x = Cardinality(Sc!Rises(G, s8.on))
      BY <2>11, <3>2, ScopeCounting
    <3>4. s8.n + x \in Nat
      BY <1>2, <3>3
    <3>5. s8' = [n |-> s8.n + x, on |-> G[m]]
      BY <2>7, <3>2
    <3>6. QED  BY <2>5, <2>10, <3>1, <3>3, <3>4, <3>5
  <2>13. s8'.on = s11'[Len(s11')].over
    BY <1>10, <2>4, <2>7, <2>9
  <2>14. s11' # <<>>
    <3>1. Len(s11') # 0
      <4> HIDE DEF L, m
      <4>1. QED  BY <1>2, <1>7, <1>10
    <3>2. QED  BY <3>1, EmptySeq
  <2>15. CountKept'
    BY <2>8, <2>12, <2>13, <2>14, ScopeCounting DEF CountKept, Sc!TriggersCounted
  <2>16. QED  BY <2>12, <2>15
<1>16. ScopeTypes'
  BY <1>1, <1>2, <1>3, <1>10, <1>13, <1>15 DEF ScopeTypes
<1>17. NothingYet'
  BY <1>1 DEF ScopeInv, NothingYet
<1>18. Left' /\ BandSent'
  BY <1>1 DEF ScopeInv, Left, BandSent
<1>19. QED  BY <1>12, <1>14, <1>15, <1>16, <1>17, <1>18 DEF ScopeInv

LEMMA ScopeNext == ScopeInv /\ [Sc!Next]_(Sc!vars) => ScopeInv'
<1> SUFFICES ASSUME ScopeInv, [Sc!Next]_(Sc!vars) PROVE ScopeInv'
  OBVIOUS
<1>1. CASE Sc!Tap        BY <1>1, ScopeTap
<1>2. CASE Sc!Ship       BY <1>2, ScopeShip
<1>3. CASE Sc!OnOut      BY <1>3, ScopeOnOut
<1>4. CASE Sc!Draw       BY <1>4, ScopeDraw
<1>5. CASE Sc!Close      BY <1>5, ScopeClose
<1>6. CASE Sc!Configured BY <1>6, ScopeConfigured
<1>7. ASSUME NEW g \in Sc!Controls, Sc!SetCfg(g) PROVE ScopeInv'
  BY <1>7, ScopeSetCfg
<1>8. ASSUME NEW moved \in BOOLEAN, Sc!Processed(moved) PROVE ScopeInv'
  BY <1>8, ScopeProcessed
<1>9. CASE UNCHANGED Sc!vars
  BY <1>9 DEF Sc!vars, ScopeInv, ScopeTypes, ScopeChain, Chained, NothingYet, RingKept, BandSent,
              Left, CountKept, Sc!TriggersCounted
<1>10. QED  BY <1>1, <1>2, <1>3, <1>4, <1>5, <1>6, <1>7, <1>8, <1>9 DEF Sc!Next

LEMMA ScopeTypesOK == ScopeInv => Sc!TypeOK
<1> SUFFICES ASSUME ScopeInv PROVE Sc!TypeOK
  OBVIOUS
<1>1. ScopeTypes /\ s7.n = Len(s11)
  BY DEF ScopeInv, RingKept
<1>2. Len(s11) \in 0..Samples /\ s8.n \in 0..Samples
  BY ScopeCount
<1>3. Len(s2) <= Samples
  <2>1. CASE s1
    <3>1. PICK c \in Nat : Run(s2, c, s3)
      BY <2>1 DEF ScopeInv, ScopeChain, Chained
    <3>2. c + Len(s2) = s3 /\ s3 \in 0..Samples /\ Len(s2) \in Nat
      BY <1>1, <3>1, LenProperties DEF ScopeTypes, Run
    <3>3. QED  BY <3>2, ScopeNumbers
  <2>2. CASE ~s1
    BY <2>2, ScopeNumbers, EmptySeq DEF ScopeInv, Left
  <2>3. QED  BY <2>1, <2>2
<1>4. s7 \in [a : [0..(Cap - 1) -> Sc!Points], n : 0..Samples] /\ s8 \in [n : 0..Samples, on : BOOLEAN]
  BY <1>1, <1>2 DEF ScopeTypes
<1>5. QED  BY <1>1, <1>3, <1>4 DEF ScopeTypes, ScopeWorkers, Sc!TypeOK

LEMMA ScopeShows == ScopeInv => Sc!ShowsMeasured
<1> SUFFICES ASSUME ScopeInv PROVE Sc!ShowsMeasured
  OBVIOUS
<1> USE ScopeNumbers
<1> DEFINE n == Len(s11)
           k == Sc!Count(s7)
<1>1. ScopeTypes /\ s7.n = n /\ n \in Nat
  BY LenProperties DEF ScopeInv, ScopeTypes, RingKept
<1>2. k \in Nat /\ k <= n /\ k <= Cap
  <2> HIDE DEF n
  <2>1. QED  BY <1>1 DEF Sc!Count
<1>3. ASSUME NEW i \in 0..(k - 1) PROVE Sc!At(s7, i) = s11[n - k + i + 1].point
  <2> DEFINE j == n - k + i + 1
  <2>1. j \in 1..n /\ j > n - Cap /\ j - 1 = n - k + i
    <3> HIDE DEF n, k
    <3>1. QED  BY <1>1, <1>2
  <2>2. Sc!At(s7, i) = s7.a[(j - 1) % Cap]
    BY <1>1, <2>1 DEF Sc!At
  <2>3. s7.a[(j - 1) % Cap] = s11[j].point
    BY <2>1 DEF ScopeInv, RingKept
  <2>4. QED  BY <2>2, <2>3
<1>4. ASSUME NEW i \in 1..(n - 1) PROVE s11[i + 1].point.s = s11[i].point.s + 1
  <2>1. PICK z \in Nat : \A x \in 1..n : s11[x].point.s = z + x
    BY DEF ScopeInv, ScopeChain, Chained
  <2>2. i \in 1..n /\ i + 1 \in 1..n
    <3> HIDE DEF n
    <3>1. QED  BY <1>1
  <2>3. QED  BY <2>1, <2>2
<1>5. Sc!RingIsWindow
  BY <1>1, <1>3, <1>4 DEF Sc!RingIsWindow
<1>6. Sc!TriggersCounted
  BY DEF ScopeInv, CountKept
<1>7. s1 /\ s4 = <<>> => s5.band = s9.band
  <2> SUFFICES ASSUME s1, s4 = <<>> PROVE s5.band = s9.band
    OBVIOUS
  <2>1. \A x \in 1..Len(s4) : FALSE
    BY EmptySeq
  <2>2. QED  BY <2>1 DEF ScopeInv, BandSent
<1>8. QED  BY <1>5, <1>6, <1>7 DEF Sc!ShowsMeasured

-----------------------------------------------------------------------------
(* The card of the night: s1 is the log, s2 the time, s3 when the card was *)
(* drawn for a row, s4 the card, s5 the file, s6 what is left of the moves. *)

NightRows   == [sec : Nat, level : Nat, state : {r.state : r \in Readings}]
NightCounts == [listened : 0..MaxRows, bumps : 0..MaxRows, biggest : 0..NightSeconds]

\* Rows of a log: not too many, one after the other, none of the future.
Rising(rows, t) ==
  /\ rows \in Seq(NightRows) /\ Len(rows) <= MaxRows
  /\ \A i \in 1..Len(rows) : rows[i].sec <= t /\ \A j \in 1..Len(rows) : i < j => rows[i].sec < rows[j].sec

NightTypes ==
  /\ s1 \in [none : BOOLEAN, rows : Seq(NightRows)] /\ s2 \in 0..NightSeconds /\ s3 \in 0..NightSeconds
  /\ s4 \in [rows : Seq(NightRows), numbers : NightCounts]
  /\ Len(s5) <= MaxRows /\ s6 \in 0..NightMoves

\* The chart was drawn for a beginning of the log, as long as the log is not full.
ChartBehind ==
  ~s1.none /\ Len(s1.rows) < MaxRows =>
    Len(s4.rows) <= Len(s1.rows) /\ \A i \in 1..Len(s4.rows) : s4.rows[i] = s1.rows[i]

\* The numbers that are remembered are those of the chart, as long as it is not full.
NumbersKept == Len(s4.rows) < MaxRows => s4.numbers = Ni!Stats(s4.rows)

NightInv ==
  NightTypes /\ Rising(s1.rows, s2) /\ Rising(s4.rows, s2) /\ ChartBehind /\ NumbersKept

LEMMA NightNumbers ==
  /\ MaxRows \in Nat /\ MaxRows # 0 /\ Columns \in Nat /\ Narrow \in Nat /\ NightGap \in Nat /\ Apart \in Nat
  /\ NightSeconds \in Nat /\ NightMoves \in Nat /\ Rests \in 0..NightSeconds
  /\ \A r \in Readings : r.level \in Nat
<1>1. /\ {MaxRows, Columns, Narrow} \subseteq Nat \ {0}
      /\ {NightGap, Apart, NightSeconds, NightMoves} \subseteq Nat
      /\ Rests \in 0..NightSeconds /\ \A r \in Readings : r.level \in Nat \ {0}
  BY SiteAssumption DEF Ni!NightCardAssumption
<1>2. QED  BY <1>1

LEMMA NightCounting == \A S : Ni!Cardinality(S) = Cardinality(S)
  BY DEF Ni!Cardinality, Cardinality

\* Of some rows there is a strongest one, and a first of those.
LEMMA StrongestIs ==
  ASSUME NEW rows \in Seq(NightRows), NEW I, I \subseteq 1..Len(rows), I # {}
  PROVE  Ni!Strongest(rows, I) \in I /\ \A j \in I : rows[j].level <= rows[Ni!Strongest(rows, I)].level
<1> DEFINE lv(i) == rows[i].level
           Better(i) == {j \in I : lv(j) > lv(i) \/ (lv(j) = lv(i) /\ j < i)}
           T == {Cardinality(Better(i)) : i \in I}
<1>1. Len(rows) \in Nat /\ IsFiniteSet(I) /\ \A i \in I : i \in Nat /\ lv(i) \in Nat
  <2>1. Len(rows) \in Nat /\ IsFiniteSet(1..Len(rows))
    BY LenProperties, FS_Interval
  <2>2. IsFiniteSet(I)
    BY <2>1, FS_Subset
  <2>3. ASSUME NEW i \in I PROVE i \in Nat /\ lv(i) \in Nat
    <3>1. rows[i] \in NightRows /\ i \in Nat
      BY ElementOfSeq
    <3>2. QED  BY <3>1 DEF NightRows
  <2>4. QED  BY <2>1, <2>2, <2>3
<1> HIDE DEF lv
<1>2. \A i \in I : IsFiniteSet(Better(i)) /\ Cardinality(Better(i)) \in Nat
  BY <1>1, FS_Subset, FS_CardinalityType
<1>3. PICK k \in T : \A j \in T : k <= j
  <2>1. T \subseteq Nat /\ T # {}
    BY <1>2
  <2> HIDE DEF T
  <2>2. QED  BY <2>1, LeastExists
<1>4. PICK i \in I : k = Cardinality(Better(i))
  OBVIOUS
<1>5. ASSUME NEW j \in I PROVE lv(j) < lv(i) \/ (lv(j) = lv(i) /\ i <= j)
  <2>1. i \in Nat /\ j \in Nat /\ lv(i) \in Nat /\ lv(j) \in Nat
    BY <1>1
  <2>2. SUFFICES ASSUME lv(j) > lv(i) \/ (lv(j) = lv(i) /\ j < i) PROVE FALSE
    BY <2>1
  <2>3. Better(j) \subseteq Better(i)
    <3> SUFFICES ASSUME NEW h \in I, lv(h) > lv(j) \/ (lv(h) = lv(j) /\ h < j)
                 PROVE  lv(h) > lv(i) \/ (lv(h) = lv(i) /\ h < i)
      OBVIOUS
    <3>1. h \in Nat /\ lv(h) \in Nat
      BY <1>1
    <3>2. QED  BY <2>1, <2>2, <3>1
  <2>4. Better(j) # Better(i)
    BY <2>1, <2>2
  <2>5. Cardinality(Better(j)) <= Cardinality(Better(i)) /\ Cardinality(Better(j)) # Cardinality(Better(i))
    <3> HIDE DEF Better
    <3>1. QED  BY <1>2, <2>3, <2>4, FS_Subset
  <2>6. Cardinality(Better(i)) <= Cardinality(Better(j))
    BY <1>3, <1>4
  <2>7. QED
    <3> HIDE DEF Better
    <3>1. QED  BY <1>2, <2>5, <2>6
<1>6. \E x \in I : \A j \in I : rows[j].level < rows[x].level \/ (rows[j].level = rows[x].level /\ x <= j)
  BY <1>5 DEF lv
<1> DEFINE x == Ni!Strongest(rows, I)
<1>7. x \in I /\ \A j \in I : rows[j].level < rows[x].level \/ (rows[j].level = rows[x].level /\ x <= j)
  BY <1>6 DEF Ni!Strongest
<1> HIDE DEF x
<1>8. \A j \in I : rows[j].level <= rows[x].level
  BY <1>1, <1>7 DEF lv
<1>9. QED  BY <1>7, <1>8 DEF x

\* The numbers of a log are numbers.
LEMMA StatsIn == ASSUME NEW rows, NEW t \in 0..NightSeconds, Rising(rows, t) PROVE Ni!Stats(rows) \in NightCounts
<1> USE NightNumbers
<1> DEFINE n == Len(rows)
           Q == Ni!Quiet(rows)
           B == Ni!Bumps(rows)
<1>1. rows \in Seq(NightRows) /\ n \in Nat /\ n <= MaxRows /\ \A i \in 1..n : rows[i].sec <= t /\ rows[i].sec \in Nat
  <2>1. rows \in Seq(NightRows) /\ n \in Nat /\ n <= MaxRows /\ \A i \in 1..n : rows[i].sec <= t
    BY LenProperties DEF Rising
  <2>2. \A i \in 1..n : rows[i] \in NightRows
    BY <2>1, ElementOfSeq
  <2>3. QED  BY <2>1, <2>2 DEF NightRows
<1>2. Q \subseteq 1..n /\ B \subseteq 1..n
  <2>1. DOMAIN rows = 1..n
    BY <1>1, LenProperties
  <2>2. Q \subseteq 1..n
    BY <2>1 DEF Ni!Quiet
  <2>3. B \subseteq Q
    BY DEF Ni!Bumps, Ni!Loud
  <2>4. QED  BY <2>2, <2>3
<1>3. IsFiniteSet(1..n) /\ Cardinality(1..n) = n
  <2>1. n \in Nat
    BY <1>1
  <2> HIDE DEF n
  <2>2. IsFiniteSet(1..n) /\ Cardinality(1..n) = IF 1 <= n THEN n - 1 + 1 ELSE 0
    BY <2>1, FS_Interval
  <2>3. QED  BY <2>1, <2>2
<1>4. Ni!Stats(rows) = [listened |-> Cardinality(Q), bumps |-> Cardinality(B), biggest |-> Ni!Biggest(rows)]
  BY NightCounting DEF Ni!Stats
<1>5. Ni!Biggest(rows) \in 0..NightSeconds
  <2>1. CASE Q = {}
    BY <2>1 DEF Ni!Biggest
  <2>2. CASE Q # {}
    <3> DEFINE x == Ni!Strongest(rows, Q)
    <3>1. x \in 1..n
      BY <1>1, <1>2, <2>2, StrongestIs
    <3>2. Ni!Biggest(rows) = rows[x].sec
      BY <2>2 DEF Ni!Biggest
    <3> HIDE DEF x, n
    <3>3. rows[x].sec <= t /\ rows[x].sec \in Nat
      BY <1>1, <3>1
    <3>4. QED  BY <3>2, <3>3
  <2>3. QED  BY <2>1, <2>2
<1> HIDE DEF Q, B, n
<1>6. Cardinality(Q) \in 0..MaxRows /\ Cardinality(B) \in 0..MaxRows
  <2>1. Cardinality(Q) \in Nat /\ Cardinality(B) \in Nat /\ Cardinality(Q) <= n /\ Cardinality(B) <= n
    <3>1. IsFiniteSet(Q) /\ IsFiniteSet(B) /\ Cardinality(Q) <= Cardinality(1..n) /\ Cardinality(B) <= Cardinality(1..n)
      BY <1>2, <1>3, FS_Subset
    <3>2. QED  BY <1>3, <3>1, FS_CardinalityType
  <2>2. QED  BY <1>1, <2>1
<1>7. QED  BY <1>4, <1>5, <1>6 DEF NightCounts

\* As seconds rise, it is enough to look at the loud second before.
LEMMA BumpsBegin == ASSUME NEW rows, NEW t, Rising(rows, t) PROVE Ni!Bumps(rows) = Ni!Beginnings(rows)
<1> DEFINE L == Ni!Loud(rows)
           d(j, i) == rows[i].sec - rows[j].sec
<1>1. L \subseteq 1..Len(rows) /\ Len(rows) \in Nat /\ rows \in Seq(NightRows)
  <2>1. rows \in Seq(NightRows)
    BY DEF Rising
  <2>2. DOMAIN rows = 1..Len(rows) /\ Len(rows) \in Nat
    BY <2>1, LenProperties
  <2>3. QED  BY <2>1, <2>2 DEF Ni!Loud, Ni!Quiet
<1>2. ASSUME NEW i \in L,
             \A j \in L : j < i /\ (\A k \in L : k < i => k <= j) => d(j, i) > Apart,
             NEW j \in L, j < i
      PROVE  d(j, i) > Apart
  <2> DEFINE S == {k \in L : k < i}
  <2>1. IsFiniteSet(S) /\ S \subseteq Int /\ S # {}
    <3>1. IsFiniteSet(1..Len(rows)) /\ 1..Len(rows) \subseteq Int
      BY <1>1, FS_Interval
    <3>2. S \subseteq 1..Len(rows)
      BY <1>1
    <3>3. QED  BY <1>2, <3>1, <3>2, FS_Subset
  <2>2. PICK k \in S : \A h \in S : h <= k
    <3> HIDE DEF S
    <3>1. QED  BY <2>1, GreatestExists
  <2>3. k \in L /\ k < i /\ j <= k /\ d(k, i) > Apart
    BY <1>2, <2>2
  <2>4. rows[i].sec \in Nat /\ rows[j].sec \in Nat /\ rows[k].sec \in Nat
    <3>1. rows[i] \in NightRows /\ rows[j] \in NightRows /\ rows[k] \in NightRows
      BY <1>1, <2>3, ElementOfSeq
    <3>2. QED  BY <3>1 DEF NightRows
  <2>5. rows[j].sec <= rows[k].sec
    <3>1. CASE j = k
      BY <2>4, <3>1
    <3>2. CASE j # k
      <4>1. j < k /\ j \in 1..Len(rows) /\ k \in 1..Len(rows)
        BY <1>1, <2>3, <3>2
      <4>2. rows[j].sec < rows[k].sec
        BY <4>1 DEF Rising
      <4>3. QED  BY <2>4, <4>2
    <3>3. QED  BY <3>1, <3>2
  <2>6. QED  BY <2>3, <2>4, <2>5, NightNumbers
<1> HIDE DEF L
<1>3. Ni!Bumps(rows) = {i \in L : \A j \in L : j < i /\ (\A k \in L : k < i => k <= j) => d(j, i) > Apart}
  BY DEF Ni!Bumps, L
<1>4. Ni!Beginnings(rows) = {i \in L : \A j \in L : j < i => d(j, i) > Apart}
  BY DEF Ni!Beginnings, L
<1> HIDE DEF d
<1>5. QED  BY <1>2, <1>3, <1>4
LEMMA EmptyNight == (\A t : Rising(<<>>, t)) /\ Ni!Stats(<<>>) = Ni!NoStats
<1> DEFINE e == <<>>
<1>1. e \in Seq(NightRows) /\ Len(e) = 0 /\ DOMAIN e = 1..0
  BY EmptySeq, LenProperties
<1> HIDE DEF e
<1>2. \A i \in 1..0 : FALSE
  OBVIOUS
<1>3. \A t : Rising(e, t)
  BY <1>1, <1>2, NightNumbers DEF Rising
<1>4. Ni!Quiet(e) = {}
  BY <1>1, <1>2 DEF Ni!Quiet
<1>5. Ni!Bumps(e) = {}
  BY <1>4 DEF Ni!Bumps, Ni!Loud
<1>6. Ni!Stats(e) = Ni!NoStats
  BY <1>4, <1>5, FS_EmptySet, NightCounting DEF Ni!Stats, Ni!Biggest, Ni!NoStats
<1>7. QED  BY <1>3, <1>6 DEF e

LEMMA RisingKept ==
  ASSUME NEW a \in Nat, NEW b \in Nat, a <= b, NEW rows, Rising(rows, a) PROVE Rising(rows, b)
<1>1. rows \in Seq(NightRows)
  BY DEF Rising
<1>2. ASSUME NEW i \in 1..Len(rows) PROVE rows[i].sec <= b
  <2>1. rows[i] \in NightRows
    BY <1>1, ElementOfSeq
  <2>2. rows[i].sec \in Nat /\ rows[i].sec <= a
    BY <2>1 DEF NightRows, Rising
  <2>3. QED  BY <2>2
<1>3. QED  BY <1>2 DEF Rising

LEMMA NightInit == Ni!Init => NightInv
<1> SUFFICES ASSUME Ni!Init PROVE NightInv
  OBVIOUS
<1> USE NightNumbers
<1>1. /\ s1 = [none |-> FALSE, rows |-> <<>>] /\ s2 = Rests /\ s3 = 0 /\ s5 = <<>>
      /\ s4 = [rows |-> <<>>, numbers |-> Ni!NoStats] /\ s6 = NightMoves
  BY DEF Ni!Init
<1>2. Ni!NoStats \in NightCounts
  BY DEF Ni!NoStats, NightCounts
<1>3. NightTypes
  <2> DEFINE e == <<>>
  <2>1. e \in Seq(NightRows) /\ Len(e) = 0
    BY EmptySeq
  <2>2. s1 = [none |-> FALSE, rows |-> e] /\ s4 = [rows |-> e, numbers |-> Ni!NoStats] /\ s5 = e
    BY <1>1
  <2> HIDE DEF e
  <2>3. QED  BY <1>1, <1>2, <2>1, <2>2 DEF NightTypes
<1>4. Rising(s1.rows, s2) /\ Rising(s4.rows, s2)
  BY <1>1, EmptyNight
<1>5. ChartBehind /\ NumbersKept
  BY <1>1, EmptyNight, EmptySeq DEF ChartBehind, NumbersKept
<1>6. QED  BY <1>3, <1>4, <1>5 DEF NightInv

\* The card is drawn for some rows, which are those it was drawn for when they are as many.
LEMMA NightDrawn ==
  ASSUME NightInv, NEW rows, Rising(rows, s2'), s2' \in 0..NightSeconds, s4' = Ni!Shown(rows),
         Len(rows) < MaxRows /\ Len(rows) = Len(s4.rows) => rows = s4.rows
  PROVE  /\ s4' \in [rows : Seq(NightRows), numbers : NightCounts] /\ s4'.rows = rows
         /\ NumbersKept' /\ Rising(s4'.rows, s2')
<1>1. s4' = [rows |-> rows, numbers |-> IF Len(rows) = Len(s4.rows) THEN s4.numbers ELSE Ni!Stats(rows)]
  BY DEF Ni!Shown, Ni!Numbers
<1>2. Ni!Stats(rows) \in NightCounts
  BY StatsIn
<1>3. s4.numbers \in NightCounts /\ rows \in Seq(NightRows)
  BY DEF NightInv, NightTypes, Rising
<1>4. s4' \in [rows : Seq(NightRows), numbers : NightCounts] /\ s4'.rows = rows
  BY <1>1, <1>2, <1>3
<1>5. Len(rows) < MaxRows => s4'.numbers = Ni!Stats(rows)
  <2>1. CASE Len(rows) = Len(s4.rows)
    BY <1>1, <2>1 DEF NightInv, NumbersKept
  <2>2. CASE Len(rows) # Len(s4.rows)
    BY <1>1, <2>2
  <2>3. QED  BY <2>1, <2>2
<1>6. NumbersKept'
  BY <1>4, <1>5 DEF NumbersKept
<1>7. Rising(s4'.rows, s2')
  BY <1>4 DEF Rising
<1>8. QED  BY <1>4, <1>6, <1>7

\* As many rows of a beginning are all of it.
LEMMA SameRows ==
  ASSUME NightInv, ~s1.none, Len(s1.rows) < MaxRows, Len(s1.rows) = Len(s4.rows)
  PROVE  s1.rows = s4.rows
<1>1. s1.rows \in Seq(NightRows) /\ s4.rows \in Seq(NightRows)
  BY DEF NightInv, Rising
<1> DEFINE n == Len(s1.rows)
<1>2. s1.rows \in [1..n -> NightRows] /\ s4.rows \in [1..n -> NightRows]
  BY <1>1, LenProperties
<1>3. \A i \in 1..n : s4.rows[i] = s1.rows[i]
  BY DEF NightInv, ChartBehind
<1>4. PICK a, b : a = s1.rows /\ b = s4.rows
  OBVIOUS
<1>5. PICK m : m = n
  OBVIOUS
<1>6. a \in [1..m -> NightRows] /\ b \in [1..m -> NightRows] /\ \A i \in 1..m : b[i] = a[i]
  BY <1>2, <1>3, <1>4, <1>5
<1>7. a = [i \in 1..m |-> a[i]] /\ b = [i \in 1..m |-> b[i]]
  BY <1>6
<1>8. \A i \in 1..m : a[i] = b[i]
  BY <1>6
<1>9. [i \in 1..m |-> a[i]] = [i \in 1..m |-> b[i]]
  BY <1>8
<1>10. QED  BY <1>4, <1>7, <1>9, Zenon

LEMMA NightRow == ASSUME NEW reading \in Readings PROVE NightInv /\ Ni!Row(reading) => NightInv'
<1> SUFFICES ASSUME NightInv, Ni!Row(reading) PROVE NightInv'
  OBVIOUS
<1> USE NightNumbers
<1>1. s2 < NightSeconds /\ s2' = s2 + 1 /\ UNCHANGED <<s5, s6>>
  BY DEF Ni!Row
<1>2. NightTypes /\ Rising(s1.rows, s2) /\ Rising(s4.rows, s2) /\ ChartBehind /\ NumbersKept
  BY DEF NightInv
<1>3. s2 \in Nat /\ s2' \in 0..NightSeconds /\ s2 < s2' /\ s2' \in Nat
  BY <1>1, <1>2 DEF NightTypes
<1>4. CASE s1.none
  <2>1. UNCHANGED <<s1, s3, s4>>
    BY <1>4 DEF Ni!Row
  <2>2. Rising(s1'.rows, s2') /\ Rising(s4'.rows, s2')
    <3>1. PICK a, b : a = s1.rows /\ b = s4.rows
      OBVIOUS
    <3>2. Rising(a, s2') /\ Rising(b, s2')
      BY <1>2, <1>3, <3>1, RisingKept
    <3>3. QED  BY <2>1, <3>1, <3>2 DEF Rising
  <2>3. QED  BY <1>1, <1>2, <1>3, <2>1, <2>2 DEF NightInv, NightTypes, ChartBehind, NumbersKept
<1>5. CASE ~s1.none
  <2> DEFINE old == s1.rows
             r == [sec |-> s2', level |-> reading.level, state |-> reading.state]
             rows == Append(old, r)
             kept == IF Len(rows) > MaxRows THEN Tail(rows) ELSE rows
  <2>1. /\ s1' = [s1 EXCEPT !.rows = kept]
        /\ \/ s3' = s2' /\ s4' = Ni!Shown(kept)
           \/ UNCHANGED <<s3, s4>>
    BY <1>5 DEF Ni!Row
  <2>2. r \in NightRows /\ old \in Seq(NightRows) /\ Len(old) \in Nat /\ Len(old) <= MaxRows
    <3>1. r \in NightRows
      BY <1>3 DEF NightRows
    <3>2. QED  BY <1>2, <3>1, LenProperties DEF Rising
  <2>3. /\ rows \in Seq(NightRows) /\ Len(rows) = Len(old) + 1 /\ rows[Len(old) + 1] = r /\ r.sec = s2'
        /\ (\A i \in 1..Len(old) : rows[i] = old[i]) /\ rows # <<>>
    BY <2>2, AppendProperties
  <2>4. \A i \in 1..Len(old) : old[i].sec \in Nat /\ old[i].sec <= s2
                              /\ \A j \in 1..Len(old) : i < j => old[i].sec < old[j].sec
    <3>1. \A i \in 1..Len(old) : old[i] \in NightRows
      BY <2>2, ElementOfSeq
    <3>2. QED  BY <1>2, <3>1 DEF NightRows, Rising
  <2> HIDE DEF r, rows
  <2>5. \A i \in 1..Len(rows) : rows[i].sec <= s2' /\ \A j \in 1..Len(rows) : i < j => rows[i].sec < rows[j].sec
    <3> HIDE DEF old
    <3> SUFFICES ASSUME NEW i \in 1..Len(rows)
                 PROVE  rows[i].sec <= s2' /\ \A j \in 1..Len(rows) : i < j => rows[i].sec < rows[j].sec
      OBVIOUS
    <3>1. \A j \in 1..Len(rows) : j \in 1..Len(old) \/ j = Len(old) + 1
      BY <2>2, <2>3
    <3>2. rows[i].sec <= s2'
      BY <1>3, <2>2, <2>3, <2>4, <3>1
    <3>3. ASSUME NEW j \in 1..Len(rows), i < j PROVE rows[i].sec < rows[j].sec
      <4>1. i \in 1..Len(old)
        BY <2>2, <2>3, <3>3
      <4>2. CASE j \in 1..Len(old)
        BY <2>3, <2>4, <3>3, <4>1, <4>2
      <4>3. CASE j = Len(old) + 1
        BY <1>3, <2>3, <2>4, <4>1, <4>3
      <4>4. QED  BY <3>1, <4>2, <4>3
    <3>4. QED  BY <3>2, <3>3
  <2>6. /\ kept \in Seq(NightRows) /\ Len(kept) <= MaxRows /\ Rising(kept, s2')
        /\ Len(kept) < MaxRows => kept = rows
    <3> HIDE DEF old
    <3>1. CASE Len(rows) > MaxRows
      <4> DEFINE t == Tail(rows)
      <4>1. t \in Seq(NightRows) /\ Len(t) = Len(rows) - 1 /\ \A i \in 1..Len(t) : t[i] = rows[i + 1]
        BY <2>3, HeadTailProperties
      <4>2. kept = t
        BY <3>1
      <4> HIDE DEF t, kept
      <4>3. Len(t) = MaxRows
        BY <2>2, <2>3, <3>1, <4>1
      <4>4. \A i \in 1..Len(t) : t[i].sec <= s2' /\ \A j \in 1..Len(t) : i < j => t[i].sec < t[j].sec
        <5> SUFFICES ASSUME NEW i \in 1..Len(t)
                     PROVE  t[i].sec <= s2' /\ \A j \in 1..Len(t) : i < j => t[i].sec < t[j].sec
          OBVIOUS
        <5>1. \A j \in 1..Len(t) : j + 1 \in 1..Len(rows) /\ (i < j => i + 1 < j + 1)
          BY <2>2, <2>3, <4>1
        <5>2. QED  BY <2>5, <4>1, <5>1
      <4>5. Rising(t, s2')
        BY <4>1, <4>3, <4>4 DEF Rising
      <4>6. QED  BY <4>1, <4>2, <4>3, <4>5 DEF Rising
    <3>2. CASE ~(Len(rows) > MaxRows)
      <4>1. kept = rows
        BY <3>2
      <4> HIDE DEF kept
      <4>2. Len(rows) <= MaxRows
        BY <2>2, <2>3, <3>2
      <4>3. Rising(rows, s2')
        BY <2>3, <2>5, <4>2 DEF Rising
      <4>4. QED  BY <2>3, <4>1, <4>2, <4>3 DEF Rising
    <3>3. QED  BY <3>1, <3>2
  <2> HIDE DEF kept
  <2>7. s1' \in [none : BOOLEAN, rows : Seq(NightRows)] /\ s1'.rows = kept /\ s1'.none = s1.none /\ Rising(s1'.rows, s2')
    <3>1. s1' \in [none : BOOLEAN, rows : Seq(NightRows)] /\ s1'.rows = kept /\ s1'.none = s1.none
      BY <1>2, <2>1, <2>6 DEF NightTypes
    <3>2. QED  BY <2>6, <3>1 DEF Rising
  <2>8. CASE s3' = s2' /\ s4' = Ni!Shown(kept)
    <3>1. Len(kept) < MaxRows /\ Len(kept) = Len(s4.rows) => kept = s4.rows
      <4> SUFFICES ASSUME Len(kept) < MaxRows, Len(kept) = Len(s4.rows) PROVE FALSE
        OBVIOUS
      <4>1. Len(kept) = Len(old) + 1
        BY <2>3, <2>6
      <4>2. Len(old) < MaxRows
        <5> HIDE DEF old
        <5>1. QED  BY <2>2, <4>1
      <4>3. Len(s4.rows) <= Len(old)
        BY <1>2, <1>5, <4>2 DEF ChartBehind
      <4> HIDE DEF old
      <4>4. QED  BY <2>2, <4>1, <4>3
    <3>2. PICK k : k = kept
      OBVIOUS
    <3>3. /\ s4' \in [rows : Seq(NightRows), numbers : NightCounts] /\ s4'.rows = k
          /\ NumbersKept' /\ Rising(s4'.rows, s2')
      <4>1. Rising(k, s2')
        BY <2>6, <3>2 DEF Rising
      <4>2. QED  BY <1>3, <2>8, <3>1, <3>2, <4>1, NightDrawn
    <3>4. ChartBehind'
      <4>1. Len(k) \in Nat
        BY <2>6, <3>2, LenProperties
      <4>2. QED  BY <2>7, <3>2, <3>3, <4>1 DEF ChartBehind
    <3>5. NightTypes'
      BY <1>1, <1>2, <1>3, <2>7, <2>8, <3>3 DEF NightTypes
    <3>6. QED  BY <2>7, <3>3, <3>4, <3>5 DEF NightInv
  <2>9. CASE UNCHANGED <<s3, s4>>
    <3>1. Rising(s4'.rows, s2')
      <4>1. PICK b : b = s4.rows
        OBVIOUS
      <4>2. Rising(b, s2')
        BY <1>2, <1>3, <4>1, RisingKept
      <4>3. QED  BY <2>9, <4>1, <4>2 DEF Rising
    <3>2. ChartBehind'
      <4> SUFFICES ASSUME Len(kept) < MaxRows
                   PROVE  Len(s4.rows) <= Len(kept) /\ \A i \in 1..Len(s4.rows) : s4.rows[i] = kept[i]
        BY <2>7, <2>9 DEF ChartBehind
      <4>1. kept = rows /\ Len(rows) = Len(old) + 1
        BY <2>3, <2>6
      <4>2. Len(old) < MaxRows /\ Len(s4.rows) \in Nat
        <5>1. Len(s4.rows) \in Nat
          BY <1>2, LenProperties DEF Rising
        <5> HIDE DEF old
        <5>2. QED  BY <2>2, <4>1, <5>1
      <4>3. Len(s4.rows) <= Len(old) /\ \A i \in 1..Len(s4.rows) : s4.rows[i] = old[i]
        BY <1>2, <1>5, <4>2 DEF ChartBehind
      <4> HIDE DEF old
      <4>4. \A i \in 1..Len(s4.rows) : i \in 1..Len(old)
        BY <2>2, <4>2, <4>3
      <4>5. Len(s4.rows) <= Len(kept)
        BY <2>2, <4>1, <4>2, <4>3
      <4>6. QED  BY <2>3, <4>1, <4>3, <4>4, <4>5
    <3>3. NightTypes' /\ NumbersKept'
      BY <1>1, <1>2, <1>3, <2>7, <2>9 DEF NightTypes, NumbersKept
    <3>4. QED  BY <2>7, <3>1, <3>2, <3>3 DEF NightInv
  <2>10. QED  BY <2>1, <2>8, <2>9
<1>6. QED  BY <1>4, <1>5

LEMMA NightPageDrawn == NightInv /\ Ni!Drawn => NightInv'
<1> SUFFICES ASSUME NightInv, Ni!Drawn PROVE NightInv'
  OBVIOUS
<1>1. PICK rows : rows = Ni!Rows
  OBVIOUS
<1>2. s4' = Ni!Shown(rows) /\ s1' = [s1 EXCEPT !.rows = rows] /\ UNCHANGED <<s2, s3, s5, s6>>
  BY <1>1 DEF Ni!Drawn
<1>3. NightTypes /\ Rising(s1.rows, s2) /\ Rising(s4.rows, s2)
  BY DEF NightInv
<1>4. Rising(rows, s2')
  <2>1. Rising(rows, s2)
    BY <1>1, <1>3, EmptyNight DEF Ni!Rows
  <2>2. QED  BY <1>2, <2>1 DEF Rising
<1>5. Len(rows) < MaxRows /\ Len(rows) = Len(s4.rows) => rows = s4.rows
  <2>1. CASE s1.none
    <3>1. rows = <<>> /\ s4.rows \in Seq(NightRows)
      BY <1>1, <1>3, <2>1 DEF Ni!Rows, Rising
    <3>2. QED  BY <3>1, EmptySeq
  <2>2. CASE ~s1.none
    BY <1>1, <2>2, SameRows DEF Ni!Rows
  <2>3. QED  BY <2>1, <2>2
<1>6. /\ s4' \in [rows : Seq(NightRows), numbers : NightCounts] /\ s4'.rows = rows
      /\ NumbersKept' /\ Rising(s4'.rows, s2')
  <2>1. s2' \in 0..NightSeconds
    BY <1>2, <1>3 DEF NightTypes
  <2>2. QED  BY <1>2, <1>4, <1>5, <2>1, NightDrawn
<1>7. s1' \in [none : BOOLEAN, rows : Seq(NightRows)] /\ s1'.rows = rows
  BY <1>2, <1>3, <1>4 DEF NightTypes, Rising
<1>8. Rising(s1'.rows, s2') /\ ChartBehind'
  <2>1. Len(rows) \in Nat
    BY <1>4, LenProperties DEF Rising
  <2>2. QED  BY <1>4, <1>6, <1>7, <2>1 DEF Rising, ChartBehind
<1>9. NightTypes'
  BY <1>2, <1>3, <1>6, <1>7 DEF NightTypes
<1>10. QED  BY <1>6, <1>8, <1>9 DEF NightInv

LEMMA NightPause == NightInv /\ Ni!Pause => NightInv'
<1> SUFFICES ASSUME NightInv, Ni!Pause PROVE NightInv'
  OBVIOUS
<1>1. s2 < NightSeconds /\ s2' = s2 + 1 /\ UNCHANGED <<s1, s3, s4, s5, s6>>
  BY DEF Ni!Pause
<1>2. NightTypes /\ Rising(s1.rows, s2) /\ Rising(s4.rows, s2) /\ ChartBehind /\ NumbersKept
  BY DEF NightInv
<1>3. s2 \in Nat /\ s2' \in 0..NightSeconds /\ s2 <= s2' /\ s2' \in Nat
  BY <1>1, <1>2, NightNumbers DEF NightTypes
<1>4. Rising(s1'.rows, s2') /\ Rising(s4'.rows, s2')
  <2>1. PICK a, b : a = s1.rows /\ b = s4.rows
    OBVIOUS
  <2>2. Rising(a, s2') /\ Rising(b, s2')
    BY <1>2, <1>3, <2>1, RisingKept
  <2>3. QED  BY <1>1, <2>1, <2>2 DEF Rising
<1>5. QED  BY <1>1, <1>2, <1>3, <1>4 DEF NightInv, NightTypes, ChartBehind, NumbersKept

\* The log is gone or begins anew, and the card is drawn for nothing.
LEMMA NightAnew ==
  ASSUME NightInv, NEW none \in BOOLEAN, s1' = [none |-> none, rows |-> <<>>], s4' = Ni!Shown(<<>>),
         UNCHANGED s2, UNCHANGED s5, s3' \in 0..NightSeconds, s6' \in 0..NightMoves
  PROVE  NightInv'
<1> DEFINE e == <<>>
<1>1. Rising(e, s2') /\ e \in Seq(NightRows) /\ Len(e) = 0
  <2>1. Rising(e, s2')
    BY EmptyNight
  <2>2. QED  BY <2>1, EmptySeq DEF Rising
<1>2. Len(e) = Len(s4.rows) => e = s4.rows
  <2>1. s4.rows \in Seq(NightRows)
    BY DEF NightInv, Rising
  <2>2. QED  BY <1>1, <2>1, EmptySeq
<1>3. s4' = Ni!Shown(e) /\ s1' = [none |-> none, rows |-> e]
  OBVIOUS
<1> HIDE DEF e
<1>4. NightTypes
  BY DEF NightInv
<1>5. /\ s4' \in [rows : Seq(NightRows), numbers : NightCounts] /\ s4'.rows = e
      /\ NumbersKept' /\ Rising(s4'.rows, s2')
  <2>1. s2' \in 0..NightSeconds
    BY <1>4 DEF NightTypes
  <2>2. QED  BY <1>1, <1>2, <1>3, <2>1, NightDrawn
<1>6. s1' \in [none : BOOLEAN, rows : Seq(NightRows)] /\ s1'.rows = e
  BY <1>1, <1>3
<1>7. Rising(s1'.rows, s2') /\ ChartBehind'
  BY <1>1, <1>5, <1>6 DEF Rising, ChartBehind
<1>8. NightTypes'
  BY <1>4, <1>5, <1>6 DEF NightTypes
<1>9. QED  BY <1>5, <1>7, <1>8 DEF NightInv

LEMMA NightNewNight == NightInv /\ Ni!NewNight => NightInv'
<1> SUFFICES ASSUME NightInv, Ni!NewNight PROVE NightInv'
  OBVIOUS
<1>1. /\ s1' = [none |-> FALSE, rows |-> <<>>] /\ s4' = Ni!Shown(<<>>) /\ s6 > 0 /\ s6' = s6 - 1
      /\ UNCHANGED <<s2, s3, s5>>
  BY DEF Ni!NewNight, Ni!Move
<1>2. s3' \in 0..NightSeconds /\ s6' \in 0..NightMoves /\ FALSE \in BOOLEAN
  BY <1>1, NightNumbers DEF NightInv, NightTypes
<1>3. QED  BY <1>1, <1>2, NightAnew

LEMMA NightClear == NightInv /\ Ni!Clear => NightInv'
<1> SUFFICES ASSUME NightInv, Ni!Clear PROVE NightInv'
  OBVIOUS
<1>1. /\ s6 > 0 /\ s6' = s6 - 1 /\ UNCHANGED <<s2, s5>>
      /\ \/ s3' = s2 /\ s4' = Ni!Shown(<<>>) /\ s1' = [none |-> TRUE, rows |-> <<>>]
         \/ s1' = [s1 EXCEPT !.none = TRUE] /\ UNCHANGED <<s3, s4>>
  BY DEF Ni!Clear, Ni!Move
<1>2. NightTypes /\ s6' \in 0..NightMoves
  BY <1>1, NightNumbers DEF NightInv, NightTypes
<1>3. CASE s3' = s2 /\ s4' = Ni!Shown(<<>>) /\ s1' = [none |-> TRUE, rows |-> <<>>]
  <2>1. s3' \in 0..NightSeconds /\ TRUE \in BOOLEAN
    BY <1>2, <1>3 DEF NightTypes
  <2>2. QED  BY <1>1, <1>2, <1>3, <2>1, NightAnew
<1>4. CASE s1' = [s1 EXCEPT !.none = TRUE] /\ UNCHANGED <<s3, s4>>
  <2>1. s1' \in [none : BOOLEAN, rows : Seq(NightRows)] /\ s1'.rows = s1.rows /\ s1'.none
    BY <1>2, <1>4 DEF NightTypes
  <2>2. QED  BY <1>1, <1>2, <1>4, <2>1 DEF NightInv, NightTypes, Rising, ChartBehind, NumbersKept
<1>5. QED  BY <1>1, <1>3, <1>4

LEMMA NightCsv == NightInv /\ Ni!Csv => NightInv'
<1> SUFFICES ASSUME NightInv, Ni!Csv PROVE NightInv'
  OBVIOUS
<1> DEFINE n == Len(s1.rows)
           q == [i \in 1..n |-> Ni!Line(s1.rows[i])]
<1>1. s1.rows \in Seq(NightRows) /\ n \in Nat /\ n <= MaxRows /\ DOMAIN s1.rows = 1..n
  BY LenProperties DEF NightInv, Rising
<1>2. s5' = q /\ s6 > 0 /\ s6' = s6 - 1 /\ UNCHANGED <<s1, s2, s3, s4>>
  BY <1>1 DEF Ni!Csv, Ni!Move
<1>3. Len(q) = n
  <2>1. q \in [1..n -> {Ni!Line(s1.rows[i]) : i \in 1..n}]
    OBVIOUS
  <2> HIDE DEF q, n
  <2>2. QED  BY <1>1, <2>1, FunctionIsSeq
<1> HIDE DEF q
<1>4. Len(s5') <= MaxRows /\ s6' \in 0..NightMoves
  BY <1>1, <1>2, <1>3, NightNumbers DEF NightInv, NightTypes
<1>5. QED  BY <1>2, <1>4 DEF NightInv, NightTypes, Rising, ChartBehind, NumbersKept

LEMMA NightNext == NightInv /\ [Ni!Next]_(Ni!vars) => NightInv'
<1> SUFFICES ASSUME NightInv, [Ni!Next]_(Ni!vars) PROVE NightInv'
  OBVIOUS
<1>1. ASSUME NEW r \in Readings, Ni!Row(r) PROVE NightInv'
  BY <1>1, NightRow
<1>2. CASE Ni!Drawn    BY <1>2, NightPageDrawn
<1>3. CASE Ni!Pause    BY <1>3, NightPause
<1>4. CASE Ni!NewNight BY <1>4, NightNewNight
<1>5. CASE Ni!Clear    BY <1>5, NightClear
<1>6. CASE Ni!Csv      BY <1>6, NightCsv
<1>7. CASE UNCHANGED Ni!vars
  BY <1>7 DEF Ni!vars, NightInv, NightTypes, Rising, ChartBehind, NumbersKept
<1>8. QED  BY <1>1, <1>2, <1>3, <1>4, <1>5, <1>6, <1>7 DEF Ni!Next

LEMMA NightTypesOK == NightInv => Ni!TypeOK
  BY DEF NightInv, NightTypes, NightCounts, Rising, Ni!TypeOK

LEMMA NightIsShown == NightInv => Ni!NightShown
<1> SUFFICES ASSUME NightInv PROVE Ni!NightShown
  OBVIOUS
<1> DEFINE rows == s4.rows
           col(i) == Ni!Column(rows, rows[i])
<1>1. Rising(rows, s2) /\ rows \in Seq(NightRows) /\ DOMAIN rows = 1..Len(rows)
  BY LenProperties DEF NightInv, Rising
<1>2. ASSUME Ni!Visible, Len(rows) < MaxRows PROVE Ni!Said.bumps = Ni!Cardinality(Ni!Beginnings(rows))
  <2>1. Ni!Said = Ni!Stats(rows)
    BY <1>2 DEF Ni!Said, NightInv, NumbersKept
  <2>2. Ni!Stats(rows).bumps = Ni!Cardinality(Ni!Bumps(rows))
    BY DEF Ni!Stats
  <2>3. QED  BY <1>1, <2>1, <2>2, BumpsBegin
<1>3. ASSUME NEW i \in Ni!Beginnings(rows) PROVE Ni!Chart(rows)[col(i)].level >= rows[i].level
  <2> DEFINE I == {j \in DOMAIN rows : Ni!Column(rows, rows[j]) = col(i)}
             x == Ni!Strongest(rows, I)
  <2>1. i \in DOMAIN rows
    BY DEF Ni!Beginnings, Ni!Loud, Ni!Quiet
  <2>2. i \in I /\ I \subseteq 1..Len(rows)
    BY <1>1, <2>1
  <2>3. Ni!Chart(rows)[col(i)] = rows[x]
    BY <2>1 DEF Ni!Chart
  <2> HIDE DEF I
  <2>4. x \in I /\ rows[i].level <= rows[x].level
    BY <1>1, <2>2, StrongestIs
  <2>5. rows[i].level \in Nat /\ rows[x].level \in Nat
    <3> HIDE DEF x, rows
    <3>1. rows[i] \in NightRows /\ rows[x] \in NightRows
      BY <1>1, <2>2, <2>4, ElementOfSeq
    <3>2. QED  BY <3>1 DEF NightRows
  <2>6. QED  BY <2>3, <2>4, <2>5
<1>4. QED  BY <1>2, <1>3 DEF Ni!NightShown

-----------------------------------------------------------------------------

-----------------------------------------------------------------------------
(* The other pages that load and poll: their types.                        *)

LEMMA LoaderNumbers ==
  /\ CreditAsks \in Nat /\ CreditEdits \in Nat /\ ResearchLoads \in Nat /\ ResearchMoves \in Nat
  /\ ConsoleLoads \in Nat /\ ConsoleMoves \in Nat /\ "overview" \in Tabs
  /\ ReadingAsks \in Nat /\ ReadingChanges \in Nat
  /\ Goal \in Nat /\ TonightAsks \in Nat /\ TonightChanges \in Nat
  BY SiteAssumption DEF Cr!CreditAssumption, Re!ResearchAssumption, Co!ConsoleAssumption,
                        Rd!ReadingAssumption, To!TonightAssumption

LEMMA OneLess == ASSUME NEW n \in Nat, NEW k \in 0..n, k > 0 PROVE k - 1 \in 0..n
  BY SMT

LEMMA Spent ==
  /\ Cr!TypeOK /\ Cr!Edit => (s4 \in 0..CreditEdits)'
  /\ Re!TypeOK /\ Re!Move => (s7 \in 0..ResearchMoves)'
  /\ Co!TypeOK /\ Co!Move => (s8 \in 0..ConsoleMoves)'
  /\ To!TypeOK /\ To!Change => (s7 \in 0..TonightChanges)'
  /\ Rd!TypeOK /\ Rd!Change => (s7 \in 0..ReadingChanges)'
  BY LoaderNumbers, OneLess
  DEF Cr!TypeOK, Cr!Edit, Re!TypeOK, Re!Move, Co!TypeOK, Co!Move, To!TypeOK, To!Change, Rd!TypeOK,
      Rd!Change

-----------------------------------------------------------------------------
(* Credit.                                                                 *)

LEMMA CreditInit == Cr!Init => Cr!TypeOK
  BY LoaderNumbers DEF Cr!Init, Cr!TypeOK, Cr!NoAsk, Cr!NoCredit

LEMMA CreditNext == Cr!TypeOK /\ [Cr!Next]_(Cr!vars) => Cr!TypeOK'
<1> SUFFICES ASSUME Cr!TypeOK, [Cr!Next]_(Cr!vars) PROVE Cr!TypeOK'
  OBVIOUS
<1> USE DEF Cr!TypeOK
<1>1. ASSUME NEW i \in Cr!Slots, Cr!Load(i) PROVE Cr!TypeOK'
  BY <1>1 DEF Cr!Load, Cr!Send
<1>2. ASSUME NEW i \in Cr!Slots, Cr!Saved(i) PROVE Cr!TypeOK'
  BY <1>2 DEF Cr!Saved, Cr!NoCredit
<1>3. ASSUME NEW i \in Cr!Slots, Cr!Read(i) PROVE Cr!TypeOK'
  BY <1>3 DEF Cr!Read
<1>4. ASSUME NEW i \in Cr!Slots, Cr!Answered(i) PROVE Cr!TypeOK'
  BY <1>4 DEF Cr!Answered, Cr!NoAsk
<1>5. ASSUME NEW i \in Cr!Slots, Cr!Fails(i) PROVE Cr!TypeOK'
  BY <1>5, Spent DEF Cr!Fails, Cr!NoAsk
<1>6. ASSUME NEW i \in Cr!Slots, NEW n \in Names \cup {"none"}, Cr!Save(i, n) PROVE Cr!TypeOK'
  BY <1>6, Spent DEF Cr!Save, Cr!Send
<1>7. CASE Cr!StartEdit
  BY <1>7, Spent DEF Cr!StartEdit
<1>8. CASE Cr!Hide
  BY <1>8, Spent DEF Cr!Hide
<1>9. CASE UNCHANGED Cr!vars
  BY <1>9 DEF Cr!vars
<1>10. QED  BY <1>1, <1>2, <1>3, <1>4, <1>5, <1>6, <1>7, <1>8, <1>9 DEF Cr!Next

-----------------------------------------------------------------------------
(* Research.                                                               *)

LEMMA ResearchInit == Re!Init => Re!TypeOK
  BY LoaderNumbers DEF Re!Init, Re!TypeOK, Re!Blank, Re!NoLoad

ResearchLoadings ==
  [stage : {"none", "survey", "volunteers", "copied survey", "copied volunteers", "nights", "people"},
   token : {"none", "good", "bad"}, code : Codes \cup {"none"}]

Shown ==
  [survey : {"none", "site", "server"}, vols : {"none", "site", "server"},
   nights : Codes \cup {"none"}, people : {"none", "listed", "hidden"}, err : BOOLEAN]

LEMMA ResearchType ==
  /\ Re!TypeOK <=>
       /\ s1 \in {"none", "good", "bad"} /\ s2 \in Codes /\ s7 \in 0..ResearchMoves
       /\ s3 \in Shown /\ s4 \in [Re!Slots -> ResearchLoadings]
       /\ s5 \in [site : BOOLEAN, server : BOOLEAN] /\ s6 \in {"listed", "hidden"}
  /\ Re!TypeOK' <=>
       /\ s1' \in {"none", "good", "bad"} /\ s2' \in Codes /\ s7' \in 0..ResearchMoves
       /\ s3' \in Shown /\ s4' \in [Re!Slots -> ResearchLoadings]
       /\ s5' \in [site : BOOLEAN, server : BOOLEAN] /\ s6' \in {"listed", "hidden"}
  BY DEF Re!TypeOK, ResearchLoadings, Shown

LEMMA ResearchBegins ==
  ASSUME Re!TypeOK, NEW t \in {"none", "good", "bad"}, NEW c \in Codes, Re!Begin(s4, t, c)
  PROVE  s4' \in [Re!Slots -> ResearchLoadings]
<1>1. s4 \in [Re!Slots -> ResearchLoadings]
  BY ResearchType
<1>2. CASE t = "none"
  BY <1>1, <1>2 DEF Re!Begin
<1>3. CASE t # "none"
  <2>1. [stage |-> Re!First, token |-> t, code |-> c] \in ResearchLoadings
    BY DEF ResearchLoadings, Re!First
  <2>2. PICK i \in Re!Slots : s4' = [s4 EXCEPT ![i] = [stage |-> Re!First, token |-> t, code |-> c]]
    BY <1>3 DEF Re!Begin
  <2>3. QED  BY <1>1, <2>1, <2>2
<1>4. QED  BY <1>2, <1>3

\* A request of a load goes on to the next, or ends it.
LEMMA ResearchGoesOn ==
  ASSUME NEW i \in Re!Slots, s4 \in [Re!Slots -> ResearchLoadings],
         \/ Re!End(i)
         \/ \E stage \in {"volunteers", "copied survey", "copied volunteers", "nights", "people"} : Re!To(i, stage)
  PROVE  s4' \in [Re!Slots -> ResearchLoadings]
<1>1. CASE Re!End(i)
  <2>1. Re!NoLoad \in ResearchLoadings
    BY DEF Re!NoLoad, ResearchLoadings
  <2>2. QED  BY <1>1, <2>1 DEF Re!End
<1>2. ASSUME NEW stage \in {"volunteers", "copied survey", "copied volunteers", "nights", "people"}, Re!To(i, stage)
      PROVE  s4' \in [Re!Slots -> ResearchLoadings]
  <2>1. [s4[i] EXCEPT !.stage = stage] \in ResearchLoadings
    BY DEF ResearchLoadings
  <2>2. s4' = [s4 EXCEPT ![i] = [s4[i] EXCEPT !.stage = stage]]
    BY <1>2 DEF Re!To
  <2>3. QED  BY <2>1, <2>2
<1>3. QED  BY <1>1, <1>2

LEMMA ResearchAnswers ==
  ASSUME Re!TypeOK, NEW i \in Re!Slots, Re!Answer(i)
  PROVE  Re!TypeOK'
<1>1. /\ s1 \in {"none", "good", "bad"} /\ s2 \in Codes /\ s7 \in 0..ResearchMoves
      /\ s3 \in Shown /\ s4 \in [Re!Slots -> ResearchLoadings]
      /\ s5 \in [site : BOOLEAN, server : BOOLEAN] /\ s6 \in {"listed", "hidden"}
  BY ResearchType
<1>2. UNCHANGED <<s2, s5, s6, s7>>
  BY DEF Re!Answer, Re!Surveys, Re!Volunteers, Re!CopiedSurvey, Re!CopiedVolunteers, Re!Nights, Re!People,
         Re!Loading
<1>3. /\ s1' \in {s1, "none"}
      /\ \/ Re!End(i)
         \/ \E stage \in {"volunteers", "copied survey", "copied volunteers", "nights", "people"} : Re!To(i, stage)
  BY DEF Re!Answer, Re!Surveys, Re!Volunteers, Re!CopiedSurvey, Re!CopiedVolunteers, Re!Nights, Re!People
<1>4. \/ s3' = s3
      \/ \E v \in {"site", "server"} : s3' = [s3 EXCEPT !.survey = v] \/ s3' = [s3 EXCEPT !.vols = v]
      \/ s3' = [s3 EXCEPT !.nights = s4[i].code]
      \/ s3' = [s3 EXCEPT !.people = s6, !.err = FALSE]
      \/ s3' = [s3 EXCEPT !.err = TRUE]
  BY DEF Re!Answer, Re!Surveys, Re!Volunteers, Re!CopiedSurvey, Re!CopiedVolunteers, Re!Nights, Re!People
<1>5. s4[i].code \in Codes \cup {"none"}
  BY <1>1 DEF ResearchLoadings
<1>6. s3' \in Shown
  BY <1>1, <1>4, <1>5 DEF Shown
<1>7. s4' \in [Re!Slots -> ResearchLoadings]
  BY <1>1, <1>3, ResearchGoesOn
<1>8. QED  BY <1>1, <1>2, <1>3, <1>6, <1>7, ResearchType

LEMMA ResearchNext == Re!TypeOK /\ [Re!Next]_(Re!vars) => Re!TypeOK'
<1> SUFFICES ASSUME Re!TypeOK, [Re!Next]_(Re!vars) PROVE Re!TypeOK'
  OBVIOUS
<1>1. ASSUME NEW t \in {"good", "bad"}, Re!SignIn(t) PROVE Re!TypeOK'
  <2>1. t \in {"none", "good", "bad"} /\ s2 \in Codes /\ Re!Begin(s4, t, s2)
    BY <1>1 DEF Re!SignIn, Re!TypeOK
  <2>2. s4' \in [Re!Slots -> ResearchLoadings]
    BY <2>1, ResearchBegins
  <2>3. QED  BY <1>1, <2>1, <2>2, Spent, ResearchType DEF Re!SignIn
<1>2. ASSUME NEW c \in Codes, Re!TypeClass(c) PROVE Re!TypeOK'
  <2>1. s1 \in {"none", "good", "bad"} /\ Re!Begin(s4, s1, c)
    BY <1>2 DEF Re!TypeClass, Re!TypeOK
  <2>2. s4' \in [Re!Slots -> ResearchLoadings]
    BY <2>1, ResearchBegins
  <2>3. QED  BY <1>2, <2>1, <2>2, Spent, ResearchType DEF Re!TypeClass
<1>3. ASSUME NEW i \in Re!Slots, Re!Answer(i) PROVE Re!TypeOK'
  BY <1>3, ResearchAnswers
<1>4. CASE Re!Poll
  <2>1. s1 \in {"none", "good", "bad"} /\ s2 \in Codes /\ Re!Begin(s4, s1, s2)
    BY <1>4 DEF Re!Poll, Re!TypeOK
  <2>2. s4' \in [Re!Slots -> ResearchLoadings]
    BY <2>1, ResearchBegins
  <2>3. QED  BY <1>4, <2>2, ResearchType DEF Re!Poll
<1>5. CASE Re!HideName
  <2>1. s1 \in {"none", "good", "bad"} /\ s2 \in Codes
    BY DEF Re!TypeOK
  <2>2. Re!Begin(s4, s1, s2) \/ UNCHANGED s4
    BY <1>5 DEF Re!HideName
  <2>3. s4' \in [Re!Slots -> ResearchLoadings]
    BY <2>1, <2>2, ResearchBegins, ResearchType
  <2>4. QED  BY <1>5, <2>3, Spent, ResearchType DEF Re!HideName
<1>6. CASE Re!GoesOrComes
  BY <1>6, Spent DEF Re!GoesOrComes, Re!TypeOK
<1>7. CASE UNCHANGED Re!vars
  BY <1>7 DEF Re!vars, Re!TypeOK
<1>8. QED  BY <1>1, <1>2, <1>3, <1>4, <1>5, <1>6, <1>7 DEF Re!Next

-----------------------------------------------------------------------------
(* Console.                                                                *)

ConsoleLoadings == [token : {"none", "good", "bad"}, tab : Tabs \cup {"none"}]

LEMMA ConsoleInit == Co!Init => Co!TypeOK
<1>1. Co!NoLoad \in ConsoleLoadings
  BY DEF Co!NoLoad, ConsoleLoadings
<1>2. ConsoleMoves \in 0..ConsoleMoves /\ "overview" \in Tabs
  BY LoaderNumbers
<1>3. QED  BY <1>1, <1>2 DEF Co!Init, Co!TypeOK, ConsoleLoadings

LEMMA ConsoleBegins ==
  ASSUME Co!TypeOK, NEW t \in {"none", "good", "bad"}, NEW v \in Tabs, Co!Begin(t, v)
  PROVE  s6' \in [Co!Slots -> ConsoleLoadings]
<1>1. s6 \in [Co!Slots -> ConsoleLoadings]
  BY DEF Co!TypeOK, ConsoleLoadings
<1>2. [token |-> t, tab |-> v] \in ConsoleLoadings
  BY DEF ConsoleLoadings
<1>3. PICK i \in Co!Slots : s6' = [s6 EXCEPT ![i] = [token |-> t, tab |-> v]]
  BY DEF Co!Begin
<1>4. QED  BY <1>1, <1>2, <1>3

LEMMA ConsoleNext == Co!TypeOK /\ [Co!Next]_(Co!vars) => Co!TypeOK'
<1> SUFFICES ASSUME Co!TypeOK, [Co!Next]_(Co!vars) PROVE Co!TypeOK'
  OBVIOUS
<1> USE DEF Co!TypeOK
<1>1. ASSUME NEW t \in {"good", "bad"}, Co!SignIn(t) PROVE Co!TypeOK'
  <2>1. s6' \in [Co!Slots -> ConsoleLoadings]
    BY <1>1, ConsoleBegins DEF Co!SignIn
  <2>2. QED  BY <1>1, <2>1, Spent DEF Co!SignIn, ConsoleLoadings
<1>2. CASE Co!SignOut
  BY <1>2, Spent DEF Co!SignOut
<1>3. ASSUME NEW v \in Tabs, Co!OpenTab(v) PROVE Co!TypeOK'
  <2>1. s6' \in [Co!Slots -> ConsoleLoadings]
    BY <1>3, ConsoleBegins DEF Co!OpenTab
  <2>2. QED  BY <1>3, <2>1, Spent DEF Co!OpenTab, Co!CannotShow, ConsoleLoadings
<1>4. CASE Co!Poll
  <2>1. s6' \in [Co!Slots -> ConsoleLoadings]
    BY <1>4, ConsoleBegins DEF Co!Poll
  <2>2. QED  BY <1>4, <2>1 DEF Co!Poll, ConsoleLoadings
<1>5. ASSUME NEW i \in Co!Slots, Co!Loaded(i) PROVE Co!TypeOK'
  BY <1>5 DEF Co!Loaded, Co!NoLoad
<1>6. ASSUME NEW i \in Co!Slots, Co!Unauthorized(i) PROVE Co!TypeOK'
  BY <1>6 DEF Co!Unauthorized, Co!NoLoad
<1>7. ASSUME NEW i \in Co!Slots, Co!LoadFails(i) PROVE Co!TypeOK'
  BY <1>7, Spent DEF Co!LoadFails, Co!NoLoad
<1>8. ASSUME NEW reason \in BOOLEAN, Co!Retract(reason) PROVE Co!TypeOK'
  <2>1. Co!Begin(s1, s2) \/ s6' = s6
    BY <1>8 DEF Co!Retract
  <2>2. s6' \in [Co!Slots -> ConsoleLoadings]
    BY <2>1, ConsoleBegins DEF ConsoleLoadings
  <2>3. QED  BY <1>8, <2>2, Spent DEF Co!Retract, ConsoleLoadings
<1>9. CASE UNCHANGED Co!vars
  BY <1>9 DEF Co!vars
<1>10. QED  BY <1>1, <1>2, <1>3, <1>4, <1>5, <1>6, <1>7, <1>8, <1>9 DEF Co!Next

-----------------------------------------------------------------------------
(* Tonight.                                                                *)

LEMMA NothingTonight ==
  /\ 0 \in 0..Goal /\ TonightChanges \in 0..TonightChanges
  /\ To!NoAsk \in [stage : {"none", "sent", "served"}, hours : 0..Goal]
  /\ To!Nothing \in [known : BOOLEAN, hours : 0..Goal]
  /\ To!NoBattery \in [asked : BOOLEAN, told : BOOLEAN, charging : {"unknown", "yes", "no"}]
<1>1. 0 \in 0..Goal /\ TonightChanges \in 0..TonightChanges
  BY LoaderNumbers
<1>2. QED  BY <1>1 DEF To!NoAsk, To!Nothing, To!NoBattery

LEMMA TonightInit == To!Init => To!TypeOK
  BY NothingTonight DEF To!Init, To!TypeOK

LEMMA TonightNext == To!TypeOK /\ [To!Next]_(To!vars) => To!TypeOK'
<1> SUFFICES ASSUME To!TypeOK, [To!Next]_(To!vars) PROVE To!TypeOK'
  OBVIOUS
<1> USE DEF To!TypeOK
<1>1. ASSUME NEW i \in To!Slots, To!Load(i) PROVE To!TypeOK'
  BY <1>1 DEF To!Load
<1>2. ASSUME NEW i \in To!Slots, To!Served(i) PROVE To!TypeOK'
  BY <1>2 DEF To!Served
<1>3. ASSUME NEW i \in To!Slots, To!Answered(i) PROVE To!TypeOK'
  BY <1>3, NothingTonight DEF To!Answered
<1>4. ASSUME NEW i \in To!Slots, To!Fails(i) PROVE To!TypeOK'
  BY <1>4, Spent, NothingTonight DEF To!Fails
<1>5. CASE To!BatteryKnown
  BY <1>5 DEF To!BatteryKnown, To!Phones
<1>6. CASE To!ChargingChanges
  BY <1>6 DEF To!ChargingChanges, To!Phones
<1>7. CASE To!Open
  BY <1>7, Spent DEF To!Open, To!NoBattery
<1>8. CASE To!Leave
  BY <1>8, Spent, NothingTonight DEF To!Leave
<1>9. CASE To!Listened
  <2>1. s4' \in 0..Goal
    BY <1>9, LoaderNumbers DEF To!Listened
  <2>2. QED  BY <1>9, <2>1, Spent DEF To!Listened
<1>10. CASE To!PhoneChanges
  BY <1>10, Spent DEF To!PhoneChanges, To!Phones
<1>11. CASE UNCHANGED To!vars
  BY <1>11 DEF To!vars
<1>12. QED  BY <1>1, <1>2, <1>3, <1>4, <1>5, <1>6, <1>7, <1>8, <1>9, <1>10, <1>11 DEF To!Next

-----------------------------------------------------------------------------
(* Reading.                                                                *)

ReadingAnswers == {"none", "nobody", "some", "traces", "empty"} \cup Rd!Statuses

ReadingRequests ==
  [for : {"none", "event", "traces", "all", "usual", "names"}, got : ReadingAnswers]

LEMMA ReadingType ==
  /\ Rd!TypeOK <=>
       /\ s1 \in Rd!Pages \cup {"away"} /\ s3 \in BOOLEAN /\ s4 \in BOOLEAN /\ s7 \in 0..ReadingChanges
       /\ s5 \in [Rd!Slots -> ReadingRequests]
       /\ s6 \in [event : Rd!Statuses, names : {"nobody", "some"}]
  /\ Rd!TypeOK' <=>
       /\ s1' \in Rd!Pages \cup {"away"} /\ s3' \in BOOLEAN /\ s4' \in BOOLEAN /\ s7' \in 0..ReadingChanges
       /\ s5' \in [Rd!Slots -> ReadingRequests]
       /\ s6' \in [event : Rd!Statuses, names : {"nobody", "some"}]
  BY DEF Rd!TypeOK, ReadingRequests, ReadingAnswers

LEMMA NoRequest == Rd!NoAsk \in ReadingRequests
  BY DEF Rd!NoAsk, ReadingRequests, ReadingAnswers

LEMMA ReadingInit == Rd!Init => Rd!TypeOK
<1>1. ReadingChanges \in 0..ReadingChanges
  BY LoaderNumbers
<1>2. [event |-> "active", names |-> "nobody"] \in [event : Rd!Statuses, names : {"nobody", "some"}]
  BY DEF Rd!Statuses
<1>3. [i \in Rd!Slots |-> Rd!NoAsk] \in [Rd!Slots -> ReadingRequests]
  BY NoRequest
<1>4. QED  BY <1>1, <1>2, <1>3, ReadingType DEF Rd!Init

LEMMA ReadingSends ==
  ASSUME NEW a \in [Rd!Slots -> ReadingRequests],
         NEW r \in {"event", "traces", "all", "usual", "names"}
  PROVE  Rd!Send(a, r) \in [Rd!Slots -> ReadingRequests]
<1>1. CASE Rd!Free(a) = {}
  BY <1>1 DEF Rd!Send
<1>2. CASE Rd!Free(a) # {}
  <2>1. Rd!Free(a) \subseteq Nat /\ Rd!Free(a) \subseteq Rd!Slots
    BY DEF Rd!Free, Rd!Slots
  <2>2. \E x \in Rd!Free(a) : \A y \in Rd!Free(a) : x <= y
    BY <1>2, <2>1, LeastExists
  <2>3. Rd!First(Rd!Free(a)) \in Rd!Free(a)
    BY <2>2 DEF Rd!First
  <2>4. PICK i \in Rd!Slots : i = Rd!First(Rd!Free(a))
    BY <2>1, <2>3
  <2>5. Rd!Send(a, r) = [a EXCEPT ![i] = [a[i] EXCEPT !.for = r]]
    BY <1>2, <2>4 DEF Rd!Send
  <2>6. [a[i] EXCEPT !.for = r] \in ReadingRequests
    BY DEF ReadingRequests
  <2>7. QED  BY <2>5, <2>6
<1>3. QED  BY <1>1, <1>2

LEMMA ReadingLoads ==
  ASSUME NEW a \in [Rd!Slots -> ReadingRequests], NEW p, NEW b
  PROVE  Rd!Load(a, p, b) \in [Rd!Slots -> ReadingRequests]
<1>1. Rd!Send(a, "event") \in [Rd!Slots -> ReadingRequests]
  BY ReadingSends
<1>2. Rd!Send(Rd!Send(a, "event"), "traces") \in [Rd!Slots -> ReadingRequests]
  BY <1>1, ReadingSends
<1>3. Rd!Listing(b) \in {"all", "usual"}
  BY DEF Rd!Listing
<1>4. Rd!Send(a, Rd!Listing(b)) \in [Rd!Slots -> ReadingRequests]
  BY <1>3, ReadingSends
<1>5. Rd!Send(a, "names") \in [Rd!Slots -> ReadingRequests]
  BY ReadingSends
<1>6. QED  BY <1>2, <1>4, <1>5 DEF Rd!Load

LEMMA ReadingNext == Rd!TypeOK /\ [Rd!Next]_(Rd!vars) => Rd!TypeOK'
<1> SUFFICES ASSUME Rd!TypeOK, [Rd!Next]_(Rd!vars) PROVE Rd!TypeOK'
  OBVIOUS
<1>1. /\ s1 \in Rd!Pages \cup {"away"} /\ s3 \in BOOLEAN /\ s4 \in BOOLEAN /\ s7 \in 0..ReadingChanges
      /\ s5 \in [Rd!Slots -> ReadingRequests]
      /\ s6 \in [event : Rd!Statuses, names : {"nobody", "some"}]
  BY ReadingType
<1>2. ASSUME NEW p \in Rd!Pages, Rd!OpenPage(p) PROVE Rd!TypeOK'
  <2>1. s5' \in [Rd!Slots -> ReadingRequests]
    BY <1>1, <1>2, ReadingLoads DEF Rd!OpenPage
  <2>2. QED  BY <1>1, <1>2, <2>1, Spent, ReadingType DEF Rd!OpenPage
<1>3. ASSUME NEW i \in Rd!Slots, Rd!Served(i) PROVE Rd!TypeOK'
  <2>1. s6.event \in Rd!Statuses /\ s6.names \in {"nobody", "some"}
    BY <1>1
  <2>2. Rd!Content(s5[i].for) \in ReadingAnswers
    BY <2>1 DEF Rd!Content, ReadingAnswers
  <2>3. PICK c \in ReadingAnswers : c = Rd!Content(s5[i].for)
    BY <2>2
  <2>4. [s5[i] EXCEPT !.got = c] \in ReadingRequests
    BY <1>1 DEF ReadingRequests
  <2>5. s5' = [s5 EXCEPT ![i] = [s5[i] EXCEPT !.got = c]] /\ UNCHANGED <<s1, s3, s4, s6, s7>>
    BY <1>3, <2>3 DEF Rd!Served
  <2>6. QED  BY <1>1, <2>4, <2>5, ReadingType
<1>4. ASSUME NEW i \in Rd!Slots, Rd!Answered(i) PROVE Rd!TypeOK'
  BY <1>1, <1>4, NoRequest, ReadingType DEF Rd!Answered
<1>5. ASSUME NEW i \in Rd!Slots, Rd!Fails(i) PROVE Rd!TypeOK'
  BY <1>1, <1>5, NoRequest, Spent, ReadingType DEF Rd!Fails
<1>6. CASE Rd!Poll
  BY <1>1, <1>6, ReadingLoads, ReadingType DEF Rd!Poll
<1>7. CASE Rd!ShowAll
  <2>1. Rd!Listing(~s4) \in {"all", "usual"}
    BY DEF Rd!Listing
  <2>2. s5' \in [Rd!Slots -> ReadingRequests]
    BY <1>1, <1>7, <2>1, ReadingSends DEF Rd!ShowAll
  <2>3. QED  BY <1>1, <1>7, <2>2, Spent, ReadingType DEF Rd!ShowAll
<1>8. CASE Rd!Leave
  BY <1>1, <1>8, NoRequest, Spent, ReadingType DEF Rd!Leave
<1>9. CASE Rd!ServerChanges
  <2>1. s6' \in [event : Rd!Statuses, names : {"nobody", "some"}]
    BY <1>1, <1>9 DEF Rd!ServerChanges
  <2>2. QED  BY <1>1, <1>9, <2>1, Spent, ReadingType DEF Rd!ServerChanges
<1>10. CASE UNCHANGED Rd!vars
  BY <1>1, <1>10, ReadingType DEF Rd!vars
<1>11. QED  BY <1>2, <1>3, <1>4, <1>5, <1>6, <1>7, <1>8, <1>9, <1>10 DEF Rd!Next

-----------------------------------------------------------------------------
(* PhoneTest.  What is recorded is without a gap, since a phone that is    *)
(* hidden stops listening; and a test that was made is stored, pending or  *)
(* being sent, unless two of them failed.                                  *)

TestScreens ==
  {"intro", "perm", "place", "measure", "hidden", "questions", "send", "team", "result"}

TestTaps    == 0..2
TestIds     == Tests \cup {0}
TestRetries == SUBSET Tests
Recordings  == SUBSET (0..(TestSeconds - 1))

TestRequests ==
  [test : TestIds, by : {"none", "send", "flush"}, every : TestIds,
   at : {"site", "network"}, done : BOOLEAN]

TestListeners ==
  [on : BOOLEAN, measuring : BOOLEAN, got : BOOLEAN, elapsed : 0..TestSeconds, bumps : 0..TestBumps]

TestSaid    == [team : BOOLEAN, joined : BOOLEAN, err : BOOLEAN]
TestSensors == [works : BOOLEAN, iphone : BOOLEAN, visible : BOOLEAN]
TestStored  == [tests : SUBSET Tests, volunteer : BOOLEAN]
TestHistory ==
  [failed : SUBSET Tests, here : SUBSET Tests, abandoned : SUBSET TestIds, refused : SUBSET Tests]

TestTypes ==
  /\ s1 \in TestScreens
  /\ s2 \in TestSensors
  /\ s3 \in TestTaps
  /\ s4 \in TestListeners
  /\ s5 \in Recordings
  /\ s6 \in TestIds
  /\ s7 \in TestSaid
  /\ s8 \in [Posts -> TestRequests]
  /\ s9 \in TestIds
  /\ s10 \in TestRetries
  /\ s11 \in TestStored
  /\ s12 \in TestHistory

\* A tap waits only where the permission is asked for; while it listens, the phone has recorded
\* every second from the start, and measures only what it can read.
RecordingKept ==
  /\ s3 # 0 => s1 \in {"perm", "hidden"} /\ s2.iphone
  /\ s1 = "perm" => s2.iphone
  /\ s4.on => s1 \in {"place", "measure"} /\ s5 = 0..(s4.elapsed - 1)
  /\ s4.on /\ ~s4.measuring => s4.elapsed = 0
  /\ s4.measuring => s4.on /\ s2.works /\ s2.visible
  /\ Ts!Whole

\* One request of send() at most, and only while its screen waits for it; what is sent again has
\* failed, and what was answered is stored.
SendsOne ==
  /\ \A q \in Posts : s8[q].by = "send" => s1 = "send" /\ ~s7.err
  /\ \A p, q \in Posts : s8[p].by = "send" /\ s8[q].by = "send" => p = q
  /\ \A q \in Posts : s8[q].by = "none" <=> s8[q].test = 0
  /\ \A q \in Posts : s8[q].by = "flush" => s8[q].test \in s12.failed
  /\ \A q \in Posts : s8[q].done => s8[q].test \in s11.tests
  /\ s9 # 0 => s9 \in s12.failed
  /\ s1 = "send" => s6 # 0

AtMostOne(S) == \A a, b \in S : a = b

\* While one test failed at most, it is pending, unless it is stored or was refused, and no test
\* is lost.
TestKept ==
  AtMostOne(s12.failed) =>
    /\ \A t \in s12.failed : t = s9 \/ t \in s11.tests \cup s12.refused
    /\ \A t \in 1..s6 : t \in s11.tests \cup s12.abandoned \cup s12.refused \/ Ts!UnderWay(t) \/ s9 = t

TestInv == TestTypes /\ RecordingKept /\ SendsOne /\ TestKept

LEMMA TestNumbers ==
  /\ TestSeconds \in Nat /\ Early \in Nat /\ TestBumps \in Nat
  /\ IsFiniteSet(Tests) /\ Tests = 1..Cardinality(Tests) /\ Cardinality(Tests) \in Nat
  /\ Ts!Cardinality(Tests) = Cardinality(Tests) /\ 0 \notin Tests
<1>1. TestSeconds \in Nat /\ Early \in Nat /\ TestBumps \in Nat
  BY SiteAssumption DEF Ts!PhoneTestAssumption
<1>2. Ts!IsFiniteSet(Tests) /\ Tests = 1..Ts!Cardinality(Tests)
  BY SiteAssumption DEF Ts!PhoneTestAssumption
<1>3. IsFiniteSet(Tests) /\ Ts!Cardinality(Tests) = Cardinality(Tests)
  BY <1>2 DEF Ts!IsFiniteSet, IsFiniteSet, Ts!Cardinality, Cardinality
<1>4. Cardinality(Tests) \in Nat
  BY <1>3, FS_CardinalityType
<1>5. Tests = 1..Cardinality(Tests)
  BY <1>2, <1>3
<1>6. 0 \notin Tests
  BY <1>4, <1>5
<1>7. QED  BY <1>1, <1>3, <1>4, <1>5, <1>6

LEMMA TestPhases == Ts!Phases = TestScreens
  BY DEF Ts!Phases, Ts!RecordOffers, Ts!SendOffers, TestScreens

LEMMA TestTypesOK == TestTypes => Ts!TypeOK
<1> SUFFICES ASSUME TestTypes PROVE Ts!TypeOK
  OBVIOUS
<1>1. s3 \in 0..2 /\ s6 \in Tests \cup {0} /\ s9 \in Tests \cup {0} /\ s10 \subseteq Tests
  BY DEF TestTypes, TestTaps, TestIds, TestRetries
<1>2. s5 \subseteq 0..(TestSeconds - 1)
  BY DEF TestTypes, Recordings
<1>3. s8 \in [Posts -> [test : Tests \cup {0}, by : {"none", "send", "flush"}, every : Tests \cup {0},
                       at : {"site", "network"}, done : BOOLEAN]]
  BY DEF TestTypes, TestRequests, TestIds
<1>4. s11.tests \subseteq Tests /\ s11.volunteer \in BOOLEAN
  BY DEF TestTypes, TestStored
<1>5. s4 \in [on : BOOLEAN, measuring : BOOLEAN, got : BOOLEAN, elapsed : 0..TestSeconds, bumps : 0..TestBumps]
  BY DEF TestTypes, TestListeners
<1>6. s2 \in [works : BOOLEAN, iphone : BOOLEAN, visible : BOOLEAN]
      /\ s7 \in [team : BOOLEAN, joined : BOOLEAN, err : BOOLEAN] /\ s1 \in Ts!Phases
  BY TestPhases DEF TestTypes, TestSensors, TestSaid
<1>7. s12 \in [failed : SUBSET Tests, here : SUBSET Tests, abandoned : SUBSET (Tests \cup {0}), refused : SUBSET Tests]
  BY DEF TestTypes, TestHistory, TestIds
<1>8. QED  BY <1>1, <1>2, <1>3, <1>4, <1>5, <1>6, <1>7 DEF Ts!TypeOK

\* A set of tests with fewer than two has one at most.
LEMMA FewerThanTwo ==
  ASSUME NEW S, S \subseteq Tests, Ts!Cardinality(S) < 2
  PROVE  AtMostOne(S)
<1> SUFFICES ASSUME NEW a \in S, NEW b \in S, a # b PROVE FALSE
  BY DEF AtMostOne
<1>1. IsFiniteSet(S)
  BY TestNumbers, FS_Subset
<1>2. Ts!Cardinality(S) = Cardinality(S)
  BY <1>1 DEF Ts!Cardinality, Cardinality, Ts!IsFiniteSet, IsFiniteSet
<1>3. IsFiniteSet({a}) /\ Cardinality({a}) = 1
  BY FS_Singleton
<1>4. IsFiniteSet({a} \cup {b}) /\ Cardinality({a} \cup {b}) = 2
  <2>1. b \notin {a}
    OBVIOUS
  <2>2. /\ IsFiniteSet({a} \cup {b})
        /\ Cardinality({a} \cup {b}) = IF b \in {a} THEN Cardinality({a}) ELSE Cardinality({a}) + 1
    BY ONLY <1>3, FS_AddElement
  <2>3. QED  BY ONLY <1>3, <2>1, <2>2
<1>5. {a} \cup {b} \subseteq S
  OBVIOUS
<1>6. Cardinality({a} \cup {b}) <= Cardinality(S) /\ Cardinality(S) \in Nat
  BY <1>1, <1>5, FS_Subset, FS_CardinalityType
<1>7. QED  BY <1>2, <1>4, <1>6

\* Which screen offers which button.
LEMMA TestOffers ==
  ASSUME s1 \in TestScreens, NEW b, Ts!Pressed(b)
  PROVE  /\ b = "begin" => s1 = "intro"
         /\ b = "allow" => s1 = "perm"
         /\ b = "again" => s1 = "hidden"
         /\ b = "answer" => s1 = "questions"
         /\ b = "resend" => s1 = "send" /\ s7.err
         /\ b \in {"join", "skip"} => s1 = "team"
         /\ b = "restart" => s1 = "result"
         /\ s2.visible
<1>1. s1 \in {"intro", "perm", "place", "measure", "hidden", "questions", "send", "team", "result"}
  BY DEF TestScreens
<1>2. b \in Ts!Offers(s1) /\ s2.visible
  BY DEF Ts!Pressed
<1>3. CASE s1 \in {"intro", "perm", "place", "measure", "hidden"}
  <2>1. Ts!Offers(s1) = Ts!RecordOffers[s1]
    BY <1>3 DEF Ts!Offers, Ts!RecordOffers
  <2>2. QED  BY <1>2, <1>3, <2>1 DEF Ts!RecordOffers
<1>4. CASE s1 \in {"questions", "send", "team", "result"}
  <2>1. Ts!Offers(s1) = Ts!SendOffers[s1]
    BY <1>4 DEF Ts!Offers, Ts!RecordOffers
  <2>2. QED  BY <1>2, <1>4, <2>1 DEF Ts!SendOffers
<1>5. QED  BY <1>1, <1>3, <1>4

LEMMA TestInit == Ts!Init => TestInv
<1> SUFFICES ASSUME Ts!Init PROVE TestInv
  OBVIOUS
<1> USE TestNumbers
<1>1. TestTypes
  <2>1. Ts!Idle \in TestListeners /\ Ts!Fresh \in TestSaid
    BY DEF Ts!Idle, Ts!Fresh, TestListeners, TestSaid
  <2>2. Ts!NoPost \in TestRequests
    BY DEF Ts!NoPost, TestRequests, TestIds
  <2>3. [tests |-> {}, volunteer |-> FALSE] \in TestStored
    BY DEF TestStored
  <2>4. [failed |-> {}, here |-> {}, abandoned |-> {}, refused |-> {}] \in TestHistory
    BY DEF TestHistory
  <2>5. s2 \in TestSensors
    BY DEF Ts!Init, TestSensors
  <2>6. {} \in Recordings /\ {} \in TestRetries /\ 0 \in TestIds /\ 0 \in TestTaps
    BY DEF Recordings, TestRetries, TestIds, TestTaps
  <2>7. [q \in Posts |-> Ts!NoPost] \in [Posts -> TestRequests]
    BY <2>2
  <2>8. QED  BY <2>1, <2>3, <2>4, <2>5, <2>6, <2>7 DEF Ts!Init, TestTypes, TestScreens
<1>2. RecordingKept
  BY DEF Ts!Init, RecordingKept, Ts!Idle, Ts!Whole
<1>3. SendsOne
  BY DEF Ts!Init, SendsOne, Ts!NoPost
<1>4. TestKept
  BY DEF Ts!Init, TestKept
<1>5. QED  BY <1>1, <1>2, <1>3, <1>4 DEF TestInv

\* It listens anew.
LEMMA TestListens ==
  ASSUME TestTypes
  PROVE  /\ [Ts!Idle EXCEPT !.on = TRUE, !.bumps = s4.bumps] \in TestListeners
         /\ [Ts!Idle EXCEPT !.on = TRUE, !.bumps = s4.bumps].on
         /\ [Ts!Idle EXCEPT !.on = TRUE, !.bumps = s4.bumps].measuring = FALSE
         /\ [Ts!Idle EXCEPT !.on = TRUE, !.bumps = s4.bumps].elapsed = 0
         /\ {} \in Recordings /\ 0 \in TestTaps
<1>1. {} \in Recordings /\ 0 \in TestTaps
  BY DEF Recordings, TestTaps
<1>2. s4.bumps \in 0..TestBumps /\ 0 \in 0..TestSeconds
  BY TestNumbers DEF TestTypes, TestListeners
<1>3. QED  BY <1>1, <1>2 DEF Ts!Idle, TestListeners

\* What sends nothing keeps what is sent.
LEMMA SendsStay ==
  ASSUME SendsOne, TestKept, UNCHANGED <<s6, s8, s9, s11, s12>>,
         s1 = "send" => s1' = "send" /\ s7' = s7,
         s1' = "send" => s1 = "send"
  PROVE  SendsOne' /\ TestKept'
<1>1. SendsOne'
  BY DEF SendsOne
<1>2. TestKept'
  BY DEF TestKept, Ts!UnderWay
<1>3. QED  BY <1>1, <1>2

\* What happens after the recording leaves it alone.
LEMMA RecordingStays ==
  ASSUME RecordingKept, UNCHANGED <<s2, s3, s4, s5>>,
         \/ s1' = s1
         \/ s1 \in {"questions", "send", "team", "result"} /\ s1' \in {"team", "result"}
         \/ s1 = "questions" /\ s1' = "send"
  PROVE  RecordingKept'
  BY DEF RecordingKept, Ts!Whole

LEMMA TestBegin == TestInv /\ Ts!Begin => TestInv'
<1> SUFFICES ASSUME TestInv, Ts!Begin PROVE TestInv'
  OBVIOUS
<1>1. TestTypes /\ RecordingKept /\ SendsOne /\ TestKept
  BY DEF TestInv
<1>2. s1 = "intro" /\ UNCHANGED <<s2, s3, s6, s8, s9, s10, s11, s12>> /\ s7' = [s7 EXCEPT !.err = FALSE]
  BY <1>1, TestOffers DEF Ts!Begin, TestTypes
<1>3. \/ s2.iphone /\ s1' = "perm" /\ UNCHANGED <<s4, s5>>
      \/ s1' = "place" /\ s5' = {} /\ s4' = [Ts!Idle EXCEPT !.on = TRUE, !.bumps = s4.bumps]
  BY DEF Ts!Begin, Ts!Listen
<1>4. SendsOne' /\ TestKept'
  BY <1>1, <1>2, <1>3, SendsStay
<1>5. [Ts!Idle EXCEPT !.on = TRUE, !.bumps = s4.bumps] \in TestListeners
  BY <1>1, TestListens
<1>6. [s7 EXCEPT !.err = FALSE] \in TestSaid
  BY <1>1 DEF TestTypes, TestSaid
<1>7. TestTypes'
  BY <1>1, <1>2, <1>3, <1>5, <1>6, TestListens DEF TestTypes, TestScreens
<1>8. RecordingKept'
  <2>1. ~s4.on /\ ~s4.measuring /\ s3 = 0
    BY <1>1, <1>2 DEF RecordingKept
  <2>2. CASE s2.iphone /\ s1' = "perm" /\ UNCHANGED <<s4, s5>>
    BY <1>2, <2>1, <2>2 DEF RecordingKept, Ts!Whole
  <2>3. CASE s1' = "place" /\ s5' = {} /\ s4' = [Ts!Idle EXCEPT !.on = TRUE, !.bumps = s4.bumps]
    <3>1. s4'.on /\ ~s4'.measuring /\ s4'.elapsed = 0
      BY <1>1, <2>3, TestListens
    <3>2. QED  BY <1>2, <2>1, <2>3, <3>1 DEF RecordingKept, Ts!Whole
  <2>4. QED  BY <1>3, <2>2, <2>3
<1>9. QED  BY <1>4, <1>7, <1>8 DEF TestInv

LEMMA TestAllow == TestInv /\ Ts!Allow => TestInv'
<1> SUFFICES ASSUME TestInv, Ts!Allow PROVE TestInv'
  OBVIOUS
<1>1. TestTypes /\ RecordingKept /\ SendsOne /\ TestKept
  BY DEF TestInv
<1>2. /\ s1 \in {"perm", "hidden"} /\ s2.iphone /\ s3 < 2 /\ s3' = s3 + 1
      /\ UNCHANGED <<s1, s2, s4, s5, s6, s7, s8, s9, s10, s11, s12>>
  <2>1. Ts!Pressed("allow") => s1 = "perm"
    BY <1>1, TestOffers DEF TestTypes
  <2>2. Ts!Pressed("again") => s1 = "hidden"
    BY <1>1, TestOffers DEF TestTypes
  <2>3. QED  BY <1>1, <2>1, <2>2 DEF Ts!Allow, Ts!Recording, RecordingKept
<1>3. SendsOne' /\ TestKept'
  BY <1>1, <1>2, SendsStay
<1>4. s3' \in TestTaps
  BY <1>1, <1>2 DEF TestTypes, TestTaps
<1>5. TestTypes'
  BY <1>1, <1>2, <1>4 DEF TestTypes
<1>6. RecordingKept'
  BY <1>1, <1>2 DEF RecordingKept, Ts!Whole
<1>7. QED  BY <1>3, <1>5, <1>6 DEF TestInv

LEMMA TestAllowed == ASSUME NEW granted \in BOOLEAN, TestInv, Ts!Allowed(granted) PROVE TestInv'
<1>1. TestTypes /\ RecordingKept /\ SendsOne /\ TestKept
  BY DEF TestInv
<1>2. s3 > 0 /\ s3' = 0 /\ UNCHANGED <<s2, s6, s8, s9, s10, s11, s12>>
  BY DEF Ts!Allowed
<1>3. s1 \in {"perm", "hidden"} /\ ~s4.on
  BY <1>1, <1>2 DEF RecordingKept
<1>4. \/ s1' = "place" /\ s5' = {} /\ s4' = [Ts!Idle EXCEPT !.on = TRUE, !.bumps = s4.bumps] /\ s7' = s7
      \/ s1' = "intro" /\ s7' = [s7 EXCEPT !.err = TRUE] /\ UNCHANGED <<s4, s5>>
  BY DEF Ts!Allowed, Ts!Listen
<1>5. SendsOne' /\ TestKept'
  BY <1>1, <1>2, <1>3, <1>4, SendsStay
<1>6. [Ts!Idle EXCEPT !.on = TRUE, !.bumps = s4.bumps] \in TestListeners
  BY <1>1, TestListens
<1>7. [s7 EXCEPT !.err = TRUE] \in TestSaid
  BY <1>1 DEF TestTypes, TestSaid
<1>8. TestTypes'
  BY <1>1, <1>2, <1>4, <1>6, <1>7, TestListens DEF TestTypes, TestScreens
<1>9. RecordingKept'
  <2>1. ~s4.measuring
    BY <1>1, <1>3 DEF RecordingKept
  <2>2. CASE s1' = "place" /\ s5' = {} /\ s4' = [Ts!Idle EXCEPT !.on = TRUE, !.bumps = s4.bumps]
    <3>1. s4'.on /\ ~s4'.measuring /\ s4'.elapsed = 0
      BY <1>1, <2>2, TestListens
    <3>2. QED  BY <1>2, <2>2, <3>1 DEF RecordingKept, Ts!Whole
  <2>3. CASE s1' = "intro" /\ UNCHANGED <<s4, s5>>
    BY <1>2, <1>3, <2>1, <2>3 DEF RecordingKept, Ts!Whole
  <2>4. QED  BY <1>4, <2>2, <2>3
<1>10. QED  BY <1>5, <1>8, <1>9 DEF TestInv

LEMMA TestAgain == TestInv /\ Ts!Again => TestInv'
<1> SUFFICES ASSUME TestInv, Ts!Again PROVE TestInv'
  OBVIOUS
<1>1. TestTypes /\ RecordingKept /\ SendsOne /\ TestKept
  BY DEF TestInv
<1>2. /\ ~s2.iphone /\ s1 = "hidden" /\ s1' = "place" /\ s5' = {}
      /\ s4' = [Ts!Idle EXCEPT !.on = TRUE, !.bumps = s4.bumps]
      /\ UNCHANGED <<s2, s3, s6, s7, s8, s9, s10, s11, s12>>
  BY <1>1, TestOffers DEF Ts!Again, Ts!Listen, Ts!Recording, TestTypes
<1>3. SendsOne' /\ TestKept'
  BY <1>1, <1>2, SendsStay
<1>4. [Ts!Idle EXCEPT !.on = TRUE, !.bumps = s4.bumps] \in TestListeners
  BY <1>1, TestListens
<1>5. TestTypes'
  BY <1>1, <1>2, <1>4, TestListens DEF TestTypes, TestScreens
<1>6. RecordingKept'
  BY <1>1, <1>2 DEF RecordingKept, Ts!Whole, Ts!Idle
<1>7. QED  BY <1>3, <1>5, <1>6 DEF TestInv

LEMMA TestSettle == ASSUME NEW starts \in BOOLEAN, TestInv, Ts!Settle(starts) PROVE TestInv'
<1>1. TestTypes /\ RecordingKept /\ SendsOne /\ TestKept
  BY DEF TestInv
<1>2. /\ s4.on /\ ~s4.measuring /\ UNCHANGED <<s2, s3, s5, s6, s7, s8, s9, s10, s11, s12>>
      /\ s1' \in {s1, "measure"}
  BY DEF Ts!Settle, Ts!Recording
<1>3. PICK reads \in BOOLEAN : reads = Ts!Reads /\ (reads => s2.works /\ s2.visible)
  BY <1>1 DEF Ts!Reads, TestTypes, TestSensors
<1>4. PICK got \in BOOLEAN, measuring \in BOOLEAN :
        /\ measuring => reads
        /\ s4' = [s4 EXCEPT !.got = got, !.measuring = measuring]
  BY <1>1, <1>3 DEF Ts!Settle, TestTypes, TestListeners
<1>5. s1 \in {"place", "measure"}
  BY <1>1, <1>2 DEF RecordingKept
<1>6. SendsOne' /\ TestKept'
  BY <1>1, <1>2, <1>5, SendsStay
<1>7. s4' \in TestListeners /\ s4'.on = s4.on /\ s4'.measuring = measuring /\ s4'.elapsed = s4.elapsed
  BY <1>1, <1>4 DEF TestListeners, TestTypes
<1>8. TestTypes'
  BY <1>1, <1>2, <1>7 DEF TestTypes, TestScreens
<1>9. RecordingKept'
  BY <1>1, <1>2, <1>3, <1>4, <1>5, <1>7 DEF RecordingKept, Ts!Whole
<1>10. QED  BY <1>6, <1>8, <1>9 DEF TestInv

LEMMA TestMeasure == ASSUME NEW bumped \in BOOLEAN, TestInv, Ts!Measure(bumped) PROVE TestInv'
<1> USE TestNumbers
<1>1. TestTypes /\ RecordingKept /\ SendsOne /\ TestKept
  BY DEF TestInv
<1>2. s4.measuring /\ s4.elapsed < TestSeconds /\ UNCHANGED <<s1, s2, s3, s6, s7, s8, s9, s10, s11, s12>>
  BY DEF Ts!Measure, Ts!Recording
<1>3. s4.on /\ s1 \in {"place", "measure"} /\ s5 = 0..(s4.elapsed - 1) /\ Ts!Reads
  BY <1>1, <1>2 DEF RecordingKept, Ts!Reads
<1>4. PICK e \in Nat, b \in Nat : e = s4.elapsed /\ b = s4.bumps /\ e <= TestSeconds /\ b <= TestBumps
  BY <1>1 DEF TestTypes, TestListeners
<1>5. SendsOne' /\ TestKept'
  BY <1>1, <1>2, SendsStay
<1>6. \/ b < TestBumps /\ s4' = [s4 EXCEPT !.elapsed = 0, !.bumps = b + 1] /\ s5' = {}
      \/ s4' = [s4 EXCEPT !.elapsed = e + 1] /\ s5' = s5 \cup {e}
  BY <1>3, <1>4 DEF Ts!Measure
<1>7. CASE b < TestBumps /\ s4' = [s4 EXCEPT !.elapsed = 0, !.bumps = b + 1] /\ s5' = {}
  <2>1. b + 1 \in 0..TestBumps /\ 0 \in 0..TestSeconds
    BY <1>4, <1>7
  <2>2. s4' \in TestListeners /\ s4'.on /\ s4'.measuring /\ s4'.elapsed = 0
    BY <1>1, <1>2, <1>3, <1>7, <2>1 DEF TestTypes, TestListeners
  <2>3. TestTypes'
    BY <1>1, <1>2, <1>7, <2>2, TestListens DEF TestTypes
  <2>4. RecordingKept'
    BY <1>1, <1>2, <1>3, <1>7, <2>2 DEF RecordingKept, Ts!Whole
  <2>5. QED  BY <1>5, <2>3, <2>4 DEF TestInv
<1>8. CASE s4' = [s4 EXCEPT !.elapsed = e + 1] /\ s5' = s5 \cup {e}
  <2>1. e + 1 \in 0..TestSeconds /\ e < TestSeconds
    BY <1>2, <1>4
  <2>2. s4' \in TestListeners /\ s4'.on /\ s4'.measuring /\ s4'.elapsed = e + 1
    BY <1>1, <1>2, <1>3, <1>8, <2>1 DEF TestTypes, TestListeners
  <2>3. s5' = 0..((e + 1) - 1) /\ s5' \in Recordings
    <3>1. s5' = 0..((e + 1) - 1) /\ s5' \subseteq 0..(TestSeconds - 1)
      BY <1>3, <1>4, <1>8, <2>1
    <3>2. QED  BY <3>1 DEF Recordings
  <2>4. TestTypes'
    BY <1>1, <1>2, <2>2, <2>3 DEF TestTypes
  <2>5. RecordingKept'
    BY <1>1, <1>2, <1>3, <2>2, <2>3 DEF RecordingKept, Ts!Whole
  <2>6. QED  BY <1>5, <2>4, <2>5 DEF TestInv
<1>9. QED  BY <1>6, <1>7, <1>8

\* It stops listening.
LEMMA TestStops ==
  ASSUME TestTypes, Ts!Stop
  PROVE  s4' \in TestListeners /\ ~s4'.on /\ ~s4'.measuring
<1>1. s4.bumps \in 0..TestBumps /\ 0 \in 0..TestSeconds
  BY TestNumbers DEF TestTypes, TestListeners
<1>2. QED  BY <1>1 DEF Ts!Stop, Ts!Idle, TestListeners

LEMMA TestComplete == TestInv /\ Ts!Complete => TestInv'
<1> SUFFICES ASSUME TestInv, Ts!Complete PROVE TestInv'
  OBVIOUS
<1>1. TestTypes /\ RecordingKept /\ SendsOne /\ TestKept
  BY DEF TestInv
<1>2. /\ s4.measuring /\ s4.elapsed = TestSeconds /\ Ts!Stop /\ s1' = "questions"
      /\ UNCHANGED <<s2, s3, s5, s6, s7, s8, s9, s10, s11, s12>>
  BY DEF Ts!Complete, Ts!Recording
<1>3. s1 \in {"place", "measure"} /\ s5 = 0..(TestSeconds - 1)
  BY <1>1, <1>2 DEF RecordingKept
<1>4. SendsOne' /\ TestKept'
  BY <1>1, <1>2, <1>3, SendsStay
<1>5. s4' \in TestListeners /\ ~s4'.on /\ ~s4'.measuring
  BY <1>1, <1>2, TestStops
<1>6. TestTypes'
  BY <1>1, <1>2, <1>5 DEF TestTypes, TestScreens
<1>7. RecordingKept'
  BY <1>1, <1>2, <1>3, <1>5 DEF RecordingKept, Ts!Whole
<1>8. QED  BY <1>4, <1>6, <1>7 DEF TestInv

LEMMA TestNoData == TestInv /\ Ts!NoData => TestInv'
<1> SUFFICES ASSUME TestInv, Ts!NoData PROVE TestInv'
  OBVIOUS
<1>1. TestTypes /\ RecordingKept /\ SendsOne /\ TestKept
  BY DEF TestInv
<1>2. /\ s4.on /\ Ts!Stop /\ s1' = "intro" /\ s7' = [s7 EXCEPT !.err = TRUE]
      /\ UNCHANGED <<s2, s3, s5, s6, s8, s9, s10, s11, s12>>
  BY DEF Ts!NoData
<1>3. s1 \in {"place", "measure"}
  BY <1>1, <1>2 DEF RecordingKept
<1>4. SendsOne' /\ TestKept'
  BY <1>1, <1>2, <1>3, SendsStay
<1>5. s4' \in TestListeners /\ ~s4'.on /\ ~s4'.measuring
  BY <1>1, <1>2, TestStops
<1>6. s7' \in TestSaid
  BY <1>1, <1>2 DEF TestTypes, TestSaid
<1>7. TestTypes'
  BY <1>1, <1>2, <1>5, <1>6 DEF TestTypes, TestScreens
<1>8. RecordingKept'
  BY <1>1, <1>2, <1>3, <1>5 DEF RecordingKept, Ts!Whole
<1>9. QED  BY <1>4, <1>7, <1>8 DEF TestInv

LEMMA TestHide == TestInv /\ Ts!Hide => TestInv'
<1> SUFFICES ASSUME TestInv, Ts!Hide PROVE TestInv'
  OBVIOUS
<1>1. TestTypes /\ RecordingKept /\ SendsOne /\ TestKept
  BY DEF TestInv
<1>2. /\ s2' = [s2 EXCEPT !.visible = FALSE] /\ UNCHANGED <<s3, s5, s6, s7, s8, s9, s10, s11, s12>>
      /\ \/ s4.on /\ Ts!Stop /\ s1' = "hidden"
         \/ ~s4.on /\ UNCHANGED <<s1, s4>>
  BY DEF Ts!Hide, Ts!OnHidden, Ts!Recording
<1>3. s2' \in TestSensors /\ s2'.iphone = s2.iphone
  BY <1>1, <1>2 DEF TestTypes, TestSensors
<1>4. CASE s4.on /\ Ts!Stop /\ s1' = "hidden"
  <2>1. s1 \in {"place", "measure"}
    BY <1>1, <1>4 DEF RecordingKept
  <2>2. SendsOne' /\ TestKept'
    BY <1>1, <1>2, <2>1, SendsStay
  <2>3. s4' \in TestListeners /\ ~s4'.on /\ ~s4'.measuring
    BY <1>1, <1>4, TestStops
  <2>4. TestTypes'
    BY <1>1, <1>2, <1>3, <1>4, <2>3 DEF TestTypes, TestScreens
  <2>5. RecordingKept'
    BY <1>1, <1>2, <1>3, <1>4, <2>1, <2>3 DEF RecordingKept, Ts!Whole
  <2>6. QED  BY <2>2, <2>4, <2>5 DEF TestInv
<1>5. CASE ~s4.on /\ UNCHANGED <<s1, s4>>
  <2>1. SendsOne' /\ TestKept'
    BY <1>1, <1>2, <1>5, SendsStay
  <2>2. TestTypes'
    BY <1>1, <1>2, <1>3, <1>5 DEF TestTypes
  <2>3. RecordingKept'
    BY <1>1, <1>2, <1>3, <1>5 DEF RecordingKept, Ts!Whole
  <2>4. QED  BY <2>1, <2>2, <2>3 DEF TestInv
<1>6. QED  BY <1>2, <1>4, <1>5

LEMMA TestShow == TestInv /\ Ts!Show => TestInv'
<1> SUFFICES ASSUME TestInv, Ts!Show PROVE TestInv'
  OBVIOUS
<1>1. TestTypes /\ RecordingKept /\ SendsOne /\ TestKept
  BY DEF TestInv
<1>2. s2' = [s2 EXCEPT !.visible = TRUE] /\ UNCHANGED <<s1, s3, s4, s5, s6, s7, s8, s9, s10, s11, s12>>
  BY DEF Ts!Show, Ts!Recording
<1>3. s2' \in TestSensors /\ s2'.iphone = s2.iphone /\ s2'.works = s2.works /\ s2'.visible
  BY <1>1, <1>2 DEF TestTypes, TestSensors
<1>4. SendsOne' /\ TestKept'
  BY <1>1, <1>2, SendsStay
<1>5. TestTypes'
  BY <1>1, <1>2, <1>3 DEF TestTypes
<1>6. RecordingKept'
  BY <1>1, <1>2, <1>3 DEF RecordingKept, Ts!Whole
<1>7. QED  BY <1>4, <1>5, <1>6 DEF TestInv

\* The screens at the end.
LEMMA TestEnds ==
  ASSUME TestInv, \/ Ts!SkipTeam
                  \/ \E ok \in BOOLEAN : Ts!JoinTeam(ok)
                  \/ Ts!Restart
  PROVE  TestInv'
<1>1. TestTypes /\ RecordingKept /\ SendsOne /\ TestKept
  BY DEF TestInv
<1>2. CASE Ts!SkipTeam
  <2>1. s1 = "team" /\ s1' = "result" /\ UNCHANGED <<s2, s3, s4, s5, s6, s7, s8, s9, s10, s11, s12>>
    BY <1>1, <1>2, TestOffers DEF Ts!SkipTeam, Ts!Recording, TestTypes
  <2>2. SendsOne' /\ TestKept' /\ RecordingKept'
    BY <1>1, <2>1, SendsStay, RecordingStays
  <2>3. TestTypes'
    BY <1>1, <2>1 DEF TestTypes, TestScreens
  <2>4. QED  BY <2>2, <2>3 DEF TestInv
<1>3. ASSUME NEW ok \in BOOLEAN, Ts!JoinTeam(ok) PROVE TestInv'
  <2>1. /\ s1 = "team" /\ s1' \in {"team", "result"} /\ s7' \in {s7, [s7 EXCEPT !.joined = TRUE]}
        /\ s11' \in {s11, [s11 EXCEPT !.volunteer = TRUE]}
        /\ UNCHANGED <<s2, s3, s4, s5, s6, s8, s9, s10, s12>>
    BY <1>1, <1>3, TestOffers DEF Ts!JoinTeam, Ts!TakeVolunteer, Ts!SaveVolunteer, TestTypes
  <2>2. s7' \in TestSaid
    BY <1>1, <2>1 DEF TestTypes, TestSaid
  <2>3. s11' \in TestStored /\ s11'.tests = s11.tests
    BY <1>1, <2>1 DEF TestTypes, TestStored
  <2>4. RecordingKept'
    BY <1>1, <2>1, RecordingStays
  <2>5. TestTypes'
    BY <1>1, <2>1, <2>2, <2>3 DEF TestTypes, TestScreens
  <2>6. SendsOne'
    BY <1>1, <2>1, <2>3 DEF SendsOne
  <2>7. TestKept'
    BY <1>1, <2>1, <2>3 DEF TestKept, Ts!UnderWay
  <2>8. QED  BY <2>4, <2>5, <2>6, <2>7 DEF TestInv
<1>4. CASE Ts!Restart
  <2>1. /\ s1 = "result" /\ s1' = "intro" /\ s4' = Ts!Idle /\ s7' = [s7 EXCEPT !.team = FALSE]
        /\ UNCHANGED <<s2, s3, s5, s6, s8, s9, s10, s11, s12>>
    BY <1>1, <1>4, TestOffers DEF Ts!Restart, TestTypes
  <2>2. SendsOne' /\ TestKept'
    BY <1>1, <2>1, SendsStay
  <2>3. s4' \in TestListeners /\ ~s4'.on /\ ~s4'.measuring
    BY <2>1, TestNumbers DEF Ts!Idle, TestListeners
  <2>4. s7' \in TestSaid
    BY <1>1, <2>1 DEF TestTypes, TestSaid
  <2>5. TestTypes'
    BY <1>1, <2>1, <2>3, <2>4 DEF TestTypes, TestScreens
  <2>6. RecordingKept'
    BY <1>1, <2>1, <2>3 DEF RecordingKept, Ts!Whole
  <2>7. QED  BY <2>2, <2>5, <2>6 DEF TestInv
<1>5. QED  BY <1>2, <1>3, <1>4

-----------------------------------------------------------------------------
(* What is sent.                                                           *)

LEMMA TestPost ==
  ASSUME TestTypes, NEW t \in Tests, NEW by \in {"send", "flush"}, NEW every \in TestIds, Ts!Post(t, by, every)
  PROVE  \E q \in Posts :
           /\ s8[q] = Ts!NoPost /\ s8' \in [Posts -> TestRequests]
           /\ s8'[q].test = t /\ s8'[q].by = by /\ ~s8'[q].done
           /\ \A p \in Posts : p # q => s8'[p] = s8[p]
<1>1. PICK q \in Posts : s8[q] = Ts!NoPost /\ s8' = [s8 EXCEPT ![q].test = t, ![q].by = by, ![q].every = every]
  BY DEF Ts!Post
<1>2. PICK r : r = [s8[q] EXCEPT !.test = t, !.by = by, !.every = every]
  OBVIOUS
<1>3. s8 \in [Posts -> TestRequests]
  BY DEF TestTypes
<1>4. t \in TestIds
  BY DEF TestIds
<1>5. r = [test |-> t, by |-> by, every |-> every, at |-> "site", done |-> FALSE]
  <2>1. r = [Ts!NoPost EXCEPT !.test = t, !.by = by, !.every = every]
    BY <1>1, <1>2
  <2>2. QED  BY <2>1 DEF Ts!NoPost
<1>6. r \in TestRequests /\ r.test = t /\ r.by = by /\ ~r.done
  BY <1>4, <1>5 DEF TestRequests
<1>7. s8' = [s8 EXCEPT ![q] = r]
  BY <1>1, <1>2, <1>3
<1>8. s8' \in [Posts -> TestRequests] /\ s8'[q] = r /\ \A p \in Posts : p # q => s8'[p] = s8[p]
  BY <1>3, <1>6, <1>7
<1>9. s8'[q].test = t /\ s8'[q].by = by /\ ~s8'[q].done
  BY <1>6, <1>8
<1>10. s8[q] = Ts!NoPost
  BY <1>1
<1>11. QED
  <2> WITNESS q \in Posts
  <2>1. QED  BY <1>8, <1>9, <1>10

LEMMA TestDone ==
  ASSUME TestTypes, NEW q \in Posts, Ts!Done(q)
  PROVE  /\ s8' \in [Posts -> TestRequests] /\ s8'[q] = Ts!NoPost
         /\ \A p \in Posts : p # q => s8'[p] = s8[p]
<1>1. Ts!NoPost \in TestRequests
  BY DEF Ts!NoPost, TestRequests, TestIds
<1>2. QED  BY <1>1 DEF Ts!Done, TestTypes

\* A request that is added leaves the others under way.
LEMMA AddedKeeps ==
  ASSUME NEW q \in Posts, s8[q] = Ts!NoPost, \A p \in Posts : p # q => s8'[p] = s8[p]
  PROVE  \A t : t # 0 /\ Ts!UnderWay(t) => Ts!UnderWay(t)'
  BY DEF Ts!UnderWay, Ts!NoPost

\* One that ends, those about other tests.
LEMMA EndedKeeps ==
  ASSUME NEW q \in Posts, \A p \in Posts : p # q => s8'[p] = s8[p]
  PROVE  \A t : t # s8[q].test /\ Ts!UnderWay(t) => Ts!UnderWay(t)'
  BY DEF Ts!UnderWay

LEMMA TestAnswer == ASSUME NEW overnight \in BOOLEAN, TestInv, Ts!Answer(overnight) PROVE TestInv'
<1>1. TestTypes /\ RecordingKept /\ SendsOne /\ TestKept
  BY DEF TestInv
<1>2. /\ s1 = "questions" /\ s1' = "send" /\ s6 < Cardinality(Tests) /\ s6' = s6 + 1
      /\ s7' = [s7 EXCEPT !.team = overnight, !.err = FALSE] /\ Ts!Post(s6', "send", 0)
      /\ UNCHANGED <<s2, s3, s4, s5, s9, s10, s11, s12>>
  BY <1>1, TestOffers, TestNumbers DEF Ts!Answer, TestTypes
<1>3. s6 \in Nat /\ s6' \in Tests /\ s6' \in TestIds /\ 0 \in TestIds /\ s6' # 0
  BY <1>1, <1>2, TestNumbers DEF TestTypes, TestIds
<1>4. PICK t \in Tests : t = s6'
  BY <1>3
<1>5. PICK q \in Posts : /\ s8[q] = Ts!NoPost /\ s8' \in [Posts -> TestRequests]
                         /\ s8'[q].test = t /\ s8'[q].by = "send" /\ ~s8'[q].done
                         /\ \A p \in Posts : p # q => s8'[p] = s8[p]
  BY <1>1, <1>2, <1>3, <1>4, TestPost
<1>6. s7' \in TestSaid /\ ~s7'.err
  BY <1>1, <1>2 DEF TestTypes, TestSaid
<1>7. TestTypes'
  BY <1>1, <1>2, <1>3, <1>5, <1>6 DEF TestTypes, TestScreens
<1>8. RecordingKept'
  BY <1>1, <1>2, RecordingStays
<1>9. \A p \in Posts : s8[p].by # "send"
  BY <1>1, <1>2 DEF SendsOne
<1>10. SendsOne'
  BY <1>1, <1>2, <1>3, <1>4, <1>5, <1>6, <1>9 DEF SendsOne
<1>11. TestKept'
  <2>1. \A x : x # 0 /\ Ts!UnderWay(x) => Ts!UnderWay(x)'
    BY <1>5, AddedKeeps
  <2>2. Ts!UnderWay(t)'
    BY <1>5 DEF Ts!UnderWay
  <2>3. \A x \in 1..s6' : x # 0 /\ (x \in 1..s6 \/ x = t)
    BY <1>2, <1>3, <1>4
  <2>4. QED  BY <1>1, <1>2, <2>1, <2>2, <2>3 DEF TestKept
<1>12. QED  BY <1>7, <1>8, <1>10, <1>11 DEF TestInv

LEMMA TestResend == TestInv /\ Ts!Resend => TestInv'
<1> SUFFICES ASSUME TestInv, Ts!Resend PROVE TestInv'
  OBVIOUS
<1>1. TestTypes /\ RecordingKept /\ SendsOne /\ TestKept
  BY DEF TestInv
<1>2. /\ s1 = "send" /\ s7.err /\ s7' = [s7 EXCEPT !.err = FALSE] /\ Ts!Post(s6, "send", 0)
      /\ UNCHANGED <<s1, s2, s3, s4, s5, s6, s9, s10, s11, s12>>
  BY <1>1, TestOffers DEF Ts!Resend, TestTypes
<1>3. s6 \in Tests /\ 0 \in TestIds /\ s6 # 0
  BY <1>1, <1>2 DEF TestTypes, TestIds, SendsOne
<1>4. PICK q \in Posts : /\ s8[q] = Ts!NoPost /\ s8' \in [Posts -> TestRequests]
                         /\ s8'[q].test = s6 /\ s8'[q].by = "send" /\ ~s8'[q].done
                         /\ \A p \in Posts : p # q => s8'[p] = s8[p]
  BY <1>1, <1>2, <1>3, TestPost
<1>5. s7' \in TestSaid /\ ~s7'.err
  BY <1>1, <1>2 DEF TestTypes, TestSaid
<1>6. TestTypes'
  BY <1>1, <1>2, <1>4, <1>5 DEF TestTypes
<1>7. RecordingKept'
  BY <1>1, <1>2, RecordingStays
<1>8. \A p \in Posts : s8[p].by # "send"
  BY <1>1, <1>2 DEF SendsOne
<1>9. SendsOne'
  BY <1>1, <1>2, <1>3, <1>4, <1>5, <1>8 DEF SendsOne
<1>10. TestKept'
  <2>1. \A x : x # 0 /\ Ts!UnderWay(x) => Ts!UnderWay(x)'
    BY <1>4, AddedKeeps
  <2>2. \A x \in 1..s6 : x # 0
    OBVIOUS
  <2>3. QED  BY <1>1, <1>2, <2>1, <2>2 DEF TestKept
<1>11. QED  BY <1>6, <1>7, <1>9, <1>10 DEF TestInv

LEMMA TestRetry == ASSUME NEW r \in Tests, TestInv, Ts!RetryRuns(r) PROVE TestInv'
<1>1. TestTypes /\ RecordingKept /\ SendsOne /\ TestKept
  BY DEF TestInv
<1>2. s9 # 0 /\ Ts!Post(s9, "flush", r) /\ UNCHANGED <<s1, s2, s3, s4, s5, s6, s7, s9, s10, s11, s12>>
  BY DEF Ts!RetryRuns
<1>3. s9 \in Tests /\ r \in TestIds /\ s9 \in s12.failed
  BY <1>1, <1>2 DEF TestTypes, TestIds, SendsOne
<1>4. PICK q \in Posts : /\ s8[q] = Ts!NoPost /\ s8' \in [Posts -> TestRequests]
                         /\ s8'[q].test = s9 /\ s8'[q].by = "flush" /\ ~s8'[q].done
                         /\ \A p \in Posts : p # q => s8'[p] = s8[p]
  BY <1>1, <1>2, <1>3, TestPost
<1>5. TestTypes'
  BY <1>1, <1>2, <1>4 DEF TestTypes
<1>6. RecordingKept'
  BY <1>1, <1>2, RecordingStays
<1>7. SendsOne'
  BY <1>1, <1>2, <1>3, <1>4 DEF SendsOne
<1>8. TestKept'
  <2>1. \A x : x # 0 /\ Ts!UnderWay(x) => Ts!UnderWay(x)'
    BY <1>4, AddedKeeps
  <2>2. \A x \in 1..s6 : x # 0
    OBVIOUS
  <2>3. QED  BY <1>1, <1>2, <2>1, <2>2 DEF TestKept
<1>9. QED  BY <1>5, <1>6, <1>7, <1>8 DEF TestInv

LEMMA TestIsStored == ASSUME NEW q \in Posts, TestInv, Ts!Stored(q) PROVE TestInv'
<1>1. TestTypes /\ RecordingKept /\ SendsOne /\ TestKept
  BY DEF TestInv
<1>2. PICK t \in TestIds : t = s8[q].test
  BY <1>1 DEF TestTypes, TestRequests
<1>3. /\ t # 0 /\ s8' = [s8 EXCEPT ![q].done = TRUE]
      /\ s11' = [s11 EXCEPT !.tests = @ \cup {t}]
      /\ UNCHANGED <<s1, s2, s3, s4, s5, s6, s7, s9, s10, s12>>
  BY <1>2 DEF Ts!Stored, Ts!SaveSurvey
<1>4. t \in Tests
  BY <1>2, <1>3 DEF TestIds
<1>5. s11' \in TestStored /\ s11'.tests = s11.tests \cup {t}
  BY <1>1, <1>3, <1>4 DEF TestTypes, TestStored
<1>6. /\ s8' \in [Posts -> TestRequests] /\ s8'[q].test = t /\ s8'[q].by = s8[q].by
      /\ \A p \in Posts : p # q => s8'[p] = s8[p]
  BY <1>1, <1>2, <1>3 DEF TestTypes, TestRequests
<1>7. TestTypes'
  BY <1>1, <1>3, <1>5, <1>6 DEF TestTypes
<1>8. RecordingKept'
  BY <1>1, <1>3, RecordingStays
<1>9. SendsOne'
  BY <1>1, <1>2, <1>3, <1>5, <1>6 DEF SendsOne
<1>10. TestKept'
  <2>1. \A x : x # s8[q].test /\ Ts!UnderWay(x) => Ts!UnderWay(x)'
    BY <1>6, EndedKeeps
  <2>2. QED  BY <1>1, <1>2, <1>3, <1>5, <2>1 DEF TestKept
<1>11. QED  BY <1>7, <1>8, <1>9, <1>10 DEF TestInv

\* While one test failed at most, what was sent again is what waits.
LEMMA SentAgain ==
  ASSUME SendsOne, AtMostOne(s12.failed), NEW q \in Posts, s8[q].by = "flush", s9 # 0
  PROVE  s9 = s8[q].test
  BY DEF SendsOne, AtMostOne

LEMMA TestAnswered == ASSUME NEW q \in Posts, TestInv, Ts!Answered(q) PROVE TestInv'
<1>1. TestTypes /\ RecordingKept /\ SendsOne /\ TestKept
  BY DEF TestInv
<1>2. PICK t \in TestIds : t = s8[q].test
  BY <1>1 DEF TestTypes, TestRequests
<1>3. s8[q].done /\ Ts!Done(q) /\ UNCHANGED <<s2, s3, s4, s5, s6, s11, s12>>
  BY DEF Ts!Answered
<1>4. t \in s11.tests /\ t \in Tests /\ t # 0
  BY <1>1, <1>2, <1>3, TestNumbers DEF SendsOne, TestTypes, TestStored
<1>5. s8' \in [Posts -> TestRequests] /\ s8'[q] = Ts!NoPost /\ \A p \in Posts : p # q => s8'[p] = s8[p]
  BY <1>1, <1>3, TestDone
<1>6. \A x : x # t /\ Ts!UnderWay(x) => Ts!UnderWay(x)'
  BY <1>2, <1>5, EndedKeeps
<1>7. CASE s8[q].by = "flush"
  <2>1. s9' = 0 /\ s10' = s10 \ {s8[q].every} /\ UNCHANGED <<s1, s7>>
    BY <1>2, <1>4, <1>7 DEF Ts!Answered, Ts!Flushed
  <2>2. s10' \in TestRetries /\ 0 \in TestIds
    BY <1>1, <2>1 DEF TestTypes, TestRetries, TestIds
  <2>3. TestTypes'
    BY <1>1, <1>3, <1>5, <2>1, <2>2 DEF TestTypes
  <2>4. RecordingKept'
    BY <1>1, <1>3, <2>1, RecordingStays
  <2>5. SendsOne'
    BY <1>1, <1>3, <1>5, <2>1 DEF SendsOne, Ts!NoPost
  <2>6. TestKept'
    <3>1. ASSUME AtMostOne(s12.failed), s9 # 0 PROVE s9 = t
      BY <1>1, <1>2, <1>7, <3>1, SentAgain
    <3>2. QED  BY <1>1, <1>3, <1>4, <1>6, <2>1, <3>1 DEF TestKept
  <2>7. QED  BY <2>3, <2>4, <2>5, <2>6 DEF TestInv
<1>8. CASE s8[q].by = "send"
  <2>1. s1 = "send" /\ \A p \in Posts : p # q => s8[p].by # "send"
    BY <1>1, <1>8 DEF SendsOne
  <2>2. /\ UNCHANGED <<s9, s10>>
        /\ \/ s1' \in {"team", "result"} /\ UNCHANGED s7
           \/ s7' = [s7 EXCEPT !.err = TRUE] /\ UNCHANGED s1
    BY <1>8 DEF Ts!Answered, Ts!After
  <2>3. s7' \in TestSaid
    BY <1>1, <2>2 DEF TestTypes, TestSaid
  <2>4. TestTypes'
    BY <1>1, <1>3, <1>5, <2>1, <2>2, <2>3 DEF TestTypes, TestScreens
  <2>5. RecordingKept'
    BY <1>1, <1>3, <2>1, <2>2, RecordingStays
  <2>6. SendsOne'
    BY <1>1, <1>3, <1>5, <2>1, <2>2 DEF SendsOne, Ts!NoPost
  <2>7. TestKept'
    BY <1>1, <1>3, <1>4, <1>6, <2>2 DEF TestKept
  <2>8. QED  BY <2>4, <2>5, <2>6, <2>7 DEF TestInv
<1>9. s8[q].by \in {"flush", "send"}
  BY <1>1, <1>2, <1>4 DEF SendsOne, TestTypes, TestRequests
<1>10. QED  BY <1>7, <1>8, <1>9

LEMMA TestGivenUp ==
  ASSUME NEW q \in Posts, NEW refused \in BOOLEAN, TestInv, Ts!GivenUp(q, refused), s8[q].test # 0,
         refused => s8[q].test \in s12.refused \/ s8[q].by = "send",
         UNCHANGED <<s2, s3, s4, s5, s6, s7, s11>>
  PROVE  TestInv'
<1>1. TestTypes /\ RecordingKept /\ SendsOne /\ TestKept
  BY DEF TestInv
<1>2. PICK t \in TestIds : t = s8[q].test
  BY <1>1 DEF TestTypes, TestRequests
<1>3. t \in Tests /\ t # 0
  BY <1>2 DEF TestIds
<1>4. s8' \in [Posts -> TestRequests] /\ s8'[q] = Ts!NoPost /\ \A p \in Posts : p # q => s8'[p] = s8[p]
  BY <1>1, TestDone DEF Ts!GivenUp
<1>5. \A x : x # t /\ Ts!UnderWay(x) => Ts!UnderWay(x)'
  BY <1>2, <1>4, EndedKeeps
<1>6. CASE s8[q].by = "send"
  <2>1. s1 = "send" /\ \A p \in Posts : p # q => s8[p].by # "send"
    BY <1>1, <1>6 DEF SendsOne
  <2>2. s9' = t /\ s10' = s10 \cup {t} /\ s1' \in {"team", "result"}
    BY <1>2, <1>6 DEF Ts!GivenUp, Ts!KeepPending, Ts!After
  <2>3. s12' = [s12 EXCEPT !.failed = @ \cup {t}, !.here = @ \cup {t},
                           !.refused = IF refused THEN @ \cup {t} ELSE @]
    BY <1>2, <1>6 DEF Ts!GivenUp
  <2>4. /\ s12' \in TestHistory /\ s12'.failed = s12.failed \cup {t} /\ s12'.abandoned = s12.abandoned
        /\ s12.refused \subseteq s12'.refused
    BY <1>1, <1>3, <2>3 DEF TestTypes, TestHistory
  <2>5. s10' \in TestRetries
    BY <1>1, <1>3, <2>2 DEF TestTypes, TestRetries
  <2>6. TestTypes'
    BY <1>1, <1>2, <1>4, <2>2, <2>4, <2>5 DEF TestTypes, TestScreens
  <2>7. RecordingKept'
    BY <1>1, <2>1, <2>2, RecordingStays
  <2>8. SendsOne'
    BY <1>1, <1>4, <2>1, <2>2, <2>4 DEF SendsOne, Ts!NoPost
  <2>9. TestKept'
    <3>1. SUFFICES ASSUME AtMostOne(s12'.failed) PROVE
            /\ \A x \in s12'.failed : x = s9' \/ x \in s11'.tests \cup s12'.refused
            /\ \A x \in 1..s6' : \/ x \in s11'.tests \cup s12'.abandoned \cup s12'.refused
                                 \/ Ts!UnderWay(x)' \/ s9' = x
      BY DEF TestKept
    <3>2. AtMostOne(s12.failed) /\ \A x \in s12'.failed : x = t
      BY <2>4, <3>1 DEF AtMostOne
    <3>3. s9 \in {0, t}
      BY <1>1, <2>4, <3>2 DEF SendsOne
    <3>4. \A x \in 1..s6 : x # 0
      OBVIOUS
    <3>5. QED  BY <1>1, <1>5, <2>2, <2>4, <3>2, <3>3, <3>4 DEF TestKept
  <2>10. QED  BY <2>6, <2>7, <2>8, <2>9 DEF TestInv
<1>7. CASE s8[q].by = "flush"
  <2>1. s9' = (IF refused THEN 0 ELSE s9) /\ UNCHANGED <<s1, s10, s12>>
    BY <1>2, <1>3, <1>7 DEF Ts!GivenUp, Ts!Flushed
  <2>2. s9' \in TestIds
    BY <1>1, <2>1 DEF TestTypes, TestIds
  <2>3. TestTypes'
    BY <1>1, <1>4, <2>1, <2>2 DEF TestTypes
  <2>4. RecordingKept'
    BY <1>1, <2>1, RecordingStays
  <2>5. SendsOne'
    BY <1>1, <1>4, <2>1 DEF SendsOne, Ts!NoPost
  <2>6. TestKept'
    <3>1. t \in s12.failed /\ (refused => t \in s12.refused)
      BY <1>1, <1>2, <1>7 DEF SendsOne
    <3>2. ASSUME AtMostOne(s12.failed), s9 # 0 PROVE s9 = t
      BY <1>1, <1>2, <1>7, <3>2, SentAgain
    <3>3. CASE refused
      BY <1>1, <1>5, <2>1, <3>1, <3>2, <3>3 DEF TestKept
    <3>4. CASE ~refused
      BY <1>1, <1>5, <2>1, <3>1, <3>2, <3>4 DEF TestKept
    <3>5. QED  BY <3>3, <3>4
  <2>7. QED  BY <2>3, <2>4, <2>5, <2>6 DEF TestInv
<1>8. s8[q].by \in {"flush", "send"}
  BY <1>1, <1>2, <1>3 DEF SendsOne, TestTypes, TestRequests
<1>9. QED  BY <1>6, <1>7, <1>8

LEMMA TestPostFails == ASSUME NEW q \in Posts, TestInv, Ts!PostFails(q) PROVE TestInv'
<1>1. TestTypes /\ RecordingKept /\ SendsOne /\ TestKept
  BY DEF TestInv
<1>2. s8[q].test # 0 /\ UNCHANGED <<s2, s3, s4, s5, s6, s7, s11>>
  BY DEF Ts!PostFails
<1>3. CASE s8[q].at = "site"
  <2>1. s8' = [s8 EXCEPT ![q].at = "network", ![q].done = FALSE] /\ UNCHANGED <<s1, s9, s10, s12>>
    BY <1>3 DEF Ts!PostFails
  <2>2. /\ s8' \in [Posts -> TestRequests] /\ s8'[q].test = s8[q].test /\ s8'[q].by = s8[q].by /\ ~s8'[q].done
        /\ \A p \in Posts : p # q => s8'[p] = s8[p]
    BY <1>1, <2>1 DEF TestTypes, TestRequests
  <2>3. TestTypes'
    BY <1>1, <1>2, <2>1, <2>2 DEF TestTypes
  <2>4. RecordingKept'
    BY <1>1, <1>2, <2>1, RecordingStays
  <2>5. SendsOne'
    BY <1>1, <1>2, <2>1, <2>2 DEF SendsOne
  <2>6. \A x : Ts!UnderWay(x) => Ts!UnderWay(x)'
    BY <2>2 DEF Ts!UnderWay
  <2>7. TestKept'
    BY <1>1, <1>2, <2>1, <2>6 DEF TestKept
  <2>8. QED  BY <2>3, <2>4, <2>5, <2>7 DEF TestInv
<1>4. CASE s8[q].at # "site"
  BY <1>2, <1>4, TestGivenUp DEF Ts!PostFails
<1>5. QED  BY <1>3, <1>4

LEMMA TestRefused == ASSUME NEW q \in Posts, TestInv, Ts!Refused(q) PROVE TestInv'
  BY TestGivenUp DEF Ts!Refused

LEMMA TestReload == TestInv /\ Ts!Reload => TestInv'
<1> SUFFICES ASSUME TestInv, Ts!Reload PROVE TestInv'
  OBVIOUS
<1>1. TestTypes /\ RecordingKept /\ SendsOne /\ TestKept
  BY DEF TestInv
<1> DEFINE gone == {s8[q].test : q \in {p \in Posts : s8[p].by = "send"}}
<1>2. /\ s1' = "intro" /\ s3' = 0 /\ s4' = Ts!Idle /\ s5' = {} /\ s7' = Ts!Fresh /\ s10' = {}
      /\ s12' = [s12 EXCEPT !.here = {}, !.abandoned = @ \cup gone]
      /\ s8' = [q \in Posts |-> IF q = 1 /\ s9 # 0 THEN [Ts!NoPost EXCEPT !.test = s9, !.by = "flush"]
                                ELSE Ts!NoPost]
      /\ s2' = [s2 EXCEPT !.visible = TRUE]
      /\ UNCHANGED <<s6, s9, s11>>
  BY DEF Ts!Reload
<1>3. gone \subseteq TestIds
  BY <1>1 DEF TestTypes, TestRequests
<1>4. /\ s12' \in TestHistory /\ s12'.failed = s12.failed /\ s12'.refused = s12.refused
      /\ s12'.abandoned = s12.abandoned \cup gone
  <2> HIDE DEF gone
  <2>1. QED  BY <1>1, <1>2, <1>3 DEF TestTypes, TestHistory
<1>5. ASSUME NEW p \in Posts
      PROVE  /\ s8'[p] \in TestRequests /\ ~s8'[p].done /\ s8'[p].by # "send"
             /\ s8'[p].by = "none" <=> s8'[p].test = 0
             /\ s8'[p].by = "flush" => s8'[p].test \in s12.failed
  <2>1. CASE p = 1 /\ s9 # 0
    <3>1. s8'[p] = [Ts!NoPost EXCEPT !.test = s9, !.by = "flush"]
      BY <1>2, <2>1
    <3>2. s8'[p] = [test |-> s9, by |-> "flush", every |-> 0, at |-> "site", done |-> FALSE]
      BY <3>1 DEF Ts!NoPost
    <3>3. s9 \in TestIds /\ 0 \in TestIds /\ s9 \in s12.failed
      BY <1>1, <2>1 DEF TestTypes, SendsOne, TestIds
    <3>4. QED  BY <2>1, <3>2, <3>3 DEF TestRequests
  <2>2. CASE ~(p = 1 /\ s9 # 0)
    <3>1. s8'[p] = Ts!NoPost
      BY <1>2, <2>2
    <3>2. QED  BY <3>1 DEF Ts!NoPost, TestRequests, TestIds
  <2>3. QED  BY <2>1, <2>2
<1>6. s8' \in [Posts -> TestRequests]
  <2>1. PICK f : f = s8'
    OBVIOUS
  <2>2. f = [q \in Posts |-> f[q]]
    BY <1>2, <2>1
  <2>3. \A q \in Posts : f[q] \in TestRequests
    BY <1>5, <2>1
  <2>4. QED  BY <2>1, <2>2, <2>3
<1>7. s4' \in TestListeners /\ ~s4'.on /\ ~s4'.measuring /\ s7' \in TestSaid
  BY <1>2, TestNumbers DEF Ts!Idle, Ts!Fresh, TestListeners, TestSaid
<1>8. s2' \in TestSensors
  BY <1>1, <1>2 DEF TestTypes, TestSensors
<1>9. {} \in Recordings /\ {} \in TestRetries /\ 0 \in TestTaps
  BY DEF Recordings, TestRetries, TestTaps
<1>10. TestTypes'
  BY <1>1, <1>2, <1>4, <1>6, <1>7, <1>8, <1>9 DEF TestTypes, TestScreens
<1>11. RecordingKept'
  BY <1>2, <1>7 DEF RecordingKept, Ts!Whole
<1>12. SendsOne'
  BY <1>1, <1>2, <1>4, <1>5 DEF SendsOne
<1>13. TestKept'
  <2>1. SUFFICES ASSUME AtMostOne(s12.failed) PROVE
          /\ \A x \in s12.failed : x = s9 \/ x \in s11.tests \cup s12.refused
          /\ \A x \in 1..s6 : x \in s11.tests \cup s12'.abandoned \cup s12.refused \/ s9 = x
    BY <1>2, <1>4 DEF TestKept
  <2>2. ASSUME NEW x \in 1..s6, Ts!UnderWay(x)
        PROVE  x \in s12'.abandoned \/ x \in s12.failed
    <3>1. PICK p \in Posts : s8[p].test = x
      BY <2>2 DEF Ts!UnderWay
    <3>2. s8[p].by \in {"send", "flush"}
      <4>1. x # 0
        OBVIOUS
      <4>2. QED  BY <1>1, <3>1, <4>1 DEF SendsOne, TestTypes, TestRequests
    <3>3. CASE s8[p].by = "send"
      BY <1>4, <3>1, <3>3
    <3>4. CASE s8[p].by = "flush"
      BY <1>1, <3>1, <3>4 DEF SendsOne
    <3>5. QED  BY <3>2, <3>3, <3>4
  <2>3. QED  BY <1>1, <1>4, <2>1, <2>2 DEF TestKept
<1>14. QED  BY <1>10, <1>11, <1>12, <1>13 DEF TestInv

LEMMA TestNext == TestInv /\ [Ts!Next]_(Ts!vars) => TestInv'
<1> SUFFICES ASSUME TestInv, [Ts!Next]_(Ts!vars) PROVE TestInv'
  OBVIOUS
<1>1. CASE Ts!Begin \/ Ts!Allow \/ Ts!Again \/ Ts!Complete \/ Ts!NoData \/ Ts!Hide \/ Ts!Show \/ Ts!Resend
  BY <1>1, TestBegin, TestAllow, TestAgain, TestComplete, TestNoData, TestHide, TestShow, TestResend
<1>2. CASE Ts!SkipTeam \/ Ts!Restart \/ Ts!Reload
  BY <1>2, TestEnds, TestReload
<1>3. ASSUME NEW b \in BOOLEAN,
             Ts!Allowed(b) \/ Ts!Settle(b) \/ Ts!Measure(b) \/ Ts!Answer(b) \/ Ts!JoinTeam(b)
      PROVE  TestInv'
  BY <1>3, TestAllowed, TestSettle, TestMeasure, TestAnswer, TestEnds
<1>4. ASSUME NEW t \in Tests, Ts!RetryRuns(t) PROVE TestInv'
  BY <1>4, TestRetry
<1>5. ASSUME NEW q \in Posts, Ts!Stored(q) \/ Ts!Answered(q) \/ Ts!PostFails(q) \/ Ts!Refused(q) PROVE TestInv'
  BY <1>5, TestIsStored, TestAnswered, TestPostFails, TestRefused
<1>6. CASE UNCHANGED Ts!vars
  <2>1. TestTypes /\ RecordingKept /\ SendsOne /\ TestKept
    BY DEF TestInv
  <2>2. UNCHANGED <<s1, s2, s3, s4, s5, s6, s7, s8, s9, s10, s11, s12>>
    BY <1>6 DEF Ts!vars
  <2>3. SendsOne' /\ TestKept' /\ RecordingKept'
    BY <2>1, <2>2, SendsStay, RecordingStays
  <2>4. TestTypes'
    BY <2>1, <2>2 DEF TestTypes
  <2>5. QED  BY <2>3, <2>4 DEF TestInv
<1>7. QED  BY <1>1, <1>2, <1>3, <1>4, <1>5, <1>6 DEF Ts!Next

LEMMA TestIsKept == TestInv => Ts!TypeOK /\ Ts!Whole /\ Ts!KeptUnlessReplaced
<1> SUFFICES ASSUME TestInv PROVE Ts!TypeOK /\ Ts!Whole /\ Ts!KeptUnlessReplaced
  OBVIOUS
<1>1. TestTypes /\ RecordingKept /\ SendsOne /\ TestKept
  BY DEF TestInv
<1>2. Ts!TypeOK /\ Ts!Whole
  BY <1>1, TestTypesOK DEF RecordingKept
<1>3. ASSUME Ts!Cardinality(s12.failed) < 2 PROVE AtMostOne(s12.failed)
  <2>1. s12.failed \subseteq Tests
    BY <1>1 DEF TestTypes, TestHistory
  <2>2. QED  BY <1>3, <2>1, FewerThanTwo
<1>4. Ts!KeptUnlessReplaced
  BY <1>1, <1>3 DEF TestKept, Ts!KeptUnlessReplaced
<1>5. QED  BY <1>2, <1>4

-----------------------------------------------------------------------------
(* The pages together.                                                     *)

SiteInv ==
  /\ which = "how" => HowInv
  /\ which = "replay" => ReplayInv
  /\ which = "network" => DrawingInv
  /\ which = "telegram" => LinkInv
  /\ which = "phone" => PhoneInv
  /\ which = "live" => LiveInv
  /\ which = "scope" => ScopeInv
  /\ which = "night" => NightInv
  /\ which = "test" => TestInv
  /\ which = "credit" => Cr!TypeOK
  /\ which = "research" => Re!TypeOK
  /\ which = "console" => Co!TypeOK
  /\ which = "reading" => Rd!TypeOK
  /\ which = "tonight" => To!TypeOK

LEMMA SiteInit == Init => SiteInv
  BY HowInit, ReplayInit, DrawingInit, LinkInit, PhoneInit, LiveInit, ScopeInit, NightInit,
     TestInit, CreditInit, ResearchInit, ConsoleInit, ReadingInit, TonightInit DEF Init, SiteInv

\* The page that is shown stays, and a step is one of it.
LEMMA SitePage ==
  [Next]_vars =>
    /\ which' = which
    /\ which = "how" => [Ho!Next]_(Ho!vars)
    /\ which = "replay" => [Rp!Next]_(Rp!vars)
    /\ which = "network" => [Ne!Next]_(Ne!vars)
    /\ which = "telegram" => [Te!Next]_(Te!vars)
    /\ which = "phone" => [Ph!Next]_(Ph!vars)
    /\ which = "live" => [Li!Next]_(Li!vars)
    /\ which = "scope" => [Sc!Next]_(Sc!vars)
    /\ which = "night" => [Ni!Next]_(Ni!vars)
    /\ which = "test" => [Ts!Next]_(Ts!vars)
    /\ which = "credit" => [Cr!Next]_(Cr!vars)
    /\ which = "research" => [Re!Next]_(Re!vars)
    /\ which = "console" => [Co!Next]_(Co!vars)
    /\ which = "reading" => [Rd!Next]_(Rd!vars)
    /\ which = "tonight" => [To!Next]_(To!vars)
<1>1. CASE UNCHANGED vars
  BY <1>1 DEF vars, Ho!vars, Rp!vars, Ne!vars, Te!vars, Ph!vars, Li!vars, Sc!vars, Ni!vars, Ts!vars,
              Cr!vars, Re!vars, Co!vars, Rd!vars, To!vars
<1>2. CASE Next
  BY <1>2 DEF Next, OnPhone, OnTelegram, OnCredit, OnTest, OnResearch, OnConsole, OnLive, OnReading,
              OnScope, OnNight, OnReplay, OnTonight, OnHow, OnNetwork
<1>3. QED  BY <1>1, <1>2

LEMMA SiteNext ==
  SiteInv /\ [Next]_vars => SiteInv' /\ (which = "live" => Li!NotBack)
  BY SitePage, HowNext, ReplayNext, DrawingNext, LinkNext, PhoneNext, LiveNext, ScopeNext, NightNext,
     TestNext, CreditNext, ResearchNext, ConsoleNext, ReadingNext, TonightNext DEF SiteInv

LEMMA SiteCorrect == Spec => []SiteInv
<1>1. Init => SiteInv
  BY SiteInit
<1>2. SiteInv /\ [Next]_vars => SiteInv'
  BY SiteNext
<1>3. QED  BY <1>1, <1>2, PTL DEF Spec

\* The state of a page is of its type: none keeps an answer, a request or a count that it could
\* not show or make (MCSite's TypeOK, that of the pages).
THEOREM TypesCorrect == Spec => []TypeOK
<1>1. SiteInv => TypeOK
  BY LinkTypesOK, LiveTypesOK, ScopeTypesOK, NightTypesOK, TestIsKept
  DEF SiteInv, TypeOK, HowInv, ReplayInv, DrawingInv, LinkInv, PhoneInv
<1>2. QED  BY <1>1, SiteCorrect, PTL

\* A phone is enrolled by who agreed and felt it move, and its client listens for the device that
\* is stored, which its user can stop and delete: always, whatever is clicked, typed, answered or
\* refused (MCSite's EnrolledProperly).
THEOREM EnrolledCorrect == Spec => []EnrolledProperly
<1>1. SiteInv => EnrolledProperly
  BY OwnDeviceHolds DEF SiteInv, EnrolledProperly, PhoneInv
<1>2. QED  BY <1>1, SiteCorrect, PTL

\* The link to the bot that is offered works, and so does the address of a step that is passed on
\* (MCSite's LinkWorks).
THEOREM LinkCorrect == Spec => []LinkWorks
<1>1. SiteInv => LinkWorks
  BY OfferedWorks DEF SiteInv, LinkWorks, HowInv
<1>2. QED  BY <1>1, SiteCorrect, PTL

\* A connection never takes the page back to an older state of the event, and who left the page is
\* not connected again (MCSite's FollowsStream).
THEOREM FollowsCorrect == Spec => FollowsStream
<1>1. SiteInv /\ [Next]_vars => [which = "live" => Li!NotBack]_vars
  BY SiteNext
<1>2. SiteInv => (which = "live" => Li!NothingAfterLeaving)
  BY LeftAlone DEF SiteInv
<1>3. QED  BY <1>1, <1>2, SiteCorrect, PTL DEF Spec, FollowsStream

\* The oscilloscope shows what the phone measured, the card of the night what its log says, a
\* replay all of its event, and a drawing nothing of an area that is gone: after any messages,
\* in any order that the pages and their workers take them (MCSite's ShowsMeasured).
THEOREM MeasuredCorrect == Spec => []ShowsMeasured
<1>1. SiteInv => ShowsMeasured
  BY ScopeShows, NightIsShown, ReplayPlaysAll DEF SiteInv, ShowsMeasured, DrawingInv
<1>2. QED  BY <1>1, SiteCorrect, PTL

\* What is asked about in a test of the phone is a recording without a gap, and a test that could
\* not be sent is stored, pending or being sent, until a second one fails: always, whatever is
\* hidden, bumped, lost or answered late, and however often the page is opened (MCSite's TestsKept).
THEOREM TestsCorrect == Spec => []TestsKept
<1>1. SiteInv => TestsKept
  BY TestIsKept DEF SiteInv, TestsKept
<1>2. QED  BY <1>1, SiteCorrect, PTL
=============================================================================
