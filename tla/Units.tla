--------------------------------- MODULE Units ---------------------------------
(***************************************************************************)
(* What the network engine keeps of phones (engine.go): the station and    *)
(* the unit of each, and the picks of a unit, from which it makes votes.   *)
(* Events goes on from the votes, Station is where picks come from.        *)
(*                                                                         *)
(* A phone counts its picks anew with each connection.  What its shard     *)
(* sends to the engine may be lost when the engine is behind (sendEng),    *)
(* and what is not lost is stamped with the time at which it was received. *)
(***************************************************************************)
EXTENDS Integers, Sequences, FiniteSets, SequencesExt

CONSTANTS
  Dev,
  Unit,
  None,         \* no unit
  UnitVote,     \* UnitVoteSec
  PerSecond,    \* units of time in a second, to which vote keys are rounded
  Assoc,        \* AssocWindowSec
  Grace,        \* how much longer picks are kept
  MaxLate,      \* bound: how late a pick comes
  MaxPicks,     \* bound: picks of all phones
  MaxSessions,  \* bound: connections of a phone
  MaxMoves,     \* bound: changes of place and deletions
  End           \* bound: when time stops

\* Assumed of the constants by whoever instantiates the module.
UnitsAssumption ==
  /\ IsFiniteSet(Dev) /\ None \notin Unit
  /\ {UnitVote, Assoc, Grace, MaxLate, MaxPicks, MaxSessions,
      MaxMoves, End} \subseteq Nat
  /\ PerSecond \in Nat \ {0} /\ UnitVote >= PerSecond

VARIABLES
  now,
  phone,    \* of each device: its place, session, last number, and the pick under way with the
            \* unit that took it
  station,  \* Engine.stations: the unit of each, None if there is none
  members,  \* unitRec.members
  picks,    \* unitRec.picks
  deleted,  \* the devices that were deleted
  made,     \* history: how many picks there were
  moves,    \* history: changes of place and deletions
  did       \* history: what the engine was just told of which pick or phone

vars == <<now, phone, station, members, picks, deleted, made, moves, did>>

NoPick  == [seq |-> 0, unit |-> None]
Nothing == [kind |-> "nothing"]

Largest(S) == CHOOSE x \in S : \A y \in S : y <= x
Least(S)   == CHOOSE x \in S : \A y \in S : x <= y

(***************************************************************************)
(* The engine.                                                             *)
(***************************************************************************)
MutantUpdateStation(d, u) ==
  /\ station' = [station EXCEPT ![d] = u]
  /\ members' = [members EXCEPT ![u] = @ \cup {d}]
  /\ UNCHANGED picks

\* UpdateStation.
UpdateStation(d, u) ==
  /\ station' = [station EXCEPT ![d] = u]
  /\ members' = [v \in Unit |-> IF v = u THEN members[v] \cup {d}
                                ELSE IF v = station[d] THEN members[v] \ {d} ELSE members[v]]
  /\ UNCHANGED picks

\* The picks that are not of d, in their order.
Without(s, d) ==
  LET kept == {i \in DOMAIN s : s[i].dev # d}
  IN  [k \in 1..Cardinality(kept) |->
         s[CHOOSE i \in kept : Cardinality({j \in kept : j <= i}) = k]]

\* RemoveStation.
RemoveStation(d) ==
  LET u == station[d]
  IN  IF u = None THEN UNCHANGED <<station, members, picks>>
      ELSE /\ station' = [station EXCEPT ![d] = None]
           /\ members' = [members EXCEPT ![u] = @ \ {d}]
           /\ picks'   = [picks EXCEPT ![u] = Without(@, d)]

MutantSameAs(p, q) == q.dev = p.dev /\ q.t = p.t

\* What AddPick takes for the same pick.
SameAs(p, q) == q.dev = p.dev /\ (q.seq = p.seq \/ q.t = p.t)

MutantInserted(s, p) == Append(s, p)

\* Into the picks, which are in the order of their onsets.
Inserted(s, p) ==
  LET i == Cardinality({j \in DOMAIN s : s[j].t <= p.t}) IN InsertAt(s, i + 1, p)

\* AddPick of an accepted pick, if it is taken.
Takes(p) ==
  /\ station[p.dev] # None
  /\ p.t >= now - Assoc
  /\ \A q \in Range(picks[station[p.dev]]) : ~SameAs(p, q)

AddPick(p) ==
  /\ picks' = IF Takes(p) THEN [picks EXCEPT ![station[p.dev]] = Inserted(@, p)] ELSE picks
  /\ UNCHANGED <<station, members>>

\* EndPick; the final amplitude is left out.
EndPick(d, seq, accepted) ==
  LET u  == station[d]
      at == IF u = None THEN {}
            ELSE {i \in DOMAIN picks[u] : picks[u][i].dev = d /\ picks[u][i].seq = seq}
  IN  /\ picks' = IF at = {} \/ accepted THEN picks
                  ELSE [picks EXCEPT ![u] = RemoveAt(@, Least(at))]
      /\ UNCHANGED <<station, members>>

\* unitVotes: the picks that start a cluster, the end of that cluster, and for each device in it
\* its first onset.
Starts(u) == {i \in DOMAIN picks[u] : i = 1 \/ picks[u][i].t - picks[u][i - 1].t > UnitVote}
Cluster(u, i) == i..Largest({j \in i..Len(picks[u]) : \A k \in i + 1..j : k \notin Starts(u)})
Devices(u, i) == {picks[u][k].dev : k \in Cluster(u, i)}
First(u, i)   == [d \in Devices(u, i) |->
                    Least({picks[u][k].t : k \in {j \in Cluster(u, i) : picks[u][j].dev = d}})]

\* Twice the median.
Median2(f) ==
  LET n     == Cardinality(DOMAIN f)
      at(k) == Least({f[d] : d \in {x \in DOMAIN f :
                                      Cardinality({y \in DOMAIN f : f[y] <= f[x]}) >= k}})
  IN  at((n + 1) \div 2) + at(n \div 2 + 1)

\* Every cluster of picks.  Of these the engine leaves out what too few of the unit's eligible
\* phones support.
Votes(u) ==
  [i \in Starts(u) |->
     [key |-> picks[u][i].t \div PerSecond, t2 |-> Median2(First(u, i))]]

MutantTick ==
  /\ now < End /\ now' = now + 1
  /\ picks' = [u \in Unit |->
       IF picks[u] # <<>> /\ picks[u][Len(picks[u])].t < now' - Assoc - Grace THEN <<>> ELSE picks[u]]
  /\ did' = Nothing
  /\ UNCHANGED <<phone, station, members, deleted, moves, made>>

\* The beginning of Tick: picks that are too old are forgotten, as far as the first that is not.
Tick ==
  /\ now < End /\ now' = now + 1
  /\ picks' = [u \in Unit |->
       LET old == {i \in DOMAIN picks[u] : \A j \in 1..i : picks[u][j].t < now' - Assoc - Grace}
       IN  SubSeq(picks[u], Cardinality(old) + 1, Len(picks[u]))]
  /\ did' = Nothing
  /\ UNCHANGED <<phone, station, members, deleted, moves, made>>

(***************************************************************************)
(* The phones, and what their shards send.                                 *)
(***************************************************************************)
Lost == UNCHANGED <<station, members, picks>>

\* A status, which has the place that the shard knows.
Status(d) ==
  /\ phone[d].session > 0
  /\ UpdateStation(d, phone[d].place)
  /\ did' = Nothing
  /\ UNCHANGED <<now, phone, deleted, made, moves>>

\* A pick is announced and accepted.
Announce(d) ==
  /\ phone[d].session > 0 /\ phone[d].pick = NoPick
  /\ made < MaxPicks /\ made' = made + 1
  /\ \E t \in 0..now :
       LET p == [dev |-> d, seq |-> phone[d].seq + 1, t |-> t, session |-> phone[d].session]
       IN  /\ now - t <= MaxLate
           /\ \/ /\ AddPick(p)
                 /\ phone' = [phone EXCEPT ![d].seq = @ + 1, ![d].pick =
                        [seq |-> p.seq, unit |-> IF Takes(p) THEN station[d] ELSE None]]
              \/ /\ Lost
                 /\ phone' = [phone EXCEPT ![d].seq = @ + 1,
                                           ![d].pick = [seq |-> p.seq, unit |-> None]]
  /\ did' = Nothing
  /\ UNCHANGED <<now, deleted, moves>>

\* It ends: what it was for the engine is now decided.
Finish(d) ==
  \E accepted \in BOOLEAN :
    LET o == phone[d].pick
    IN  /\ o # NoPick
        /\ phone' = [phone EXCEPT ![d].pick = NoPick]
        /\ \/ /\ EndPick(d, o.seq, accepted)
              /\ did' = IF accepted THEN Nothing
                        ELSE [kind |-> "withdraw", dev |-> d, pick |-> o,
                              session |-> phone[d].session, unit |-> station[d]]
           \/ Lost /\ did' = Nothing
        /\ UNCHANGED <<now, deleted, moves, made>>

\* The phone itself was moved: announced as such, which AddPick only counts, and ended at once.
Handled(d) ==
  /\ phone[d].session > 0 /\ phone[d].pick = NoPick
  /\ made < MaxPicks /\ made' = made + 1
  /\ phone' = [phone EXCEPT ![d].seq = @ + 1]
  /\ \/ /\ EndPick(d, phone[d].seq + 1, FALSE)
        /\ did' = [kind |-> "withdraw", dev |-> d, pick |-> [seq |-> phone[d].seq + 1, unit |-> None],
                   session |-> phone[d].session, unit |-> station[d]]
     \/ Lost /\ did' = Nothing
  /\ UNCHANGED <<now, deleted, moves>>

\* Its user changes the area (shardLocation).
Move(d) ==
  /\ d \notin deleted /\ moves < MaxMoves /\ moves' = moves + 1
  /\ \E u \in Unit \ {phone[d].place} : phone' = [phone EXCEPT ![d].place = u]
  /\ did' = Nothing
  /\ UNCHANGED <<now, station, members, picks, deleted, made>>

\* It connects (shardOpen): a new processor, which counts from one and knows of no pick.
Connect(d) ==
  /\ d \notin deleted /\ phone[d].session < MaxSessions
  /\ phone' = [phone EXCEPT ![d].session = @ + 1, ![d].seq = 0, ![d].pick = NoPick]
  /\ did' = Nothing
  /\ UNCHANGED <<now, station, members, picks, deleted, moves, made>>

\* Its user deletes it (engRemove).  It cannot connect again; what its shard sends until the
\* session is closed there still comes to the engine.
Delete(d) ==
  /\ d \notin deleted /\ deleted' = deleted \cup {d}
  /\ moves < MaxMoves /\ moves' = moves + 1
  /\ \/ RemoveStation(d) /\ did' = [kind |-> "remove", dev |-> d]
     \/ Lost /\ did' = Nothing
  /\ UNCHANGED <<now, phone, made>>

Init ==
  /\ now = 0
  /\ phone \in {[d \in Dev |-> [place |-> f[d], session |-> 0, seq |-> 0,
                                pick |-> NoPick]] : f \in [Dev -> Unit]}
  /\ station = [d \in Dev |-> None]
  /\ members = [u \in Unit |-> {}] /\ picks = [u \in Unit |-> <<>>]
  /\ deleted = {} /\ made = 0 /\ moves = 0 /\ did = Nothing

Next ==
  \/ Tick
  \/ \E d \in Dev : \/ Status(d) \/ Announce(d) \/ Finish(d) \/ Handled(d)
                    \/ Move(d) \/ Connect(d) \/ Delete(d)

Spec == Init /\ [][Next]_vars

(***************************************************************************)
(* Properties.                                                             *)
(***************************************************************************)
Picks == UNION {Range(picks[u]) : u \in Unit}

TypeOK ==
  /\ now \in 0..End /\ made \in 0..MaxPicks /\ moves \in 0..MaxMoves
  /\ \A d \in Dev :
       /\ phone[d].place \in Unit /\ phone[d].session \in 0..MaxSessions
       /\ phone[d].seq \in 0..made /\ station[d] \in Unit \cup {None}
  /\ deleted \subseteq Dev /\ \A u \in Unit : members[u] \subseteq Dev
  /\ \A p \in Picks : p.dev \in Dev /\ p.t \in now - Assoc - Grace..now

\* A phone is counted in one unit, the one of its station, and in none once it is removed: else
\* it would be an eligible phone of two units at once (UpdateStation, RemoveStation).
MembersAgree == \A d \in Dev, u \in Unit : d \in members[u] <=> station[d] = u

\* The votes of a unit are more than UnitVoteSec apart and have keys of their own, in whatever
\* order picks come and go.  Events assumes it, and its events tell votes apart by their keys
\* (AddPick, EndPick, Tick, unitVotes).
VotesApart ==
  \A u \in Unit : \A i, j \in DOMAIN Votes(u) :
    i < j => /\ Votes(u)[j].t2 - Votes(u)[i].t2 > 2 * UnitVote
             /\ Votes(u)[i].key # Votes(u)[j].key

\* A pick that its own end takes back is not among the picks any more, if the phone was not moved
\* to another unit meanwhile, whatever the phone's earlier picks were (AddPick, EndPick).
OwnEndFound ==
  did.kind = "withdraw" /\ did.pick.unit # None /\ did.unit = did.pick.unit =>
    \A p \in Range(picks[did.unit]) : ~(p.dev = did.dev /\ p.seq = did.pick.seq)

\* docs/MODEL.md:114: "a downgrade removes the pick from the network".
DowngradeRemoves ==
  did.kind = "withdraw" =>
    \A p \in Picks : ~(p.dev = did.dev /\ p.seq = did.pick.seq /\ p.session = did.session)

\* The comment on RemoveStation (engine.go:275): it "forgets a device".
ForgetsDevice == did.kind = "remove" => \A p \in Picks : p.dev # did.dev

\* The comment on EndPick (engine.go:329): it "applies a pick's final classification", that of the
\* pick that ends.
EndOfItsPick ==
  [][did'.kind = "withdraw" => \A p \in Picks \ Picks' : p.session = did'.session]_vars
================================================================================
