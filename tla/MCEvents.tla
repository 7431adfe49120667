------------------------------ MODULE MCEvents ------------------------------
(* Instances of Events: three votes in one place, of which two are of one  *)
(* unit (its P and its S arrival), and a fourth away from them.            *)
EXTENDS Events, TLC

CONSTANTS p1, s1, p2, p3, u1, u2, u3

MCVote     == {p1, s1, p2, p3}
MCUnit     == {u1, u2, u3}
MCUnitOf   == p1 :> u1 @@ s1 :> u1 @@ p2 :> u2 @@ p3 :> u3
MCPlaceOf  == p1 :> 0 @@ s1 :> 0 @@ p2 :> 0 @@ p3 :> 1
MCCoherent == {{p1, s1}, {p1, p2}, {s1, p2}, {p1, s1, p2}, {p1, p3}, {p2, p3}, {p1, p2, p3}}
MCUnsteady == {p2, p3}
MCEvidence == {<<0, FALSE>>, <<1, FALSE>>, <<3, TRUE>>}
MCMinUnits == <<2, 2, 3>>
MCHoldSec  == <<0, 1, 2>>

=============================================================================
