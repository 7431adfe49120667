----------------------------- MODULE EventLife -----------------------------
(***************************************************************************)
(* What the network stage promises of its events to everything downstream  *)
(* of onEventUpdate (alerts, store, public map): "Levels only ever         *)
(* increase while an event is active" (config.go), an event is closed once *)
(* and for ever, and only what never got beyond candidate is dismissed.    *)
(***************************************************************************)
EXTENDS Integers, Sequences

VARIABLE life    \* the events in order of creation

Candidate == 1
Confirmed == 3

Fresh(l) == [level |-> l, open |-> TRUE, outcome |-> "none"]

Init == life = <<>>

Create ==
  \E l \in Candidate..Confirmed : life' = Append(life, Fresh(l))

Raise ==
  \E i \in DOMAIN life : \E l \in Candidate..Confirmed :
    /\ life[i].open
    /\ l > life[i].level
    /\ life' = [life EXCEPT ![i].level = l]

Verdict(r) == IF r.level = Candidate THEN "dismissed" ELSE "closed"

\* one engine tick closes every event that has become quiet
Close ==
  \E S \in SUBSET DOMAIN life :
    /\ S # {}
    /\ \A i \in S : life[i].open
    /\ life' = [i \in DOMAIN life |->
                  IF i \in S THEN [life[i] EXCEPT !.open = FALSE, !.outcome = Verdict(life[i])]
                             ELSE life[i]]

Next == Create \/ Raise \/ Close

Spec == Init /\ [][Next]_life

=============================================================================
