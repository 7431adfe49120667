-------------------------------- MODULE Console --------------------------------
(***************************************************************************)
(* The operator console of the website, web/app/admin/page.tsx, with the   *)
(* requests it makes (web/lib/api.ts): a tab is loaded when it is opened   *)
(* and every five seconds, and an event can be retracted.                  *)
(***************************************************************************)
EXTENDS Naturals

CONSTANTS
  Tabs,    \* tabs; each is about one kind of data
  Loads,   \* bound: loads under way at once
  Moves    \* bound: what the operator does, and faults

\* Assumed of the constants by whoever instantiates the module.
ConsoleAssumption == {Loads, Moves} \subseteq Nat /\ "overview" \in Tabs

VARIABLES
  token,    \* "none", "good" or "bad"
  tab,
  data,     \* the tab whose answer is shown, or "none"
  err,
  crashed,  \* a table met data it cannot show
  loads,    \* the requests under way: their token and tab
  event,    \* an event, on the server: is it retracted
  moves     \* what is left of Moves

vars == <<token, tab, data, err, crashed, loads, event, moves>>

Slots  == 1..Loads
NoLoad == [token |-> "none", tab |-> "none"]
Move   == moves > 0 /\ moves' = moves - 1

\* The tables take an absent field for an empty one, but the overview needs its metrics, and
\* the catalogue the times of what are events on another tab.
CannotShow(t, d) ==
  d \notin {"none", t} /\ (t = "overview" \/ (t = "catalog" /\ d = "events"))

Begin(t, v) ==
  \E i \in Slots : /\ loads[i] = NoLoad /\ \A j \in Slots : loads[j] = NoLoad => i <= j
                   /\ loads' = [loads EXCEPT ![i] = [token |-> t, tab |-> v]]

SignIn(t) ==
  /\ token = "none" /\ ~crashed /\ Move
  /\ token' = t /\ data' = "none" /\ err' = FALSE
  /\ Begin(t, tab)
  /\ UNCHANGED <<tab, crashed, event>>

SignOut ==
  /\ token # "none" /\ ~crashed /\ Move
  /\ token' = "none" /\ data' = "none"
  /\ UNCHANGED <<tab, err, crashed, loads, event>>

\* What was shown goes, but not what was asked for.
OpenTab(v) ==
  /\ token # "none" /\ ~crashed /\ v # tab /\ Move
  /\ tab' = v /\ data' = "none" /\ err' = FALSE
  /\ crashed' = CannotShow(v, data)
  /\ Begin(token, v)
  /\ UNCHANGED <<token, event>>

Poll ==
  /\ token # "none" /\ ~crashed
  /\ err' = FALSE
  /\ Begin(token, tab)
  /\ UNCHANGED <<token, tab, data, crashed, event, moves>>

Loaded(i) ==
  /\ loads[i].token = "good"
  /\ data' = loads[i].tab
  /\ crashed' = (crashed \/ (token # "none" /\ CannotShow(tab, data')))
  /\ loads' = [loads EXCEPT ![i] = NoLoad]
  /\ UNCHANGED <<token, tab, err, event, moves>>

Unauthorized(i) ==
  /\ loads[i].token = "bad"
  /\ token' = "none" /\ err' = TRUE
  /\ data' = IF token = "none" THEN data ELSE "none"
  /\ loads' = [loads EXCEPT ![i] = NoLoad]
  /\ UNCHANGED <<tab, crashed, event, moves>>

LoadFails(i) ==
  /\ loads[i] # NoLoad /\ Move
  /\ err' = TRUE
  /\ loads' = [loads EXCEPT ![i] = NoLoad]
  /\ UNCHANGED <<token, tab, data, crashed, event>>

\* retract, of an event that is shown and for which a reason is given.
Retract(reason) ==
  /\ token # "none" /\ ~crashed /\ tab = "events" /\ data = "events" /\ event = "public" /\ Move
  /\ IF reason /\ token = "good"
     THEN event' = "retracted" /\ Begin(token, tab) /\ err' = FALSE
     ELSE err' = TRUE /\ UNCHANGED <<event, loads>>
  /\ UNCHANGED <<token, tab, data, crashed>>

Init ==
  /\ token = "none" /\ tab = "overview" /\ data = "none" /\ err = FALSE /\ crashed = FALSE
  /\ loads = [i \in Slots |-> NoLoad] /\ event = "public" /\ moves = Moves

Next ==
  \/ \E t \in {"good", "bad"} : SignIn(t)
  \/ \E v \in Tabs : OpenTab(v)
  \/ \E reason \in BOOLEAN : Retract(reason)
  \/ \E i \in Slots : Loaded(i) \/ Unauthorized(i) \/ LoadFails(i)
  \/ SignOut \/ Poll

Spec == Init /\ [][Next]_vars

TypeOK ==
  /\ token \in {"none", "good", "bad"} /\ tab \in Tabs /\ data \in Tabs \cup {"none"}
  /\ err \in BOOLEAN /\ crashed \in BOOLEAN
  /\ loads \in [Slots -> [token : {"none", "good", "bad"}, tab : Tabs \cup {"none"}]]
  /\ event \in {"public", "retracted"} /\ moves \in 0..Moves

\* The console comes to show the tab that is open, unless it crashed or nobody is signed in.
TabShown == crashed \/ token # "good" \/ data = tab
===============================================================================
