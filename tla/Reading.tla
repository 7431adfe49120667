-------------------------------- MODULE Reading --------------------------------
(***************************************************************************)
(* The public pages that ask the server now and then: /event with one      *)
(* event (web/app/event/page.tsx), /events with the list                   *)
(* (web/app/events/page.tsx) and /contributors with the names              *)
(* (web/app/contributors/page.tsx).                                        *)
(***************************************************************************)
EXTENDS Naturals

CONSTANTS
  Asks,    \* bound: requests under way at once
  Changes  \* bound: what changes on the server, what the reader does, and faults

\* Assumed of the constants by whoever instantiates the module.
ReadingAssumption == {Asks, Changes} \subseteq Nat

VARIABLES
  at,      \* the page that is open
  shown,   \* its data: an answer, or "none"; of /event also the traces
  err,
  all,     \* the box of /events: with those that were dismissed
  asks,    \* the requests under way: what for, and the answer
  server,  \* the state of the event, and whether there are names
  changes  \* what is left of Changes

vars == <<at, shown, err, all, asks, server, changes>>

Slots    == 1..Asks
Pages    == {"event", "events", "contributors"}
Statuses == {"active", "closed", "dismissed", "retracted", "dismissed and retracted"}
NoAsk    == [for |-> "none", got |-> "none"]
Blank    == [main |-> "none", traces |-> "none"]
Change   == changes > 0 /\ changes' = changes - 1

Free(a)    == {i \in Slots : a[i] = NoAsk}
First(S)   == CHOOSE i \in S : \A j \in S : i <= j
Send(a, r) == IF Free(a) = {} THEN a ELSE [a EXCEPT ![First(Free(a))].for = r]

Listing(b) == IF b THEN "all" ELSE "usual"

\* What a page asks for when it is mounted, and /event every 15 s, /contributors every minute.
Load(a, p, b) ==
  IF p = "event" THEN Send(Send(a, "event"), "traces")
  ELSE IF p = "events" THEN Send(a, Listing(b)) ELSE Send(a, "names")

OpenPage(p) ==
  /\ at = "away" /\ Change
  /\ at' = p /\ shown' = Blank /\ err' = FALSE /\ all' = FALSE
  /\ asks' = Load(asks, p, FALSE)
  /\ UNCHANGED server

Poll ==
  /\ at \in {"event", "contributors"}
  /\ asks' = Load(asks, at, all)
  /\ asks' # asks
  /\ UNCHANGED <<at, shown, err, all, server, changes>>

\* Another filter: the list goes, and is asked for again, once.
ShowAll ==
  /\ at = "events" /\ Change
  /\ all' = ~all /\ shown' = Blank
  /\ asks' = Send(asks, Listing(~all))
  /\ UNCHANGED <<at, err, server>>

Dismissed == {"dismissed", "dismissed and retracted"}

\* The usual list is without an event that was dismissed.
Content(r) ==
  IF r = "names" THEN server.names
  ELSE IF r = "traces" THEN r
  ELSE IF r = "usual" /\ server.event \in Dismissed THEN "empty"
  ELSE server.event

Served(i) ==
  /\ asks[i].for # "none" /\ asks[i].got = "none"
  /\ asks' = [asks EXCEPT ![i].got = Content(asks[i].for)]
  /\ UNCHANGED <<at, shown, err, all, server, changes>>

\* Whatever was asked since; only the page of names forgets an error.
Answered(i) ==
  /\ asks[i].got # "none"
  /\ asks' = [asks EXCEPT ![i] = NoAsk]
  /\ shown' = IF asks[i].for = "traces" THEN [shown EXCEPT !.traces = asks[i].got]
              ELSE [shown EXCEPT !.main = asks[i].got]
  /\ err' = (err /\ asks[i].for # "names")
  /\ UNCHANGED <<at, all, server, changes>>

Fails(i) ==
  /\ asks[i].for # "none" /\ Change
  /\ asks' = [asks EXCEPT ![i] = NoAsk]
  /\ err' = (err \/ asks[i].for # "traces")
  /\ UNCHANGED <<at, shown, all, server>>

Leave ==
  /\ at # "away" /\ Change
  /\ at' = "away" /\ shown' = Blank /\ err' = FALSE /\ all' = FALSE
  /\ asks' = [i \in Slots |-> NoAsk]
  /\ UNCHANGED server

\* What the state of an event may become next: it ends, is dismissed, is retracted.
Becomes ==
  {<<"active", "closed">>, <<"active", "dismissed">>, <<"active", "retracted">>,
   <<"closed", "retracted">>, <<"dismissed", "dismissed and retracted">>,
   <<"retracted", "dismissed and retracted">>}

\* The event ends, and may be retracted before or after that; names are given and removed.
ServerChanges ==
  /\ Change
  /\ \/ \E s \in Statuses : <<server.event, s>> \in Becomes /\ server' = [server EXCEPT !.event = s]
     \/ \E s \in {"nobody", "some"} : server' = [server EXCEPT !.names = s]
  /\ server' # server
  /\ UNCHANGED <<at, shown, err, all, asks>>

\* What is said of an event: that it was retracted goes before everything else.
Badge(s) == IF s = "dismissed and retracted" THEN "retracted" ELSE s

\* The list: the event with its badge, or the words for none.
EventList(rows) == IF rows = "empty" THEN "no events" ELSE Badge(rows)

\* The screens of /event, /events and /contributors.
EventView        == IF err THEN "error" ELSE IF shown.main = "none" THEN "loading" ELSE Badge(shown.main)
EventsPage       == IF err THEN "error" ELSE IF shown.main = "none" THEN "loading" ELSE EventList(shown.main)
ContributorsPage == IF shown.main # "none" THEN shown.main ELSE IF err THEN "error" ELSE "loading"

Init ==
  /\ at = "away" /\ shown = Blank /\ err = FALSE /\ all = FALSE
  /\ asks = [i \in Slots |-> NoAsk]
  /\ server = [event |-> "active", names |-> "nobody"] /\ changes = Changes

Next ==
  \/ \E p \in Pages : OpenPage(p)
  \/ \E i \in Slots : Served(i) \/ Answered(i) \/ Fails(i)
  \/ Poll \/ ShowAll \/ Leave \/ ServerChanges

Spec == Init /\ [][Next]_vars

TypeOK ==
  /\ at \in Pages \cup {"away"} /\ err \in BOOLEAN /\ all \in BOOLEAN /\ changes \in 0..Changes
  /\ asks \in [Slots -> [for : {"none", "event", "traces", "all", "usual", "names"},
                         got : {"none", "nobody", "some", "traces", "empty"} \cup Statuses]]
  /\ server \in [event : Statuses, names : {"nobody", "some"}]

\* An open page that asks again comes to show what the server has; /event only until a request
\* of it failed, for it never takes its error back.
CurrentShown ==
  /\ at = "event" => EventView \in {Badge(server.event), "error"}
  /\ at = "contributors" => ContributorsPage = server.names
===============================================================================
