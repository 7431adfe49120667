--------------------------------- MODULE Live ----------------------------------
(***************************************************************************)
(* The public pages that show the network as it is: useNetwork, the hook   *)
(* that follows /ws/public (web/lib/useNetwork.ts), useFieldEvent, which   *)
(* chooses what the wave field plays (web/lib/useFieldEvent.ts), and the   *)
(* server's side of them (internal/server/public.go).                      *)
(*                                                                         *)
(* One event is followed.  It is known by how often it was updated: the    *)
(* first version is a candidate, and the last may be dismissed.            *)
(***************************************************************************)
EXTENDS Naturals, Sequences

CONSTANTS
  Last,    \* bound: versions of the event
  Room,    \* messages a viewer may have waiting (public.go)
  Visits,  \* bound: how often the page is opened
  Stories  \* bounds: what fails, how often the store is written and the event ages

\* Assumed of the constants by whoever instantiates the module.
LiveAssumption ==
  Last \in Nat /\ Room \in Nat \ {0} /\ Visits \in Nat /\ Stories \subseteq [{"fault", "store"} -> Nat]

VARIABLES
  event,     \* the engine: its version, how it ends, is it younger than LIVE_SEC, is it lost
  feed,      \* recentEvents: what is published of it
  row,       \* its row of the store
  snapshot,  \* the snapshot published last
  socks,     \* the sockets: of which visit, their stage, what is under way to the page
  page,      \* the state of useNetwork: the snapshot shown, live, error
  conn,      \* the variables of its effect, and the address of the server
  http,      \* the first request: its stage, its answer
  field,     \* useFieldEvent: the version to replay, its requests
  left       \* what is left of the story

vars == <<event, feed, row, snapshot, socks, page, conn, http, field, left>>

Slots   == {1, 2}
Nothing == [v |-> 0, retracted |-> FALSE]
Shown   == [v : 0..Last, retracted : BOOLEAN]
NoSock  == [visit |-> 0, stage |-> "free", queue |-> <<>>]
NoAsk   == [stage |-> "none", got |-> Nothing]
Spend(what) == left[what] > 0 /\ left' = [left EXCEPT ![what] = @ - 1]
Fail        == Spend("fault")

\* A snapshot, or a list, has the event unless it was dismissed.
Dismissed(v) == v = Last /\ event.fate = "dismissed"
Lists(s)     == s.v > 0 /\ ~Dismissed(s.v)
Usable(s)    == Lists(s) /\ s.v > 1 /\ ~s.retracted

(***************************************************************************)
(* The server.                                                             *)
(***************************************************************************)
\* To who is connected; a viewer who is behind misses it.
BroadcastPublic(kind, s) ==
  socks' = [i \in Slots |->
    IF socks[i].stage \in {"listed", "open"} /\ Len(socks[i].queue) < Room
    THEN [socks[i] EXCEPT !.queue = Append(@, [kind |-> kind, of |-> s])] ELSE socks[i]]

Site == UNCHANGED <<page, conn, http, field>>

\* toPublic has no field for a retraction, which is in the store only.
ToPublic(v) == [Nothing EXCEPT !.v = v]

OnEventUpdate ==
  /\ event.v < Last /\ ~event.lost
  /\ event' = [event EXCEPT !.v = @ + 1]
  /\ feed' = ToPublic(event.v + 1)
  /\ BroadcastPublic("event", feed')
  /\ UNCHANGED <<row, snapshot, left>> /\ Site

\* The store's writer is behind.
UpsertEvent ==
  /\ row.v < event.v /\ Spend("store")
  /\ \E v \in (row.v + 1)..event.v : row' = [row EXCEPT !.v = v]
  /\ UNCHANGED <<event, feed, snapshot, socks>> /\ Site

RetractEvent ==
  /\ row.v > 0 /\ ~row.retracted /\ Spend("store")
  /\ row' = [row EXCEPT !.retracted = TRUE]
  /\ UNCHANGED <<event, feed, snapshot, socks>> /\ Site

\* Every two seconds.
Publish ==
  /\ snapshot' = feed
  /\ BroadcastPublic("network", feed)
  /\ UNCHANGED <<event, feed, row, left>> /\ Site

\* handlePublicWS sends the last snapshot before it lists the viewer.
Upgraded(i) ==
  /\ socks[i].stage = "connecting" /\ conn.address = "right"
  /\ socks' = [socks EXCEPT ![i].stage = "upgraded",
                            ![i].queue = <<[kind |-> "network", of |-> snapshot]>>]
  /\ UNCHANGED <<event, feed, row, snapshot, left>> /\ Site

ListedViewer(i) ==
  /\ socks[i].stage = "upgraded"
  /\ socks' = [socks EXCEPT ![i].stage = "listed"]
  /\ UNCHANGED <<event, feed, row, snapshot, left>> /\ Site

Break(s) == IF s.stage \in {"free", "closed"} THEN s ELSE [s EXCEPT !.stage = "closed", !.queue = <<>>]

\* What the engine and the feed knew is gone; the store keeps its rows.  The server may come
\* back at another address.
Restart ==
  /\ Fail
  /\ event' = [event EXCEPT !.lost = TRUE]
  /\ feed' = Nothing /\ snapshot' = Nothing
  /\ socks' = [i \in Slots |-> Break(socks[i])]
  /\ \E a \in {conn.address, "left"} : conn' = [conn EXCEPT !.address = a]
  /\ UNCHANGED <<row, page, http, field>>

\* The connection fails, or is refused; at an address the server left it always does.
Breaks(i) ==
  /\ socks[i].stage \notin {"free", "closed"}
  /\ IF socks[i].stage = "connecting" /\ conn.address = "left" THEN UNCHANGED left ELSE Fail
  /\ socks' = [socks EXCEPT ![i] = Break(@)]
  /\ UNCHANGED <<event, feed, row, snapshot>> /\ Site

Ages ==
  /\ event.v > 0 /\ event.young /\ Spend("store")
  /\ event' = [event EXCEPT !.young = FALSE]
  /\ UNCHANGED <<feed, row, snapshot, socks>> /\ Site

(***************************************************************************)
(* useNetwork.                                                             *)
(***************************************************************************)
Server  == UNCHANGED <<event, feed, row, snapshot>>
Mine(i) == page.on /\ socks[i].visit = page.visit

Count(p) == IF p.has /\ Lists(p.shown) THEN 1 ELSE 0

\* The effect of useFieldEvent: another number of events, and it asks for the list.
Ask(f) == IF f[1] = NoAsk THEN [f EXCEPT ![1].stage = "sent"]
          ELSE IF f[2] = NoAsk THEN [f EXCEPT ![2].stage = "sent"] ELSE f

Follow(p) ==
  /\ page' = p
  /\ field' = IF Count(p) = Count(page) THEN field ELSE [field EXCEPT !.asks = Ask(@)]

\* connect: a socket, and after two failures the address is asked for again.
Connect(visit, retry, address) ==
  \E i \in Slots :
    /\ socks[i].stage = "free" /\ \A j \in Slots : socks[j].stage = "free" => i <= j
    /\ socks' = [socks EXCEPT ![i] = [NoSock EXCEPT !.visit = visit, !.stage = "connecting"]]
    /\ conn' = [current |-> i, retry |-> retry, timer |-> FALSE, framed |-> FALSE,
                address |-> address, asked |-> conn.asked \/ retry >= 2]

Open ==
  /\ ~page.on /\ page.visit < Visits
  /\ page' = [visit |-> page.visit + 1, on |-> TRUE, has |-> FALSE, shown |-> Nothing,
              live |-> FALSE, error |-> FALSE]
  /\ Connect(page.visit + 1, 0, conn.address)
  /\ http' = [NoAsk EXCEPT !.stage = "sent"]
  /\ field' = [replay |-> 0, asks |-> Ask([i \in Slots |-> NoAsk])]
  /\ UNCHANGED left /\ Server

HttpServed ==
  /\ http.stage = "sent" /\ conn.address = "right"
  /\ http' = [stage |-> "served", got |-> snapshot]
  /\ UNCHANGED <<socks, page, conn, field, left>> /\ Server

MutantHttpAnswered ==
  /\ http.stage = "served"
  /\ http' = NoAsk
  /\ Follow([page EXCEPT !.has = TRUE, !.shown = http.got])
  /\ UNCHANGED <<socks, conn, left>> /\ Server

\* What a socket brought is newer.
HttpAnswered ==
  /\ http.stage = "served"
  /\ http' = NoAsk
  /\ Follow(IF page.has THEN page ELSE [page EXCEPT !.has = TRUE, !.shown = http.got])
  /\ UNCHANGED <<socks, conn, left>> /\ Server

HttpFails ==
  /\ http.stage # "none"
  /\ IF conn.address = "left" THEN UNCHANGED left ELSE Fail
  /\ http' = NoAsk
  /\ page' = [page EXCEPT !.error = TRUE]
  /\ UNCHANGED <<socks, conn, field>> /\ Server

OnOpen(i) ==
  /\ Mine(i) /\ socks[i].stage = "listed"
  /\ socks' = [socks EXCEPT ![i].stage = "open"]
  /\ conn' = [conn EXCEPT !.retry = 0]
  /\ page' = [page EXCEPT !.live = TRUE, !.error = FALSE]
  /\ UNCHANGED <<http, field, left>> /\ Server

\* A snapshot is shown; an event takes its place in the one that is, or leaves it.
OnMessage(i) ==
  /\ Mine(i) /\ socks[i].stage = "open" /\ socks[i].queue # <<>>
  /\ socks' = [socks EXCEPT ![i].queue = Tail(@)]
  /\ LET m == Head(socks[i].queue)
     IN  /\ conn' = [conn EXCEPT !.framed = @ \/ m.kind = "network"]
         /\ Follow(IF m.kind = "event" /\ ~page.has THEN page
                   ELSE [page EXCEPT !.has = TRUE, !.shown = m.of])
  /\ UNCHANGED <<http, left>> /\ Server

MutantOnClose(i) ==
  /\ socks[i].stage = "closed"
  /\ socks' = [socks EXCEPT ![i] = NoSock]
  /\ IF conn.current = i
     THEN /\ page' = [page EXCEPT !.live = FALSE]
          /\ conn' = [conn EXCEPT !.timer = TRUE, !.retry = IF @ < 2 THEN @ + 1 ELSE @]
     ELSE UNCHANGED <<page, conn>>
  /\ UNCHANGED <<http, field, left>> /\ Server

\* Only the current socket of a page that is still there is connected again.
OnClose(i) ==
  /\ socks[i].stage = "closed"
  /\ socks' = [socks EXCEPT ![i] = NoSock]
  /\ IF conn.current = i /\ Mine(i)
     THEN /\ page' = [page EXCEPT !.live = FALSE]
          /\ conn' = [conn EXCEPT !.timer = TRUE, !.retry = IF @ < 2 THEN @ + 1 ELSE @]
     ELSE UNCHANGED <<page, conn>>
  /\ UNCHANGED <<http, field, left>> /\ Server

TimerRuns ==
  /\ conn.timer
  /\ Connect(page.visit, conn.retry, conn.address)
  /\ UNCHANGED <<page, http, field, left>> /\ Server

\* refreshBackend, which the next connection benefits from.
Refreshed ==
  /\ conn.asked
  /\ conn' = [conn EXCEPT !.asked = FALSE, !.address = "right"]
  /\ UNCHANGED <<socks, page, http, field, left>> /\ Server

\* The cleanup of the effect; answers that come later are ignored.
Leave ==
  /\ page.on
  /\ page' = [page EXCEPT !.on = FALSE]
  /\ conn' = [conn EXCEPT !.timer = FALSE]
  /\ socks' = [socks EXCEPT ![conn.current] = Break(@)]
  /\ http' = NoAsk
  /\ field' = [replay |-> 0, asks |-> [i \in Slots |-> NoAsk]]
  /\ UNCHANGED left /\ Server

(***************************************************************************)
(* useFieldEvent, and the screen.                                          *)
(***************************************************************************)
FieldServed(k) ==
  /\ field.asks[k].stage = "sent" /\ conn.address = "right"
  /\ field' = [field EXCEPT !.asks[k] = [stage |-> "served", got |-> row]]
  /\ UNCHANGED <<socks, page, conn, http, left>> /\ Server

FieldAnswered(k) ==
  /\ field.asks[k].stage = "served"
  /\ field' = [replay |-> IF Usable(field.asks[k].got) THEN field.asks[k].got.v ELSE 0,
               asks |-> [field.asks EXCEPT ![k] = NoAsk]]
  /\ UNCHANGED <<socks, page, conn, http, left>> /\ Server

FieldFails(k) ==
  /\ field.asks[k].stage # "none"
  /\ IF conn.address = "left" THEN UNCHANGED left ELSE Fail
  /\ field' = [field EXCEPT !.asks[k] = NoAsk]
  /\ UNCHANGED <<socks, page, conn, http>> /\ Server

Mode ==
  IF page.has /\ Usable(page.shown) /\ event.young THEN "live"
  ELSE IF field.replay > 0 THEN "replay" ELSE "none"

\* The head of the page, what the field plays, and the list below it.
Screen == [dot  |-> IF page.live THEN "live" ELSE IF page.error THEN "offline" ELSE "connecting",
           mode |-> Mode, listed |-> Count(page)]

(***************************************************************************)
(* The specification.                                                      *)
(***************************************************************************)
Init ==
  /\ event \in [v : {0}, fate : {"closed", "dismissed"}, young : {TRUE}, lost : {FALSE}]
  /\ feed = Nothing /\ row = Nothing /\ snapshot = Nothing
  /\ socks = [i \in Slots |-> NoSock]
  /\ page = [visit |-> 0, on |-> FALSE, has |-> FALSE, shown |-> Nothing, live |-> FALSE,
             error |-> FALSE]
  /\ conn = [current |-> 1, retry |-> 0, timer |-> FALSE, framed |-> FALSE, address |-> "right",
             asked |-> FALSE]
  /\ http = NoAsk /\ field = [replay |-> 0, asks |-> [i \in Slots |-> NoAsk]]
  /\ left \in Stories

Next ==
  \/ OnEventUpdate \/ UpsertEvent \/ RetractEvent \/ Publish \/ Restart \/ Ages
  \/ Open \/ HttpServed \/ HttpAnswered \/ HttpFails \/ TimerRuns \/ Refreshed \/ Leave
  \/ \E i \in Slots : \/ Upgraded(i) \/ ListedViewer(i) \/ Breaks(i)
                      \/ OnOpen(i) \/ OnMessage(i) \/ OnClose(i)
                      \/ FieldServed(i) \/ FieldAnswered(i) \/ FieldFails(i)

Spec == Init /\ [][Next]_vars

(***************************************************************************)
(* Properties.                                                             *)
(***************************************************************************)
TypeOK ==
  /\ event \in [v : 0..Last, fate : {"closed", "dismissed"}, young : BOOLEAN, lost : BOOLEAN]
  /\ feed \in Shown /\ row \in Shown /\ snapshot \in Shown
  /\ left \in [{"fault", "store"} -> Nat]
  /\ \A i \in Slots :
       /\ socks[i].stage \in {"free", "connecting", "upgraded", "listed", "open", "closed"}
       /\ Len(socks[i].queue) <= Room /\ socks[i].visit \in 0..Visits
  /\ page \in [visit : 0..Visits, on : BOOLEAN, has : BOOLEAN, shown : Shown, live : BOOLEAN,
               error : BOOLEAN]
  /\ conn \in [current : Slots, retry : 0..2, timer : BOOLEAN, framed : BOOLEAN,
               address : {"left", "right"}, asked : BOOLEAN]
  /\ field.replay \in 0..Last

\* From the first snapshot of a connection on, the page never goes back to an older state of
\* the event, whatever request is still under way and whatever was skipped (useNetwork).
NotBack == conn.framed /\ conn'.framed => page'.shown.v >= page.shown.v

\* Who left the page is not connected again by a socket that closes late (useNetwork's cleanup).
NothingAfterLeaving ==
  ~page.on => ~conn.timer /\ \A i \in Slots : socks[i].stage \in {"free", "closed"}

\* The page comes to show the newest state of the event, though frames are skipped, connections
\* break and the server moved (useNetwork, broadcastPublic).
NewestShown == ~page.on \/ (page.has /\ page.shown = feed)

\* "retracted: true if the event was withdrawn": a snapshot made after the retraction says so
\* of an event that it lists (publish, handleAdminRetract).
RetractionSaid ==
  [][Publish /\ row.retracted /\ Lists(snapshot') => snapshot'.retracted]_vars
===============================================================================
