-------------------------------- MODULE Sensor --------------------------------
(***************************************************************************)
(* The browser client of a phone that listens: SensorClient and the        *)
(* functions beside it (web/lib/sensor/client.ts), the one client of a tab *)
(* (session.ts), the night log (nightlog.ts) and the address of the server *)
(* (config.ts).  One tab, its local storage, and as much of the server as  *)
(* these files rely on.                                                    *)
(*                                                                         *)
(* A second is one Tick: a second of motion is a batch, named by its       *)
(* second, and a row of the night log.                                     *)
(***************************************************************************)
EXTENDS Naturals, Sequences, FiniteSets, SequencesExt

\* What comes from outside the program: time, faults and the user.
Outside == {"second", "fault", "hide", "move", "start", "area", "request", "reload", "night"}

CONSTANTS
  Devices,     \* what the server may enrol
  Stored,      \* the device the phone may have stored from before, or "none"
  MaxQueue,    \* MAX_QUEUE: batches kept while they cannot be sent
  MaxRows,     \* MAX_ROWS of the night log
  NightGap,    \* NEW_NIGHT_GAP_S in seconds of the model
  MaxClients,  \* bound: clients this tab makes
  Budgets      \* bounds: how often each thing that comes from outside happens

ASSUME SensorAssumption ==
  /\ MaxQueue \in Nat \ {0} /\ MaxRows \in Nat \ {0} /\ NightGap \in Nat
  /\ MaxClients \in Nat \ {0} /\ "none" \notin Devices /\ Stored \subseteq Devices \cup {"none"}
  /\ Budgets \subseteq [Outside -> Nat]

VARIABLES
  cl,          \* the clients this tab made, by number
  current,     \* session.ts: the number of the one it knows, 0 before the first
  visible,     \* document.visibilityState
  creds,       \* local storage: the stored device, or "none"
  area,        \* local storage: is a location stored, and is it on the server's grid
  registered,  \* the server: a device is "unused", "live" or "gone"
  request,     \* the enrolment or deletion under way: its kind, device and stage
  told,        \* devices the phone has been told are deleted
  url,         \* WS_URL: "old" or "new"
  listed,      \* the address that works, which /backend.json lists
  fetching,    \* config.ts: inflight
  recent,      \* config.ts: lastRefresh is less than 15 s ago
  now,         \* seconds
  night,       \* the log in memory, or in local storage when "none" in memory
  saved,       \* the log in local storage
  attached,    \* the clients whose samples the log takes
  got,         \* history: the batches the server took, in order
  left         \* what is left of the budget chosen in the beginning

net  == <<url, listed, fetching, recent>>
log  == <<night, saved, attached>>
keys == <<creds, area, registered, request, told>>
vars == <<cl, current, visible, keys, net, now, log, got, left>>

Ids    == 1..MaxClients
NoLog  == [none |-> TRUE, start |-> 0, rows |-> <<>>]
Areas  == {"none", "good", "bad"}
Phases == {"idle", "connecting", "streaming", "reconnecting", "paused", "stopped", "error"}

(***************************************************************************)
(* Clients.  ws is the socket (a client has one at a time), up and down    *)
(* the messages on it, srv what the server makes of the connection.        *)
(***************************************************************************)
Unused ==
  [phase |-> "idle", dev |-> "none", area |-> "none", active |-> FALSE,
   ws |-> "none", to |-> "old", up |-> <<>>, down |-> <<>>, srv |-> "none",
   delayed |-> FALSE, retry |-> 0, clock |-> FALSE, queue |-> <<>>, seq |-> 0,
   asked |-> 0, locks |-> 0, wake |-> FALSE, flag |-> FALSE]

Spend(what) == left[what] > 0 /\ left' = [left EXCEPT ![what] = @ - 1]

Running(c) == cl[c].phase \notin {"idle", "stopped", "error"}
Msg(kind)  == [kind |-> kind, seq |-> 0, sec |-> 0]

Send(r, m) == IF r.ws = "open" THEN [r EXCEPT !.up = Append(@, m)] ELSE r

\* acquireWake asks the browser if the page is visible.
AcquireWake(r, vis) == IF vis THEN [r EXCEPT !.asked = @ + 1] ELSE r

Connect(r) == [r EXCEPT !.ws = "connecting", !.to = url, !.up = <<>>, !.down = <<>>,
                        !.srv = "none", !.delayed = FALSE]

Stop(r) ==
  [Send(r, Msg("bye")) EXCEPT
     !.active = FALSE, !.ws = "none", !.down = <<>>, !.phase = "stopped", !.flag = FALSE,
     !.locks = IF r.wake THEN @ - 1 ELSE @, !.wake = FALSE]

Batches(r) == [i \in 1..Len(r.queue) |->
                 [kind |-> "batch", seq |-> r.seq + i, sec |-> r.queue[i]]]

MutantDrain(r) ==
  IF r.clock /\ r.ws = "open"
  THEN [r EXCEPT !.up = @ \o Batches(r), !.seq = @ + Len(r.queue)]
  ELSE r

Drain(r) ==
  IF r.clock /\ r.ws = "open"
  THEN [r EXCEPT !.up = @ \o Batches(r), !.seq = @ + Len(r.queue), !.queue = <<>>]
  ELSE r

MutantFlush(r, moved) ==
  Drain([r EXCEPT !.queue = IF moved THEN Append(@, now') ELSE @])

\* flush: the samples of this second become a batch, the oldest of too many go.
Flush(r, moved) ==
  LET q == IF moved THEN Append(r.queue, now') ELSE r.queue
  IN  Drain([r EXCEPT !.queue = IF Len(q) > MaxQueue THEN Tail(q) ELSE q])

(***************************************************************************)
(* The night log.                                                          *)
(***************************************************************************)
\* nightLog: the log in memory, or what is stored.
NightLog == IF night.none THEN saved ELSE night

LastRow(l) == IF l.rows = <<>> THEN l.start ELSE Last(l.rows)

MutantDetachNightLog(keep) == UNCHANGED saved /\ attached' = attached \cup keep

DetachNightLog(keep) ==
  /\ saved' = IF attached # {} /\ ~night.none THEN night ELSE saved
  /\ attached' = keep

\* attachNightLog: the previous client is detached; a long pause starts a new log.
AttachNightLog(c) ==
  /\ DetachNightLog({c})
  /\ night' = IF NightLog.none \/ now - LastRow(NightLog) > NightGap
              THEN [none |-> FALSE, start |-> now, rows |-> <<>>]
              ELSE NightLog

\* The tap: a second with samples is a row for every tap; the oldest of too many goes.
AddRows(n) ==
  LET rows == night.rows \o [i \in 1..n |-> now']
      kept == IF Len(rows) > MaxRows THEN SubSeq(rows, Len(rows) - MaxRows + 1, Len(rows)) ELSE rows
  IN  IF night.none THEN night ELSE [night EXCEPT !.rows = kept]

SaveNightLog ==
  /\ Spend("night")
  /\ attached # {} /\ ~night.none
  /\ saved' = night
  /\ UNCHANGED <<cl, current, visible, keys, net, now, night, attached, got>>

ClearNightLog ==
  /\ Spend("night")
  /\ visible /\ NightLog.rows # <<>>
  /\ night' = NoLog /\ saved' = NoLog
  /\ UNCHANGED <<cl, current, visible, keys, net, now, attached, got>>

\* The page draws the night, and so reads the stored log.
ShowNight ==
  /\ Spend("night")
  /\ night' = NightLog
  /\ UNCHANGED <<cl, current, visible, keys, net, now, saved, attached, got>>

(***************************************************************************)
(* config.ts: the address of the server.                                   *)
(***************************************************************************)
RefreshBackend ==
  IF fetching \/ recent
  THEN UNCHANGED <<fetching, recent>>
  ELSE fetching' = TRUE /\ recent' = TRUE

\* The list came: keep the address if it is listed, else take one that is.
RefreshAnswer ==
  /\ fetching
  /\ fetching' = FALSE
  /\ url' = listed
  /\ UNCHANGED <<cl, current, visible, keys, listed, recent, now, log, got, left>>

RefreshFails ==
  /\ Spend("fault")
  /\ fetching
  /\ fetching' = FALSE
  /\ UNCHANGED <<cl, current, visible, keys, url, listed, recent, now, log, got>>

RefreshAllowed ==
  /\ recent
  /\ recent' = FALSE
  /\ UNCHANGED <<cl, current, visible, keys, url, listed, fetching, now, log, got, left>>

\* The watchdog restarts the tunnel: the server has another address, and it is listed.
BackendMoves ==
  /\ Spend("move")
  /\ listed = "old"
  /\ listed' = "new"
  /\ UNCHANGED <<cl, current, visible, keys, url, fetching, recent, now, log, got>>

(***************************************************************************)
(* SensorClient.                                                           *)
(***************************************************************************)
Opened(c) ==
  /\ cl[c].ws = "connecting" /\ cl[c].to = listed
  /\ cl' = [cl EXCEPT ![c].ws = "open", ![c].up = <<Msg("hello")>>]
  /\ UNCHANGED <<current, visible, keys, net, now, log, got, left>>

\* The socket is closed: onclose.
MutantOnClose(c) ==
  /\ cl' = [cl EXCEPT ![c].ws = "closed", ![c].up = <<>>, ![c].down = <<>>, ![c].srv = "none",
                      ![c].phase = IF Running(c) THEN "reconnecting" ELSE @,
                      ![c].retry = IF Running(c) /\ @ < 2 THEN @ + 1 ELSE @,
                      ![c].delayed = @ \/ Running(c)]
  /\ UNCHANGED <<fetching, recent>>

OnClose(c) ==
  /\ cl' = [cl EXCEPT ![c].ws = "closed", ![c].up = <<>>, ![c].down = <<>>, ![c].srv = "none",
                      ![c].phase = IF Running(c) THEN "reconnecting" ELSE @,
                      ![c].retry = IF Running(c) /\ @ < 2 THEN @ + 1 ELSE @,
                      ![c].delayed = @ \/ Running(c)]
  /\ IF Running(c) /\ cl[c].retry >= 2 THEN RefreshBackend ELSE UNCHANGED <<fetching, recent>>

\* The server closes it, or the address it goes to is dead.
ServerCloses(c) ==
  /\ \/ cl[c].ws = "open" /\ cl[c].srv = "closed" /\ cl[c].down = <<>>
     \/ cl[c].ws \in {"connecting", "open"} /\ cl[c].to # listed
  /\ OnClose(c)
  /\ UNCHANGED <<current, visible, keys, url, listed, now, log, got, left>>

\* The network fails.
ConnectionLost(c) ==
  /\ Spend("fault")
  /\ cl[c].ws \in {"connecting", "open"}
  /\ OnClose(c)
  /\ UNCHANGED <<current, visible, keys, url, listed, now, log, got>>

MutantDelayedConnect(c) ==
  /\ cl[c].delayed
  /\ cl' = [cl EXCEPT ![c] = Connect(@)]
  /\ UNCHANGED <<current, visible, keys, net, now, log, got, left>>

\* The timeout of onclose: connect if this is still the client's socket.
DelayedConnect(c) ==
  /\ cl[c].delayed
  /\ cl' = [cl EXCEPT ![c] = IF cl[c].ws = "closed" THEN Connect(@) ELSE [@ EXCEPT !.delayed = FALSE]]
  /\ UNCHANGED <<current, visible, keys, net, now, log, got, left>>

MutantWelcome(r) == [r EXCEPT !.retry = 0, !.phase = "streaming"]
Welcome(r)       == [r EXCEPT !.retry = 0, !.phase = IF visible THEN "streaming" ELSE "paused"]

Synced(r) == Drain([r EXCEPT !.clock = TRUE])

\* onmessage.
Receive(c) ==
  /\ cl[c].ws = "open" /\ cl[c].down # <<>>
  /\ LET r == [cl[c] EXCEPT !.down = Tail(@)]
     IN  CASE Head(cl[c].down) = "welcome" ->
                cl' = [cl EXCEPT ![c] = Welcome(r)] /\ UNCHANGED keys
           [] Head(cl[c].down) = "sync" ->
                cl' = [cl EXCEPT ![c] = Synced(r)] /\ UNCHANGED keys
           [] Head(cl[c].down) = "auth" ->
                /\ cl' = [cl EXCEPT ![c] = Stop(r)]
                /\ creds' = "none" /\ area' = "none"
                /\ UNCHANGED <<registered, request, told>>
           [] Head(cl[c].down) = "location" ->
                cl' = [cl EXCEPT ![c] = [r EXCEPT !.phase = "error"]] /\ UNCHANGED keys
  /\ UNCHANGED <<current, visible, net, now, log, got, left>>

\* sync, by a timer: after the welcome, and every 30 s.
Sync(c) ==
  /\ cl[c].active /\ cl[c].ws = "open" /\ cl[c].up = <<>> /\ cl[c].down = <<>>
  /\ ~(cl[c].clock /\ cl[c].queue = <<>>)
  /\ cl' = [cl EXCEPT ![c] = Send(@, Msg("sync"))]
  /\ UNCHANGED <<current, visible, keys, net, now, log, got, left>>

\* A second passes: onMotion if the phone gives readings, and flush.
Tick(moved) ==
  /\ Spend("second")
  /\ now' = now + 1
  /\ moved => visible
  /\ cl' = [c \in Ids |-> IF cl[c].active THEN Flush(cl[c], moved) ELSE cl[c]]
  /\ night' = AddRows(IF moved THEN Cardinality({c \in attached : cl[c].active}) ELSE 0)
  /\ UNCHANGED <<current, visible, keys, net, saved, attached, got>>

\* onVisibility, and the browser, which takes the locks from a hidden page.
MutantReleased(r) == [r EXCEPT !.locks = 0, !.wake = FALSE]
Released(r)       == [r EXCEPT !.locks = 0, !.wake = FALSE, !.flag = FALSE]

Hide ==
  /\ Spend("hide")
  /\ visible
  /\ visible' = FALSE
  /\ cl' = [c \in Ids |-> LET r == Released(cl[c])
                          IN  IF r.active THEN [r EXCEPT !.phase = "paused"] ELSE r]
  /\ UNCHANGED <<current, keys, net, now, log, got>>

Show ==
  /\ ~visible
  /\ visible' = TRUE
  /\ cl' = [c \in Ids |->
              IF ~cl[c].active THEN cl[c]
              ELSE [AcquireWake(cl[c], TRUE) EXCEPT
                      !.phase = IF cl[c].ws = "open" THEN "streaming" ELSE @]]
  /\ UNCHANGED <<current, keys, net, now, log, got, left>>

\* The answer to acquireWake.
WakeAnswer(c) ==
  /\ cl[c].asked > 0
  /\ \/ /\ visible
        /\ cl' = [cl EXCEPT ![c].asked = @ - 1, ![c].locks = @ + 1, ![c].wake = TRUE, ![c].flag = TRUE]
     \/ cl' = [cl EXCEPT ![c].asked = @ - 1, ![c].flag = FALSE]
  /\ UNCHANGED <<current, visible, keys, net, now, log, got, left>>

(***************************************************************************)
(* The server, as far as the client relies on it.                          *)
(***************************************************************************)
Reply(c, m) == IF cl[c].ws = "open" THEN Append(cl[c].down, m) ELSE cl[c].down

Hello(c) ==
  LET m == IF registered[cl[c].dev] # "live" THEN "auth"
           ELSE IF cl[c].area = "bad" THEN "location" ELSE "welcome"
  IN  cl' = [cl EXCEPT ![c].up = Tail(@), ![c].down = Reply(c, m),
                       ![c].srv = IF m = "welcome" THEN "serving" ELSE "closed"]

ServerTakes(c) ==
  /\ cl[c].up # <<>> /\ cl[c].srv # "closed"
  /\ LET m == Head(cl[c].up)
     IN  /\ CASE m.kind = "hello" -> Hello(c)
             [] m.kind = "sync"  -> cl' = [cl EXCEPT ![c].up = Tail(@), ![c].down = Reply(c, "sync")]
             [] m.kind = "batch" -> cl' = [cl EXCEPT ![c].up = Tail(@)]
             [] m.kind = "bye"   -> cl' = [cl EXCEPT ![c].up = <<>>, ![c].srv = "closed"]
         /\ got' = IF m.kind = "batch" THEN Append(got, [from |-> c, seq |-> m.seq, sec |-> m.sec])
                   ELSE got
  /\ UNCHANGED <<current, visible, keys, net, now, log, left>>

(***************************************************************************)
(* The functions the pages call: start and stop, the stored location,      *)
(* enrolment and deletion.                                                 *)
(***************************************************************************)
Idle(c) == cl[c].phase = "idle"

\* startStreaming, which returns the client that runs if there is one; start.
Started(r) ==
  Connect(AcquireWake([r EXCEPT !.phase = "connecting", !.active = TRUE, !.dev = creds, !.area = area],
                      visible))

StartStreaming(c) ==
  /\ Spend("start")
  /\ visible
  /\ ~(current # 0 /\ Running(current))
  /\ creds # "none" /\ area # "none"
  /\ Idle(c) /\ \A b \in Ids : Idle(b) => c <= b
  /\ current' = c
  /\ cl' = [cl EXCEPT ![c] = Started(@)]
  /\ AttachNightLog(c)
  /\ UNCHANGED <<visible, keys, net, now, got>>

MutantStopped(c) == [cl EXCEPT ![c] = [Stop(@) EXCEPT !.active = TRUE]]
Stopped(c)       == [cl EXCEPT ![c] = Stop(@)]

\* stopStreaming.
StopStreaming ==
  /\ visible /\ current # 0 /\ Running(current)
  /\ cl' = Stopped(current)
  /\ DetachNightLog({})
  /\ UNCHANGED <<current, visible, keys, net, now, night, got, left>>

SetLocation(a) ==
  /\ Spend("area")
  /\ visible
  /\ area' = a
  /\ UNCHANGED <<cl, current, visible, creds, registered, request, told, net, now, log, got>>

NoRequest == [kind |-> "none", dev |-> "none", stage |-> "none"]

EnrollSend ==
  /\ Spend("request")
  /\ visible /\ creds = "none" /\ request = NoRequest
  /\ request' = [kind |-> "enroll", dev |-> "none", stage |-> "sent"]
  /\ UNCHANGED <<cl, current, visible, creds, area, registered, told, net, now, log, got>>

DeleteSend ==
  /\ Spend("request")
  /\ visible /\ creds # "none" /\ request = NoRequest
  /\ request' = [kind |-> "delete", dev |-> creds, stage |-> "sent"]
  /\ IF current = 0 THEN UNCHANGED <<cl, saved, attached>>
     ELSE cl' = Stopped(current) /\ DetachNightLog({})
  /\ UNCHANGED <<current, visible, creds, area, registered, told, net, now, night, got>>

\* The server enrols a new device, or deletes this one and closes its sessions.
RequestServed ==
  /\ request.stage = "sent"
  /\ \/ /\ request.kind = "enroll"
        /\ \E d \in Devices :
             /\ registered[d] = "unused"
             /\ registered' = [registered EXCEPT ![d] = "live"]
             /\ request' = [request EXCEPT !.stage = "answered", !.dev = d]
        /\ UNCHANGED cl
     \/ /\ request.kind = "delete"
        /\ registered' = [registered EXCEPT ![request.dev] = "gone"]
        /\ request' = [request EXCEPT !.stage = "answered"]
        /\ cl' = [c \in Ids |-> IF cl[c].dev = request.dev /\ cl[c].srv = "serving"
                                THEN [cl[c] EXCEPT !.srv = "closed"] ELSE cl[c]]
  /\ UNCHANGED <<current, visible, creds, area, told, net, now, log, got, left>>

MutantRequestFails ==
  /\ request # NoRequest
  /\ request' = NoRequest
  /\ told' = IF request.kind = "delete" THEN told \cup {request.dev} ELSE told
  /\ creds' = IF request.kind = "delete" THEN "none" ELSE creds
  /\ UNCHANGED <<cl, current, visible, area, registered, net, now, log, got, left>>

\* The request or its answer is lost: the page shows an error and keeps what is stored.
RequestFails ==
  /\ request # NoRequest
  /\ request' = NoRequest
  /\ UNCHANGED <<cl, current, visible, creds, area, registered, told, net, now, log, got, left>>

RequestAnswered ==
  /\ request.stage = "answered"
  /\ request' = NoRequest
  /\ \/ /\ request.kind = "enroll"
        /\ creds' = request.dev
        /\ UNCHANGED <<area, told>>
     \/ /\ request.kind = "delete"
        /\ creds' = "none" /\ area' = "none"
        /\ told' = told \cup {request.dev}
  /\ UNCHANGED <<cl, current, visible, registered, net, now, log, got, left>>

\* The page is loaded anew: only local storage is left of the tab.
Reload ==
  /\ Spend("reload")
  /\ \E c \in Ids : Running(c)
  /\ cl' = [c \in Ids |-> IF Idle(c) THEN cl[c]
                          ELSE [Unused EXCEPT !.phase = "stopped", !.dev = cl[c].dev, !.seq = cl[c].seq]]
  /\ current' = 0
  /\ visible' = TRUE
  /\ request' = NoRequest
  /\ night' = NoLog /\ attached' = {}
  /\ url' = "old" /\ fetching' = TRUE /\ recent' = TRUE
  /\ UNCHANGED <<creds, area, registered, told, listed, now, saved, got>>

(***************************************************************************)
(* The specification.  A new tab: the phone may have joined earlier, and   *)
(* its device may be gone.                                                 *)
(***************************************************************************)
Init ==
  /\ cl = [c \in Ids |-> Unused] /\ current = 0
  /\ visible = TRUE /\ left \in Budgets
  /\ creds \in Stored /\ area \in Areas
  /\ registered \in [Devices -> {"unused", "live", "gone"}]
  /\ \A d \in Devices : registered[d] = "unused" <=> d # creds
  /\ request = NoRequest /\ told = {}
  /\ url = "old" /\ listed = "old" /\ fetching = (left.move > 0) /\ recent = (left.move > 0)
  /\ now = 0 /\ night = NoLog /\ saved = NoLog /\ attached = {} /\ got = <<>>

Page(c) == Opened(c) \/ ServerCloses(c) \/ DelayedConnect(c) \/ Receive(c) \/ Sync(c)

Next ==
  \/ \E c \in Ids : Page(c) \/ ConnectionLost(c) \/ WakeAnswer(c) \/ ServerTakes(c) \/ StartStreaming(c)
  \/ \E moved \in BOOLEAN : Tick(moved)
  \/ \E a \in Areas \ {"none"} : SetLocation(a)
  \/ Hide \/ Show \/ StopStreaming \/ EnrollSend \/ DeleteSend \/ RequestServed \/ RequestFails
  \/ RequestAnswered \/ Reload \/ RefreshAnswer \/ RefreshFails \/ RefreshAllowed \/ BackendMoves
  \/ SaveNightLog \/ ClearNightLog \/ ShowNight

Spec == Init /\ [][Next]_vars

\* A browser may freeze a hidden page; a visible one runs its timers and callbacks.
Fairness ==
  /\ \A c \in Ids :
       /\ WF_vars(visible /\ Opened(c)) /\ WF_vars(visible /\ ServerCloses(c))
       /\ WF_vars(visible /\ DelayedConnect(c)) /\ WF_vars(visible /\ Receive(c))
       /\ WF_vars(visible /\ Sync(c)) /\ WF_vars(ServerTakes(c))
  /\ WF_vars(visible /\ RefreshAnswer) /\ WF_vars(RefreshAllowed)

FairSpec == Spec /\ Fairness

(***************************************************************************)
(* Properties.                                                             *)
(***************************************************************************)
Client ==
  [phase : Phases, dev : Devices \cup {"none"}, area : Areas, active : BOOLEAN,
   ws : {"none", "connecting", "open", "closed"}, to : {"old", "new"},
   up : Seq([kind : {"hello", "sync", "batch", "bye"}, seq : Nat, sec : Nat]),
   down : Seq({"welcome", "sync", "auth", "location"}), srv : {"none", "serving", "closed"},
   delayed : BOOLEAN, retry : 0..2, clock : BOOLEAN, queue : Seq(Nat), seq : Nat,
   asked : Nat, locks : Nat, wake : BOOLEAN, flag : BOOLEAN]

Log == [none : BOOLEAN, start : Nat, rows : Seq(Nat)]

\* Every variable has its type, and neither the queue nor the log outgrows its bound.
TypeOK ==
  /\ cl \in [Ids -> Client] /\ current \in 0..MaxClients
  /\ \A c \in Ids : Len(cl[c].queue) <= MaxQueue
  /\ visible \in BOOLEAN /\ area \in Areas
  /\ creds \in Devices \cup {"none"} /\ told \subseteq Devices
  /\ registered \in [Devices -> {"unused", "live", "gone"}]
  /\ request \in [kind : {"none", "enroll", "delete"}, dev : Devices \cup {"none"},
                  stage : {"none", "sent", "answered"}]
  /\ url \in {"old", "new"} /\ listed \in {"old", "new"}
  /\ fetching \in BOOLEAN /\ recent \in BOOLEAN /\ now \in Nat
  /\ night \in Log /\ saved \in Log /\ attached \subseteq Ids
  /\ Len(night.rows) <= MaxRows /\ Len(saved.rows) <= MaxRows
  /\ got \in Seq([from : Ids, seq : Nat, sec : Nat])

\* The server gets the batches of a client under rising numbers and in the order of
\* their seconds, and no second twice, over any number of reconnections (flush, drain).
NumberedInOrder ==
  \A i, j \in DOMAIN got : i < j =>
    /\ got[i].sec # got[j].sec
    /\ got[i].from = got[j].from => got[i].seq < got[j].seq /\ got[i].sec < got[j].sec

\* A tab has one connection to the server: a client that was stopped, by the user or for
\* another to follow, has none, whatever timeout of its last failure is still to come.
OneConnection ==
  \A b, c \in Ids :
    b # c /\ {cl[b].ws, cl[c].ws} \subseteq {"connecting", "open"} =>
      \E e \in {b, c} : cl[e].phase = "error" \/ cl[e].area = "bad"

\* The page does not claim to listen while it is hidden and gets no readings
\* (onVisibility, and a welcome that comes to a hidden page).
StreamingIsVisible == \A c \in Ids : cl[c].phase = "streaming" => visible

\* The phone page does not tell its user that the screen stays on when no lock is held,
\* in whatever order requests are answered and locks are taken away (acquireWake).
NoSilentScreenOff == \A c \in Ids : cl[c].flag => cl[c].locks > 0

Rising(rows) == \A i, j \in DOMAIN rows : i < j => rows[i] < rows[j]

\* The night log and its stored copy have a row a second at most and in order, although
\* clients follow each other and pages are loaded anew (attachNightLog).
NightInOrder == Rising(night.rows) /\ Rising(saved.rows)

\* A device that the phone was told is deleted is deleted, and its secret is not kept.
ToldDeleted == \A d \in told : registered[d] = "gone" /\ creds # d

\* The server gets seconds in order under rising numbers, and so does the night log
\* (NumberedInOrder, NightInOrder).
InOrder == NumberedInOrder /\ NightInOrder

\* What the page tells its user is so: that the phone listens, that the screen stays on, that a
\* device is deleted (StreamingIsVisible, NoSilentScreenOff, ToldDeleted).
HonestPage == StreamingIsVisible /\ NoSilentScreenOff /\ ToldDeleted

\* A client that was stopped stays so: no timer, message or listener of its runs it again.
StoppedStays == [][\A c \in Ids : cl[c].phase = "stopped" => cl'[c].phase = "stopped"]_vars

Serves(c) == cl[c].ws = "open" /\ cl[c].srv = "serving"

\* A client that listens, on a page that stays visible, is served again after any
\* failure, also if the server moved, unless it was stopped or its location is refused.
Reconnects ==
  \A c \in Ids :
    Running(c) /\ cl[c].area = "good" ~> Serves(c) \/ ~Running(c) \/ ~visible
===============================================================================
