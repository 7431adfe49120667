-------------------------------- MODULE Phone ---------------------------------
(***************************************************************************)
(* The pages on which a phone takes part: /join (web/app/join/page.tsx),   *)
(* where it is enrolled and starts to listen, and /device                  *)
(* (web/app/device/page.tsx), where it is stopped and deleted.  The client *)
(* of Sensor is here only whose device it is for and whether it runs; the  *)
(* server is the devices it knows.                                         *)
(***************************************************************************)
EXTENDS Naturals, FiniteSets

CONSTANTS
  Devices,   \* what the server may enrol
  Kept,      \* what the phone may have stored from before: a device, or "none"
  Classes,   \* class codes that exist
  Typed,     \* class codes that are typed or come with a link; "" is none
  Starts,    \* bound: how often start() is called
  Clicks     \* bound: what else the user does, and faults

\* Assumed of the constants by whoever instantiates the module.
PhoneAssumption ==
  /\ IsFiniteSet(Devices) /\ "none" \notin Devices /\ Kept \subseteq Devices \cup {"none"}
  /\ "" \in Typed /\ Clicks \in Nat

VARIABLES
  page,      \* "join", "device" or "away"
  visit,     \* how often /join was opened: each time it is a new component
  form,      \* the state of /join
  run,       \* the calls of start(), which outlive their page
  panel,     \* the state of /device
  deletion,  \* the DELETE under way: its device and stage
  creds,     \* local storage
  area,      \* local storage: a cell, one of an older grid, or "none"
  client,    \* session.ts
  server,    \* the devices the server knows
  history,   \* what the user agreed to, and which devices were enrolled as they should
  clicks     \* what is left of Clicks

vars == <<page, visit, form, run, panel, deletion, creds, area, client, server, history, clicks>>

Runs   == 1..Starts
Cells  == {"here", "there"}
Areas  == Cells \cup {"old", "none"}
NoRun  == [stage |-> "none", visit |-> 0, code |-> "", cell |-> "none", place |-> FALSE,
           dev |-> "none", felt |-> FALSE]
NoOne  == [dev |-> "none", cell |-> "none", phase |-> "none"]
NoneUnderWay == [dev |-> "none", stage |-> "none"]

Click     == clicks > 0 /\ clicks' = clicks - 1
On(p)     == page = p
Active(k) == run[k].stage \notin {"none", "ended"}
Mine(k)   == On("join") /\ run[k].visit = visit

(***************************************************************************)
(* /join: consent, location, start.                                        *)
(***************************************************************************)
MutantFirstStep(c, l) == IF l # "none" THEN "start" ELSE "consent"

\* Who has joined before goes to the last step.
FirstStep(c, l) == IF c # "none" /\ l # "none" THEN "start" ELSE "consent"

\* The component is mounted: the code of the link, what is stored.
Mounted(code) ==
  [step |-> FirstStep(creds, area), agreed |-> FALSE, code |-> code, ok |-> FALSE, aged |-> FALSE,
   cell |-> IF area = "old" THEN "none" ELSE area, place |-> FALSE, map |-> FALSE,
   busy |-> FALSE, checking |-> "", locating |-> FALSE]

OpenJoin(code) ==
  /\ Click /\ ~On("join")
  /\ page' = "join" /\ visit' = visit + 1
  /\ form' = Mounted(code)
  /\ UNCHANGED <<run, panel, deletion, creds, area, client, server, history>>

Leave ==
  /\ Click /\ page # "away"
  /\ page' = "away"
  /\ UNCHANGED <<visit, form, run, panel, deletion, creds, area, client, server, history>>

MayContinue == form.agreed /\ (form.code # "" => form.ok /\ form.aged) /\ ~form.busy

\* What each of the three steps offers; what is asked for a class only when there is a code.
ConsentStep ==
  {"agree", "code"} \cup (IF form.code = "" THEN {} ELSE {"class"})
                    \cup (IF MayContinue THEN {"continue"} ELSE {})

LocationStep ==
  {"locate", "map"} \cup (IF form.map THEN {"pick"} ELSE {})
                    \cup (IF form.cell = "none" THEN {} ELSE {"use"})

StartStep == {"place", "change"} \cup (IF form.busy THEN {} ELSE {"start"})

JoinOffers ==
  [consent |-> ConsentStep, location |-> LocationStep, start |-> StartStep][form.step]

Form(button, f) ==
  /\ On("join") /\ button \in JoinOffers
  /\ form' = f
  /\ UNCHANGED <<page, visit, run, panel, deletion, creds, area, client, server>>

\* What is asked of the user; for a class, its consent and the age.
Agree         == Form("agree", [form EXCEPT !.agreed = ~@]) /\ Click /\ UNCHANGED history
TypeCode(c)   == Form("code", [form EXCEPT !.code = c]) /\ Click /\ UNCHANGED history
ConfirmClass  == Form("class", [form EXCEPT !.ok = TRUE, !.aged = TRUE]) /\ Click /\ UNCHANGED history

Continue ==
  /\ Form("continue", IF form.code = "" THEN [form EXCEPT !.step = "location"]
                     ELSE [form EXCEPT !.busy = TRUE, !.checking = form.code])
  /\ history' = [history EXCEPT !.agreed = TRUE,
                                !.classes = IF form.code = "" THEN @ ELSE @ \cup {form.code}]
  /\ UNCHANGED clicks

\* The answer to checkCohort, for the code that was typed then: it is known or not, or the server is not reached.
CodeChecked(found) ==
  /\ On("join") /\ form.checking # ""
  /\ found \in {form.checking \in Classes, FALSE}
  /\ form' = [form EXCEPT !.checking = "", !.busy = FALSE, !.step = IF found THEN "location" ELSE @]
  /\ UNCHANGED <<page, visit, run, panel, deletion, creds, area, client, server, history, clicks>>

\* locate, which answers whenever it can; a refusal shows the map.
Locate   == ~form.locating /\ Form("locate", [form EXCEPT !.locating = TRUE]) /\ Click /\ UNCHANGED history
ShowMap  == Form("map", [form EXCEPT !.map = TRUE]) /\ Click /\ UNCHANGED history
Pick(c)  == Form("pick", [form EXCEPT !.cell = c]) /\ Click /\ UNCHANGED history
UseArea  == Form("use", [form EXCEPT !.step = "start"])
            /\ UNCHANGED <<history, clicks>>

Located ==
  /\ On("join") /\ form.locating
  /\ \/ form' = [form EXCEPT !.locating = FALSE, !.cell = "here"]
     \/ form' = [form EXCEPT !.locating = FALSE, !.map = TRUE]
  /\ UNCHANGED <<page, visit, run, panel, deletion, creds, area, client, server, history, clicks>>

ChangeArea == Form("change", [form EXCEPT !.step = "location"]) /\ Click /\ UNCHANGED history
ChoosePlace == Form("place", [form EXCEPT !.place = TRUE]) /\ Click /\ UNCHANGED history

(***************************************************************************)
(* start(), from one await to the next.                                    *)
(***************************************************************************)
Start(k) ==
  /\ On("join") /\ "start" \in JoinOffers
  /\ run[k] = NoRun /\ \A j \in Runs : run[j] = NoRun => k <= j
  /\ form' = [form EXCEPT !.busy = TRUE]
  /\ run' = [run EXCEPT ![k] = [NoRun EXCEPT !.stage = "permission", !.visit = visit,
                                  !.code = form.code, !.cell = form.cell, !.place = form.place]]
  /\ UNCHANGED <<page, visit, panel, deletion, creds, area, client, server, history, clicks>>

Free(k) == form' = IF Mine(k) THEN [form EXCEPT !.busy = FALSE] ELSE form

\* An error of any step is shown, and the button is free again.
Fails(k) ==
  /\ Active(k)
  /\ run' = [run EXCEPT ![k].stage = "ended"]
  /\ Free(k)
  /\ UNCHANGED <<page, visit, panel, deletion, creds, area, client, server, history, clicks>>

Permitted(k) ==
  /\ run[k].stage = "permission"
  /\ run' = [run EXCEPT ![k].stage = "probe"]
  /\ UNCHANGED <<page, visit, form, panel, deletion, creds, area, client, server, history, clicks>>

\* Readings arrive: the area is stored, and the phone enrolled if it was not.
Probed(k) ==
  /\ run[k].stage = "probe" /\ run[k].cell # "none"
  /\ area' = run[k].cell
  /\ run' = [run EXCEPT ![k].felt = TRUE, ![k].dev = creds,
                        ![k].stage = IF creds = "none" THEN "enroll"
                                     ELSE IF run[k].code # "" THEN "class" ELSE "place"]
  /\ UNCHANGED <<page, visit, form, panel, deletion, creds, client, server, history, clicks>>

Known(code) == code = "" \/ code \in Classes

Enrolled(k, d) ==
  /\ run[k].stage = "enroll" /\ Known(run[k].code)
  /\ server[d].state = "unused"
  /\ server' = [server EXCEPT ![d] = [@ EXCEPT !.state = "live", !.class = run[k].code]]
  /\ run' = [run EXCEPT ![k].stage = "enrolled", ![k].dev = d]
  /\ history' = [history EXCEPT !.proper = IF history.agreed /\ run[k].felt THEN @ \cup {d} ELSE @]
  /\ UNCHANGED <<page, visit, form, panel, deletion, creds, area, client, clicks>>

EnrollAnswered(k) ==
  /\ run[k].stage = "enrolled"
  /\ creds' = run[k].dev
  /\ run' = [run EXCEPT ![k].stage = "place"]
  /\ UNCHANGED <<page, visit, form, panel, deletion, area, client, server, history, clicks>>

\* setCohort of a phone that was enrolled before, and its answer.
ClassSet(k) ==
  /\ run[k].stage = "class" /\ Known(run[k].code) /\ server[run[k].dev].state = "live"
  /\ server' = [server EXCEPT ![run[k].dev].class = run[k].code]
  /\ run' = [run EXCEPT ![k].stage = "place"]
  /\ UNCHANGED <<page, visit, form, panel, deletion, creds, area, client, history, clicks>>

\* setPlacement and setCredit for what is stored now; an error does not matter.
Placed(k) ==
  /\ run[k].stage = "place"
  /\ run' = [run EXCEPT ![k].stage = "go"]
  /\ \/ UNCHANGED server
     \/ /\ run[k].place /\ creds # "none" /\ server[creds].state = "live"
        /\ server' = [server EXCEPT ![creds].placed = TRUE]
  /\ UNCHANGED <<page, visit, form, panel, deletion, creds, area, client, history, clicks>>

\* startStreaming: the client that runs, or a new one for what is stored.
StartStreaming ==
  IF client.phase = "running" \/ creds = "none" \/ area = "none" THEN client
  ELSE [dev |-> creds, cell |-> area, phase |-> "running"]

\* /device is mounted.
Panel(c) == [has |-> creds # "none", dev |-> creds, shows |-> c # NoOne, me |-> "unknown",
             edit |-> FALSE, confirm |-> FALSE, starting |-> FALSE]

Go(k) ==
  /\ run[k].stage = "go"
  /\ run' = [run EXCEPT ![k].stage = "ended"]
  /\ Free(k)
  /\ client' = StartStreaming
  /\ page' = "device"
  /\ panel' = IF On("device") THEN panel ELSE Panel(client')
  /\ UNCHANGED <<visit, deletion, creds, area, server, history, clicks>>

(***************************************************************************)
(* /device.                                                                *)
(***************************************************************************)
Device == UNCHANGED <<visit, form, run, history>>

OpenDevice ==
  /\ Click /\ ~On("device")
  /\ page' = "device" /\ panel' = Panel(client)
  /\ Device /\ UNCHANGED <<deletion, creds, area, client, server>>

Listens == panel.shows /\ client.phase = "running"

\* The two actions that matter; where it lies, asked until it is known and again if the user
\* wants; and leaving.
Main     == IF Listens THEN {"stop"} ELSE {"start"}
AskPlace == IF panel.me = "asked" \/ panel.edit THEN {"place"}
            ELSE IF panel.me = "placed" THEN {"edit"} ELSE {}
Leaving  == IF panel.confirm THEN {"delete", "ask"} ELSE {"ask"}

\* The page of a phone that is not in has a link to /join only.
DeviceOffers == IF panel.has THEN Main \cup AskPlace \cup Leaving ELSE {}

Pressed(button) == On("device") /\ button \in DeviceOffers /\ Click

\* fetchMe, on arrival and every 30 s: where the phone lies, if the server knows.
Loaded ==
  /\ On("device") /\ panel.dev # "none"
  /\ panel' = [panel EXCEPT !.me = IF server[panel.dev].state # "live" THEN "unknown"
                                   ELSE IF server[panel.dev].placed THEN "placed" ELSE "asked"]
  /\ Device /\ UNCHANGED <<page, deletion, creds, area, client, server, clicks>>

EditPlace ==
  /\ Pressed("edit")
  /\ panel' = [panel EXCEPT !.edit = TRUE]
  /\ Device /\ UNCHANGED <<page, deletion, creds, area, client, server>>

SavePlace ==
  /\ Pressed("place")
  /\ creds # "none" /\ server[creds].state = "live"
  /\ server' = [server EXCEPT ![creds].placed = TRUE]
  /\ panel' = [panel EXCEPT !.edit = FALSE, !.has = creds # "none", !.dev = creds]
  /\ Device /\ UNCHANGED <<page, deletion, creds, area, client>>

\* The button, and after the permission startStreaming; who cannot goes to /join anew.
PressStart ==
  /\ Pressed("start") /\ ~panel.starting
  /\ panel' = [panel EXCEPT !.starting = TRUE]
  /\ Device /\ UNCHANGED <<page, deletion, creds, area, client, server>>

Refused ==
  /\ On("device") /\ panel.starting
  /\ panel' = [panel EXCEPT !.starting = FALSE]
  /\ Device /\ UNCHANGED <<page, deletion, creds, area, client, server, clicks>>

StartGranted ==
  /\ On("device") /\ panel.starting
  /\ client.phase = "running" \/ (creds # "none" /\ area # "none")
  /\ client' = StartStreaming
  /\ panel' = [panel EXCEPT !.starting = FALSE, !.shows = TRUE]
  /\ Device /\ UNCHANGED <<page, deletion, creds, area, server, clicks>>

\* window.location: the tab is loaded anew, and what was under way in it is gone.
SentToJoin ==
  /\ On("device") /\ panel.starting
  /\ client.phase # "running" /\ (creds = "none" \/ area = "none")
  /\ page' = "join" /\ visit' = visit + 1
  /\ form' = Mounted("")
  /\ run' = [k \in Runs |-> IF run[k] = NoRun THEN NoRun ELSE [run[k] EXCEPT !.stage = "ended"]]
  /\ client' = NoOne /\ deletion' = NoneUnderWay
  /\ panel' = [panel EXCEPT !.starting = FALSE]
  /\ UNCHANGED <<creds, area, server, history, clicks>>

Stopped == IF client.phase = "running" THEN [client EXCEPT !.phase = "stopped"] ELSE client

PressStop ==
  /\ Pressed("stop")
  /\ client' = Stopped
  /\ Device /\ UNCHANGED <<page, panel, deletion, creds, area, server>>

AskDelete ==
  /\ Pressed("ask")
  /\ panel' = [panel EXCEPT !.confirm = ~@]
  /\ Device /\ UNCHANGED <<page, deletion, creds, area, client, server>>

\* onDelete: it stops listening, then asks the server.
Delete ==
  /\ Pressed("delete") /\ creds # "none" /\ deletion = NoneUnderWay
  /\ client' = Stopped
  /\ deletion' = [dev |-> creds, stage |-> "sent"]
  /\ Device /\ UNCHANGED <<page, panel, creds, area, server>>

DeleteServed ==
  /\ deletion.stage = "sent"
  /\ server' = [server EXCEPT ![deletion.dev].state = "gone"]
  /\ deletion' = [deletion EXCEPT !.stage = "served"]
  /\ Device /\ UNCHANGED <<page, panel, creds, area, client, clicks>>

\* deleteDevice clears what is stored, and the page knows that it is not in.
DeleteAnswered ==
  /\ deletion.stage = "served"
  /\ deletion' = NoneUnderWay
  /\ creds' = "none" /\ area' = "none"
  /\ panel' = IF On("device") THEN [panel EXCEPT !.has = FALSE] ELSE panel
  /\ Device /\ UNCHANGED <<page, client, server, clicks>>

MutantDeleteFails ==
  /\ deletion # NoneUnderWay
  /\ deletion' = NoneUnderWay
  /\ creds' = "none"
  /\ Device /\ UNCHANGED <<page, panel, area, client, server, clicks>>

DeleteFails ==
  /\ deletion # NoneUnderWay
  /\ deletion' = NoneUnderWay
  /\ Device /\ UNCHANGED <<page, panel, creds, area, client, server, clicks>>

\* The server refuses the device, or the location, of the client.
AuthError ==
  /\ client.phase = "running" /\ server[client.dev].state = "gone"
  /\ client' = [client EXCEPT !.phase = "stopped"]
  /\ creds' = "none" /\ area' = "none"
  /\ Device /\ UNCHANGED <<page, panel, deletion, server, clicks>>

LocationError ==
  /\ client.phase = "running" /\ client.cell = "old"
  /\ client' = [client EXCEPT !.phase = "error"]
  /\ Device /\ UNCHANGED <<page, panel, deletion, creds, area, server, clicks>>

(***************************************************************************)
(* The specification: a tab of a phone that may have joined before.        *)
(***************************************************************************)
Init ==
  /\ creds \in Kept /\ area \in Areas \ {"there"} /\ client = NoOne
  /\ page = "away" /\ visit = 0 /\ form = Mounted("") /\ panel = Panel(NoOne)
  /\ run = [k \in Runs |-> NoRun] /\ deletion = NoneUnderWay
  /\ server = [d \in Devices |-> [state |-> IF d = creds THEN "live" ELSE "unused",
                                  class |-> "", placed |-> FALSE]]
  /\ history = [agreed |-> creds # "none", classes |-> {}, proper |-> {creds} \ {"none"}]
  /\ clicks = Clicks

\* start() and what it waits for.
Work(k) ==
  \/ Permitted(k) \/ Probed(k) \/ EnrollAnswered(k) \/ ClassSet(k) \/ Placed(k) \/ Go(k)
  \/ \E d \in Devices : Enrolled(k, d)

Next ==
  \/ \E c \in Typed : OpenJoin(c) \/ TypeCode(c)
  \/ \E found \in BOOLEAN : CodeChecked(found)
  \/ \E c \in Cells : Pick(c)
  \/ \E k \in Runs : Start(k) \/ Work(k) \/ Fails(k)
  \/ Leave \/ Agree \/ ConfirmClass \/ Continue \/ Locate \/ ShowMap \/ UseArea \/ Located
  \/ ChangeArea \/ ChoosePlace \/ OpenDevice \/ Loaded \/ EditPlace \/ SavePlace \/ PressStart
  \/ Refused \/ StartGranted \/ SentToJoin \/ PressStop \/ AskDelete \/ Delete \/ DeleteServed
  \/ DeleteAnswered \/ DeleteFails \/ AuthError \/ LocationError

Spec == Init /\ [][Next]_vars

(***************************************************************************)
(* Properties.                                                             *)
(***************************************************************************)
TypeOK ==
  /\ page \in {"join", "device", "away"} /\ visit \in Nat /\ clicks \in 0..Clicks
  /\ form \in [step : {"consent", "location", "start"}, agreed : BOOLEAN, code : Typed,
               ok : BOOLEAN, aged : BOOLEAN, cell : Cells \cup {"none"}, place : BOOLEAN,
               map : BOOLEAN, busy : BOOLEAN, checking : Typed, locating : BOOLEAN]
  /\ run \in [Runs -> [stage : {"none", "permission", "probe", "enroll", "enrolled", "class",
                                "place", "go", "ended"},
                       visit : Nat, code : Typed, cell : Cells \cup {"none"}, place : BOOLEAN,
                       dev : Devices \cup {"none"}, felt : BOOLEAN]]
  /\ panel \in [has : BOOLEAN, dev : Devices \cup {"none"}, shows : BOOLEAN,
                me : {"unknown", "asked", "placed"}, edit : BOOLEAN, confirm : BOOLEAN,
                starting : BOOLEAN]
  /\ deletion \in [dev : Devices \cup {"none"}, stage : {"none", "sent", "served"}]
  /\ creds \in Devices \cup {"none"} /\ area \in Areas
  /\ client \in [dev : Devices \cup {"none"}, cell : Areas,
                 phase : {"none", "running", "stopped", "error"}]
  /\ server \in [Devices -> [state : {"unused", "live", "gone"}, class : Typed, placed : BOOLEAN]]

\* No device is enrolled for a phone whose user did not agree, or that gave no readings,
\* by whatever way /join comes to its last step (the effects of /join, start).
EnrolledProperly == \A d \in Devices : server[d].state # "unused" => d \in history.proper

\* A phone that listens does so for the device it has stored, so that its user can stop and
\* delete it, unless start() enrolled the phone a second time (onDelete, deleteDevice).
OwnDevice ==
  client.phase = "running" /\ server[client.dev].state = "live" =>
    creds = client.dev \/ Cardinality({d \in Devices : server[d].state # "unused"}) > 1

\* docs/PRIVACY.md: "The join page asks the participant to confirm this before a code is
\* accepted": a device is in a class only if that was confirmed (start, setCohort).
ClassConsented ==
  \A d \in Devices : server[d].class # "" => server[d].class \in history.classes
===============================================================================
