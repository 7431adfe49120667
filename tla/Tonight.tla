-------------------------------- MODULE Tonight --------------------------------
(***************************************************************************)
(* What /device says about the night under way                             *)
(* (web/components/device/Participation.tsx): the hours listened against   *)
(* the goal, asked of the server every minute and whenever the page has    *)
(* something new, and the warnings that a night stops when the battery is  *)
(* empty or the screen goes off.                                           *)
(***************************************************************************)
EXTENDS Naturals

CONSTANTS
  Goal,    \* minHours
  Asks,    \* bound: requests under way at once
  Changes  \* bound: what happens

\* Assumed of the constants by whoever instantiates the module.
TonightAssumption == {Goal, Asks, Changes} \subseteq Nat

VARIABLES
  mounted,  \* is the page open
  shown,    \* the hours that are shown, if they are known
  asks,     \* the requests: under way, and the hours that were answered
  server,   \* the hours the server has counted
  phone,    \* does it listen, has the client a lock, does it charge, does the browser tell
  battery,  \* what the page knows of the battery, and whether it is told of changes
  changes   \* what is left of Changes

vars == <<mounted, shown, asks, server, phone, battery, changes>>

Slots     == 1..Asks
NoAsk     == [stage |-> "none", hours |-> 0]
Nothing   == [known |-> FALSE, hours |-> 0]
NoBattery == [asked |-> FALSE, told |-> FALSE, charging |-> "unknown"]
Change    == changes > 0 /\ changes' = changes - 1

(***************************************************************************)
(* Participation: on arrival, when the page has something new, and every   *)
(* minute; what was asked before is still shown when it comes.             *)
(***************************************************************************)
Load(i) ==
  /\ mounted
  /\ asks[i] = NoAsk /\ asks' = [asks EXCEPT ![i].stage = "sent"]
  /\ UNCHANGED <<mounted, shown, server, phone, battery, changes>>

Served(i) ==
  /\ asks[i].stage = "sent"
  /\ asks' = [asks EXCEPT ![i] = [stage |-> "served", hours |-> server]]
  /\ UNCHANGED <<mounted, shown, server, phone, battery, changes>>

Answered(i) ==
  /\ asks[i].stage = "served"
  /\ asks' = [asks EXCEPT ![i] = NoAsk]
  /\ shown' = [known |-> TRUE, hours |-> asks[i].hours]
  /\ UNCHANGED <<mounted, server, phone, battery, changes>>

\* A request that fails is not noticed.
Fails(i) ==
  /\ asks[i] # NoAsk /\ Change
  /\ asks' = [asks EXCEPT ![i] = NoAsk]
  /\ UNCHANGED <<mounted, shown, server, phone, battery>>

\* The bar, and whether the night counts.
Bar == IF ~shown.known THEN "none" ELSE IF shown.hours >= Goal THEN "done" ELSE "how"

(***************************************************************************)
(* The battery and the warnings.                                           *)
(***************************************************************************)
\* getBattery has answered.
BatteryKnown ==
  /\ battery.asked /\ phone.tells
  /\ battery' = [asked |-> FALSE, told |-> TRUE, charging |-> phone.charging]
  /\ UNCHANGED <<mounted, shown, asks, server, phone, changes>>

\* chargingchange.
ChargingChanges ==
  /\ battery.told /\ battery.charging # phone.charging
  /\ battery' = [battery EXCEPT !.charging = phone.charging]
  /\ UNCHANGED <<mounted, shown, asks, server, phone, changes>>

\* What is warned of while the phone listens: no charger, and no lock when one was asked for.
Warned(charging) ==
  (IF charging = "no" THEN {"plug in"} ELSE {}) \cup (IF phone.lock = "no" THEN {"screen"} ELSE {})

NightWarnings == IF phone.listens THEN Warned(battery.charging) ELSE {}

(***************************************************************************)
(* The page is opened and left, hours pass, and the phone is plugged in,   *)
(* stopped or loses its lock.                                              *)
(***************************************************************************)
Open ==
  /\ ~mounted /\ Change
  /\ mounted' = TRUE /\ battery' = [NoBattery EXCEPT !.asked = TRUE]
  /\ UNCHANGED <<shown, asks, server, phone>>

\* What was asked for goes to a component that is gone.
Leave ==
  /\ mounted /\ Change
  /\ mounted' = FALSE /\ battery' = NoBattery
  /\ shown' = Nothing /\ asks' = [i \in Slots |-> NoAsk]
  /\ UNCHANGED <<server, phone>>

Listened ==
  /\ server < Goal /\ Change
  /\ server' = server + 1
  /\ UNCHANGED <<mounted, shown, asks, phone, battery>>

PhoneChanges ==
  /\ Change
  /\ \/ \E c \in {"yes", "no"} : phone' = [phone EXCEPT !.charging = c]
     \/ \E l \in {"unknown", "yes", "no"} : phone' = [phone EXCEPT !.lock = l]
     \/ phone' = [phone EXCEPT !.listens = ~@]
  /\ phone' # phone
  /\ UNCHANGED <<mounted, shown, asks, server, battery>>

Phones == [listens : BOOLEAN, lock : {"unknown", "yes", "no"}, charging : {"yes", "no"}, tells : BOOLEAN]

Init ==
  /\ mounted = FALSE /\ shown = Nothing /\ asks = [i \in Slots |-> NoAsk] /\ server = 0
  /\ phone \in Phones /\ battery = NoBattery /\ changes = Changes

Next ==
  \/ \E i \in Slots : Load(i) \/ Served(i) \/ Answered(i) \/ Fails(i)
  \/ BatteryKnown \/ ChargingChanges \/ Open \/ Leave \/ Listened \/ PhoneChanges

Spec == Init /\ [][Next]_vars

TypeOK ==
  /\ mounted \in BOOLEAN /\ shown \in [known : BOOLEAN, hours : 0..Goal] /\ server \in 0..Goal
  /\ asks \in [Slots -> [stage : {"none", "sent", "served"}, hours : 0..Goal]]
  /\ phone \in Phones /\ changes \in 0..Changes
  /\ battery \in [asked : BOOLEAN, told : BOOLEAN, charging : {"unknown", "yes", "no"}]

\* An open page comes to show the hours the server counts, and to warn of what the phone lacks,
\* though hours that were asked for earlier may be answered later, and the charger may be
\* pulled before the browser has told of the battery at all.
TonightShown ==
  mounted =>
    /\ Bar = IF server >= Goal THEN "done" ELSE "how"
    /\ phone.listens /\ phone.tells => NightWarnings = Warned(phone.charging)
===============================================================================
