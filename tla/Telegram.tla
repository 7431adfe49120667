------------------------------- MODULE Telegram -------------------------------
(***************************************************************************)
(* The card of /device that ties the phone to a Telegram chat              *)
(* (TelegramConnect in web/components/device/ResearchPanel.tsx), with the  *)
(* button shown in its place when the server has no bot (AlertsButton.tsx) *)
(* and the pad of labels (LabelPad).                                       *)
(*                                                                         *)
(* A unit of time is ten minutes: a link is valid for Valid of them and is *)
(* prepared anew every Renew.  Time passes as it likes: a frozen page is   *)
(* one whose due timer does not run.                                       *)
(***************************************************************************)
EXTENDS Naturals, Sequences

CONSTANTS
  Valid,   \* units a link is valid for (research.go)
  Renew,   \* units between two preparations
  Asks,    \* bound: requests for a link under way at once
  Stories, \* bounds: how often the link is used or fails, and how often the rest
  Kinds    \* labels

\* Assumed of the constants by whoever instantiates the module: a link is renewed before it expires.
TelegramAssumption ==
  Valid \in Nat /\ Renew \in 1..Valid /\ Stories \subseteq [{"link", "rest"} -> Nat]

VARIABLES
  me,      \* what the page knows of the bot: "unknown", "off", "on" or "linked"
  url,     \* the link that is shown
  pace,    \* err and the interval: does it wait for a first link, units until it runs
  soon,    \* timeouts of tapped() that are still to prepare a link
  asks,    \* requests for a link
  bot,     \* the server and the bot: switched on, linked, the link it was given
  pad,     \* LabelPad: what it lists, its request, what the server noted
  alerts,  \* AlertsButton
  uses     \* what is left of the story

vars == <<me, url, pace, soon, asks, bot, pad, alerts, uses>>

Slots  == 1..Asks
Ages   == 0..(Valid + 1)
NoUrl  == [shown |-> FALSE, age |-> 0, tapped |-> FALSE, claimed |-> FALSE]
NoAsk  == [stage |-> "free", age |-> 0]
NoPace == [waits |-> FALSE, timer |-> 0, runs |-> FALSE]
NoAlerts == [bot |-> "unknown", busy |-> FALSE, opened |-> "none"]
Older(a) == IF a > Valid THEN a ELSE a + 1

Use(what) == uses[what] > 0 /\ uses' = [uses EXCEPT ![what] = @ - 1]

\* The link is a link on the page, not a placeholder.
Offered == me = "on" /\ url.shown

(***************************************************************************)
(* TelegramConnect.                                                        *)
(***************************************************************************)
Free(a)    == {i \in Slots : a[i].stage = "free"}
Prepare(a) == \E i \in Free(a) : (\A j \in Free(a) : i <= j)
                                 /\ asks' = [a EXCEPT ![i].stage = "sent"]

\* The effect: prepare one now, then every Renew, or every ten seconds while there is none.
Interval(waits) == [waits |-> waits, timer |-> IF waits THEN 1 ELSE Renew, runs |-> TRUE]

MeLoaded ==
  /\ me' = IF ~bot.on THEN "off" ELSE IF bot.linked THEN "linked" ELSE "on"
  /\ me' # me
  /\ IF me' = "on" THEN Prepare(asks) /\ pace' = Interval(pace.waits)
     ELSE pace' = [pace EXCEPT !.runs = FALSE] /\ UNCHANGED asks
  /\ alerts' = NoAlerts
  /\ UNCHANGED <<url, soon, bot, pad, uses>>

Due == pace.runs /\ pace.timer = 0

TimerRuns ==
  /\ Due
  /\ Prepare(asks)
  /\ pace' = Interval(pace.waits)
  /\ UNCHANGED <<me, url, soon, bot, pad, alerts, uses>>

\* Ten seconds, which are no time for a link.
ShortPasses ==
  /\ pace.runs /\ pace.waits /\ pace.timer > 0
  /\ pace' = [pace EXCEPT !.timer = 0]
  /\ UNCHANGED <<me, url, soon, asks, bot, pad, alerts, uses>>

\* handleTelegramLink of the server.
Served(i) ==
  /\ asks[i].stage = "sent"
  /\ asks' = [asks EXCEPT ![i] = [stage |-> "served", age |-> 0]]
  /\ UNCHANGED <<me, url, pace, soon, bot, pad, alerts, uses>>

\* What follows an answer: with err the effect changes its pace, and prepares at once.
Paced(a, waits) ==
  IF pace.waits = waits \/ ~pace.runs
  THEN asks' = a /\ pace' = [pace EXCEPT !.waits = waits]
  ELSE Prepare(a) /\ pace' = Interval(waits)

Answered(i) ==
  /\ asks[i].stage = "served"
  /\ url' = [NoUrl EXCEPT !.shown = TRUE, !.age = asks[i].age]
  /\ Paced([asks EXCEPT ![i] = NoAsk], FALSE)
  /\ UNCHANGED <<me, soon, bot, pad, alerts, uses>>

MutantPrepareFails(i) ==
  /\ Use("link")
  /\ asks[i].stage # "free"
  /\ Paced([asks EXCEPT ![i] = NoAsk], TRUE)
  /\ UNCHANGED <<me, url, soon, bot, pad, alerts>>

\* The request fails, is refused because the phone has no area yet, or its answer is lost.
PrepareFails(i) ==
  /\ Use("link")
  /\ asks[i].stage # "free"
  /\ url' = NoUrl
  /\ Paced([asks EXCEPT ![i] = NoAsk], TRUE)
  /\ UNCHANGED <<me, soon, bot, pad, alerts>>

\* tapped: the link is opened, and another is prepared two seconds later.
Tapped ==
  /\ Use("link")
  /\ Offered
  /\ url' = [url EXCEPT !.tapped = TRUE]
  /\ bot' = [bot EXCEPT !.given = TRUE, !.age = url.age]
  /\ soon' = soon + 1
  /\ UNCHANGED <<me, pace, asks, pad, alerts>>

SoonRuns ==
  /\ soon > 0
  /\ soon' = soon - 1
  /\ Prepare(asks)
  /\ UNCHANGED <<me, url, pace, bot, pad, alerts, uses>>

\* The chat sends the code: ClaimTelegramLink takes it once, if it is still valid.
Claimed ==
  /\ bot.given
  /\ bot' = [bot EXCEPT !.given = FALSE, !.linked = @ \/ bot.age <= Valid]
  /\ url' = [url EXCEPT !.claimed = @ \/ url.tapped]
  /\ UNCHANGED <<me, pace, soon, asks, pad, alerts, uses>>

\* The user breaks the link in the chat.
Unlinked ==
  /\ Use("link")
  /\ bot.linked
  /\ bot' = [bot EXCEPT !.linked = FALSE]
  /\ UNCHANGED <<me, url, pace, soon, asks, pad, alerts>>

\* No answer is more than a unit late: the browser gives up before.
TimePasses ==
  /\ Offered \/ bot.given \/ \E i \in Slots : asks[i].stage = "served"
  /\ \A i \in Slots : asks[i].stage = "served" => asks[i].age = 0
  /\ url' = [url EXCEPT !.age = IF url.shown THEN Older(@) ELSE @]
  /\ bot' = [bot EXCEPT !.age = IF bot.given THEN Older(@) ELSE @]
  /\ asks' = [i \in Slots |-> IF asks[i].stage = "served" THEN [asks[i] EXCEPT !.age = Older(@)]
                              ELSE asks[i]]
  /\ pace' = [pace EXCEPT !.timer = IF @ > 0 THEN @ - 1 ELSE 0]
  /\ UNCHANGED <<me, soon, pad, alerts, uses>>

(***************************************************************************)
(* LabelPad: it lists what the server noted, latest answer first.          *)
(***************************************************************************)
Mark(k) ==
  /\ Use("rest")
  /\ pad.sent = "none"
  /\ pad' = [pad EXCEPT !.sent = k]
  /\ UNCHANGED <<me, url, pace, soon, asks, bot, alerts>>

\* handleLabel: a second label within 800 ms is refused, and that is not shown.
MarkNoted ==
  /\ pad.sent # "none" /\ ~pad.noted
  /\ pad' = [pad EXCEPT !.noted = TRUE]
  /\ UNCHANGED <<me, url, pace, soon, asks, bot, alerts, uses>>

MarkAnswered ==
  /\ pad.sent # "none"
  /\ \/ /\ pad.noted
        /\ LET l == <<pad.sent>> \o pad.recent
           IN  pad' = [sent |-> "none", noted |-> FALSE, err |-> FALSE,
                       recent |-> SubSeq(l, 1, IF Len(l) > 4 THEN 4 ELSE Len(l))]
     \/ \E shown \in BOOLEAN : pad' = [pad EXCEPT !.sent = "none", !.noted = FALSE, !.err = shown]
  /\ UNCHANGED <<me, url, pace, soon, asks, bot, alerts, uses>>

(***************************************************************************)
(* AlertsButton, where there is no bot of the server to link to.           *)
(***************************************************************************)
ConfigLoaded(b) ==
  /\ me \in {"unknown", "off"} /\ alerts.bot = "unknown"
  /\ alerts' = [alerts EXCEPT !.bot = b]
  /\ UNCHANGED <<me, url, pace, soon, asks, bot, pad, uses>>

\* The area of the link: of the stored location, or of the browser's, or none.
AlertsClicked(stored) ==
  /\ Use("rest")
  /\ me \in {"unknown", "off"} /\ alerts.bot = "known" /\ ~alerts.busy
  /\ alerts' = IF stored THEN [alerts EXCEPT !.opened = "area"] ELSE [alerts EXCEPT !.busy = TRUE]
  /\ UNCHANGED <<me, url, pace, soon, asks, bot, pad>>

AlertsLocated(found) ==
  /\ alerts.busy
  /\ alerts' = [alerts EXCEPT !.busy = FALSE, !.opened = IF found THEN "area" ELSE "bare"]
  /\ UNCHANGED <<me, url, pace, soon, asks, bot, pad, uses>>

(***************************************************************************)
(* The specification.                                                      *)
(***************************************************************************)
Init ==
  /\ me = "unknown" /\ url = NoUrl /\ pace = NoPace /\ soon = 0 /\ asks = [i \in Slots |-> NoAsk]
  /\ bot \in [on : BOOLEAN, linked : {FALSE}, given : {FALSE}, age : {0}]
  /\ pad = [recent |-> <<>>, sent |-> "none", noted |-> FALSE, err |-> FALSE]
  /\ alerts = NoAlerts
  /\ uses \in Stories

Next ==
  \/ \E i \in Slots : Served(i) \/ Answered(i) \/ PrepareFails(i)
  \/ \E k \in Kinds : Mark(k)
  \/ \E b \in {"known", "none"} : ConfigLoaded(b)
  \/ \E yes \in BOOLEAN : AlertsClicked(yes) \/ AlertsLocated(yes)
  \/ MeLoaded \/ TimerRuns \/ ShortPasses \/ Tapped \/ SoonRuns \/ Claimed \/ Unlinked
  \/ TimePasses \/ MarkNoted \/ MarkAnswered

Spec == Init /\ [][Next]_vars

(***************************************************************************)
(* Properties.                                                             *)
(***************************************************************************)
TypeOK ==
  /\ me \in {"unknown", "off", "on", "linked"}
  /\ url \in [shown : BOOLEAN, age : Ages, tapped : BOOLEAN, claimed : BOOLEAN]
  /\ pace \in [waits : BOOLEAN, timer : 0..(Renew + 1), runs : BOOLEAN]
  /\ soon \in Nat /\ asks \in [Slots -> [stage : {"free", "sent", "served"}, age : Ages]]
  /\ bot \in [on : BOOLEAN, linked : BOOLEAN, given : BOOLEAN, age : Ages]
  /\ Len(pad.recent) <= 4
  /\ alerts \in [bot : {"unknown", "known", "none"}, busy : BOOLEAN, opened : {"none", "area", "bare"}]
  /\ uses \in [{"link", "rest"} -> Nat]

\* "Links are valid for 30 minutes" and "a used link cannot be reused": the page offers one
\* that is expired or used only while the next is due, or asked for (prepare, tapped).
LinkWorks ==
  Offered /\ ~Due /\ soon = 0 /\ (\A i \in Slots : asks[i].stage = "free")
    => url.age <= Valid /\ ~url.claimed
===============================================================================
