---------------------------------- MODULE Bot ----------------------------------
(***************************************************************************)
(* The Telegram bot (internal/tgbot/bot.go) with the table of subscribers  *)
(* it shares with the server (internal/store/subscribers.go).  Three       *)
(* goroutines write to the table and to the chats: the loop that handles   *)
(* what users write, the loop that reminds those whose phone stopped       *)
(* listening, and the one that delivers an alert.  The last two work off a *)
(* list they have read before, one slow message after the other, while     *)
(* users subscribe, stop, block the bot and delete their phones.           *)
(*                                                                         *)
(* A unit of time is the silence after which a phone has stopped           *)
(* listening.  Languages, areas and texts are left out, with them /lang,   *)
(* /status, /help and /test, and so is the summary in the morning.         *)
(***************************************************************************)
EXTENDS Integers, Sequences, FiniteSets, SequencesExt

CONSTANTS
  Chat,
  Dev,
  None,        \* no phone
  Apart,       \* units between two reminders (6 h)
  Gone,        \* units after which a phone is not missed any more (24 h)
  End,         \* bound: when time stops
  MaxMessages, \* bound: messages of users
  MaxTimes     \* bound: blocks, alerts, sessions of phones and crashes together

\* Assumed of the constants by whoever instantiates the module.
BotAssumption ==
  /\ IsFiniteSet(Chat) /\ None \notin Dev
  /\ {Apart, Gone, End, MaxMessages, MaxTimes} \subseteq Nat

VARIABLES
  now,
  subs,     \* the table of subscribers
  phone,    \* of each phone: is there a row, a session, and when was it last seen
  unlink,   \* phones whose row is deleted but not their links yet (handleDeleteMe)
  codes,    \* the phones there is a link to be claimed for
  inbox,    \* what Telegram has for the bot and was not told to forget
  polled,   \* how many of these the bot has got, and how many it has done
  linking,  \* the phone of the link just claimed for the message under way
  blocked,  \* the chats that have blocked the bot
  worker,   \* the loop of reminders and the delivery of an alert
  nudged,   \* history: when each chat was last reminded
  excused,  \* history: the chats of whose reminder the table has no record
  wants,    \* history: the chats that are subscribed and have neither stopped nor blocked the bot
  count     \* history: how often what is bounded happened

vars == <<now, subs, phone, unlink, codes, inbox, polled, linking, blocked, worker, nudged,
          excused, wants, count>>

chatVars  == <<inbox, polled, linking>>
phoneVars == <<phone, unlink, codes>>
histVars  == <<nudged, excused, wants>>

Worker == {"reminders", "alert"}
NoSub  == [there |-> FALSE, dev |-> None, nudged |-> -1]
Idle   == [todo |-> {}, at |-> 0, chat |-> None, stage |-> "next"]
Kinds  == {"area", "link", "stop"}

Subscribers == {c \in Chat : subs[c].there}
\* What is bounded.
Rarely == count.other < MaxTimes /\ count' = [count EXCEPT !.other = @ + 1]

(***************************************************************************)
(* The table.                                                              *)
(***************************************************************************)
\* UpsertSubscriber: a row that exists keeps its phone if there is none to put in its place.
Upsert(c, d) ==
  subs' = [subs EXCEPT ![c] =
             IF subs[c].there THEN [subs[c] EXCEPT !.dev = IF d = None THEN subs[c].dev ELSE d]
             ELSE [there |-> TRUE, dev |-> d, nudged |-> -1]]

MutantDelete(c) == subs' = [subs EXCEPT ![c].there = FALSE]

\* DeleteSubscriber.
Delete(c) == subs' = [subs EXCEPT ![c] = NoSub]

MutantSetNudged(c, at) == subs' = [subs EXCEPT ![c].there = TRUE, ![c].nudged = at]

\* SetSubscriberNudged, of the row if there still is one.
SetNudged(c, at) ==
  subs' = IF subs[c].there THEN [subs EXCEPT ![c].nudged = at] ELSE subs

(***************************************************************************)
(* The loop of updates (Run, handle).                                      *)
(***************************************************************************)
\* getUpdates: Telegram forgets what was done.
Poll ==
  /\ polled.done = polled.got /\ inbox # <<>>
  /\ inbox' = SubSeq(inbox, polled.done + 1, Len(inbox))
  /\ polled' = [got |-> Len(inbox'), done |-> 0]
  /\ UNCHANGED <<now, subs, phoneVars, linking, blocked, worker, histVars, count>>

Under == polled.done < polled.got
Message == inbox[polled.done + 1]
Done == polled' = [polled EXCEPT !.done = @ + 1]

Subscribe(c, d) ==
  /\ Upsert(c, d)
  /\ excused' = IF subs[c].there THEN excused ELSE excused \cup {c}
  /\ wants' = wants \cup ({c} \ blocked)

\* An area is subscribed to, or everything is deleted.
Area ==
  /\ Under /\ Message.kind = "area" /\ Done
  /\ Subscribe(Message.chat, None)
  /\ UNCHANGED <<now, phoneVars, inbox, linking, blocked, worker, nudged, count>>

Stop ==
  /\ Under /\ Message.kind = "stop" /\ Done
  /\ Delete(Message.chat) /\ wants' = wants \ {Message.chat}
  /\ UNCHANGED <<now, phoneVars, inbox, linking, blocked, worker, nudged, excused, count>>

\* ClaimTelegramLink: the code is used up; the phone must exist.
Claim ==
  /\ Under /\ Message.kind = "link" /\ linking = None
  /\ \E d \in Dev :
       /\ codes' = codes \ {d}
       /\ IF d \in codes /\ phone[d].there THEN linking' = d /\ UNCHANGED polled
          ELSE Done /\ UNCHANGED linking
  /\ UNCHANGED <<now, subs, phone, unlink, inbox, blocked, worker, histVars, count>>

Link ==
  /\ linking # None /\ Done
  /\ Subscribe(Message.chat, linking)
  /\ linking' = None
  /\ UNCHANGED <<now, phoneVars, inbox, blocked, worker, nudged, count>>

\* The store is busy: the message is not handled again.
Fails ==
  /\ Under /\ Done
  /\ linking' = None
  /\ UNCHANGED <<now, subs, phoneVars, inbox, blocked, worker, histVars, count>>

(***************************************************************************)
(* The loop of reminders (remindOnce) and the delivery of an alert (Send). *)
(***************************************************************************)
Begin(w) ==
  /\ worker[w] = Idle /\ Subscribers # {}
  /\ \/ w = "reminders" /\ UNCHANGED count
     \/ w = "alert" /\ Rarely
  /\ worker' = [worker EXCEPT ![w].todo = {[chat |-> c, sub |-> subs[c]] : c \in Subscribers},
                              ![w].at = now]
  /\ UNCHANGED <<now, subs, phoneVars, chatVars, blocked, histVars>>

MutantMissed(s, at) ==
  s.dev # None /\ phone[s.dev].there /\ ~phone[s.dev].connected
  /\ LET last == phone[s.dev].last IN at - last \in 1..Gone /\ s.nudged <= last

\* Is a reminder due to a subscriber of the list (DeviceSeen is asked anew).
Missed(s, at) ==
  s.dev # None /\ phone[s.dev].there /\ ~phone[s.dev].connected
  /\ LET last == phone[s.dev].last
     IN  at - last \in 1..Gone /\ s.nudged <= last /\ (s.nudged = -1 \/ at - s.nudged >= Apart)

\* The next of the list gets a message, or is passed over: it is too far from the event, nothing
\* is missed, or the store does not say.
Take(w) ==
  /\ worker[w].stage = "next"
  /\ \E x \in worker[w].todo :
       \/ worker' = [worker EXCEPT ![w].todo = @ \ {x}]
       \/ /\ w = "alert" \/ Missed(x.sub, worker[w].at)
          /\ worker' = [worker EXCEPT ![w].todo = @ \ {x}, ![w].chat = x.chat, ![w].stage = "send"]
  /\ UNCHANGED <<now, subs, phoneVars, chatVars, blocked, histVars, count>>

\* Telegram takes the message, or says that the bot is blocked, or does not answer.
Send(w) ==
  LET c == worker[w].chat
  IN  /\ worker[w].stage = "send"
      /\ \/ /\ c \notin blocked /\ w = "alert"
            /\ worker' = [worker EXCEPT ![w].stage = "next", ![w].chat = None]
            /\ UNCHANGED <<nudged, excused>>
         \/ /\ c \notin blocked /\ w = "reminders"
            /\ worker' = [worker EXCEPT ![w].stage = "record"]
            /\ nudged' = [nudged EXCEPT ![c] = worker[w].at]
            /\ excused' = excused \ {c}
         \/ /\ c \in blocked
            /\ worker' = [worker EXCEPT ![w].stage = "delete"]
            /\ UNCHANGED <<nudged, excused>>
         \/ /\ worker' = [worker EXCEPT ![w].stage = "next", ![w].chat = None]
            /\ UNCHANGED <<nudged, excused>>
      /\ UNCHANGED <<now, subs, phoneVars, chatVars, blocked, wants, count>>

\* What follows it in the table, whose error is ignored.
Record(w) ==
  LET c == worker[w].chat
  IN  /\ \/ worker[w].stage = "record" /\ SetNudged(c, worker[w].at) /\ UNCHANGED excused
         \/ worker[w].stage = "record" /\ excused' = excused \cup {c} /\ UNCHANGED subs
         \/ worker[w].stage = "delete" /\ Delete(c) /\ UNCHANGED excused
         \/ worker[w].stage = "delete" /\ UNCHANGED <<subs, excused>>
      /\ worker' = [worker EXCEPT ![w].stage = "next", ![w].chat = None]
      /\ UNCHANGED <<now, phoneVars, chatVars, blocked, nudged, wants, count>>

\* The list is worked off, or the time for an alert is over.
Finish(w) ==
  /\ worker[w] # Idle /\ worker[w].stage = "next"
  /\ w = "alert" \/ worker[w].todo = {}
  /\ worker' = [worker EXCEPT ![w] = Idle]
  /\ UNCHANGED <<now, subs, phoneVars, chatVars, blocked, histVars, count>>

(***************************************************************************)
(* Users, their phones, and the server.                                    *)
(***************************************************************************)
Write(c, kind) ==
  /\ c \notin blocked
  /\ count.message < MaxMessages /\ count' = [count EXCEPT !.message = @ + 1]
  /\ inbox' = Append(inbox, [chat |-> c, kind |-> kind])
  /\ UNCHANGED <<now, subs, phoneVars, polled, linking, blocked, worker, histVars>>

Block(c) ==
  /\ c \notin blocked /\ Rarely
  /\ blocked' = blocked \cup {c} /\ wants' = wants \ {c}
  /\ UNCHANGED <<now, subs, phoneVars, chatVars, worker, nudged, excused>>

Unblock(c) ==
  /\ c \in blocked /\ blocked' = blocked \ {c}
  /\ UNCHANGED <<now, subs, phoneVars, chatVars, worker, histVars, count>>

\* The page of the phone has a link for the bot (handleTelegramLink).
Offer(d) ==
  /\ phone[d].there /\ codes' = codes \cup {d}
  /\ UNCHANGED <<now, subs, phone, unlink, chatVars, blocked, worker, histVars, count>>

Connect(d) ==
  /\ phone[d].there /\ ~phone[d].connected /\ Rarely
  /\ phone' = [phone EXCEPT ![d].connected = TRUE]
  /\ UNCHANGED <<now, subs, unlink, codes, chatVars, blocked, worker, histVars>>

Disconnect(d) ==
  /\ phone[d].connected
  /\ phone' = [phone EXCEPT ![d].connected = FALSE, ![d].last = now]
  /\ UNCHANGED <<now, subs, unlink, codes, chatVars, blocked, worker, histVars, count>>

\* handleDeleteMe: first the row of the phone, then its links.
DeletePhone(d) ==
  /\ phone[d].there
  /\ phone' = [phone EXCEPT ![d].there = FALSE, ![d].connected = FALSE]
  /\ unlink' = unlink \cup {d}
  /\ UNCHANGED <<now, subs, codes, chatVars, blocked, worker, histVars, count>>

UnlinkDevice(d) ==
  /\ d \in unlink /\ unlink' = unlink \ {d}
  /\ subs' = [c \in Chat |-> IF subs[c].dev = d THEN [subs[c] EXCEPT !.dev = None] ELSE subs[c]]
  /\ UNCHANGED <<now, phone, codes, chatVars, blocked, worker, histVars, count>>

\* The process starts again: Telegram delivers again what it was not told to forget.
Crash ==
  /\ Rarely
  /\ polled' = [got |-> 0, done |-> 0] /\ linking' = None /\ unlink' = {} /\ codes' = {}
  /\ phone' = [d \in Dev |-> IF phone[d].connected
                             THEN [phone[d] EXCEPT !.connected = FALSE, !.last = now] ELSE phone[d]]
  /\ excused' = excused \cup {worker[w].chat : w \in {x \in Worker : worker[x].stage = "record"}}
  /\ worker' = [w \in Worker |-> Idle]
  /\ UNCHANGED <<now, subs, inbox, blocked, nudged, wants>>

Pass ==
  /\ now < End /\ now' = now + 1
  /\ UNCHANGED <<subs, phoneVars, chatVars, blocked, worker, histVars, count>>

Init ==
  /\ now = 0
  /\ subs = [c \in Chat |-> NoSub]
  /\ phone = [d \in Dev |-> [there |-> TRUE, connected |-> FALSE, last |-> 0]]
  /\ unlink = {} /\ codes = {} /\ inbox = <<>> /\ polled = [got |-> 0, done |-> 0]
  /\ linking = None /\ blocked = {} /\ worker = [w \in Worker |-> Idle]
  /\ nudged = [c \in Chat |-> -1] /\ excused = {} /\ wants = {}
  /\ count = [message |-> 0, other |-> 0]

Next ==
  \/ Poll \/ Area \/ Stop \/ Claim \/ Link \/ Fails
  \/ \E w \in Worker : Begin(w) \/ Take(w) \/ Send(w) \/ Record(w) \/ Finish(w)
  \/ \E c \in Chat : (\E kind \in Kinds : Write(c, kind)) \/ Block(c) \/ Unblock(c)
  \/ \E d \in Dev : Offer(d) \/ Connect(d) \/ Disconnect(d) \/ DeletePhone(d) \/ UnlinkDevice(d)
  \/ Crash \/ Pass

Spec == Init /\ [][Next]_vars

(***************************************************************************)
(* Properties.                                                             *)
(***************************************************************************)
TypeOK ==
  /\ now \in 0..End /\ Subscribers \subseteq Chat
  /\ \A c \in Chat : subs[c].dev \in Dev \cup {None} /\ subs[c].nudged \in -1..now
                     /\ (~subs[c].there => subs[c] = NoSub)
  /\ 0 <= polled.done /\ polled.done <= polled.got /\ polled.got <= Len(inbox)
  /\ linking \in Dev \cup {None}
  /\ \A w \in Worker : worker[w].chat \in Chat \cup {None}

\* Who is not subscribed stays so until the bot handles a message of theirs that subscribes:
\* nothing that is written from a list read before /stop brings the row back (remindOnce, Send).
ComesBackByMessage ==
  \A c \in Subscribers' \ Subscribers :
    Under /\ Message.chat = c /\ Message.kind # "stop" /\ polled' # polled

StoppedIsGone == [][ComesBackByMessage]_vars

\* A chat is reminded at most every six hours, by the clock of the loop, whatever happens while it
\* works off its list, unless the table has no record of the reminder before: it could not be
\* written, or the row was deleted since (remindOnce, SetSubscriberNudged).
RemindsApart ==
  \A c \in Chat : nudged'[c] # nudged[c] =>
    nudged[c] = -1 \/ c \in excused \/ nudged'[c] - nudged[c] >= Apart

NudgesApart == [][RemindsApart]_vars

\* The comment on remindLoop (bot.go:537-539): "at most every 6 hours", to those whose subscription
\* goes on.
RemindedOnce ==
  [][\A c \in wants : nudged'[c] # nudged[c] => nudged[c] = -1 \/ nudged'[c] - nudged[c] >= Apart]_vars

\* The comment on UnlinkDevice (subscribers.go:59): it "forgets a phone in every chat that linked
\* it (the phone was deleted)".
LinkedIsThere ==
  \A c \in Chat : subs[c].dev # None => phone[subs[c].dev].there \/ subs[c].dev \in unlink

(***************************************************************************)
(* What makes the bot keep its word: the state that its two action         *)
(* properties are proved from.                                             *)
(***************************************************************************)
Subscriber == [there : BOOLEAN, dev : Dev \cup {None}, nudged : Int]

Types ==
  /\ now \in 0..End /\ subs \in [Chat -> Subscriber] /\ nudged \in [Chat -> Int]
  /\ inbox \in Seq([chat : Chat, kind : Kinds]) /\ polled \in [got : Nat, done : Nat]
  /\ polled.done <= polled.got /\ polled.got <= Len(inbox)
  /\ linking \in Dev \cup {None}
  /\ worker \in [Worker -> [todo : SUBSET [chat : Chat, sub : Subscriber], at : 0..now,
                            chat : Chat \cup {None}, stage : {"next", "send", "record", "delete"}]]
  /\ \A w \in Worker : worker[w].stage # "next" => worker[w].chat \in Chat

\* A row that is not there says nothing, and none was written later than now.
RowsDated ==
  \A c \in Chat : subs[c].nudged \in -1..now /\ (~subs[c].there => subs[c] = NoSub)

\* A link that was claimed is of the message under way.
LinkUnder == linking # None => Under /\ Message.kind = "link"

\* The table knows when a chat was reminded last, or the record of it is about to be written.
Reminders == worker["reminders"]
Known(c, at) == nudged[c] = -1 \/ c \in excused \/ at = nudged[c]
RecordsKept ==
  /\ \A c \in Subscribers : Known(c, subs[c].nudged) \/ (Reminders.stage = "record" /\ Reminders.chat = c)
  /\ Reminders.stage = "record" => nudged[Reminders.chat] = Reminders.at
  /\ worker["alert"].stage # "record"

\* So does the list that the reminders work off, once for each chat.
ListKnown ==
  /\ \A x \in Reminders.todo :
       /\ Known(x.chat, x.sub.nudged)
       /\ Reminders.stage # "next" => x.chat # Reminders.chat
       /\ \A y \in Reminders.todo : x.chat = y.chat => x = y
  /\ Reminders.stage = "send" =>
       LET c == Reminders.chat
       IN  nudged[c] = -1 \/ c \in excused \/ Reminders.at - nudged[c] >= Apart

KeepsWord == Types /\ RowsDated /\ LinkUnder /\ RecordsKept /\ ListKnown
================================================================================
