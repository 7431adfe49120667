------------------------------- MODULE Alerts -------------------------------
(***************************************************************************)
(* The alert dispatcher (alert.go) and the table that makes it send a      *)
(* message once (store.go, ClaimAlert and FinishAlert).                    *)
(*                                                                         *)
(* For each update of an event the engine goroutine starts one goroutine   *)
(* per channel that wants the level.  Each claims the message by inserting *)
(* its row, asks for a place in the hourly budget (module Budget; a choice *)
(* here), sends, and reports the outcome, which the store's writer records *)
(* later.  The row outlives the process; the goroutines, the writes the    *)
(* writer has not done and the events of the engine do not.                *)
(*                                                                         *)
(* The name of an event is its origin second and a counter that starts     *)
(* again with the process, so an event found after a restart may have the  *)
(* name of one found before it.                                            *)
(***************************************************************************)
EXTENDS Integers, FiniteSets

CONSTANTS
  Event,       \* names of events
  Channel,     \* configured channels
  MinLevel,    \* the level from which a channel wants messages
  Job,         \* bound: goroutines at a time
  MaxBoots     \* bound: starts of the process

Levels == 1..3        \* candidate, corroborated, confirmed

ASSUME AlertsAssumption ==
  /\ MinLevel \in [Channel -> Levels]
  /\ MaxBoots \in Nat \ {0}

VARIABLES
  server,      \* "up"; "closed": the store is; "down"
  boot,        \* history: the number of this start
  level,       \* level of each event the engine has, 0 if it has none of that name
  job,         \* goroutines
  rows,        \* the alerts table
  pending,     \* outcomes in the store's writer
  delivered,   \* history: how often each message reached its channel
  missed       \* history: messages a claim of which failed in this process

vars == <<server, boot, level, job, rows, pending, delivered, missed>>

Outcomes == {"ok", "failed", "suppressed"}
InFlight == {"claimed", "allowed"}
Stages   == {"spawned"} \cup InFlight \cup Outcomes

Key  == [ev : Event, lvl : Levels, ch : Channel]
Idle == [stage |-> "idle"]
Busy == {j \in Job : job[j] # Idle}

\* mutant: the levels above the channel's own
WantsAbove(l) == {c \in Channel : MinLevel[c] < l}

\* The channels that get a message of a level.
Wants(l) == {c \in Channel : MinLevel[c] <= l}

Init ==
  /\ server = "up"
  /\ boot = 1
  /\ level = [e \in Event |-> 0]
  /\ job = [j \in Job |-> Idle]
  /\ rows = [k \in Key |-> "none"]
  /\ pending = {}
  /\ delivered = [k \in Key |-> 0]
  /\ missed = {}

-----------------------------------------------------------------------------
(* The engine goroutine.                                                   *)

(* An update of an event, whose level never falls.                         *)
Handle(e, l) ==
  /\ server = "up"
  /\ l >= level[e]
  /\ level' = [level EXCEPT ![e] = l]
  /\ \E f \in [Wants(l) -> Job \ Busy] :
       /\ \A c, d \in Wants(l) : f[c] = f[d] => c = d
       /\ job' = [j \in Job |->
                    IF \E c \in Wants(l) : f[c] = j
                    THEN [stage |-> "spawned",
                          key |-> [ev |-> e, lvl |-> l, ch |-> CHOOSE c \in Wants(l) : f[c] = j]]
                    ELSE job[j]]
  /\ UNCHANGED <<server, boot, rows, pending, delivered, missed>>

-----------------------------------------------------------------------------
(* A goroutine.                                                            *)

Goes(j, from, to) ==
  /\ job[j] # Idle
  /\ job[j].stage = from
  /\ job' = [job EXCEPT ![j].stage = to]

Ends(j, from) ==
  /\ job[j] # Idle
  /\ job[j].stage = from
  /\ job' = [job EXCEPT ![j] = Idle]

\* mutant: the row of a message that failed is taken again
ClaimAgain(j) ==
  /\ Goes(j, "spawned", "claimed")
  /\ server = "up"
  /\ rows[job[j].key] \in {"none", "failed"}
  /\ rows' = [rows EXCEPT ![job[j].key] = "claimed"]
  /\ UNCHANGED <<server, boot, level, pending, delivered, missed>>

\* mutant: the existing row is read before the transaction that inserts
\* a row, and the number of rows inserted is not looked at
ClaimUnchecked(j) ==
  /\ Goes(j, "spawned", "claimed")
  /\ server = "up"
  /\ rows[job[j].key] \in {"none", "claimed"}
  /\ rows' = [rows EXCEPT ![job[j].key] = "claimed"]
  /\ UNCHANGED <<server, boot, level, pending, delivered, missed>>

(* The insert makes a row: the message is this goroutine's to send.        *)
ClaimAlert(j) ==
  /\ Goes(j, "spawned", "claimed")
  /\ server = "up"
  /\ rows[job[j].key] = "none"
  /\ rows' = [rows EXCEPT ![job[j].key] = "claimed"]
  /\ UNCHANGED <<server, boot, level, pending, delivered, missed>>

(* The insert is ignored: another goroutine or process took the message.   *)
ClaimTaken(j) ==
  /\ Ends(j, "spawned")
  /\ server = "up"
  /\ rows[job[j].key] # "none"
  /\ UNCHANGED <<server, boot, level, rows, pending, delivered, missed>>

(* The database is busy or closed, or the deadline has passed.             *)
ClaimFails(j) ==
  /\ Ends(j, "spawned")
  /\ missed' = missed \cup {job[j].key}
  /\ UNCHANGED <<server, boot, level, rows, pending, delivered>>

(* The budget has a place, or not.                                         *)
Allowed(j) ==
  /\ Goes(j, "claimed", "allowed")
  /\ UNCHANGED <<server, boot, level, rows, pending, delivered, missed>>

Suppressed(j) ==
  /\ Goes(j, "claimed", "suppressed")
  /\ UNCHANGED <<server, boot, level, rows, pending, delivered, missed>>

\* mutant: an answer that does not come is taken for a delivery
SendTrusting(j) ==
  /\ Goes(j, "allowed", "ok")
  /\ \E n \in {0, 1} : delivered' = [delivered EXCEPT ![job[j].key] = @ + n]
  /\ UNCHANGED <<server, boot, level, rows, pending, missed>>

(* The channel takes the message and says so.                              *)
SendOK(j) ==
  /\ Goes(j, "allowed", "ok")
  /\ delivered' = [delivered EXCEPT ![job[j].key] = @ + 1]
  /\ UNCHANGED <<server, boot, level, rows, pending, missed>>

(* An error: the channel does not have the message, or it has and the      *)
(* answer was lost.                                                        *)
SendFails(j) ==
  /\ Goes(j, "allowed", "failed")
  /\ \/ UNCHANGED delivered
     \/ delivered' = [delivered EXCEPT ![job[j].key] = @ + 1]
  /\ UNCHANGED <<server, boot, level, rows, pending, missed>>

(* The outcome goes to the writer, or is dropped because its queue, which  *)
(* all of the server fills, is full.  When the store is closed this is a   *)
(* send on a closed channel, which ends the process: Exit.                 *)
FinishAlert(j) ==
  /\ server = "up"
  /\ \E o \in Outcomes :
       /\ Ends(j, o)
       /\ \/ pending' = pending \cup {[key |-> job[j].key, outcome |-> o]}
          \/ UNCHANGED pending
  /\ UNCHANGED <<server, boot, level, rows, delivered, missed>>

-----------------------------------------------------------------------------
(* The store's writer and the process.                                     *)

\* The outcomes in D are written, and those of them in Kept with success.
Written(D, Kept) ==
  /\ pending' = pending \ D
  /\ rows' = [k \in Key |-> IF \E w \in Kept : w.key = k
                           THEN (CHOOSE w \in Kept : w.key = k).outcome
                           ELSE rows[k]]

(* A statement of a batch, which may fail by itself.                       *)
Write ==
  /\ server = "up"
  /\ \E w \in pending : \E Kept \in SUBSET {w} : Written({w}, Kept)
  /\ UNCHANGED <<server, boot, level, job, delivered, missed>>

(* Shutdown: when the engine loop has ended, and with it the updates, the  *)
(* store writes what it has and closes.  Nobody waits for the goroutines.  *)
CloseStore ==
  /\ server = "up"
  /\ server' = "closed"
  /\ \E Kept \in SUBSET pending : Written(pending, Kept)
  /\ UNCHANGED <<boot, level, job, delivered, missed>>

(* The end of main, or a crash, at any point.                              *)
Exit ==
  /\ server # "down"
  /\ server' = "down"
  /\ level' = [e \in Event |-> 0]
  /\ job' = [j \in Job |-> Idle]
  /\ pending' = {}
  /\ missed' = {}
  /\ UNCHANGED <<boot, rows, delivered>>

Start ==
  /\ server = "down"
  /\ boot < MaxBoots
  /\ server' = "up"
  /\ boot' = boot + 1
  /\ UNCHANGED <<level, job, rows, pending, delivered, missed>>

-----------------------------------------------------------------------------

Claim(j) == ClaimAlert(j) \/ ClaimTaken(j) \/ ClaimFails(j)
Budget(j) == Allowed(j) \/ Suppressed(j)
Send(j) == SendOK(j) \/ SendFails(j)

Next ==
  \/ \E e \in Event, l \in Levels : Handle(e, l)
  \/ \E j \in Job : Claim(j) \/ Budget(j) \/ Send(j) \/ FinishAlert(j)
  \/ Write \/ CloseStore \/ Exit \/ Start

Spec == Init /\ [][Next]_vars

(* A goroutine that can run does; nothing else is sure to happen.          *)
FairSpec ==
  /\ Spec
  /\ \A j \in Job : WF_vars(Claim(j))

-----------------------------------------------------------------------------

Working == [stage : Stages, key : Key]

Types ==
  /\ server \in {"up", "closed", "down"}
  /\ boot \in 1..MaxBoots
  /\ level \in [Event -> 0..3]
  /\ job \in [Job -> Working \cup {Idle}]
  /\ rows \in [Key -> {"none", "claimed"} \cup Outcomes]
  /\ pending \subseteq [key : Key, outcome : Outcomes]
  /\ delivered \in [Key -> Nat]
  /\ missed \subseteq Key

OneReport == \A v, w \in pending : v.key = w.key => v = w

(* Types; the outcomes that wait to be written are of different messages,  *)
(* so that the order in which the writer takes them does not matter.       *)
TypeOK == Types /\ OneReport

(* No message reaches its channel twice: not through the goroutines that   *)
(* several updates of one level start, nor through an event that has an    *)
(* old name after a restart (store.go, ClaimAlert).                        *)
AtMostOnce == \A k \in Key : delivered[k] <= 1

(* An outcome in the table is true: "sent" of a message that arrived,      *)
(* "suppressed" of one that did not, whatever became of the writes and the *)
(* process (alert.go, Handle).                                             *)
OutcomeTrue ==
  \A k \in Key :
    /\ rows[k] = "ok" => delivered[k] = 1
    /\ rows[k] = "suppressed" => delivered[k] = 0

(* A message for a level the event reached is taken by a goroutine, unless *)
(* the database refused one or the process stops (alert.go, Handle).       *)
Attempted ==
  \A k \in Key :
    (level[k.ev] = k.lvl /\ MinLevel[k.ch] <= k.lvl)
      ~> (rows[k] # "none" \/ k \in missed \/ server # "up")

=============================================================================
