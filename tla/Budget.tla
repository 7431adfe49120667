------------------------------- MODULE Budget -------------------------------
(***************************************************************************)
(* The hourly budget of the alert dispatcher (alert.go, budget).           *)
(*                                                                         *)
(* A goroutine reads the clock when it starts and asks for a place in the  *)
(* budget after it has claimed its message, with the time it read: others  *)
(* may have asked meanwhile with a later one, and the list of sent times   *)
(* is shortened by whatever time it is asked with.                         *)
(***************************************************************************)
EXTENDS Integers, Sequences, FiniteSets

CONSTANTS
  Job,         \* goroutines
  MaxPerHr,    \* places in the list
  Hour,        \* the age at which an entry leaves it
  Deadline,    \* bound: how late a goroutine asks (20 s for the claim)
  MaxSent,     \* bound: messages let through
  MaxTime,     \* bound: clock
  MaxBoots     \* bound: starts of the process

Time == 0..MaxTime

ASSUME BudgetAssumption ==
  /\ MaxPerHr \in Nat \ {0}
  /\ Hour \in Nat /\ Deadline \in Nat /\ Deadline < Hour
  /\ MaxSent \in Nat /\ MaxTime \in Nat /\ MaxBoots \in Nat \ {0}

VARIABLES
  clock,
  boot,        \* history: the number of this start of the process
  at,          \* the time a goroutine read, or Idle
  sent,        \* history: the messages let through, each with its start and time
  sentTimes    \* Dispatcher.sentTimes: which of them are in the list

vars == <<clock, boot, at, sent, sentTimes>>

Idle == -1

Init ==
  /\ clock = 0
  /\ boot = 1
  /\ at = [j \in Job |-> Idle]
  /\ sent = <<>>
  /\ sentTimes = {}

-----------------------------------------------------------------------------

Begin(j) ==
  /\ at[j] = Idle
  /\ at' = [at EXCEPT ![j] = clock]
  /\ UNCHANGED <<clock, boot, sentTimes, sent>>

\* mutant: the age is compared with a second
KeptSecond(now) == {i \in sentTimes : now - sent[i].at < 1}

\* The entries that are not an hour old.
Kept(now) == {i \in sentTimes : now - sent[i].at < Hour}

\* mutant: one place too many
AllowOver(j) ==
  /\ at[j] # Idle
  /\ Len(sent) < MaxSent
  /\ Cardinality(Kept(at[j])) <= MaxPerHr
  /\ sent' = Append(sent, [boot |-> boot, at |-> at[j]])
  /\ sentTimes' = Kept(at[j]) \cup {Len(sent) + 1}
  /\ at' = [at EXCEPT ![j] = Idle]
  /\ UNCHANGED <<clock, boot>>

(* The list has a place after the old entries have left it.                *)
Allow(j) ==
  /\ at[j] # Idle
  /\ Len(sent) < MaxSent
  /\ Cardinality(Kept(at[j])) < MaxPerHr
  /\ sent' = Append(sent, [boot |-> boot, at |-> at[j]])
  /\ sentTimes' = Kept(at[j]) \cup {Len(sent) + 1}
  /\ at' = [at EXCEPT ![j] = Idle]
  /\ UNCHANGED <<clock, boot>>

Suppress(j) ==
  /\ at[j] # Idle
  /\ Cardinality(Kept(at[j])) >= MaxPerHr
  /\ sentTimes' = Kept(at[j])
  /\ at' = [at EXCEPT ![j] = Idle]
  /\ UNCHANGED <<clock, boot, sent>>

(* Its message was another's, or the claim failed.                         *)
GiveUp(j) ==
  /\ at[j] # Idle
  /\ at' = [at EXCEPT ![j] = Idle]
  /\ UNCHANGED <<clock, boot, sentTimes, sent>>

(* A new process has a new dispatcher.                                     *)
Restart ==
  /\ boot < MaxBoots
  /\ boot' = boot + 1
  /\ at' = [j \in Job |-> Idle]
  /\ sentTimes' = {}
  /\ UNCHANGED <<clock, sent>>

Tick ==
  /\ clock < MaxTime
  /\ \A j \in Job : at[j] # Idle => clock < at[j] + Deadline
  /\ clock' = clock + 1
  /\ UNCHANGED <<boot, at, sentTimes, sent>>

Next ==
  \/ \E j \in Job : Begin(j) \/ Allow(j) \/ Suppress(j) \/ GiveUp(j)
  \/ Restart \/ Tick

Spec == Init /\ [][Next]_vars

-----------------------------------------------------------------------------

\* The messages let through with a time in the stretch that begins at t.
InStretch(t, length) ==
  {i \in DOMAIN sent : t <= sent[i].at /\ sent[i].at < t + length}

Message == [boot : 1..MaxBoots, at : Time]

(* Types; the list is never longer than the budget.                        *)
TypeOK ==
  /\ clock \in Time
  /\ boot \in 1..MaxBoots
  /\ at \in [Job -> Time \cup {Idle}]
  /\ sent \in Seq(Message) /\ Len(sent) <= MaxSent
  /\ sentTimes \subseteq DOMAIN sent /\ Cardinality(sentTimes) <= MaxPerHr

(* A goroutine that asks late finds a list that one with a later time has  *)
(* shortened by entries of its own last hour.  Still one process lets no   *)
(* more than the budget through with times in any stretch of an hour less  *)
(* the deadline (alert.go, budget).                                        *)
BudgetKept ==
  \A t \in Time, b \in 1..MaxBoots :
    Cardinality({i \in InStretch(t, Hour - Deadline) : sent[i].boot = b}) <= MaxPerHr

=============================================================================
