--------------------------- MODULE Alerts_proofs ---------------------------
(***************************************************************************)
(* Proofs about Alerts: the types, that no message is delivered twice and  *)
(* that the outcomes in the table are true.                                *)
(*                                                                         *)
(* A goroutine past its claim holds its message until it ends.  The        *)
(* argument is that a message has one holder, whose row is "claimed" and   *)
(* has no outcome on the way, and that a message without a row was never   *)
(* delivered.                                                              *)
(***************************************************************************)
EXTENDS Alerts, TLAPS

Holds(j) == job[j] # Idle /\ job[j].stage # "spawned"

True(k, outcome) ==
  /\ outcome = "ok" => delivered[k] = 1
  /\ outcome = "suppressed" => delivered[k] = 0

OneHolder   == \A i, j \in Job : Holds(i) /\ Holds(j) /\ job[i].key = job[j].key => i = j
HolderRow   == \A j \in Job : Holds(j) => /\ rows[job[j].key] = "claimed"
                                          /\ \A w \in pending : w.key # job[j].key
HolderTrue  == \A j \in Job : Holds(j) => True(job[j].key, job[j].stage)
HolderFresh == \A j \in Job : Holds(j) /\ job[j].stage \in InFlight => delivered[job[j].key] = 0
NoRow       == \A k \in Key : rows[k] = "none" => /\ delivered[k] = 0
                                                  /\ \A w \in pending : w.key # k
PendingTrue == \A w \in pending : True(w.key, w.outcome)
RowTrue     == \A k \in Key : True(k, rows[k])

Inv ==
  /\ Types
  /\ OneHolder /\ HolderRow /\ HolderTrue /\ HolderFresh
  /\ NoRow /\ OneReport /\ PendingTrue /\ RowTrue
  /\ AtMostOnce

-----------------------------------------------------------------------------
(* A goroutine's step to another stage, and its end.                       *)

LEMMA IdleIsNot == \A w \in Working : w # Idle
  BY DEF Working, Idle

LEMMA GoesEffect ==
  ASSUME Types, NEW j \in Job, NEW from \in Stages, NEW to \in Stages, Goes(j, from, to)
  PROVE  /\ job[j] \in Working /\ job[j].stage = from /\ job[j].key \in Key
         /\ job' \in [Job -> Working \cup {Idle}]
         /\ job'[j] # Idle /\ job'[j].stage = to /\ job'[j].key = job[j].key
         /\ \A i \in Job : i # j => job'[i] = job[i]
<1>1. job[j] \in Working /\ job[j].stage = from
  BY DEF Goes, Types
<1>2. job[j].key \in Key
  BY <1>1 DEF Working
<1>3. [job[j] EXCEPT !.stage = to] = [stage |-> to, key |-> job[j].key]
  BY <1>1 DEF Working
<1>4. [stage |-> to, key |-> job[j].key] \in Working
  BY <1>2 DEF Working
<1>5. job' = [job EXCEPT ![j] = [stage |-> to, key |-> job[j].key]]
  BY <1>3 DEF Goes
<1>6. job'[j] = [stage |-> to, key |-> job[j].key] /\ \A i \in Job : i # j => job'[i] = job[i]
  BY <1>5 DEF Types
<1>7. job' \in [Job -> Working \cup {Idle}]
  BY <1>4, <1>5 DEF Types
<1>8. QED  BY <1>1, <1>2, <1>4, <1>6, <1>7, IdleIsNot

LEMMA EndsEffect ==
  ASSUME Types, NEW j \in Job, NEW from \in Stages, Ends(j, from)
  PROVE  /\ job[j] \in Working /\ job[j].stage = from /\ job[j].key \in Key
         /\ job' \in [Job -> Working \cup {Idle}]
         /\ job'[j] = Idle
         /\ \A i \in Job : i # j => job'[i] = job[i]
  BY DEF Ends, Types, Working

(* No new holder and nothing else changed: the invariant stays.            *)
LEMMA FewerHolders ==
  ASSUME Inv, Types', UNCHANGED <<rows, pending, delivered>>,
         \A i \in Job : Holds(i)' => Holds(i) /\ job'[i] = job[i]
  PROVE  Inv'
<1>1. OneHolder'
  BY DEF Inv, OneHolder
<1>2. HolderRow'
  BY DEF Inv, HolderRow
<1>3. HolderTrue' /\ HolderFresh'
  BY DEF Inv, HolderTrue, HolderFresh, True
<1>4. NoRow' /\ OneReport' /\ PendingTrue' /\ RowTrue' /\ AtMostOnce'
  BY DEF Inv, NoRow, OneReport, PendingTrue, RowTrue, AtMostOnce, True
<1>5. QED  BY <1>1, <1>2, <1>3, <1>4 DEF Inv

-----------------------------------------------------------------------------
(* Each step.                                                              *)

LEMMA InvInit == Init => Inv
<1> SUFFICES ASSUME Init PROVE Inv
  OBVIOUS
<1>1. Types
  BY AlertsAssumption DEF Init, Types
<1>2. \A j \in Job : ~ Holds(j)
  BY DEF Init, Holds
<1>3. OneHolder /\ HolderRow /\ HolderTrue /\ HolderFresh
  BY <1>2 DEF OneHolder, HolderRow, HolderTrue, HolderFresh
<1>4. NoRow /\ OneReport /\ PendingTrue /\ RowTrue /\ AtMostOnce
  BY DEF Init, NoRow, OneReport, PendingTrue, RowTrue, AtMostOnce, True
<1>5. QED  BY <1>1, <1>3, <1>4 DEF Inv

(* An update of an event: the new goroutines hold nothing yet.             *)
LEMMA InvHandle ==
  ASSUME Inv, NEW e \in Event, NEW l \in Levels, Handle(e, l)
  PROVE  Inv'
<1>1. PICK f \in [Wants(l) -> Job \ Busy] :
        job' = [j \in Job |->
                  IF \E c \in Wants(l) : f[c] = j
                  THEN [stage |-> "spawned",
                        key |-> [ev |-> e, lvl |-> l, ch |-> CHOOSE c \in Wants(l) : f[c] = j]]
                  ELSE job[j]]
  BY DEF Handle
<1>2. ASSUME NEW j \in Job, \E c \in Wants(l) : f[c] = j
      PROVE  /\ job'[j].stage = "spawned" /\ job'[j] \in Working
             /\ job[j] = Idle
  <2> DEFINE c == CHOOSE d \in Wants(l) : f[d] = j
  <2>1. c \in Wants(l) /\ f[c] = j
    BY <1>2
  <2>2. [ev |-> e, lvl |-> l, ch |-> c] \in Key
    BY <2>1 DEF Wants, Key
  <2>3. job'[j] = [stage |-> "spawned", key |-> [ev |-> e, lvl |-> l, ch |-> c]]
    BY <1>1, <1>2
  <2>4. job[j] = Idle
    BY <2>1 DEF Busy
  <2> HIDE DEF c
  <2>5. QED  BY <2>2, <2>3, <2>4 DEF Working, Stages
<1>3. \A j \in Job : ~ (\E c \in Wants(l) : f[c] = j) => job'[j] = job[j]
  BY <1>1
<1>4. Types'
  <2>1. job' \in [Job -> Working \cup {Idle}]
    BY <1>1, <1>2, <1>3 DEF Inv, Types
  <2>2. level' \in [Event -> 0..3]
    BY DEF Inv, Types, Handle, Levels
  <2>3. QED  BY <2>1, <2>2 DEF Inv, Types, Handle
<1>5. \A i \in Job : Holds(i)' => Holds(i) /\ job'[i] = job[i]
  BY <1>2, <1>3 DEF Holds
<1>6. QED  BY <1>4, <1>5, FewerHolders DEF Handle

(* The row is new, so that nobody holds the message, nobody delivered it   *)
(* and no outcome of it is on the way.                                     *)
LEMMA InvClaimAlert ==
  ASSUME Inv, NEW j \in Job, ClaimAlert(j)
  PROVE  Inv'
<1> DEFINE k == job[j].key
<1>1. /\ job[j] \in Working /\ job[j].stage = "spawned" /\ k \in Key
      /\ job' \in [Job -> Working \cup {Idle}]
      /\ job'[j] # Idle /\ job'[j].stage = "claimed" /\ job'[j].key = k
      /\ \A i \in Job : i # j => job'[i] = job[i]
  BY GoesEffect DEF ClaimAlert, Inv, Stages, InFlight
<1>2. rows[k] = "none" /\ rows' = [rows EXCEPT ![k] = "claimed"]
  BY DEF ClaimAlert
<1>3. rows'[k] = "claimed" /\ \A x \in Key : x # k => rows'[x] = rows[x]
  BY <1>1, <1>2 DEF Inv, Types
<1>4. UNCHANGED <<pending, delivered>>
  BY DEF ClaimAlert
<1>5. delivered[k] = 0 /\ \A w \in pending : w.key # k
  BY <1>1, <1>2 DEF Inv, NoRow
<1>6. \A i \in Job : i # j /\ Holds(i) => job[i].key # k /\ job[i].key \in Key
  BY <1>2 DEF Inv, HolderRow, Holds, Types, Working
<1>7. \A i \in Job : i # j => (Holds(i)' <=> Holds(i)) /\ job'[i] = job[i]
  BY <1>1 DEF Holds
<1> HIDE DEF k
<1>8. Types'
  BY <1>1, <1>2 DEF Inv, Types, ClaimAlert
<1>9. OneHolder'
  BY <1>1, <1>6, <1>7 DEF Inv, OneHolder
<1>10. HolderRow'
  BY <1>1, <1>3, <1>4, <1>5, <1>6, <1>7 DEF Inv, HolderRow
<1>11. HolderTrue' /\ HolderFresh'
  BY <1>1, <1>4, <1>5, <1>7 DEF Inv, HolderTrue, HolderFresh, True
<1>12. NoRow' /\ RowTrue'
  BY <1>3, <1>4 DEF Inv, NoRow, RowTrue, True
<1>13. OneReport' /\ PendingTrue' /\ AtMostOnce'
  BY <1>4 DEF Inv, OneReport, PendingTrue, AtMostOnce, True
<1>14. QED  BY <1>8, <1>9, <1>10, <1>11, <1>12, <1>13 DEF Inv

LEMMA InvClaimOver ==
  ASSUME Inv, NEW j \in Job, ClaimTaken(j) \/ ClaimFails(j)
  PROVE  Inv'
<1>1. Ends(j, "spawned") /\ UNCHANGED <<server, boot, level, rows, pending, delivered>>
  BY DEF ClaimTaken, ClaimFails
<1>2. /\ job[j].key \in Key
      /\ job' \in [Job -> Working \cup {Idle}]
      /\ job'[j] = Idle
      /\ \A i \in Job : i # j => job'[i] = job[i]
  BY <1>1, EndsEffect DEF Inv, Stages
<1>3. missed' \subseteq Key
  BY <1>2 DEF ClaimTaken, ClaimFails, Inv, Types
<1>4. Types'
  BY <1>1, <1>2, <1>3 DEF Inv, Types
<1>5. QED  BY <1>1, <1>2, <1>4, FewerHolders DEF Holds

(* The budget's answer.                                                    *)
LEMMA InvBudget ==
  ASSUME Inv, NEW j \in Job, Budget(j)
  PROVE  Inv'
<1>1. PICK to \in {"allowed", "suppressed"} : Goes(j, "claimed", to)
  BY DEF Budget, Allowed, Suppressed
<1>2. UNCHANGED <<server, boot, level, rows, pending, delivered, missed>>
  BY DEF Budget, Allowed, Suppressed
<1>3. /\ job[j] \in Working /\ job[j].stage = "claimed" /\ job[j].key \in Key
      /\ job' \in [Job -> Working \cup {Idle}]
      /\ job'[j] # Idle /\ job'[j].stage = to /\ job'[j].key = job[j].key
      /\ \A i \in Job : i # j => job'[i] = job[i]
  BY <1>1, GoesEffect DEF Inv, Stages, InFlight, Outcomes
<1>4. job[j] # Idle /\ Holds(j) /\ Holds(j)' /\ delivered[job[j].key] = 0
  BY <1>3, IdleIsNot DEF Holds, Inv, HolderFresh, InFlight
<1>5. \A i \in Job : (Holds(i)' <=> Holds(i)) /\ (Holds(i) => job'[i].key = job[i].key)
  BY <1>3, <1>4 DEF Holds
<1>6. Types'
  BY <1>2, <1>3 DEF Inv, Types
<1>7. OneHolder' /\ HolderRow'
  BY <1>2, <1>5 DEF Inv, OneHolder, HolderRow
<1>8. HolderTrue' /\ HolderFresh'
  BY <1>2, <1>3, <1>4, <1>5 DEF Inv, HolderTrue, HolderFresh, True
<1>9. NoRow' /\ OneReport' /\ PendingTrue' /\ RowTrue' /\ AtMostOnce'
  BY <1>2 DEF Inv, NoRow, OneReport, PendingTrue, RowTrue, AtMostOnce, True
<1>10. QED  BY <1>6, <1>7, <1>8, <1>9 DEF Inv

(* The delivery is the first, and no statement about the message is        *)
(* anywhere but with its holder.                                           *)
LEMMA InvSend ==
  ASSUME Inv, NEW j \in Job, Send(j)
  PROVE  Inv'
<1> DEFINE k == job[j].key
<1>1. PICK to \in {"ok", "failed"} : Goes(j, "allowed", to)
  BY DEF Send, SendOK, SendFails
<1>2. UNCHANGED <<server, boot, level, rows, pending, missed>>
  BY DEF Send, SendOK, SendFails
<1>3. /\ job[j] \in Working /\ job[j].stage = "allowed" /\ k \in Key
      /\ job' \in [Job -> Working \cup {Idle}]
      /\ job'[j] # Idle /\ job'[j].stage = to /\ job'[j].key = k
      /\ \A i \in Job : i # j => job'[i] = job[i]
  BY <1>1, GoesEffect DEF Inv, Stages, InFlight, Outcomes
<1>4. /\ Holds(j) /\ Holds(j)' /\ delivered[k] = 0 /\ rows[k] = "claimed"
      /\ \A w \in pending : w.key # k
  BY <1>3, IdleIsNot DEF Holds, Inv, HolderFresh, HolderRow, InFlight
<1>5. \A i \in Job : (Holds(i)' <=> Holds(i)) /\ (Holds(i) => job'[i].key = job[i].key)
  BY <1>3, <1>4 DEF Holds
<1>6. \A i \in Job : i # j /\ Holds(i) => job[i].key # k /\ job[i].key \in Key
  BY <1>4 DEF Inv, OneHolder, Holds, Types, Working
<1>7. UNCHANGED delivered \/ delivered' = [delivered EXCEPT ![k] = delivered[k] + 1]
  BY DEF Send, SendOK, SendFails
<1>8. to = "ok" => delivered'[k] = 1
  <2>1. ASSUME to = "ok" PROVE delivered' = [delivered EXCEPT ![k] = delivered[k] + 1]
    <3>1. job'[j].stage # "failed"
      BY <1>3, <2>1
    <3>2. ~ SendFails(j)
      BY <3>1, GoesEffect DEF SendFails, Inv, Stages, InFlight, Outcomes
    <3>3. QED  BY <3>2 DEF Send, SendOK
  <2>2. QED  BY <1>3, <1>4, <2>1 DEF Inv, Types
<1>9. /\ delivered'[k] \in {0, 1}
      /\ delivered' \in [Key -> Nat]
      /\ \A x \in Key : x # k => delivered'[x] = delivered[x]
  BY <1>3, <1>4, <1>7 DEF Inv, Types
<1> HIDE DEF k
<1>10. Types'
  BY <1>2, <1>3, <1>9 DEF Inv, Types
<1>11. OneHolder' /\ HolderRow'
  BY <1>2, <1>5 DEF Inv, OneHolder, HolderRow
<1>12. HolderTrue' /\ HolderFresh'
  <2> SUFFICES ASSUME NEW i \in Job, Holds(i)'
               PROVE  /\ True(job[i].key, job[i].stage)'
                      /\ job'[i].stage \in InFlight => delivered'[job'[i].key] = 0
    BY DEF HolderTrue, HolderFresh
  <2>1. CASE i = j
    BY <1>3, <1>8, <2>1 DEF True, InFlight
  <2>2. CASE i # j
    BY <1>3, <1>5, <1>6, <1>9, <2>2 DEF Inv, HolderTrue, HolderFresh, True
  <2>3. QED  BY <2>1, <2>2
<1>13. NoRow' /\ RowTrue'
  BY <1>2, <1>4, <1>9 DEF Inv, NoRow, RowTrue, True
<1>14. OneReport' /\ PendingTrue'
  <2>1. \A w \in pending : w.key \in Key /\ w.key # k
    BY <1>4 DEF Inv, Types
  <2>2. QED  BY <1>2, <1>9, <2>1 DEF Inv, OneReport, PendingTrue, True
<1>15. AtMostOnce'
  BY <1>9 DEF Inv, AtMostOnce
<1>16. QED  BY <1>10, <1>11, <1>12, <1>13, <1>14, <1>15 DEF Inv

(* The holder lets go of its message and may leave its outcome.            *)
LEMMA InvFinishAlert ==
  ASSUME Inv, NEW j \in Job, FinishAlert(j)
  PROVE  Inv'
<1> DEFINE k == job[j].key
<1>1. PICK o \in Outcomes : /\ Ends(j, o)
                            /\ \/ pending' = pending \cup {[key |-> k, outcome |-> o]}
                               \/ UNCHANGED pending
  BY DEF FinishAlert
<1>2. UNCHANGED <<server, boot, level, rows, delivered, missed>>
  BY DEF FinishAlert
<1>3. /\ job[j] \in Working /\ job[j].stage = o /\ k \in Key
      /\ job' \in [Job -> Working \cup {Idle}]
      /\ job'[j] = Idle
      /\ \A i \in Job : i # j => job'[i] = job[i]
  BY <1>1, EndsEffect DEF Inv, Stages
<1>4. Holds(j) /\ rows[k] = "claimed" /\ True(k, o) /\ \A w \in pending : w.key # k
  BY <1>3, IdleIsNot DEF Holds, Inv, HolderRow, HolderTrue, Outcomes
<1>5. \A i \in Job : Holds(i)' => i # j /\ Holds(i) /\ job'[i] = job[i] /\ job[i].key # k
  BY <1>3, <1>4 DEF Holds, Inv, OneHolder
<1>6. \A w \in pending' : w \in pending \/ (w.key = k /\ w = [key |-> k, outcome |-> o])
  BY <1>1
<1> HIDE DEF k
<1>7. Types'
  BY <1>1, <1>2, <1>3 DEF Inv, Types
<1>8. OneHolder' /\ HolderTrue' /\ HolderFresh'
  BY <1>2, <1>5 DEF Inv, OneHolder, HolderTrue, HolderFresh, True
<1>9. HolderRow'
  BY <1>2, <1>5, <1>6 DEF Inv, HolderRow
<1>10. NoRow'
  BY <1>2, <1>4, <1>6 DEF Inv, NoRow
<1>11. OneReport'
  BY <1>4, <1>6 DEF Inv, OneReport
<1>12. PendingTrue'
  BY <1>2, <1>4, <1>6 DEF Inv, PendingTrue, True
<1>13. RowTrue' /\ AtMostOnce'
  BY <1>2 DEF Inv, RowTrue, AtMostOnce, True
<1>14. QED  BY <1>7, <1>8, <1>9, <1>10, <1>11, <1>12, <1>13 DEF Inv

(* A row is written only with an outcome that was on the way, and these    *)
(* have no holder.                                                         *)
LEMMA InvWritten ==
  ASSUME Inv, server' \in {"up", "closed", "down"}, UNCHANGED <<boot, level, job, delivered, missed>>,
         NEW D \in SUBSET pending, NEW Kept \in SUBSET D, Written(D, Kept)
  PROVE  Inv'
<1>1. pending' = pending \ D
  BY DEF Written
<1>2. ASSUME NEW k \in Key
      PROVE  \/ rows'[k] = rows[k]
             \/ \E w \in pending : w.key = k /\ rows'[k] = w.outcome
  <2>1. CASE \E w \in Kept : w.key = k
    <3> DEFINE w == CHOOSE x \in Kept : x.key = k
    <3>1. w \in Kept /\ w.key = k
      BY <2>1
    <3>2. rows'[k] = w.outcome
      BY <2>1 DEF Written
    <3>3. QED  BY <3>1, <3>2
  <2>2. CASE ~ \E w \in Kept : w.key = k
    BY <2>2 DEF Written
  <2>3. QED  BY <2>1, <2>2
<1>3. \A w \in pending : w.key \in Key /\ w.outcome \in Outcomes
  BY DEF Inv, Types
<1>4. rows' \in [Key -> {"none", "claimed"} \cup Outcomes]
  <2>1. rows' = [k \in Key |-> rows'[k]]
    BY DEF Written
  <2>2. \A k \in Key : rows'[k] \in {"none", "claimed"} \cup Outcomes
    BY <1>2, <1>3 DEF Inv, Types
  <2>3. QED  BY <2>1, <2>2
<1>5. Types'
  BY <1>1, <1>4 DEF Inv, Types
<1>6. OneHolder' /\ HolderTrue' /\ HolderFresh'
  BY DEF Inv, OneHolder, HolderTrue, HolderFresh, Holds, True
<1>7. HolderRow'
  <2> SUFFICES ASSUME NEW j \in Job, Holds(j)
               PROVE  rows'[job[j].key] = "claimed" /\ \A w \in pending' : w.key # job[j].key
    BY DEF HolderRow, Holds
  <2>1. job[j].key \in Key
    BY DEF Holds, Inv, Types, Working
  <2>2. rows[job[j].key] = "claimed" /\ \A w \in pending : w.key # job[j].key
    BY DEF Inv, HolderRow
  <2>3. QED  BY <1>1, <1>2, <2>1, <2>2
<1>8. NoRow'
  BY <1>1, <1>2, <1>3 DEF Inv, NoRow, Outcomes
<1>9. OneReport' /\ PendingTrue' /\ AtMostOnce'
  BY <1>1 DEF Inv, OneReport, PendingTrue, AtMostOnce, True
<1>10. RowTrue'
  <2> SUFFICES ASSUME NEW k \in Key PROVE True(k, rows[k])'
    BY DEF RowTrue
  <2>1. CASE rows'[k] = rows[k]
    BY <2>1 DEF Inv, RowTrue, True
  <2>2. CASE \E w \in pending : w.key = k /\ rows'[k] = w.outcome
    BY <2>2 DEF Inv, PendingTrue, True
  <2>3. QED  BY <1>2, <2>1, <2>2
<1>11. QED  BY <1>5, <1>6, <1>7, <1>8, <1>9, <1>10 DEF Inv

LEMMA InvExit == Inv /\ Exit => Inv'
<1> SUFFICES ASSUME Inv, Exit PROVE Inv'
  OBVIOUS
<1>1. UNCHANGED <<rows, delivered>> /\ pending' = {} /\ \A j \in Job : ~ Holds(j)'
  BY DEF Exit, Holds
<1>2. Types'
  BY DEF Inv, Types, Exit
<1>3. OneHolder' /\ HolderRow' /\ HolderTrue' /\ HolderFresh'
  BY <1>1 DEF OneHolder, HolderRow, HolderTrue, HolderFresh
<1>4. NoRow' /\ OneReport' /\ PendingTrue' /\ RowTrue' /\ AtMostOnce'
  BY <1>1 DEF Inv, NoRow, OneReport, PendingTrue, RowTrue, AtMostOnce, True
<1>5. QED  BY <1>2, <1>3, <1>4 DEF Inv

LEMMA InvStart == Inv /\ (Start \/ UNCHANGED vars) => Inv'
<1> SUFFICES ASSUME Inv, Start \/ UNCHANGED vars PROVE Inv'
  OBVIOUS
<1>1. UNCHANGED <<job, rows, pending, delivered>>
  BY DEF Start, vars
<1>2. Types'
  BY AlertsAssumption DEF Inv, Types, Start, vars
<1>3. QED  BY <1>1, <1>2, FewerHolders DEF Holds

LEMMA InvNext == Inv /\ [Next]_vars => Inv'
<1> SUFFICES ASSUME Inv, [Next]_vars PROVE Inv'
  OBVIOUS
<1>1. CASE \E e \in Event, l \in Levels : Handle(e, l)
  BY <1>1, InvHandle
<1>2. CASE \E j \in Job : Claim(j) \/ Budget(j) \/ Send(j) \/ FinishAlert(j)
  BY <1>2, InvClaimAlert, InvClaimOver, InvBudget, InvSend, InvFinishAlert DEF Claim
<1>3. CASE Write
  <2>1. PICK w \in pending : \E Kept \in SUBSET {w} : Written({w}, Kept)
    BY <1>3 DEF Write
  <2>2. server' \in {"up", "closed", "down"} /\ UNCHANGED <<boot, level, job, delivered, missed>>
    BY <1>3 DEF Write, Inv, Types
  <2>3. QED  BY <2>1, <2>2, InvWritten
<1>4. CASE CloseStore
  BY <1>4, InvWritten DEF CloseStore
<1>5. QED  BY <1>1, <1>2, <1>3, <1>4, InvExit, InvStart DEF Next

-----------------------------------------------------------------------------

THEOREM InvAlways == Spec => []Inv
<1>1. QED  BY InvInit, InvNext, PTL DEF Spec

(* The types, and one outcome at most of a message on the way to its row.  *)
THEOREM TypeCorrect == Spec => []TypeOK
<1>1. Inv => TypeOK
  BY DEF Inv, TypeOK
<1>2. QED  BY <1>1, InvAlways, PTL

(* No message is delivered twice, with any number of updates, goroutines,  *)
(* crashes and restarts (store.go, ClaimAlert).                            *)
THEOREM DeliveredAtMostOnce == Spec => []AtMostOnce
<1>1. Inv => AtMostOnce
  BY DEF Inv
<1>2. QED  BY <1>1, InvAlways, PTL

(* What the table says became of a message is what became of it, whichever *)
(* writes were lost (store.go, FinishAlert).                               *)
THEOREM OutcomesTrue == Spec => []OutcomeTrue
<1>1. Inv => OutcomeTrue
  BY DEF Inv, RowTrue, True, OutcomeTrue
<1>2. QED  BY <1>1, InvAlways, PTL

=============================================================================
